---------------------------- MODULE MCRegistrar ----------------------------
(***************************************************************************)
(* Registrations for TLC: the first state picks which model, and which     *)
(* instance of it, the behaviour is about.                                 *)
(*   bindings   a phone on UDP behind a NAT that moves and a browser on a  *)
(*              stream, of one AoR, and the browser's SUBSCRIBE            *)
(*   pool       the browser alone, with two SUBSCRIBEs of which its        *)
(*              binding may hold one                                       *)
(*   breaker    the REGISTERs of three phones of one switch node           *)
(***************************************************************************)
EXTENDS Registrar, RegisterParts

VARIABLE part

MCAor(d) == "alice"
MCSources(d) == IF d = "phone" THEN {"u1", "u2"} ELSE {"c1", "c2"}
MCIp(s) == IF s = "u1" THEN "home" ELSE IF s = "u2" THEN "away" ELSE "office"
MCDev(r) == IF r \in {"r1", "r2"} THEN "phone" ELSE "browser"
Auth(kinds) == [kind : kinds, auth : {TRUE}]
MCKinds(r) == CASE r = "r2" -> [kind : {"bind"}, auth : BOOLEAN] \cup Auth({"query", "unbind"})
                [] r = "r3" -> Auth({"bind", "wildcard"})
                [] OTHER -> Auth({"bind"})
MCSubDev(q) == "browser"

MCHash(u) == 0
MCWindows == <<1, 2>>

breakerVars == <<up, cool, fails, level, opened, window, probeBy, regPc, order,
                 node, probe, dialed, left, current, result>>
allVars == <<part, vars, breakerVars>>

MCInit ==
    /\ part \in {"bindings", "pool", "breaker"}
    /\ Init /\ Breaker!Init

MCNext ==
    /\ UNCHANGED part
    /\ \/ /\ part # "breaker" /\ Next /\ UNCHANGED <<breakerVars>>
          /\ part = "bindings" => subPc'["q2"] = "idle"
          /\ part = "pool" => \A r \in Requests : Dev(r) = "phone" => pc'[r] = "idle"
       \/ part = "breaker" /\ Breaker!Next /\ UNCHANGED <<vars>>

MCFairness ==
    /\ WF_vars(part # "breaker" /\ (\E r \in Requests : Handle(r)))
    /\ WF_vars(part # "breaker" /\ (\E d \in Devices : Expire(d)))
    /\ WF_vars(part # "breaker" /\ Prune)
    /\ \A u \in Users : WF_breakerVars(part = "breaker" /\ Breaker!Start(u))
    /\ \A u \in Users : WF_breakerVars(part = "breaker" /\ Breaker!Step(u))
    /\ \A u \in Users : SF_breakerVars(part = "breaker" /\ Breaker!Sent(u))
    /\ WF_breakerVars(part = "breaker" /\ Breaker!Tick)

MCSpec == MCInit /\ [][MCNext]_allVars /\ MCFairness

\* A REGISTER breaker closes once its node answers (see RegisterBreaker).
NodesComeBack == Breaker!NodesComeBack
=============================================================================
