----------------------------- MODULE MCDialogs -----------------------------
(***************************************************************************)
(* The dialog records and stream connections for TLC. The three models     *)
(* share nothing here: the first state picks which one the behaviour is    *)
(* about.                                                                  *)
(*   table     three INVITEs, two of them one call's, against reloads of   *)
(*             max_sessions (unset, below and above the range) and shutdown*)
(*   requests  in-dialog requests of two records of one Call-ID: a forked  *)
(*             call of a client and one of a carrier                       *)
(*   conns     three stream connections of a SIP or a WebSocket listener,  *)
(*             a carrier's one of them, two from one address               *)
(***************************************************************************)
EXTENDS DialogTable, DialogParts

VARIABLE part

MCKeys == {"same", "other"}
MCKey == [i \in Invites |-> IF i = "i3" THEN "other" ELSE "same"]

MCRecords == 1..2
MCCallerTag == <<"c", "s">>
MCCallerPlane == <<"public", "private">>
MCForkTags == <<{"f", "g"}, {"g"}>>

IpOf(s) == IF s = "c1" THEN "a" ELSE "b"

requestsVars == <<callState, carriedBy, routed, callee, job, past, astray>>
connsVars == <<transport, connPc, total, carrier, perIP, handed, lis, serving, closedConns,
               partial, since, lastMsg, lastRead, silent, busy, quiet>>
allVars == <<part, vars, requestsVars, connsVars>>

MCInit ==
    /\ part \in {"table", "requests", "conns"}
    /\ Init /\ Routing!Init /\ Conns!Init
    /\ part # "table" => cap = 0
    /\ part # "conns" => transport = "sip"

MCNext ==
    /\ UNCHANGED part
    /\ \/ part = "table" /\ Next /\ UNCHANGED <<requestsVars, connsVars>>
       \/ part = "requests" /\ Routing!Next /\ UNCHANGED <<vars, connsVars>>
       \/ part = "conns" /\ Conns!Next /\ UNCHANGED <<vars, requestsVars>>

MCSpec == MCInit /\ [][MCNext]_allVars
=============================================================================
