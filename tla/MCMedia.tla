------------------------------ MODULE MCMedia ------------------------------
(***************************************************************************)
(* The media of a call, and the life of the process it runs in, for TLC.   *)
(* The models share nothing here: the first state picks which one the      *)
(* behaviour is about.                                                     *)
(*   ports   two sessions and the pairs of the range 5..10: its ends are   *)
(*           odd and even, so the pairs are 6 and 8 (10 would need 11)     *)
(*   offers  a re-INVITE of the caller crosses an offerless one and an     *)
(*           UPDATE of the callee                                          *)
(*   leg     a WebRTC leg that two goroutines may close                    *)
(*   config  a configuration file reached through links                    *)
(*   process Server.Run with two UDP sockets and a stream listener         *)
(***************************************************************************)
EXTENDS MediaPorts, MediaParts

VARIABLES
    part,
    home, broken, content, used, edits, early, between, back, events, watched,
    target, confPc, armed, fire, current, boot, restart, lastError

MCKind(r) == CASE r = "ra" -> "reinvite" [] r = "ub" -> "update" [] OTHER -> "offerless"
MCFrom(r) == IF r = "ra" THEN "caller" ELSE "callee"

Config == INSTANCE ConfigReload WITH
    Dirs <- {"own", "d1", "d2"}, LinkDirs <- {"own", "between"}, MaxEdits <- 2,
    pc <- confPc

offersVars == <<xpc, ack, timer, slots, owed, callUp, media, keys, view, far,
                resp, final>>
legVars == <<offerer, signalled, genuine, state, failed, remoteSet, kept,
             verified, ready, closedCh, open, ports, epc, spc, cpc, snap, sess,
             relays, legMedia>>
configVars == <<home, broken, content, used, edits, early, between, back,
                events, watched, target, confPc, armed, fire, current, boot,
                restart, lastError>>
processVars == <<rpc, listening, sockets, pooled, serve, errs, helpers, shutting,
                 cancelled, announced, closed, hpc, gaveUp>>
allVars == <<part, vars, offersVars, legVars, configVars, processVars>>

MCInit ==
    /\ part \in {"ports", "offers", "leg", "config", "process"}
    /\ Init /\ Offers!Init /\ Leg!Init /\ Config!Init /\ Run!Init
    /\ part # "leg" => offerer /\ signalled /\ genuine
    /\ part # "config" => home = "own"

MCNext ==
    /\ UNCHANGED part
    /\ \/ part = "ports" /\ Next /\ UNCHANGED <<offersVars, legVars, configVars,
          processVars>>
       \/ part = "offers" /\ Offers!Next /\ UNCHANGED <<vars, legVars, configVars,
          processVars>>
       \/ part = "leg" /\ Leg!Next /\ UNCHANGED <<vars, offersVars, configVars,
          processVars>>
       \/ part = "config" /\ Config!Next /\ UNCHANGED <<vars, offersVars, legVars,
          processVars>>
       \/ part = "process" /\ Run!Next /\ UNCHANGED <<vars, offersVars, legVars,
          configVars>>

MCFairness ==
    /\ \A s \in Sessions : WF_vars(part = "ports" /\ ~At(s, "new") /\ Allocation(s))
    /\ \A s \in Sessions : \A c \in Closers : WF_vars(part = "ports" /\ Closing(s, c))
    /\ \A r \in Requests : WF_offersVars(part = "offers" /\ Offers!Handle(r))
    /\ \A r \in Requests : WF_offersVars(part = "offers" /\ Offers!HandleAck(r))
    /\ \A r \in Requests : WF_offersVars(part = "offers" /\ Offers!FireOwed(r))
    /\ \A r \in Requests : WF_offersVars(part = "offers" /\ Offers!OwedExpired(r))
    /\ WF_configVars(part = "config" /\ Config!Process)
    /\ WF_configVars(part = "config" /\ Config!TimerFires)
    /\ WF_processVars(part = "process" /\ Run!Main)
    /\ WF_processVars(part = "process" /\ Run!HelpersEnd)
    /\ \A i \in 1..3 : WF_processVars(part = "process" /\ Run!Background(i))

MCSpec == MCInit /\ [][MCNext]_allVars /\ MCFairness

\* What an exchange or a call took comes back: the ports of a closed session to
\* their pools (MediaPorts), and the slots of an offer to its dialog, or the
\* call ends (OfferAnswer).
ResourcesReturned == PortsComeBack /\ Offers!SlotsReturned

\* The process ends up with the configuration file (see ConfigReload).
FileFollowed == []Config!TypeOK /\ Config!FileFollowed

\* Run returns, whatever stops and whenever (see EdgeRun).
RunReturns == Run!RunReturns
=============================================================================
