---------------------------- MODULE CarrierRegs ----------------------------
(***************************************************************************)
(* The switch's registrations at a carrier (carrierreg.go): REGISTERs of   *)
(* the switch nodes proxied with a Contact that carries a derived token,   *)
(* the table of live registrations, and the calls the carrier sends to the *)
(* Contacts it holds. FreeSBC may restart, which empties the table and     *)
(* loses the handlers. Carrier and switch are external.                    *)
(***************************************************************************)
EXTENDS Naturals, FiniteSets

CONSTANTS
    Nodes,           \* switch nodes
    Lines, Node(_),  \* a line is one Contact of a node at the carrier
    MaxRestarts      \* bounds the instance

\* What the constants are assumed to be.
ConstantsOK == MaxRestarts \in Nat

VARIABLES
    byToken,   \* carrierRegTable: the line a token resolves to, if any
    live,      \* tokens of bindings that have not expired
    pc, kind,  \* each line's REGISTER: what it asks and how far it is
    contacts,  \* tokens of the Contacts the carrier holds
    believes,  \* lines the switch believes registered since FreeSBC started
    restarts

vars == <<byToken, live, pc, kind, contacts, believes, restarts>>

Tokens == Lines \X (0..MaxRestarts)
NoLine == "none"

TypeOK ==
    /\ byToken \in [Tokens -> Lines \cup {NoLine}] /\ live \subseteq Tokens
    /\ pc \in [Lines -> {"idle", "sent", "answered"}]
    /\ kind \in [Lines -> {"none", "bind", "unbind", "wildcard"}]
    /\ contacts \subseteq Tokens /\ believes \subseteq Lines /\ restarts \in 0..MaxRestarts

Init ==
    /\ byToken = [t \in Tokens |-> NoLine] /\ live = {}
    /\ pc = [l \in Lines |-> "idle"] /\ kind = [l \in Lines |-> "none"]
    /\ contacts = {} /\ believes = {} /\ restarts = 0

CarrierTokenDrawn(l) == <<l, restarts>>

\* carrierToken: derived from node and Contact, the same in every process.
CarrierToken(l) == <<l, 0>>

\* removeNode.
RemoveNode(n) == {t \in Tokens : byToken[t] # NoLine /\ Node(byToken[t]) = n}

\* lookup.
Lookup(t) == IF t \in live THEN byToken[t] ELSE NoLine

----------------------------------------------------------------------------
\* registerToCarrier forwards; the switch has one REGISTER out per line.
Register(l, k) ==
    /\ pc[l] = "idle"
    /\ pc' = [pc EXCEPT ![l] = "sent"] /\ kind' = [kind EXCEPT ![l] = k]
    /\ UNCHANGED <<byToken, live, contacts, believes, restarts>>

\* The carrier accepts; a wildcard clears every Contact of the account.
Accept(l) ==
    /\ pc[l] = "sent" /\ pc' = [pc EXCEPT ![l] = "answered"]
    /\ contacts' = CASE kind[l] = "bind" -> contacts \cup {CarrierToken(l)}
                     [] kind[l] = "unbind" -> contacts \ {CarrierToken(l)}
                     [] OTHER -> {}
    /\ UNCHANGED <<byToken, live, kind, believes, restarts>>

\* A refusal or no answer: nothing is recorded (the carrier may have
\* accepted and its answer been lost).
Unanswered(l) ==
    /\ pc[l] \in {"sent", "answered"}
    /\ pc' = [pc EXCEPT ![l] = "idle"] /\ kind' = [kind EXCEPT ![l] = "none"]
    /\ UNCHANGED <<byToken, live, contacts, believes, restarts>>

\* The 2xx is recorded, restored to the switch's own Contact and relayed.
Record(l) ==
    LET t == CarrierToken(l)
        gone == IF kind[l] = "wildcard" THEN RemoveNode(Node(l)) ELSE {t}
    IN
    /\ pc[l] = "answered"
    /\ IF kind[l] = "bind"
       THEN /\ byToken' = [byToken EXCEPT ![t] = l] /\ live' = live \cup {t}
            /\ believes' = believes \cup {l}
       ELSE /\ byToken' = [x \in Tokens |-> IF x \in gone THEN NoLine ELSE byToken[x]]
            /\ live' = live \ gone
            /\ believes' = IF kind[l] = "wildcard" THEN {m \in believes : Node(m) # Node(l)}
                           ELSE believes \ {l}
    /\ pc' = [pc EXCEPT ![l] = "idle"] /\ kind' = [kind EXCEPT ![l] = "none"]
    /\ UNCHANGED <<contacts, restarts>>

\* The granted time passes, at the switch and the carrier first: FreeSBC
\* counts it from when the 2xx reached it.
Expire(l) ==
    /\ CarrierToken(l) \in live /\ pc[l] = "idle"
    /\ contacts' = contacts \ {CarrierToken(l)}
    /\ believes' = believes \ {l} /\ live' = live \ {CarrierToken(l)}
    /\ UNCHANGED <<byToken, pc, kind, restarts>>

Prune ==
    /\ \E t \in Tokens : byToken[t] # NoLine /\ t \notin live
    /\ byToken' = [t \in Tokens |-> IF t \in live THEN byToken[t] ELSE NoLine]
    /\ UNCHANGED <<live, pc, kind, contacts, believes, restarts>>

Restart ==
    /\ restarts < MaxRestarts /\ restarts' = restarts + 1
    /\ byToken' = [t \in Tokens |-> NoLine] /\ live' = {} /\ believes' = {}
    /\ pc' = [l \in Lines |-> "idle"] /\ kind' = [l \in Lines |-> "none"]
    /\ UNCHANGED contacts

Next ==
    \/ \E l \in Lines :
          \/ \E k \in {"bind", "unbind", "wildcard"} : Register(l, k)
          \/ Accept(l) \/ Unanswered(l) \/ Record(l) \/ Expire(l)
    \/ Prune \/ Restart

Spec == Init /\ [][Next]_vars

----------------------------------------------------------------------------
\* A call the carrier sends to any Contact it holds for a line that has
\* registered since FreeSBC started reaches that line, also when the Contact
\* was given out before a restart (carrierToken, carrierRURI); wildcards of
\* other nodes, expiry and pruning take nothing from it.
ContactsResolve ==
    \A l \in Lines : l \in believes /\ pc[l] = "idle" =>
        /\ Lookup(CarrierToken(l)) = l
        /\ \A t \in contacts : t[1] = l => Lookup(t) = l
=============================================================================
