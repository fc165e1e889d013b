------------------------------ MODULE InDialog ------------------------------
(***************************************************************************)
(* Where BYE, INFO, NOTIFY, REFER, MESSAGE, PRACK and UPDATE go            *)
(* (indialog.go, prack.go). A request is handled on a goroutine of its own *)
(* and reads the dialog table one lock at a time, while calls begin, fork, *)
(* are confirmed and end. A PRACK or an UPDATE is looked up twice, first to*)
(* admit it and then to route it, and each time first among the confirmed  *)
(* dialogs and then among the early ones.                                  *)
(*                                                                         *)
(* All requests share one Call-ID. Records are numbered in the order they  *)
(* begin. What the switch and the clients answer to anything but a BYE     *)
(* changes nothing here: offers and answers are OfferAnswer's.             *)
(***************************************************************************)
EXTENDS Naturals

CONSTANTS
    Records,        \* 1..n
    CallerTag,      \* [Records -> tags]
    CallerPlane,    \* [Records -> Planes]
    ForkTags,       \* [Records -> SUBSET tags]: who may answer
    OfCarrier,      \* SUBSET Records: dialogs with a carrier
    Nodes,          \* the switches
    Home,           \* the one the caller's identity hashes to
    Requests        \* handlers at work at once

VARIABLES
    state,      \* [Records -> {"none", "early", "up", "ended"}]
    node,       \* [Records -> Nodes]: the switch that carries the call
    routed,     \* [Records -> SUBSET tags]: early forks with a route
    callee,     \* [Records -> tags or NoTag]
    job,        \* [Requests -> what the handler is about to do]
    past,       \* history: methods forwarded that nothing entitled to pass, and
                \* whether the dialog that admitted them was gone by then
    astray      \* history: methods sent elsewhere than the dialog they name

vars == <<state, node, routed, callee, job, past, astray>>

NoTag == "-"
Planes == {"public", "private"}
Methods == {"BYE", "INFO", "NOTIFY", "REFER", "MESSAGE", "PRACK", "UPDATE"}
Tags == {CallerTag[d] : d \in Records} \cup UNION {ForkTags[d] : d \in Records}

\* vouched: from the public plane, the source is a registered client or a
\* carrier; from the switch, the Request-URI has the token of a live binding.
\* follows: a NOTIFY of a subscription FreeSBC carried. body: SDP, or the
\* request has none that matters here. A client's MESSAGE outside a dialog has
\* a handler of its own.
Shapes(methods, follows, body) ==
    [method : methods, plane : Planes, from : Tags, to : Tags \cup {NoTag},
     vouched : BOOLEAN, follows : follows, body : body]
Plain == Shapes({"BYE", "INFO", "REFER", "MESSAGE"}, {FALSE}, {FALSE})
         \cup Shapes({"NOTIFY"}, BOOLEAN, {FALSE})
Reliable == Shapes({"PRACK", "UPDATE"}, {FALSE}, BOOLEAN)

NoRequest == [at |-> "idle"]
OtherPlane(p) == IF p = "public" THEN "private" ELSE "public"

\* Two calls of one Call-ID differ in the caller's tag (a merged INVITE is
\* refused, see DialogTable), and neither is the other seen from its far end:
\* one end would have two dialogs of one identity.
ConstantsOK ==
    /\ Home \in Nodes
    /\ \A d, e \in Records : d # e =>
         /\ CallerTag[d] # CallerTag[e]
         /\ ~(CallerTag[d] \in ForkTags[e] /\ CallerTag[e] \in ForkTags[d])

TypeOK ==
    /\ state \in [Records -> {"none", "early", "up", "ended"}]
    /\ node \in [Records -> Nodes]
    /\ routed \in [Records -> SUBSET Tags]
    /\ callee \in [Records -> Tags \cup {NoTag}]
    /\ DOMAIN job = Requests
    /\ \A r \in Requests :
        \/ job[r] = NoRequest
        \/ /\ job[r].at \in {"admitEarly", "route", "routeEarly"} /\ job[r].m \in Reliable
           /\ job[r].d \in Records \cup {0}
        \/ job[r].at = "bye" /\ job[r].d \in Records
    /\ past \subseteq Methods \X {"gone", "never"}
    /\ astray \subseteq Methods

Init ==
    /\ state = [d \in Records |-> "none"]
    /\ node = [d \in Records |-> Home]
    /\ routed = [d \in Records |-> {}]
    /\ callee = [d \in Records |-> NoTag]
    /\ job = [r \in Requests |-> NoRequest]
    /\ past = {}
    /\ astray = {}

-----------------------------------------------------------------------------
(* The calls: an INVITE is recorded and forwarded to a node (not always the *)
(* home one: it may be in cooldown), forks ring, one answers.              *)

Begin(d) ==
    /\ state[d] = "none" /\ \A e \in Records : e < d => state[e] # "none"
    /\ state' = [state EXCEPT ![d] = "early"]
    /\ \E n \in Nodes : node' = [node EXCEPT ![d] = n]
    /\ UNCHANGED <<routed, callee, job, past, astray>>

SetForkRoute(d, t) ==
    /\ state[d] = "early" /\ t \in ForkTags[d]
    /\ routed' = [routed EXCEPT ![d] = @ \cup {t}]
    /\ UNCHANGED <<state, node, callee, job, past, astray>>

Confirm(d, t) ==
    /\ state[d] = "early" /\ t \in ForkTags[d]
    /\ state' = [state EXCEPT ![d] = "up"]
    /\ callee' = [callee EXCEPT ![d] = t]
    /\ routed' = [routed EXCEPT ![d] = {}]
    /\ UNCHANGED <<node, job, past, astray>>

\* Any other end: a failed setup, silence, a limit, shutdown.
End(d) ==
    /\ state[d] \in {"early", "up"}
    /\ state' = [state EXCEPT ![d] = "ended"]
    /\ routed' = [routed EXCEPT ![d] = {}]
    /\ UNCHANGED <<node, callee, job, past, astray>>

-----------------------------------------------------------------------------
(* Lookups: both tags must match, in either order.                         *)

Lookup(m) ==
    {d \in Records : state[d] = "up" /\
        \/ m.from = CallerTag[d] /\ m.to = callee[d]
        \/ m.from = callee[d] /\ m.to = CallerTag[d]}

LookupEarly(m) ==
    {d \in Records : state[d] = "early" /\
        \/ m.from = CallerTag[d] /\ m.to \in routed[d]
        \/ m.to = CallerTag[d] /\ m.from \in routed[d]}

\* The plane of the endpoint the tags say sent it; the request must have
\* arrived there.
SenderPlane(d, m) ==
    IF m.from = CallerTag[d] THEN CallerPlane[d] ELSE OtherPlane(CallerPlane[d])
Belongs(d, m) == SenderPlane(d, m) = m.plane

\* The newest confirmed record of the Call-ID, for a NOTIFY of the switch.
NewestRouted == {d \in Records : state[d] = "up" /\ \A e \in Records : e > d => state[e] # "up"}

-----------------------------------------------------------------------------
(* What may pass, said without the handlers' order of checks.              *)

Reliably(m) == m.method \in {"PRACK", "UPDATE"}
Far(d, m) == IF m.from = CallerTag[d] THEN m.to ELSE m.from

Named(m) ==
    {d \in Records :
        /\ m.plane = IF m.from = CallerTag[d] THEN CallerPlane[d]
                     ELSE OtherPlane(CallerPlane[d])
        /\ CallerTag[d] \in {m.from, m.to}
        /\ \/ state[d] = "up" /\ Far(d, m) = callee[d]
           \/ state[d] = "early" /\ Far(d, m) \in routed[d] /\ Reliably(m)}
Entitled(m) ==
    \/ m.follows /\ m.to # NoTag
    \/ \E d \in Named(m) : m.method = "REFER" => d \notin OfCarrier
    \/ m.plane = "public" /\ m.method \in {"BYE", "INFO"} /\ m.vouched
    \/ m.plane = "private" /\ m.method # "REFER"

\* What may befall a PRACK or UPDATE after its dialog admitted it: the dialog
\* ends or another of its forks is confirmed; or its own fork is, after the
\* second lookup passed the confirmed dialogs and before it reads the early ones.
Gone(d, m) == state[d] = "ended" \/ (state[d] = "up" /\ Far(d, m) # callee[d])
Crossed(r, d) == job[r].at = "routeEarly" /\ state[d] = "up"

Refuse(r) == job' = [job EXCEPT ![r] = NoRequest] /\ UNCHANGED <<past, astray>>

\* forwardAndRelay: d is the record the request is taken to belong to, dest
\* where it goes.
Forward(r, m, d, dest) ==
    /\ job' = [job EXCEPT ![r] = IF m.method = "BYE" /\ d # 0
                                 THEN [at |-> "bye", d |-> d] ELSE NoRequest]
    /\ past' = IF Entitled(m) THEN past
               ELSE past \cup {<<m.method, IF Reliably(m) /\ Gone(job[r].d, m)
                                         THEN "gone" ELSE "never">>}
    /\ astray' = IF \/ m.follows
                    \/ /\ \A e \in Named(m) : Crossed(r, e) \/ (e = d /\ dest = <<e, node[e]>>)
                       /\ m.method = "BYE" /\ d # 0 => d \in Named(m)
                 THEN astray ELSE astray \cup {m.method}

\* No record: the client a token names, or the node the sender hashes to.
\* A made-up To tag carries nothing past admission.
Gate(m) == m.method \notin {"REFER", "MESSAGE", "NOTIFY"}
           /\ (m.method \in {"BYE", "INFO"} => m.vouched)

Dialogless(r, m) ==
    \/ /\ m.plane = "private" /\ m.vouched
       /\ IF m.method = "REFER" THEN Refuse(r) ELSE Forward(r, m, 0, "client")
    \/ /\ m.plane = "private" /\ ~m.vouched
       /\ IF m.method = "NOTIFY" /\ m.to # NoTag /\ NewestRouted # {}
          THEN \E d \in NewestRouted : Forward(r, m, d, <<d, node[d]>>)
          ELSE Refuse(r)
    \/ /\ m.plane = "public"
       /\ IF ~Gate(m) THEN Refuse(r)
          ELSE \* an offer or an answer with no dialog: beginUpdate and
               \* owedForPrack fail on it and guard answers 500
               IF m.body THEN Refuse(r) ELSE Forward(r, m, 0, Home)

\* directionFor's verdict on the records a lookup found, and onInDialog's.
Route(r, m, found) ==
    IF \E d \in found : Belongs(d, m)
    THEN \E d \in found :
        /\ Belongs(d, m)
        /\ IF m.method = "REFER" /\ d \in OfCarrier THEN Refuse(r)
           ELSE Forward(r, m, d, <<d, node[d]>>)
    ELSE Dialogless(r, m)

OnInDialog(r, m) ==
    /\ job[r] = NoRequest
    /\ ~(m.method = "MESSAGE" /\ m.plane = "public" /\ m.to = NoTag)
    /\ IF m.to = NoTag /\ \/ m.method = "REFER"
                          \/ m.plane = "public" /\ m.method = "NOTIFY"
                          \/ m.plane = "private" /\ ~m.vouched
       THEN Refuse(r)
       ELSE IF m.follows /\ m.to # NoTag THEN Forward(r, m, 0, "subscription")
       ELSE Route(r, m, Lookup(m))
    /\ UNCHANGED <<state, node, routed, callee>>

-----------------------------------------------------------------------------
(* PRACK and UPDATE                                                        *)

Goto(r, at, m, d) ==
    job' = [job EXCEPT ![r] = [at |-> at, m |-> m, d |-> d]] /\ UNCHANGED <<past, astray>>

\* Of the records found, one it belongs to admits it (a PRACK with SDP only
\* when an answer is owed); one it does not belong to, or none, refuses it.
Admit(r, m, found) ==
    \/ \E d \in found : Belongs(d, m) /\ Goto(r, "route", m, d)
    \/ /\ \/ \A d \in found : ~Belongs(d, m)
          \/ m.method = "PRACK" /\ m.body
       /\ Refuse(r)

OnPrackUpdate(r, m) ==
    /\ job[r] = NoRequest
    /\ IF m.to = NoTag THEN Refuse(r)
       ELSE IF Lookup(m) = {} THEN Goto(r, "admitEarly", m, 0)
       ELSE Admit(r, m, Lookup(m))
    /\ UNCHANGED <<state, node, routed, callee>>

AdmitEarly(r) ==
    /\ job[r].at = "admitEarly"
    /\ Admit(r, job[r].m, LookupEarly(job[r].m))
    /\ UNCHANGED <<state, node, routed, callee>>

\* Mutant: routed among the confirmed dialogs only, like any other request.
RouteConfirmedOnly(r) ==
    /\ job[r].at = "route"
    /\ Route(r, job[r].m, Lookup(job[r].m))
    /\ UNCHANGED <<state, node, routed, callee>>

RouteConfirmed(r) ==
    /\ job[r].at = "route"
    /\ LET m == job[r].m IN
       IF Lookup(m) = {} THEN Goto(r, "routeEarly", m, job[r].d) ELSE Route(r, m, Lookup(m))
    /\ UNCHANGED <<state, node, routed, callee>>

RouteEarly(r) ==
    /\ job[r].at = "routeEarly"
    /\ Route(r, job[r].m, LookupEarly(job[r].m))
    /\ UNCHANGED <<state, node, routed, callee>>

-----------------------------------------------------------------------------
(* The far end's answer to a BYE                                           *)

ByeEndsDialog(answer) == answer \in {"2xx", "481", "408", "none"}

ByeAnswered(r, answer) ==
    /\ job[r].at = "bye"
    /\ LET d == job[r].d IN
       state' = IF ByeEndsDialog(answer) /\ state[d] = "up"
                THEN [state EXCEPT ![d] = "ended"] ELSE state
    /\ job' = [job EXCEPT ![r] = NoRequest]
    /\ UNCHANGED <<node, routed, callee, past, astray>>

Next ==
    \/ \E d \in Records : Begin(d) \/ End(d) \/ \E t \in Tags : SetForkRoute(d, t) \/ Confirm(d, t)
    \/ \E r \in Requests :
        \/ \E m \in Plain : OnInDialog(r, m)
        \/ \E m \in Reliable : OnPrackUpdate(r, m)
        \/ AdmitEarly(r) \/ RouteConfirmed(r) \/ RouteEarly(r)
        \/ \E a \in {"2xx", "481", "408", "none", "other"} : ByeAnswered(r, a)

Spec == Init /\ [][Next]_vars

-----------------------------------------------------------------------------
(* Properties                                                              *)

\* Whatever the calls do meanwhile, a public request reaches a switch only on
\* a dialog its tags name, sent from that endpoint's side, on a subscription,
\* or as a registered client's or a carrier's BYE or INFO; and no REFER is
\* forwarded on a carrier's dialog. A PRACK or UPDATE passes without a dialog
\* only when the one that admitted it has ended, or was given to another fork,
\* between the two lookups (onPrackUpdate, directionFor).
NothingPastAdmission == past \subseteq {"PRACK", "UPDATE"} \X {"gone"}

\* A request that names a dialog, early or confirmed, goes to the node that
\* carries it, though the caller's identity hashes elsewhere, and only such a
\* BYE may end a record. (A PRACK or UPDATE whose own fork is confirmed between
\* the halves of its second lookup is taken for one without a dialog.)
DialogsStick == astray = {}

\* The two together: what passes is entitled to, and reaches the dialog it names.
RequestsRouted == TypeOK /\ NothingPastAdmission /\ DialogsStick

\* A PRACK or UPDATE is refused unless a dialog FreeSBC holds matches its tags,
\* "there is no fallback by hashing" (prack.go:17-18).
PrackUpdateInDialog == \A p \in past : p[1] \notin {"PRACK", "UPDATE"}
=============================================================================
