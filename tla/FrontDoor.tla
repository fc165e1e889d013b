----------------------------- MODULE FrontDoor -----------------------------
(***************************************************************************)
(* What a message on a public listener meets before a handler forwards it: *)
(* the read filter and guard (edge.go), the shield's verdicts and strikes  *)
(* (shield.go, offenders.go, banlist.go), admission (admission.go) and the *)
(* REGISTER credential guard (regguard.go). Token buckets are module       *)
(* RateLimit, AoR locks module AorLocks: here either may drop.             *)
(*                                                                         *)
(* A host is one address with one socket. A datagram's source address need *)
(* not be its sender's; a stream ("ws") survived a handshake, so its is.   *)
(* Windows, bans, bindings and a source's record in the guard end at any   *)
(* time; a single challenge may be found forgotten when it is looked up.   *)
(***************************************************************************)
EXTENDS Naturals, FiniteSets, Sequences

CONSTANTS
    Hosts, Honest,  \* the honest ones register properly and call when bound
    Carriers,       \* carrier sources
    Messages,       \* message numbers 1..K; a message may be delivered again
    N,              \* strikes that are forgiven: register_ban, admission_ban
    Slots,          \* regStruckPerSource: attempts remembered as struck
    Flight          \* bound: messages in the server's hands at once

ConstantsOK ==
    /\ Honest \subseteq Hosts /\ "none" \notin Hosts
    /\ Messages \subseteq Nat \ {0} /\ N \in Nat /\ Slots \in Nat \ {0}

VARIABLES
    pc, msg,        \* each message: where it is, and what it is
    count,          \* offenderTable: strikes in the open window, per budget
    bans,           \* the three ban tables: "ip", "udp_ip", "udp_socket"
    bound,          \* live registration bindings: host and transport
    nonces, branches, struck,  \* regGuard's record of a source
    known,          \* challenge nonces each host received
    again,          \* messages the network has duplicated
    counted,        \* history: how often an attempt was struck,
    forgotten,      \* the attempts the guard no longer remembers as struck,
    blamed          \* and what honest hosts were struck by address for

vars == <<pc, msg, count, bans, bound, nonces, branches, struck, known, again, counted,
          forgotten, blamed>>
remembered == <<nonces, branches, known>>
strikes == <<count, struck, counted, forgotten, blamed>>

Kinds == {"scanner", "malformed", "invite", "probe", "cred"}
Budgets == {"register", "admission", "admission_udp"}
Tables == {"ip", "udp_ip", "udp_socket"}
Reasons == {"forged", "refused", "stale", "unbound"}
NoMsg == [from |-> "none", as |-> "none", tp |-> "udp", kind |-> "none",
          good |-> FALSE, nonce |-> 0, branch |-> 0, table |-> "none"]

\* A nonce and a Via branch are named by the message they came with.
TypeOK ==
    /\ pc \in [Messages -> {"idle", "wire", "parsed", "handler", "asked", "ban", "done"}]
    /\ msg \in [Messages -> [from : Hosts \cup {"none"}, as : Hosts \cup {"none"},
                             tp : {"udp", "ws"}, kind : Kinds \cup {"none"}, good : BOOLEAN,
                             nonce : Messages \cup {0}, branch : Messages \cup {0},
                             table : Tables \cup {"none"}]]
    /\ count \in [Hosts \X Budgets -> 0..(N + 1)]
    /\ bans \in [Tables -> SUBSET Hosts] /\ bound \subseteq Hosts \X {"udp", "ws"}
    /\ {nonces, branches, known} \subseteq [Hosts -> SUBSET Messages]
    /\ struck \in [Hosts -> Seq(Messages)] /\ \A h \in Hosts : Len(struck[h]) <= Slots
    /\ counted \in [Messages -> Nat] /\ again \subseteq Messages
    /\ forgotten \subseteq Messages /\ blamed \subseteq Honest \X Reasons

Init ==
    /\ pc = [i \in Messages |-> "idle"] /\ msg = [i \in Messages |-> NoMsg]
    /\ count = [k \in Hosts \X Budgets |-> 0] /\ bans = [t \in Tables |-> {}] /\ bound = {}
    /\ nonces = [h \in Hosts |-> {}] /\ branches = nonces /\ known = nonces
    /\ struck = [h \in Hosts |-> <<>>] /\ again = {}
    /\ counted = [i \in Messages |-> 0] /\ forgotten = {} /\ blamed = {}

Goto(i, p) == pc' = [pc EXCEPT ![i] = p]

\* The message is dealt with; only a datagram that may come again is kept.
Finish(i) ==
    /\ Goto(i, "done")
    /\ msg' = [msg EXCEPT ![i] = IF @.kind = "cred" /\ @.tp = "udp" /\ i \notin again
                                 THEN [@ EXCEPT !.table = "none"] ELSE NoMsg]

----------------------------------------------------------------------------
(* The network and the endpoints.                                          *)

\* What a host may put on the wire as message i: a credential answers a
\* challenge it saw (a guess answers none, and in another's name its own do
\* no more), on a branch of its own or a challenged one.
Sendable(i) ==
    {m \in [from : Hosts, as : Hosts, tp : {"udp", "ws"}, kind : Kinds, good : BOOLEAN,
            nonce : Messages \cup {0}, branch : Messages, table : {"none"}] :
        /\ m.tp = "ws" => m.as = m.from
        /\ IF m.kind = "cred" THEN m.nonce \in known[m.from]
           ELSE ~m.good /\ m.nonce = 0 /\ m.branch = i
        /\ m.branch \in known[m.from] \cup {i}
        /\ m.from \in Honest =>
              /\ m.as = m.from /\ m.branch = i
              /\ m.kind \in {"probe", "cred"} \/ (m.kind = "invite" /\ <<m.as, m.tp>> \in bound)
              /\ m.kind = "cred" => m.good}

Room == Cardinality({j \in Messages : pc[j] \notin {"idle", "done"}}) < Flight

Send(i) ==
    /\ pc[i] = "idle" /\ \A j \in Messages : j < i => pc[j] # "idle"
    /\ Room
    /\ \E m \in Sendable(i) : msg' = [msg EXCEPT ![i] = m]
    /\ Goto(i, "wire")
    /\ UNCHANGED <<strikes, bans, bound, remembered, again>>

\* A datagram comes twice: a client that misses the answer sends it again.
Duplicate(i) ==
    /\ pc[i] = "done" /\ msg[i].kind = "cred" /\ msg[i].tp = "udp" /\ i \notin again
    /\ Room /\ again' = again \cup {i} /\ Goto(i, "wire")
    /\ UNCHANGED <<strikes, msg, bans, bound, remembered>>

----------------------------------------------------------------------------
(* The shield.                                                             *)

\* BannedFrom.
Banned(h, tp) == \/ h \in bans["ip"]
                 \/ tp = "udp" /\ h \in bans["udp_ip"] \cup bans["udp_socket"]

\* banList.ban, once a strike was over the threshold: a lock of its own.
Ban(i) ==
    /\ pc[i] = "ban" /\ Finish(i)
    /\ bans' = [bans EXCEPT ![msg[i].table] = @ \cup {msg[i].as}]
    /\ UNCHANGED <<strikes, bound, remembered, again>>

ScopeIp(tp) == "ip"

\* StrikeOn: a datagram's source may be forged, so it bans the UDP side only.
Scope(tp) == IF tp = "udp" THEN "udp_ip" ELSE "ip"

\* The message goes on unless its strike bans: handled, or read by the filter.
After(i, next) == IF next = "done" THEN Finish(i) ELSE Goto(i, next) /\ UNCHANGED msg

Blame(i, table, why) ==
    blamed' = IF table = "ip" /\ msg[i].as \in Honest
              THEN blamed \cup {<<msg[i].as, IF msg[i].from = msg[i].as THEN why ELSE "forged">>}
              ELSE blamed

\* offenderTable.strike and Shield.strike. A carrier is never struck.
Strike(i, budget, table, why, next) ==
    LET k == <<msg[i].as, budget>> IN
    IF msg[i].as \in Carriers THEN After(i, next) /\ UNCHANGED <<count, blamed>>
    ELSE /\ count' = [count EXCEPT ![k] = IF @ > N THEN @ ELSE @ + 1]
         /\ Blame(i, table, why)
         /\ IF count[k] >= N
            THEN Goto(i, "ban") /\ msg' = [msg EXCEPT ![i].table = table]
            ELSE After(i, next)

HasIP(h) == \E tp \in {"udp", "ws"} : <<h, tp>> \in bound

\* admissionStrike and malformedStrike share one budget per scope; an
\* address that holds a registration on any port is exempt.
AdmissionStrike(i) ==
    /\ IF HasIP(msg[i].as) THEN Finish(i) /\ UNCHANGED <<count, blamed>>
       ELSE Strike(i, IF msg[i].tp = "udp" THEN "admission_udp" ELSE "admission",
                   Scope(msg[i].tp), "unbound", "done")
    /\ UNCHANGED <<struck, counted, forgotten>>

----------------------------------------------------------------------------
(* The REGISTER credential guard.                                          *)

Struck(h) == {struck[h][k] : k \in DOMAIN struck[h]}

\* regGuard.countable's conditions.
Countable(i, replay) ==
    /\ msg[i].nonce \in nonces[msg[i].as]
    /\ replay => msg[i].branch \in branches[msg[i].as]
    /\ i \notin Struck(msg[i].as)

\* What it remembers: the attempt takes the oldest one's slot.
Remember(i) ==
    LET ring == struck[msg[i].as]
        full == Len(ring) >= Slots
    IN /\ struck' = [struck EXCEPT ![msg[i].as] = Append(IF full THEN Tail(ring) ELSE ring, i)]
       /\ forgotten' = IF full THEN forgotten \cup {Head(ring)} ELSE forgotten
       /\ counted' = [counted EXCEPT ![i] = @ + 1]

\* registerStrike. It does not count a carrier's attempt, nor the refresh of a
\* live binding (its AoR and Call-ID at its address), nor one whose challenge
\* is no longer remembered when it is looked up: regNonceTTL or
\* regReplayWindow is over, or newer challenges took its slot.
RegisterStrike(i, replay, next) ==
    LET why == IF replay /\ i \in again /\ msg[i].good THEN "stale" ELSE "refused" IN
    \/ After(i, next) /\ UNCHANGED strikes
    \/ /\ msg[i].as \notin Carriers /\ Countable(i, replay)
       /\ Remember(i) /\ Strike(i, "register", "ip", why, next)

\* regGuard.challenged; the relayed challenge reaches the source named.
Challenged(i) ==
    /\ nonces' = [nonces EXCEPT ![msg[i].as] = @ \cup {i}]
    /\ branches' = [branches EXCEPT ![msg[i].as] = @ \cup {msg[i].branch}]
    /\ known' = [known EXCEPT ![msg[i].as] = @ \cup {i}]

----------------------------------------------------------------------------
(* readFilter, guard and the handlers.                                     *)

\* A banned source and an empty bucket drop; a malformed read strikes and
\* then fails in the parser; a datagram with a credential on a branch that
\* was challenged moments ago is taken for a replay, struck and goes on.
Filter(i) ==
    /\ pc[i] = "wire"
    /\ \/ Finish(i) /\ UNCHANGED strikes
       \/ /\ ~Banned(msg[i].as, msg[i].tp)
          /\ CASE msg[i].kind = "malformed" -> AdmissionStrike(i)
               [] msg[i].kind = "cred" /\ msg[i].tp = "udp" -> RegisterStrike(i, TRUE, "parsed")
               [] OTHER -> Goto(i, "parsed") /\ UNCHANGED <<msg, strikes>>
    /\ UNCHANGED <<bans, bound, remembered, again>>

\* sipgo answers a datagram on a branch it has seen while its transaction
\* lives, and no handler runs. Then guard and CheckScanner: the ban is looked
\* at again, and the User-Agent.
Guard(i) ==
    /\ pc[i] = "parsed"
    /\ \/ /\ msg[i].tp = "udp" /\ (msg[i].branch # i \/ i \in again)
          /\ Finish(i) /\ UNCHANGED bans
       \/ LET m == msg[i]
              drop == m.kind = "scanner" /\ m.as \notin Carriers
              table == IF m.tp = "udp" THEN "udp_socket" ELSE "ip"
          IN /\ IF Banned(m.as, m.tp) \/ drop THEN Finish(i) ELSE Goto(i, "handler") /\ UNCHANGED msg
             /\ bans' = IF ~Banned(m.as, m.tp) /\ drop
                        THEN [bans EXCEPT ![table] = @ \cup {m.as}] ELSE bans
    /\ UNCHANGED <<strikes, bound, remembered, again>>

\* onInvite, onOptions, onMessage: only a live registration at the source or
\* a carrier is let through. onRegister forwards unless an AoR lock or the
\* enumeration limit drops it.
Handle(i) ==
    /\ pc[i] = "handler"
    /\ IF msg[i].kind \in {"probe", "cred"}
       THEN (Finish(i) \/ (Goto(i, "asked") /\ UNCHANGED msg)) /\ UNCHANGED strikes
       ELSE IF <<msg[i].as, msg[i].tp>> \in bound \/ msg[i].as \in Carriers
            THEN Finish(i) /\ UNCHANGED strikes
            ELSE AdmissionStrike(i)
    /\ UNCHANGED <<bans, bound, remembered, again>>

\* registerOutcome, before the answer is relayed: a 2xx with a credential
\* clears the source's strikes and binds it; a refusal strikes; a challenge
\* is remembered after the strike.
Answer(i) ==
    /\ pc[i] = "asked"
    /\ \/ /\ msg[i].kind = "cred" /\ msg[i].good
          /\ count' = [k \in Hosts \X Budgets |-> IF k[1] = msg[i].as THEN 0 ELSE count[k]]
          /\ bound' = bound \cup {<<msg[i].as, msg[i].tp>>}
          /\ Finish(i) /\ UNCHANGED <<struck, counted, forgotten, blamed, remembered>>
       \/ \* 401 or 407, and 403 or 404, which challenge nobody
          /\ msg[i].kind = "cred" /\ ~msg[i].good
          /\ RegisterStrike(i, FALSE, "done") /\ UNCHANGED bound
          /\ Challenged(i) \/ UNCHANGED remembered
       \/ \* a first REGISTER, or a stale nonce: challenged, no strike
          /\ msg[i].kind = "probe" \/ msg[i].good
          /\ Challenged(i) /\ Finish(i) /\ UNCHANGED <<strikes, bound>>
       \/ \* the registrar did not answer
          Finish(i) /\ UNCHANGED <<strikes, bound, remembered>>
    /\ UNCHANGED <<bans, again>>

----------------------------------------------------------------------------
(* What ends.                                                              *)

\* A ban or a window.
Expire ==
    /\ \/ \E t \in Tables : bans[t] # {} /\ bans' = [bans EXCEPT ![t] = {}] /\ UNCHANGED count
       \/ \E k \in Hosts \X Budgets : count[k] # 0 /\ count' = [count EXCEPT ![k] = 0] /\ UNCHANGED bans
    /\ UNCHANGED <<pc, msg, bound, remembered, again, struck, counted, forgotten, blamed>>

\* A binding: it expires, or the connection it is on closes.
Unbind ==
    /\ \E b \in bound : bound' = bound \ {b}
    /\ UNCHANGED <<pc, msg, strikes, bans, remembered, again>>

\* A source's whole record: one of regGuardSources more recent ones took it.
Evict ==
    /\ \E h \in Hosts :
          /\ nonces[h] # {} \/ branches[h] # {} \/ struck[h] # <<>>
          /\ nonces' = [nonces EXCEPT ![h] = {}] /\ branches' = [branches EXCEPT ![h] = {}]
          /\ struck' = [struck EXCEPT ![h] = <<>>] /\ forgotten' = forgotten \cup Struck(h)
    /\ UNCHANGED <<pc, msg, count, bans, bound, known, again, counted, blamed>>

Lapse == Expire \/ Unbind \/ Evict

Handling(i) == Filter(i) \/ Guard(i) \/ Handle(i) \/ Answer(i) \/ Ban(i)

Next == (\E i \in Messages : Send(i) \/ Duplicate(i) \/ Handling(i)) \/ Lapse

Spec == Init /\ [][Next]_vars

----------------------------------------------------------------------------
\* Nobody is shut out of the stream transports for what others sent in their
\* name: an honest host is struck and banned by address only for messages of
\* its own, and for two kinds of them (StrikeOn, CheckScanner, registerStrike):
\* a REGISTER answered stale=true that it sent again, which the read filter
\* takes for a replay, and a call over a stream whose registration had ended.
NoBlame ==
    /\ blamed \subseteq Honest \X {"stale", "unbound"}
    /\ \A h \in Honest \cap bans["ip"] : \E why \in Reasons : <<h, why>> \in blamed

\* A refused credential is one strike, however often the datagram is
\* delivered and whether the read filter or the registrar's answer judges it,
\* unless so many others were struck since, or so many sources challenged,
\* that the guard no longer remembers it.
CountedOnce == \A i \in Messages : counted[i] <= 1 \/ i \in forgotten
=============================================================================
