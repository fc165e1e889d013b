-------------------------- MODULE RegisterBreaker --------------------------
(***************************************************************************)
(* The REGISTER series of onRegister (register.go) over the switch nodes,  *)
(* with the passive cooldown and the per-node circuit breaker of           *)
(* cooldown.go. Each method of cooldownTable is one critical section; what *)
(* RegisterAllow admitted is used after it. Clocks count down in ticks.    *)
(***************************************************************************)
EXTENDS Naturals, Sequences, FiniteSets

CONSTANTS
    Nodes, Users, Hash(_),  \* nodes, numbered in the order of their names; a user's hash
    Threshold, Windows,     \* registerBreakerThreshold, registerBreakerBackoff
    Budget, Cooldown        \* registerTimeout, switchCooldown

VARIABLES
    up,                                  \* nodes that answer
    cool, fails, level, open, window, probeBy,  \* cooldownTable
    pc, order, node, probe, dialed, left, \* the series of each user's REGISTER
    current,                              \* probes admitted by the present opening
    result                                \* what the phone was last told

vars == <<up, cool, fails, level, open, window, probeBy,
          pc, order, node, probe, dialed, left, current, result>>
breaker == <<fails, level, open, window, probeBy>>
series == <<pc, order, node, probe, dialed, left, result>>

\* A pool with a node in it, and an open breaker that refuses for some time.
ConstantsOK ==
    /\ IsFiniteSet(Nodes) /\ Nodes # {}
    /\ Threshold \in Nat /\ Budget \in Nat /\ Cooldown \in Nat
    /\ Windows \in Seq(Nat \ {0}) /\ Windows # <<>>

TypeOK ==
    /\ up \subseteq Nodes /\ cool \in [Nodes -> 0..Cooldown]
    /\ fails \in [Nodes -> 0..Threshold] /\ level \in [Nodes -> 0..Len(Windows)]
    /\ open \subseteq Nodes /\ window \in [Nodes -> Nat] /\ probeBy \in [Nodes -> 0..Budget]
    /\ pc \in [Users -> {"ready", "idle", "next", "send", "wait"}]
    /\ order \in [Users -> Seq(Nodes)] /\ node \in [Users -> Nodes]
    /\ probe \subseteq Users /\ dialed \subseteq Users /\ current \subseteq Users
    /\ left \in [Users -> 0..Budget]
    /\ result \in [Users -> {"none", "final", "local503", "503", "504"}]

Init ==
    /\ up = Nodes /\ cool = [n \in Nodes |-> 0] /\ fails = cool /\ level = cool
    /\ open = {} /\ window = cool /\ probeBy = cool
    /\ pc = [u \in Users |-> "ready"] /\ order = [u \in Users |-> <<>>]
    /\ node = [u \in Users |-> CHOOSE n \in Nodes : TRUE] /\ probe = {} /\ dialed = {} /\ current = {}
    /\ left = [u \in Users |-> 0] /\ result = [u \in Users |-> "none"]

Goto(u, p) == pc' = [pc EXCEPT ![u] = p]

----------------------------------------------------------------------------
(* cooldownTable.                                                          *)

\* Probes on node n, by whoever was admitted.
On(n) == {u \in current : node[u] = n}

AnsweredHalf(n) ==
    /\ fails' = [fails EXCEPT ![n] = 0] /\ UNCHANGED <<level, open, window, current>>
    /\ probeBy' = [probeBy EXCEPT ![n] = 0]

\* RegisterAnswered.
Answered(n) ==
    /\ fails' = [fails EXCEPT ![n] = 0] /\ level' = [level EXCEPT ![n] = 0]
    /\ open' = open \ {n}
    /\ window' = [window EXCEPT ![n] = 0] /\ probeBy' = [probeBy EXCEPT ![n] = 0]
    /\ current' = current \ On(n)

\* RegisterUnanswered.
Unanswered(n, p) ==
    LET f == IF fails[n] < Threshold THEN fails[n] + 1 ELSE fails[n]
        opens == (n \in open /\ p) \/ (n \notin open /\ f >= Threshold)
        l == IF level[n] < Len(Windows) THEN level[n] + 1 ELSE level[n]
    IN /\ fails' = [fails EXCEPT ![n] = f]
       /\ IF opens
          THEN /\ open' = open \cup {n} /\ level' = [level EXCEPT ![n] = l]
               /\ window' = [window EXCEPT ![n] = Windows[l]]
               /\ probeBy' = [probeBy EXCEPT ![n] = 0]
               /\ current' = current \ On(n)
          ELSE UNCHANGED <<open, level, window, probeBy, current>>

Penalize(n) == cool' = [cool EXCEPT ![n] = Cooldown]

AllowAlways(n) == window[n] = 0

\* RegisterAllow, of an open breaker.
AllowProbe(n) == window[n] = 0 /\ probeBy[n] = 0

----------------------------------------------------------------------------
(* onRegister's series.                                                    *)

Available == {n \in Nodes : cool[n] = 0}
Pool == IF Available = {} THEN Nodes ELSE Available
Rank(n, S) == Cardinality({k \in S : k < n})

\* upstreamDialOrder: the available nodes, or all when every one is cooling,
\* in rotation from the user's, then the cooled ones.
InOrder(u, o) ==
    LET p == Cardinality(Pool) IN
    \A i \in 1..Cardinality(Nodes) :
        IF i <= p THEN o[i] \in Pool /\ Rank(o[i], Pool) = (Hash(u) + i - 1) % p
                  ELSE o[i] \notin Pool /\ Rank(o[i], Nodes \ Pool) = i - p - 1

\* There is one such order.
DialOrders(u) == {o \in [1..Cardinality(Nodes) -> Nodes] : InOrder(u, o)}

\* A phone waits before it registers again.
Start(u) ==
    /\ pc[u] = "ready" /\ Goto(u, "next")
    /\ \E o \in DialOrders(u) : order' = [order EXCEPT ![u] = o]
    /\ left' = [left EXCEPT ![u] = Budget] /\ dialed' = dialed \ {u}
    /\ result' = [result EXCEPT ![u] = "none"]
    /\ UNCHANGED <<up, cool, breaker, node, probe, current>>

\* The series is over: its one answer.
Over(u, r) ==
    /\ Goto(u, "idle") /\ result' = [result EXCEPT ![u] = r]
    /\ order' = [order EXCEPT ![u] = <<>>] /\ left' = [left EXCEPT ![u] = 0]
    /\ dialed' = dialed \ {u} /\ probe' = probe \ {u}

NextNode(u) ==
    /\ pc[u] = "next" /\ order[u] # <<>> /\ left[u] > 0
    /\ LET n == Head(order[u])
           half == n \in open
       IN /\ order' = [order EXCEPT ![u] = Tail(@)]
          /\ IF half /\ ~AllowProbe(n)
             THEN UNCHANGED <<pc, node, probe, dialed, probeBy, current>>
             ELSE /\ Goto(u, "send") /\ node' = [node EXCEPT ![u] = n]
                  /\ dialed' = dialed \cup {u}
                  /\ probe' = IF half THEN probe \cup {u} ELSE probe \ {u}
                  /\ probeBy' = IF half THEN [probeBy EXCEPT ![n] = Budget] ELSE probeBy
                  /\ current' = IF half THEN current \cup {u} ELSE current \ {u}
    /\ UNCHANGED <<up, cool, fails, level, open, window, left, result>>

\* RegisterRelease, by the handler that was admitted.
Release(u) ==
    /\ probeBy' = IF u \in probe THEN [probeBy EXCEPT ![node[u]] = 0] ELSE probeBy
    /\ current' = current \ {u}
    /\ UNCHANGED <<fails, level, open, window>>

\* clientTx: the REGISTER is sent.
Sent(u) ==
    /\ pc[u] = "send" /\ Goto(u, "wait")
    /\ UNCHANGED <<up, cool, breaker, order, node, probe, dialed, left, current, result>>

\* It is not: too many hops, or the budget ends meanwhile; a transport error
\* is the node's failure.
NotSent(u) ==
    /\ pc[u] = "send"
    /\ \/ Release(u) /\ Over(u, "final") /\ UNCHANGED cool
       \/ Release(u) /\ Over(u, "504") /\ UNCHANGED cool
       \/ /\ node[u] \notin up
          /\ Penalize(node[u]) /\ Unanswered(node[u], u \in probe) /\ Goto(u, "next")
          /\ probe' = probe \ {u} /\ UNCHANGED <<order, dialed, left, result>>
    /\ UNCHANGED <<up, node>>

\* pumpRegister: a final answer; provisionals only; or nothing at all. The
\* attempt ends with the transaction or with the shared budget.
Pump(u) ==
    LET n == node[u] IN
    /\ pc[u] = "wait"
    /\ \/ n \in up /\ Answered(n) /\ cool' = [cool EXCEPT ![n] = 0] /\ Over(u, "final")
       \/ n \in up /\ Answered(n) /\ Goto(u, "next") /\ UNCHANGED <<cool, order, probe, dialed, left, result>>
       \/ /\ n \notin up
          /\ Unanswered(n, u \in probe) /\ Penalize(n) /\ Goto(u, "next")
          /\ UNCHANGED <<order, probe, dialed, left, result>>
    /\ UNCHANGED <<up, node>>

Finish(u) ==
    /\ pc[u] = "next" /\ (order[u] = <<>> \/ left[u] = 0)
    /\ Over(u, IF left[u] = 0 THEN "504" ELSE IF u \notin dialed THEN "local503" ELSE "503")
    /\ current' = current \ {u}
    /\ UNCHANGED <<up, cool, breaker, node>>

----------------------------------------------------------------------------
Down(k) == IF k = 0 THEN 0 ELSE k - 1

\* A step of the handler takes no time but for the wait for an answer.
Tick ==
    /\ \A u \in Users : pc[u] \in {"ready", "idle", "wait"} /\ (pc[u] = "wait" => left[u] > 0)
    /\ cool' = [n \in Nodes |-> Down(cool[n])] /\ window' = [n \in Nodes |-> Down(window[n])]
    /\ probeBy' = [n \in Nodes |-> Down(probeBy[n])] /\ left' = [u \in Users |-> Down(left[u])]
    /\ pc' = [u \in Users |-> IF pc[u] = "idle" THEN "ready" ELSE pc[u]]
    /\ UNCHANGED <<up, fails, level, open, order, node, probe, dialed, current, result>>

Fail(n) == n \in up /\ up' = up \ {n} /\ UNCHANGED <<cool, breaker, series, current>>
Repair(n) == n \notin up /\ up' = up \cup {n} /\ UNCHANGED <<cool, breaker, series, current>>

Step(u) == NextNode(u) \/ Sent(u) \/ NotSent(u) \/ Pump(u) \/ Finish(u)

Next == (\E u \in Users : Start(u) \/ Step(u)) \/ Tick \/ (\E n \in Nodes : Fail(n) \/ Repair(n))

\* Phones keep refreshing, handlers run and time passes; not every REGISTER
\* is out of hops or of budget before it is sent.
Fairness ==
    /\ \A u \in Users : WF_vars(Start(u)) /\ WF_vars(Step(u)) /\ SF_vars(Sent(u))
    /\ WF_vars(Tick)

Spec == Init /\ [][Next]_vars /\ Fairness

----------------------------------------------------------------------------
\* A half-open breaker has one probe out: of the handlers RegisterAllow let
\* through since it last opened, at most one is still within its budget,
\* whatever releases, late failures and answers of older attempts came in
\* between.
OneProbe == \A n \in Nodes : Cardinality({u \in On(n) : left[u] > 0}) <= 1

\* A breaker that opened closes: once a node stays up, its users' REGISTERs
\* reach it again.
NodesComeBack == \A n \in Nodes : <>[](n \in up) => <>[](n \notin open)
=============================================================================
