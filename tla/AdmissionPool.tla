--------------------------- MODULE AdmissionPool ---------------------------
(***************************************************************************)
(* What a bounded table of the edge promises: an entry is admitted at most *)
(* once and only while there is room, in the table and in the share of the *)
(* group it is charged to, stays until it leaves, and never comes back.    *)
(* The subscription table (subscribe.go: the group is a binding) and the   *)
(* stream connection slots (stream.go: an address) are shown to implement  *)
(* it.                                                                     *)
(***************************************************************************)
EXTENDS Naturals, FiniteSets

CONSTANTS Ids, Groups, Max, MaxPerGroup
VARIABLES held, left  \* the entries held, each with its group; those gone

vars == <<held, left>>

Init == held = {} /\ left = {}

Charged(g) == {p \in held : p[2] = g}

Admit(x, g) ==
    /\ x \notin left /\ \A p \in held : p[1] # x
    /\ Cardinality(held) < Max /\ Cardinality(Charged(g)) < MaxPerGroup
    /\ held' = held \cup {<<x, g>>} /\ UNCHANGED left

\* Entries that leave together: a removed binding takes its subscriptions.
Leave(gone) ==
    /\ gone # {} /\ gone \subseteq held
    /\ held' = held \ gone /\ left' = left \cup {p[1] : p \in gone}

Next == \/ \E x \in Ids, g \in Groups : Admit(x, g)
        \/ \E gone \in SUBSET held : Leave(gone)

Spec == Init /\ [][Next]_vars
=============================================================================
