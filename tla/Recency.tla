------------------------------ MODULE Recency ------------------------------
(***************************************************************************)
(* The order of a container/list.List that is kept by use, as a relation   *)
(* on what it holds: <<x, y>> when x was moved to the front after y was.   *)
(***************************************************************************)

\* Remove, of everything outside S.
Among(order, S) == {p \in order : p[1] \in S /\ p[2] \in S}

\* PushFront or MoveToFront of x, S being what is kept beside it.
ToFront(order, x, S) == ({x} \X (S \ {x})) \cup Among(order, S \ {x})

\* Back, of the part S of the list: at most one.
Backmost(order, S) == {x \in S : \A y \in S \ {x} : <<y, x>> \in order}

\* What is behind x in the list.
Behind(order, x) == {p[2] : p \in {q \in order : q[1] = x}}

\* The list holds S and every member of it once.
Lists(order, S) ==
    /\ order \subseteq S \X S
    /\ \A x \in S : <<x, x>> \notin order
    /\ \A x, y \in S : x = y \/ <<x, y>> \in order \/ <<y, x>> \in order
    /\ \A x, y, z \in S : <<x, y>> \in order /\ <<y, z>> \in order => <<x, z>> \in order
=============================================================================
