------------------------------- MODULE Manifest -------------------------------
(***************************************************************************)
(* The order of a manifest's components.                                   *)
(*                                                                         *)
(* declared is the sequence of component ids as the file lists them, and   *)
(* depends[c] the sequence of ids that c depends on.  Installer takes the  *)
(* order as a constant with an assumption; MCInstaller computes it here    *)
(* and checks that the assumption follows for every small manifest, and    *)
(* InstallerProofs proves it for every manifest.                           *)
(***************************************************************************)
EXTENDS Naturals, Sequences, FiniteSets, SequencesExt

\* What a depth-first search has done: gray are the ids on its stack (color
\* 1), the black ones (color 2) are those in order.
Searches(ids) == [gray : SUBSET ids, order : Seq(ids), cyclic : BOOLEAN]
Unvisited == [gray |-> {}, order |-> << >>, cyclic |-> FALSE]

\* Visiting one id after another, where visit[c][s] is what visiting c makes of s.
Through(visit, search, cs) ==
    LET upTo[i \in 0 .. Len(cs)] ==
            IF i = 0 THEN search ELSE visit[cs[i]][upTo[i - 1]]
    IN  upTo[Len(cs)]

\* An id is put on the stack, is taken off it, or closes a cycle.
Enter(search, c) == [search EXCEPT !.gray = @ \cup {c}]
Leave(search, c) == [search EXCEPT !.gray = @ \ {c}, !.order = Append(@, c)]
Stop(search) == [search EXCEPT !.cyclic = TRUE]

\* visit: an id that is on the stack is a cycle, which ends the search; a
\* black one is passed over; any other follows its dependencies.
Follow(visit, depends, search, c) ==
    LET below == Through(visit, Enter(search, c), depends[c])
    IN  IF search.cyclic \/ c \in ToSet(search.order) THEN search
        ELSE IF c \in search.gray THEN Stop(search)
        ELSE IF below.cyclic THEN below ELSE Leave(below, c)

\* A path of more ids than there are is a cycle, so it need not go deeper.
Visit(ids, depends) ==
    LET deep[n \in 0 .. Cardinality(ids)] ==
            [c \in ids |-> [search \in Searches(ids) |->
                IF n = 0 THEN Stop(search)
                ELSE Follow(deep[n - 1], depends, search, c)]]
    IN  deep[Cardinality(ids)]

TopoSort(declared, depends) ==
    Through(Visit(ToSet(declared), depends), Unvisited, declared)

\* The part of _validate_deps that is about dependencies: none is unknown,
\* and the search finds no cycle.
Accepted(declared, depends) ==
    /\ \A c \in ToSet(declared) : ToSet(depends[c]) \subseteq ToSet(declared)
    /\ ~ TopoSort(declared, depends).cyclic

TopoOrder(declared, depends) == TopoSort(declared, depends).order

------------------------------------------------------------------------------

\* The definition it is checked against: in a graph without cycles every
\* set of components has one that depends on none of them.
Acyclic(depends) ==
    \A cs \in (SUBSET DOMAIN depends) \ {{}} :
        \E c \in cs : ToSet(depends[c]) \cap cs = {}

\* A manifest is accepted if and only if it has no cycle, and the order of
\* one that is has every component once, after all that it depends on.
SortsTopologically(declared, depends) ==
    /\ Accepted(declared, depends) <=> Acyclic(depends)
    /\ Acyclic(depends) =>
        LET order == TopoOrder(declared, depends)
        IN  /\ ToSet(order) = ToSet(declared) /\ IsInjective(order)
            /\ \A i, j \in DOMAIN order :
                order[j] \in ToSet(depends[order[i]]) => j < i
=============================================================================
