----------------------------- MODULE D3Selection ------------------------------
(***************************************************************************)
(* The data join of the chart library (d3.js, selection.data and what it   *)
(* is used with), as operators on the children of one parent.              *)
(*                                                                         *)
(* A group is a sequence of nodes with holes (Hole); key[n] is the key of  *)
(* the datum a node has, and a datum is its own key (the axis joins by     *)
(* String).  A join is three sequences: the nodes that get the datum of    *)
(* their index, the data that have no node, the nodes that have no datum.  *)
(***************************************************************************)
EXTENDS Naturals, SequencesExt

CONSTANT Hole

\* The elements of s that are in S.
Among(s, S) ==
    LET upTo[i \in 0 .. Len(s)] ==
            IF i = 0 THEN <<>>
            ELSE LET before == upTo[i - 1] IN IF s[i] \in S THEN Append(before, s[i]) ELSE before
    IN  upTo[Len(s)]

Nodes(group) == Among(group, ToSet(group) \ {Hole})

\* The indices of data that find the node of their key: the first of equal ones.
Finds(group, key, data) ==
    {i \in DOMAIN data : /\ \E j \in DOMAIN group : key[group[j]] = data[i]
                         /\ \A k \in 1 .. i - 1 : data[k] # data[i]}

\* bind, with a key function.  Nodes with the key of an earlier node go behind
\* the data in the exit group, where they may be overwritten.
Bind(group, key, data) ==
    LET n == Len(group)
        m == Len(data)
        first(k) == Min({i \in 1 .. n : key[group[i]] = k})
        doubles == Among([i \in 1 .. n |-> i], {i \in 1 .. n : first(key[group[i]]) # i})
        found == Finds(group, key, data)
    IN  [update |-> [i \in 1 .. m |-> IF i \in found THEN group[first(data[i])] ELSE Hole],
         enter  |-> [i \in 1 .. m |-> IF i \in found THEN Hole ELSE data[i]],
         exit   |-> [i \in 1 .. IF n > m + Len(doubles) THEN n ELSE m + Len(doubles) |->
                        IF i <= n /\ key[group[i]] \notin ToSet(data) THEN group[i]
                        ELSE IF i > m /\ i <= m + Len(doubles) THEN group[doubles[i - m]]
                        ELSE Hole]]

\* bind without a key function: by index.
BindByIndex(group, data) ==
    LET n == Len(group)
        m == Len(data)
    IN  [update |-> [i \in 1 .. m |-> IF i <= n THEN group[i] ELSE Hole],
         enter  |-> [i \in 1 .. m |-> IF i <= n THEN Hole ELSE data[i]],
         exit   |-> [i \in 1 .. IF n > m THEN n ELSE m |-> IF i > m THEN group[i] ELSE Hole]]

\* enter().select: node[datum] is the new node for a datum; it joins the update group.
Entered(join, node) ==
    [i \in DOMAIN join.enter |-> IF join.enter[i] = Hole THEN join.update[i] ELSE node[join.enter[i]]]

\* insert: in front of the first child that is selected, else at the end.
InsertBefore(children, new, selected) ==
    LET at == SelectInSeq(children, LAMBDA n : n \in selected)
    IN  IF at = 0 THEN children \o new
        ELSE SubSeq(children, 1, at - 1) \o new \o SubSeq(children, at, Len(children))

\* remove.
Without(children, gone) == Among(children, ToSet(children) \ gone)
=============================================================================
