------------------------- MODULE MCDelegateManager -------------------------
(* Plans for the runs of DelegateManager and their bounds. *)
EXTENDS DelegateManager, Sequences

(* The plan of a sequence of dependency sets; later delegates are requested. *)
Graph(ds) == [size |-> Len(ds), deps |-> [d \in Delegate |-> IF d <= Len(ds) THEN ds[d] ELSE {}]]

(* Three delegates: a chain, a fork, a join, and a dependent listed first. *)
Chain    == Graph(<<{}, {1}, {2}>>)
Fork     == Graph(<<{}, {1}, {1}>>)
Join     == Graph(<<{}, {}, {1, 2}>>)
Reversed == Graph(<<{2}, {3}, {}>>)
Ordered  == {Chain, Fork, Join}
Graphs   == Ordered \union {Reversed}

(* Two delegates, and room for requested ones. *)
Pair   == {Graph(<<{}, {1}>>), Graph(<<{}, {}>>)}
Plans  == Graphs \union Pair
Single == {Graph(<<{}>>)}
=============================================================================
