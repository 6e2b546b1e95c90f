------------------------------ MODULE MCRouter ------------------------------
(* Model values and inputs for Router.                                     *)
EXTENDS Router, TLC

CONSTANTS a, b, x, y

AddressSymmetry == Permutations({x, y})

Known(d) == [dist |-> d, pai |-> TRUE]

Single(s, pos) == [kind |-> "single", src |-> s, from |-> s, sn |-> 0, scf |-> FALSE,
                   life |-> 0, pos |-> pos, newer |-> TRUE, stop |-> FALSE]
Multi(kind, s, f, n, scf, life, pos, newer, stop) ==
  [kind |-> kind, src |-> s, from |-> f, sn |-> n, scf |-> scf, life |-> life,
   pos |-> pos, newer |-> newer, stop |-> stop]
Malformed(s) == [Single(s, None) EXCEPT !.kind = "malformed"]

\* Station a moves and beacons; packets of b arrive directly and by way of a.
MCInputs ==
  {Single(a, Known(0)), Single(a, Known(2)), Malformed(a),
   Multi("gbc", b, a, 1, TRUE, 1, Known(3), FALSE, FALSE),
   Multi("gbc", b, b, 1, FALSE, 1, Known(3), TRUE, FALSE),
   Multi("gbc", b, b, 2, FALSE, 1, [dist |-> 0, pai |-> FALSE], TRUE, TRUE),
   Multi("tsb", b, a, 1, TRUE, 1, None, TRUE, FALSE)}

MCRequests == {[kind |-> "shb", scf |-> TRUE, life |-> 1],
               [kind |-> "gbc", scf |-> TRUE, life |-> 1]}

\* One packet of the station's own, and a neighbour that comes closer.
StoredInputs == {Single(a, Known(1)), Single(a, Known(2))}
StoredRequests == {[kind |-> "gbc", scf |-> TRUE, life |-> 2]}

MCAlgorithms == {[area |-> "SIMPLE", non_area |-> "GREEDY"],
                 [area |-> "CBF", non_area |-> "CBF"]}
=============================================================================
