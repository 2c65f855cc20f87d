------------------------------ MODULE MCTraffic ------------------------------
(* Traffic on small instances: one client behind a proxy and one without,  *)
(* whose address is written in two ways.                                   *)
EXTENDS Traffic, TLC

CONSTANTS b1, b2, ip1, ip2, private, gb

MCCanon == [a \in Addresses |-> IF a = private THEN ip1 ELSE ip2]
MCOrigins == {[remote |-> private, headers |-> <<private, b1>>, code |-> gb],
              [remote |-> b2, headers |-> <<>>, code |-> NoCountry],
              [remote |-> NoIP, headers |-> <<NoIP>>, code |-> NoCountry]}

Symmetry == Permutations(Requests)
=============================================================================
