---------------------------- MODULE VisitCounts ----------------------------
(***************************************************************************)
(* What the visitor statistics promise: a visit counts for its country if  *)
(* the address has not been seen for longer than Validity.  Addresses are  *)
(* remembered for ever; only how long ago the last visit was can be told.  *)
(***************************************************************************)
EXTENDS Naturals

CONSTANTS Addresses, Countries, Validity

VARIABLES age,      \* ticks since the last visit, Old when more than Validity
          counts

Old == Validity + 1

Aged(k) == IF k < Old THEN k + 1 ELSE Old

VisitsInit ==
  /\ age = [a \in Addresses |-> Old]
  /\ counts = [c \in Countries |-> 0]

Visit(a, c) ==
  /\ counts' = IF age[a] = Old THEN [counts EXCEPT ![c] = @ + 1] ELSE counts
  /\ age' = [age EXCEPT ![a] = 0]

TimePasses ==
  /\ age' = [a \in Addresses |-> Aged(age[a])]
  /\ UNCHANGED counts

VisitsNext == TimePasses \/ \E a \in Addresses, c \in Countries : Visit(a, c)

VisitsSpec == VisitsInit /\ [][VisitsNext]_<<age, counts>>
=============================================================================
