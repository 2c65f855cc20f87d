------------------------------ MODULE GeoStats ------------------------------
(***************************************************************************)
(* The visitor statistics of internal/middleware/geostats.go: each request *)
(* records its address and country by a goroutine of its own, and a        *)
(* background goroutine forgets the addresses of long ago.  Each call of   *)
(* Record runs under the lock; the cleanup reads the clock before it has   *)
(* the lock.                                                               *)
(*                                                                         *)
(* A definition whose name has a suffix _Mutant... is a plausible slip.    *)
(***************************************************************************)
EXTENDS Clock, Integers

CONSTANTS
  Addresses,        \* the texts of addresses that requests come with
  Countries,        \* the codes of CF-IPCountry
  UnknownCountry,   \* "XX", counted when there is no header
  NoCountry,        \* no header
  Validity          \* a visitor is counted again after this time, 24 hours

ASSUME CountryAssumption == UnknownCountry \in Countries /\ NoCountry \notin Countries
ASSUME ValidityAssumption == Validity \in Nat

VARIABLES
  visitors,   \* when each address that is remembered was last seen
  countries,  \* the visits counted
  cutOff      \* cleanup's local, NoCutOff when it does not run

geoVars == <<visitors, countries, cutOff>>

NoCutOff == -(Validity + 1)     \* before any time that Validity ago can be

GeoInit ==
  /\ visitors = <<>>
  /\ countries = [c \in Countries |-> 0]
  /\ cutOff = NoCutOff

Seen == DOMAIN visitors

\* A visitor of the last Validity, who is not counted again.
Returns(a) == a \in Seen /\ now - visitors[a] <= Validity

Country(code) == IF code = NoCountry THEN UnknownCountry ELSE code

Record(a, code) ==
  /\ countries' = IF Returns(a) THEN countries ELSE [countries EXCEPT ![Country(code)] = @ + 1]
  /\ visitors' = [b \in Seen \cup {a} |-> IF b = a THEN now ELSE visitors[b]]
  /\ UNCHANGED cutOff

\* cleanup before it has the lock.
CleanupStart ==
  /\ cutOff = NoCutOff
  /\ cutOff' = now - Validity
  /\ UNCHANGED <<visitors, countries>>

\* Slip: the address last seen at the cut-off is forgotten too.
Forgotten_MutantAtCutOff == {a \in Seen : visitors[a] <= cutOff}

Forgotten == {a \in Seen : visitors[a] < cutOff}

CleanupDelete ==
  /\ cutOff # NoCutOff
  /\ visitors' = [a \in Seen \ Forgotten |-> visitors[a]]
  /\ cutOff' = NoCutOff
  /\ UNCHANGED countries

GeoTick == UNCHANGED geoVars

-----------------------------------------------------------------------------
(* Properties.                                                             *)

GeoTypeOK ==
  /\ Seen \subseteq Addresses
  /\ \A a \in Seen : visitors[a] \in 0..now
  /\ countries \in [Countries -> Nat]
  /\ cutOff \in NoCutOff..now

\* What the abstract statistics remember.
age == [a \in Addresses |-> IF Returns(a) THEN now - visitors[a] ELSE Validity + 1]

Visits == INSTANCE VisitCounts WITH counts <- countries

(* Forgetting is invisible: whenever the cleanup runs, also long after it  *)
(* read the clock, the counts are those of a table that keeps every        *)
(* address for ever.                                                       *)
ImplementsVisits == Visits!VisitsSpec
=============================================================================
