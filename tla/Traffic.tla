------------------------------- MODULE Traffic -------------------------------
(***************************************************************************)
(* What a request meets before the handlers, in the order of router.go:    *)
(* the rate limiter, then the visitor statistics, which record it by a     *)
(* goroutine of their own.  The two find the address in different ways:    *)
(* the limiter trusts the proxy's headers only if it is told to, the       *)
(* statistics always do.                                                   *)
(*                                                                         *)
(* A second limiter of the same kind, with other constants, stands before  *)
(* the routes of auth; nothing is shared between the two.                  *)
(***************************************************************************)
EXTENDS RateLimiter, GeoStats, FiniteSetsExt

CONSTANTS
  Origins,        \* what requests come with: remote, headers, code
  Canon,          \* net.ParseIP(...).String() of the valid addresses
  PrivateIPs,     \* the addresses of the private networks
  TrustedProxy    \* cfg.Proxy.Trusted

ASSUME OriginsAssumption == \A o \in Origins :
  DOMAIN o.headers \subseteq Nat /\ o.code \in Countries \cup {NoCountry}
ASSUME CanonAssumption == DOMAIN Canon = Addresses /\ \A a \in Addresses : Canon[a] \in IPs

VARIABLES
  origin,   \* where each request comes from
  recorder  \* the goroutine that records each request

trafficVars == <<now, limiterVars, geoVars, origin, recorder>>

TrafficInit ==
  /\ ClockInit /\ LimiterInit /\ GeoInit
  /\ origin \in [Requests -> Origins]
  /\ recorder = [r \in Requests |-> "none"]

-----------------------------------------------------------------------------
(* ip.go.                                                                  *)

\* getDirectClientIPValidated.
DirectIP(o) == IF o.remote \in Addresses THEN o.remote ELSE NoIP

\* A header's address that is none or a private one is passed over.
Public(a) == a \in Addresses \ PrivateIPs

ProxyIP(o) ==
  LET good == {i \in DOMAIN o.headers : Public(o.headers[i])} IN
  IF good = {} THEN DirectIP(o) ELSE o.headers[Min(good)]

ClientIP(o) == IF TrustedProxy THEN ProxyIP(o) ELSE DirectIP(o)

LimiterKey(o) == IF ClientIP(o) = NoIP THEN NoIP ELSE Canon[ClientIP(o)]

-----------------------------------------------------------------------------
Limit(r) ==
  /\ (LimiterLookup(r, LimiterKey(origin[r])) \/ Limiting(r))
  /\ UNCHANGED <<now, geoVars, origin, recorder>>

\* Slip: the statistics stand before the limiter.
Spawn_MutantOutside(r) ==
  /\ recorder[r] = "none"
  /\ recorder' = [recorder EXCEPT ![r] = "spawned"]
  /\ UNCHANGED <<now, limiterVars, geoVars, origin>>

\* GeoStats.Middleware, inside the limiter.
Spawn(r) ==
  /\ rpc[r] = "admitted" /\ recorder[r] = "none"
  /\ recorder' = [recorder EXCEPT ![r] = "spawned"]
  /\ UNCHANGED <<now, limiterVars, geoVars, origin>>

\* The goroutine: a request without an address is not recorded.
RunRecorder(r) ==
  /\ recorder[r] = "spawned"
  /\ recorder' = [recorder EXCEPT ![r] = "done"]
  /\ LET a == ProxyIP(origin[r]) IN
       IF a = NoIP THEN UNCHANGED geoVars ELSE Record(a, origin[r].code)
  /\ UNCHANGED <<now, limiterVars, origin>>

Cleanup ==
  /\ \/ LimiterCleanup /\ UNCHANGED geoVars
     \/ (CleanupStart \/ CleanupDelete) /\ UNCHANGED limiterVars
  /\ UNCHANGED <<now, origin, recorder>>

Tick ==
  /\ ClockTick /\ LimiterTick /\ GeoTick
  /\ UNCHANGED <<origin, recorder>>

TrafficNext ==
  \/ \E r \in Requests : Limit(r) \/ Spawn(r) \/ RunRecorder(r)
  \/ Cleanup
  \/ Tick

TrafficSpec == TrafficInit /\ [][TrafficNext]_trafficVars

-----------------------------------------------------------------------------
(* Properties.                                                             *)

\* Types of both components and of the goroutines between them.
TypeOK ==
  /\ now \in 0..MaxTime
  /\ LimiterTypeOK /\ GeoTypeOK
  /\ origin \in [Requests -> Origins]
  /\ recorder \in [Requests -> {"none", "spawned", "done"}]

(* README's "Shield": what the limiter refuses leaves no trace behind it.  *)
(* Each visit counted for a country is that of a request of its own, which *)
(* was admitted and came from there: the counts are bounded by what the    *)
(* buckets admit.                                                          *)
AdmittedFrom(c) == {r \in Requests : rpc[r] = "admitted" /\ Country(origin[r].code) = c}
CountsAreAdmitted == \A c \in Countries : countries[c] <= Cardinality(AdmittedFrom(c))
=============================================================================
