----------------------------- MODULE TrafficProofs -----------------------------
(***************************************************************************)
(* Theorems about Traffic, for any requests, addresses and limits.         *)
(*                                                                         *)
(* The statistics refine VisitCounts: GeoInv says that the cleanup's       *)
(* cut-off never lies after Validity ago, however long ago it was read.    *)
(* For the limiter LimiterInv relates the time a request had its bucket to *)
(* the time the bucket was last seen.  It refines TokenBuckets: CreditInv  *)
(* says that a bucket's time is not far from when it was last seen, and    *)
(* Covered that what all the reservations may still give back when they    *)
(* are cancelled, weighed by the potential Pot, never exceeds what the     *)
(* bucket is behind, unless its time was set back under one of them.       *)
(***************************************************************************)
EXTENDS Traffic, WellFoundedInduction, FiniteSetTheorems, TLAPS

-----------------------------------------------------------------------------
(* Addresses.                                                              *)

\* A set of positions has a first one.
LEMMA FirstPosition ==
  ASSUME NEW S \in SUBSET Nat, S # {}
  PROVE  Min(S) \in S /\ \A y \in S : Min(S) <= y
<1> DEFINE R == OpToRel(<, Nat)
<1>1. \A x, y \in Nat : <<y, x>> \in R <=> y < x
  BY DEF OpToRel
<1>2. IsWellFoundedOn(R, Nat)
  BY NatLessThanWellFounded
<1> HIDE DEF R
<1>3. PICK x \in S : \A y \in S : ~ (<<y, x>> \in R)
  BY <1>2, WFMin
<1>4. \A y \in S : x <= y
  <2> SUFFICES ASSUME NEW y \in S
               PROVE  x <= y
    OBVIOUS
  <2>1. x \in Nat /\ y \in Nat
    OBVIOUS
  <2>2. ~ (y < x)
    BY <1>1, <1>3, <2>1
  <2> QED BY <2>1, <2>2
<1> QED BY <1>4 DEF Min

\* The address a request comes from is one of Addresses or none.
LEMMA AddressTypes ==
  ASSUME NEW o \in Origins
  PROVE  /\ DirectIP(o) \in Addresses \cup {NoIP}
         /\ ProxyIP(o) \in Addresses \cup {NoIP}
         /\ LimiterKey(o) \in IPs \cup {NoIP}
         /\ o.code \in Countries \cup {NoCountry}
<1>1. DirectIP(o) \in Addresses \cup {NoIP}
  BY DEF DirectIP
<1>2. ProxyIP(o) \in Addresses \cup {NoIP}
  <2> DEFINE good == {i \in DOMAIN o.headers : Public(o.headers[i])}
  <2>1. CASE good = {}
    BY <1>1, <2>1 DEF ProxyIP
  <2>2. CASE good # {}
    <3>1. good \in SUBSET Nat
      BY OriginsAssumption
    <3>2. Min(good) \in good
      BY <2>2, <3>1, FirstPosition
    <3> QED BY <2>2, <3>2 DEF ProxyIP, Public
  <2> QED BY <2>1, <2>2
<1>3. LimiterKey(o) \in IPs \cup {NoIP}
  BY <1>1, <1>2, CanonAssumption DEF LimiterKey, ClientIP
<1> QED BY <1>1, <1>2, <1>3, OriginsAssumption

-----------------------------------------------------------------------------
(* The statistics.                                                         *)

GeoInv ==
  /\ now \in Nat
  /\ Seen \subseteq Addresses /\ \A a \in Seen : visitors[a] \in 0..now
  /\ countries \in [Countries -> Nat]
  /\ cutOff \in Int /\ cutOff <= now - Validity
  /\ origin \in [Requests -> Origins]

LEMMA RecordStep ==
  ASSUME GeoInv, NEW a \in Addresses, NEW code \in Countries \cup {NoCountry},
         Record(a, code), UNCHANGED <<now, origin>>
  PROVE  GeoInv' /\ \E c \in Countries : Visits!Visit(a, c)
<1> DEFINE c == Country(code)
<1>0. Validity \in Nat /\ c \in Countries
  BY ValidityAssumption, CountryAssumption DEF Country
<1>1. /\ Seen' = Seen \cup {a} /\ visitors'[a] = now
      /\ \A b \in Seen \ {a} : visitors'[b] = visitors[b]
      /\ countries' = IF Returns(a) THEN countries ELSE [countries EXCEPT ![c] = @ + 1]
      /\ UNCHANGED cutOff
  BY DEF Record, Seen
<1>2. GeoInv'
  BY <1>0, <1>1 DEF GeoInv
<1>3. \A b \in Addresses : b # a => age'[b] = age[b]
  BY <1>1 DEF age, Returns, Seen
<1>4. age'[a] = 0
  BY <1>0, <1>1 DEF age, Returns, GeoInv
<1>5. age[a] = Visits!Old <=> ~Returns(a)
  BY <1>0 DEF age, Returns, GeoInv, Visits!Old
<1>6. age' = [age EXCEPT ![a] = 0]
  BY <1>3, <1>4 DEF age
<1>7. Visits!Visit(a, c)
  BY <1>1, <1>5, <1>6 DEF Visits!Visit
<1> QED BY <1>0, <1>2, <1>7

LEMMA CleanupDeleteStep ==
  ASSUME GeoInv, CleanupDelete, UNCHANGED <<now, origin>>
  PROVE  GeoInv' /\ UNCHANGED <<age, countries>>
<1>0. Validity \in Nat
  BY ValidityAssumption
<1>1. /\ Seen' = Seen \ Forgotten /\ \A a \in Seen' : visitors'[a] = visitors[a]
      /\ UNCHANGED countries /\ cutOff' = NoCutOff
  BY DEF CleanupDelete, Seen
<1>2. GeoInv'
  BY <1>0, <1>1 DEF GeoInv, NoCutOff
<1>3. \A a \in Forgotten : ~Returns(a)
  BY <1>0 DEF GeoInv, Forgotten, Returns
<1>4. \A a \in Addresses : Returns(a)' <=> Returns(a)
  BY <1>1, <1>3 DEF Returns
<1>5. \A a \in Addresses : age'[a] = age[a]
  BY <1>1, <1>3, <1>4 DEF age, Returns
<1>6. age' = age
  BY <1>5 DEF age
<1> QED BY <1>1, <1>2, <1>6

LEMMA GeoTickStep ==
  ASSUME GeoInv, ClockTick, GeoTick, UNCHANGED origin
  PROVE  GeoInv' /\ Visits!TimePasses
<1>0. Validity \in Nat /\ now' = now + 1
  BY ValidityAssumption DEF ClockTick
<1>1. GeoInv'
  BY <1>0 DEF GeoInv, GeoTick, geoVars, Seen
<1>2. \A a \in Addresses : age'[a] = Visits!Aged(age[a])
  BY <1>0 DEF GeoInv, GeoTick, geoVars, age, Returns, Seen, Visits!Aged, Visits!Old
<1>3. age' = [a \in Addresses |-> Visits!Aged(age[a])]
  BY <1>2 DEF age
<1> QED BY <1>1, <1>3 DEF Visits!TimePasses, GeoTick, geoVars

LEMMA SameGeo ==
  ASSUME GeoInv, UNCHANGED <<now, geoVars, origin>>
  PROVE  GeoInv' /\ UNCHANGED <<age, countries>>
BY DEF GeoInv, geoVars, Seen, age, Returns

LEMMA GeoStep ==
  ASSUME GeoInv, [TrafficNext]_trafficVars
  PROVE  GeoInv' /\ [Visits!VisitsNext]_<<age, countries>>
<1>1. ASSUME NEW r \in Requests, RunRecorder(r)
      PROVE  GeoInv' /\ [Visits!VisitsNext]_<<age, countries>>
  <2>1. origin[r] \in Origins /\ UNCHANGED <<now, origin>>
    BY <1>1 DEF GeoInv, RunRecorder
  <2>2. CASE UNCHANGED geoVars
    BY <2>1, <2>2, SameGeo
  <2>3. CASE ProxyIP(origin[r]) # NoIP
    BY <1>1, <2>1, <2>3, AddressTypes, RecordStep DEF RunRecorder, Visits!VisitsNext
  <2> QED BY <1>1, <2>2, <2>3 DEF RunRecorder
<1>2. ASSUME Cleanup
      PROVE  GeoInv' /\ [Visits!VisitsNext]_<<age, countries>>
  <2>1. UNCHANGED <<now, origin>>
    BY <1>2 DEF Cleanup
  <2>2. CASE UNCHANGED geoVars
    BY <2>1, <2>2, SameGeo
  <2>3. CASE CleanupStart
    <3>1. GeoInv'
      BY <2>1, <2>3, ValidityAssumption DEF CleanupStart, GeoInv, Seen
    <3>2. UNCHANGED <<age, countries>>
      BY <2>1, <2>3 DEF CleanupStart, age, Returns, Seen
    <3> QED BY <3>1, <3>2
  <2>4. CASE CleanupDelete
    BY <2>1, <2>4, CleanupDeleteStep
  <2> QED BY <1>2, <2>2, <2>3, <2>4 DEF Cleanup
<1>3. ASSUME Tick
      PROVE  GeoInv' /\ [Visits!VisitsNext]_<<age, countries>>
  BY <1>3, GeoTickStep DEF Tick, Visits!VisitsNext
<1>4. ASSUME UNCHANGED <<now, geoVars, origin>>
      PROVE  GeoInv' /\ [Visits!VisitsNext]_<<age, countries>>
  BY <1>4, SameGeo
<1> QED BY <1>1, <1>2, <1>3, <1>4 DEF TrafficNext, Limit, Spawn, trafficVars

LEMMA GeoStart == TrafficInit => GeoInv /\ Visits!VisitsInit
<1> SUFFICES ASSUME TrafficInit
             PROVE  GeoInv /\ Visits!VisitsInit
  OBVIOUS
<1>1. Seen = {}
  BY DEF TrafficInit, GeoInit, Seen
<1>2. GeoInv
  BY <1>1, ValidityAssumption DEF TrafficInit, GeoInit, ClockInit, GeoInv, NoCutOff
<1>3. age = [a \in Addresses |-> Visits!Old]
  BY <1>1 DEF age, Returns, Visits!Old
<1> QED BY <1>2, <1>3 DEF Visits!VisitsInit, TrafficInit, GeoInit

(* The counts are those of a table that keeps every address for ever: the  *)
(* cleanup, and how late it runs, changes none.                            *)
THEOREM VisitsRefined == TrafficSpec => ImplementsVisits
<1>1. GeoInv /\ [TrafficNext]_trafficVars => GeoInv' /\ [Visits!VisitsNext]_<<age, countries>>
  BY GeoStep
<1> QED BY <1>1, GeoStart, PTL DEF TrafficSpec, ImplementsVisits, Visits!VisitsSpec

-----------------------------------------------------------------------------
(* The limiter.                                                            *)

BucketType == [tokens : Int, last : Int, lastEvent : Int, seen : Int]

(* Each step of a request comes within MaxLag of the one before, and the   *)
(* bucket was seen when the request had it from the map, or since.         *)
HoldersFresh ==
  \A r \in Requests : rpc[r] \in InUse =>
    /\ rip[r] \in IPs /\ Known(rip[r])
    /\ rsince[r] <= now /\ now - rsince[r] <= MaxLag
    /\ rpc[r] = "allow" => bucket[rip[r]].seen >= rsince[r]
    /\ rpc[r] = "reserve" => bucket[rip[r]].seen + MaxLag >= rsince[r]
    /\ bucket[rip[r]].seen + 2 * MaxLag >= rsince[r]

LimiterInv ==
  /\ now \in Nat
  /\ bucket \in [IPs -> BucketType]
  /\ \A ip \in IPs : Known(ip) <=> bucket[ip].seen >= 0
  /\ \A ip \in IPs : bucket[ip].seen <= now
  /\ rpc \in [Requests -> RPC]
  /\ rip \in [Requests -> IPs \cup {NoIP}]
  /\ rsince \in [Requests -> Nat] /\ ract \in [Requests -> Int]
  /\ origin \in [Requests -> Origins]
  /\ HoldersFresh

LEMMA FullFacts ==
  /\ Full \in Nat /\ Full > 0 /\ Cost \in Nat
  /\ MaxLag \in Nat /\ InactiveLimit \in Nat /\ 3 * MaxLag <= InactiveLimit
<1>1. \A m, n \in Nat \ {0} : m * n \in Nat \ {0}
  OBVIOUS
<1>2. Full \in Nat \ {0}
  BY <1>1, BucketAssumption DEF Full
<1> QED BY <1>2, BucketAssumption, InactiveAssumption DEF Full

LEMMA FilledTypes ==
  ASSUME NEW k \in Int, NEW s \in Int, NEW t \in Int
  PROVE  Filled(k, s, t) \in Int /\ (k <= Full => Filled(k, s, t) <= Full)
BY FullFacts DEF Filled

\* rate's operations leave lastSeen alone.
LEMMA BucketOps ==
  ASSUME NEW b \in BucketType, NEW act \in Int, NEW t \in Int
  PROVE  /\ Tokens(b, t) \in Int
         /\ Taken(b, t) \in BucketType /\ Taken(b, t).seen = b.seen
         /\ Cancelled(b, act, t) \in BucketType /\ Cancelled(b, act, t).seen = b.seen
<1>1. Tokens(b, t) \in Int
  BY FilledTypes DEF Tokens, BucketType
<1>2. Taken(b, t) \in BucketType /\ Taken(b, t).seen = b.seen
  <2> DEFINE left == Tokens(b, t) - Cost
             event == IF left < 0 THEN t - left ELSE t
  <2>1. Taken(b, t) = [b EXCEPT !.tokens = left, !.last = t, !.lastEvent = event]
    BY DEF Taken
  <2>2. left \in Int /\ event \in Int
    BY <1>1, FullFacts
  <2> HIDE DEF left, event
  <2> QED BY <2>1, <2>2 DEF BucketType
<1>3. Cancelled(b, act, t) \in BucketType /\ Cancelled(b, act, t).seen = b.seen
  <2> DEFINE restore == Cost - (b.lastEvent - act)
             left == IF Tokens(b, t) + restore < Full THEN Tokens(b, t) + restore ELSE Full
             event == IF act = b.lastEvent /\ act - Cost >= t THEN act - Cost ELSE b.lastEvent
  <2>1. Cancelled(b, act, t) \in {b, [b EXCEPT !.tokens = left, !.last = t, !.lastEvent = event]}
    BY DEF Cancelled
  <2>2. left \in Int /\ event \in Int
    BY <1>1, FullFacts DEF BucketType
  <2> HIDE DEF left, event
  <2> QED BY <2>1, <2>2 DEF BucketType
<1> QED BY <1>1, <1>2, <1>3

LEMMA LookupStep ==
  ASSUME LimiterInv, NEW r \in Requests, NEW ip \in IPs \cup {NoIP}, LimiterLookup(r, ip),
         UNCHANGED <<now, origin>>
  PROVE  LimiterInv'
<1>1. CASE ip = NoIP
  <2>1. /\ rpc' = [rpc EXCEPT ![r] = "invalid"] /\ rip' = [rip EXCEPT ![r] = NoIP]
        /\ rsince' = [rsince EXCEPT ![r] = 0] /\ ract' = [ract EXCEPT ![r] = 0]
        /\ UNCHANGED bucket
    BY <1>1 DEF LimiterLookup, Leave
  <2>2. HoldersFresh'
    <3>1. \A s \in Requests : rpc'[s] \in InUse =>
            rpc[s] \in InUse /\ rpc'[s] = rpc[s] /\ rip'[s] = rip[s] /\ rsince'[s] = rsince[s]
      BY <2>1 DEF LimiterInv, InUse
    <3> QED BY <2>1, <3>1 DEF LimiterInv, HoldersFresh, Known
  <2> QED BY <2>1, <2>2 DEF LimiterInv, RPC, Ended, Known
<1>2. CASE ip # NoIP
  <2>1. /\ rpc' = [rpc EXCEPT ![r] = "allow"] /\ rip' = [rip EXCEPT ![r] = ip]
        /\ rsince' = [rsince EXCEPT ![r] = now]
        /\ bucket' = [bucket EXCEPT ![ip] =
                        IF Known(ip) THEN [bucket[ip] EXCEPT !.seen = now] ELSE NewBucket]
        /\ UNCHANGED ract /\ ip \in IPs
    BY <1>2 DEF LimiterLookup
  <2>2. /\ bucket'[ip] \in BucketType /\ bucket'[ip].seen = now /\ bucket' \in [IPs -> BucketType]
        /\ \A i \in IPs \ {ip} : bucket'[i] = bucket[i]
    <3>1. [bucket[ip] EXCEPT !.seen = now] \in BucketType /\ NewBucket \in BucketType
      BY <2>1, FullFacts DEF LimiterInv, BucketType, NewBucket
    <3>2. [bucket[ip] EXCEPT !.seen = now].seen = now /\ NewBucket.seen = now
      BY <2>1 DEF LimiterInv, BucketType, NewBucket
    <3> QED BY <2>1, <3>1, <3>2 DEF LimiterInv
  <2>3. Known(ip)' /\ \A i \in IPs \ {ip} : Known(i)' <=> Known(i)
    <3>1. NoBucket.seen = -1
      BY DEF NoBucket
    <3> QED BY <2>2, <3>1 DEF LimiterInv, Known, NoBucket
  <2>4. HoldersFresh'
    <3> SUFFICES ASSUME NEW s \in Requests, rpc'[s] \in InUse
                 PROVE  /\ rip'[s] \in IPs /\ Known(rip[s])'
                        /\ rsince'[s] <= now' /\ now' - rsince'[s] <= MaxLag
                        /\ rpc'[s] = "allow" => bucket'[rip'[s]].seen >= rsince'[s]
                        /\ rpc'[s] = "reserve" => bucket'[rip'[s]].seen + MaxLag >= rsince'[s]
                        /\ bucket'[rip'[s]].seen + 2 * MaxLag >= rsince'[s]
      BY DEF HoldersFresh
    <3>1. CASE s = r
      <4>1. rip'[s] = ip /\ rsince'[s] = now
        BY <2>1, <3>1 DEF LimiterInv
      <4>2. Known(rip[s])'
        BY <2>3, <4>1 DEF Known
      <4> QED BY <2>1, <2>2, <4>1, <4>2, FullFacts DEF LimiterInv
    <3>2. CASE s # r
      <4>1. rip'[s] = rip[s] /\ rsince'[s] = rsince[s] /\ rpc'[s] = rpc[s] /\ rpc[s] \in InUse
        BY <2>1, <3>2 DEF LimiterInv
      <4>2. /\ rip[s] \in IPs /\ Known(rip[s])
            /\ rsince[s] <= now /\ now - rsince[s] <= MaxLag
            /\ rpc[s] = "allow" => bucket[rip[s]].seen >= rsince[s]
            /\ rpc[s] = "reserve" => bucket[rip[s]].seen + MaxLag >= rsince[s]
            /\ bucket[rip[s]].seen + 2 * MaxLag >= rsince[s]
        BY <4>1 DEF LimiterInv, HoldersFresh
      <4>3. bucket'[rip[s]].seen >= bucket[rip[s]].seen /\ Known(rip[s])'
        <5>1. bucket[rip[s]].seen \in Int /\ bucket[rip[s]].seen <= now
          BY <4>2 DEF LimiterInv, BucketType
        <5>2. CASE rip[s] = ip
          BY <2>1, <2>2, <2>3, <4>1, <4>2, <5>1, <5>2 DEF Known
        <5>3. CASE rip[s] # ip
          BY <2>1, <2>2, <2>3, <4>1, <4>2, <5>1, <5>3 DEF Known
        <5> QED BY <5>2, <5>3
      <4>4. bucket[rip[s]].seen \in Int /\ bucket'[rip[s]].seen \in Int /\ rsince[s] \in Int /\ MaxLag \in Int
        BY <2>2, <4>2, FullFacts DEF LimiterInv, BucketType
      <4> QED BY <2>1, <4>1, <4>2, <4>3, <4>4
    <3> QED BY <3>1, <3>2
  <2> QED BY <2>1, <2>2, <2>3, <2>4 DEF LimiterInv, RPC, InUse
<1> QED BY <1>1, <1>2

\* A step that uses the bucket of one address, the one it had before.
LEMMA UsedBucket ==
  ASSUME LimiterInv, NEW r \in Requests, Limiting(r)
  PROVE  /\ rpc[r] \in {"allow", "reserve", "cancel"} /\ rip[r] \in IPs /\ Known(rip[r])
         /\ bucket[rip[r]] \in BucketType /\ ract[r] \in Int /\ now \in Nat
         /\ rsince[r] \in Nat /\ rsince[r] <= now /\ now - rsince[r] <= MaxLag
         /\ rpc[r] = "allow" => bucket[rip[r]].seen >= rsince[r]
         /\ rpc[r] = "reserve" => bucket[rip[r]].seen + MaxLag >= rsince[r]
         /\ bucket[rip[r]].seen + 2 * MaxLag >= rsince[r]
         /\ \A i \in IPs \ {rip[r]} : bucket'[i] = bucket[i]
         /\ \E t \in Read(r) :
              bucket'[rip[r]] \in {bucket[rip[r]], Taken(bucket[rip[r]], t),
                                   Cancelled(bucket[rip[r]], ract[r], t)}
<1>1. rpc[r] \in {"allow", "reserve", "cancel"}
  BY DEF Limiting, LimiterAllow, LimiterReserve, LimiterCancel
<1>2. /\ rip[r] \in IPs /\ Known(rip[r]) /\ rsince[r] <= now /\ now - rsince[r] <= MaxLag
      /\ rpc[r] = "allow" => bucket[rip[r]].seen >= rsince[r]
      /\ rpc[r] = "reserve" => bucket[rip[r]].seen + MaxLag >= rsince[r]
      /\ bucket[rip[r]].seen + 2 * MaxLag >= rsince[r]
  BY <1>1 DEF LimiterInv, HoldersFresh, InUse
<1>3. Read(r) # {} /\ rsince[r] \in Nat /\ now \in Nat
  BY <1>2 DEF Read, LimiterInv
<1>4. \E t \in Read(r) :
        bucket' \in {bucket, [bucket EXCEPT ![rip[r]] = Taken(bucket[rip[r]], t)],
                    [bucket EXCEPT ![rip[r]] = Cancelled(bucket[rip[r]], ract[r], t)]}
  <2>1. CASE LimiterAllow(r)
    BY <1>3, <2>1 DEF LimiterAllow
  <2>2. CASE LimiterReserve(r)
    BY <2>2 DEF LimiterReserve
  <2>3. CASE LimiterCancel(r)
    BY <2>3 DEF LimiterCancel
  <2> QED BY <2>1, <2>2, <2>3 DEF Limiting
<1> QED BY <1>1, <1>2, <1>3, <1>4 DEF LimiterInv

\* The steps that use a bucket leave it in the map with its lastSeen.
LEMMA UsedSeen ==
  ASSUME LimiterInv, NEW r \in Requests, Limiting(r)
  PROVE  /\ bucket' \in [IPs -> BucketType]
         /\ \A i \in IPs : bucket'[i].seen = bucket[i].seen /\ (Known(i)' <=> Known(i))
<1> PICK ip : ip = rip[r]
  OBVIOUS
<1>1. PICK t \in Read(r) :
        bucket'[ip] \in {bucket[ip], Taken(bucket[ip], t), Cancelled(bucket[ip], ract[r], t)}
  BY UsedBucket
<1>2. ip \in IPs /\ bucket[ip] \in BucketType /\ ract[r] \in Int /\ t \in Int
      /\ Known(ip) /\ \A i \in IPs \ {ip} : bucket'[i] = bucket[i]
  BY UsedBucket DEF Read
<1>3. bucket'[ip] \in BucketType /\ bucket'[ip].seen = bucket[ip].seen
  <2>1. /\ Taken(bucket[ip], t) \in BucketType /\ Taken(bucket[ip], t).seen = bucket[ip].seen
        /\ Cancelled(bucket[ip], ract[r], t) \in BucketType
        /\ Cancelled(bucket[ip], ract[r], t).seen = bucket[ip].seen
    BY <1>2, BucketOps
  <2> QED BY <1>1, <1>2, <2>1
<1>4. bucket' = [i \in IPs |-> bucket'[i]]
  BY DEF Limiting, LimiterAllow, LimiterReserve, LimiterCancel, LimiterInv
<1>5. bucket' \in [IPs -> BucketType] /\ \A i \in IPs : bucket'[i].seen = bucket[i].seen
  BY <1>2, <1>3, <1>4 DEF LimiterInv
<1>6. \A i \in IPs : Known(i)' <=> Known(i)
  <2>1. Known(ip)'
    <3>1. bucket'[ip].seen >= 0
      BY <1>2, <1>3 DEF LimiterInv
    <3> QED BY <3>1 DEF Known, NoBucket
  <2>2. \A i \in IPs \ {ip} : Known(i)' <=> Known(i)
    BY <1>2 DEF Known
  <2> QED BY <1>2, <2>1, <2>2
<1> QED BY <1>5, <1>6

LEMMA UseStep ==
  ASSUME LimiterInv, NEW r \in Requests, Limiting(r), UNCHANGED <<now, origin>>
  PROVE  LimiterInv'
<1>1. /\ rpc' \in [Requests -> RPC] /\ rip' \in [Requests -> IPs \cup {NoIP}]
      /\ rsince' \in [Requests -> Nat] /\ ract' \in [Requests -> Int]
      /\ \A s \in Requests \ {r} : rpc'[s] = rpc[s] /\ rip'[s] = rip[s] /\ rsince'[s] = rsince[s]
      /\ \/ rpc'[r] \in Ended
         \/ /\ rip'[r] = rip[r] /\ rsince'[r] = now
            /\ \/ rpc[r] = "allow" /\ rpc'[r] = "reserve"
               \/ rpc[r] = "reserve" /\ rpc'[r] = "cancel"
  <2>0. now \in Nat /\ rip[r] \in IPs /\ bucket[rip[r]] \in BucketType
    BY UsedBucket
  <2>1. \A t \in Read(r) : Taken(bucket[rip[r]], t).lastEvent \in Int
    BY <2>0, BucketOps DEF BucketType, Read
  <2>2. CASE LimiterAllow(r)
    <3>1. \/ Leave(r, "admitted")
          \/ Step(r, "reserve") /\ UNCHANGED ract
      BY <2>2 DEF LimiterAllow
    <3>2. rpc[r] = "allow"
      BY <2>2 DEF LimiterAllow
    <3> QED BY <2>0, <3>1, <3>2 DEF Leave, Step, LimiterInv, RPC, InUse, Ended
  <2>3. CASE LimiterReserve(r)
    <3>1. /\ rpc[r] = "reserve" /\ Step(r, "cancel")
          /\ \E t \in Read(r) : ract' = [ract EXCEPT ![r] = Taken(bucket[rip[r]], t).lastEvent]
      BY <2>3 DEF LimiterReserve
    <3>2. ract' \in [Requests -> Int]
      BY <2>1, <3>1 DEF LimiterInv
    <3> QED BY <2>0, <3>1, <3>2 DEF Step, LimiterInv, RPC, InUse
  <2>4. CASE LimiterCancel(r)
    <3>1. Leave(r, "refused")
      BY <2>4 DEF LimiterCancel
    <3> QED BY <3>1 DEF Leave, LimiterInv, RPC, Ended
  <2> QED BY <2>2, <2>3, <2>4 DEF Limiting
<1>2. HoldersFresh'
  <2> SUFFICES ASSUME NEW s \in Requests, rpc'[s] \in InUse
               PROVE  /\ rip'[s] \in IPs /\ Known(rip[s])'
                      /\ rsince'[s] <= now' /\ now' - rsince'[s] <= MaxLag
                      /\ rpc'[s] = "allow" => bucket'[rip'[s]].seen >= rsince'[s]
                      /\ rpc'[s] = "reserve" => bucket'[rip'[s]].seen + MaxLag >= rsince'[s]
                      /\ bucket'[rip'[s]].seen + 2 * MaxLag >= rsince'[s]
    BY DEF HoldersFresh
  <2>1. CASE s = r
    <3>1. /\ rip[r] \in IPs /\ Known(rip[r]) /\ bucket[rip[r]] \in BucketType /\ now \in Nat
          /\ rsince[r] \in Nat /\ rsince[r] <= now /\ now - rsince[r] <= MaxLag
          /\ rpc[r] = "allow" => bucket[rip[r]].seen >= rsince[r]
          /\ rpc[r] = "reserve" => bucket[rip[r]].seen + MaxLag >= rsince[r]
          /\ MaxLag \in Nat /\ bucket'[rip[r]].seen = bucket[rip[r]].seen
          /\ bucket'[rip[r]] # NoBucket
      BY UsedBucket, UsedSeen, FullFacts DEF Known
    <3>2. bucket[rip[r]].seen \in Int
      BY <3>1 DEF BucketType
    <3>3. /\ rip'[s] = rip[r] /\ rsince'[s] = now
          /\ \/ rpc[r] = "allow" /\ rpc'[s] = "reserve"
             \/ rpc[r] = "reserve" /\ rpc'[s] = "cancel"
      BY <1>1, <2>1 DEF Ended, InUse
    <3> QED BY <3>1, <3>2, <3>3 DEF Known
  <2>2. CASE s # r
    <3>1. rpc'[s] = rpc[s] /\ rip'[s] = rip[s] /\ rsince'[s] = rsince[s]
      BY <1>1, <2>2
    <3>2. /\ rip[s] \in IPs /\ Known(rip[s])
          /\ rsince[s] <= now /\ now - rsince[s] <= MaxLag
          /\ rpc[s] = "allow" => bucket[rip[s]].seen >= rsince[s]
          /\ rpc[s] = "reserve" => bucket[rip[s]].seen + MaxLag >= rsince[s]
          /\ bucket[rip[s]].seen + 2 * MaxLag >= rsince[s]
      BY <3>1 DEF LimiterInv, HoldersFresh
    <3>3. bucket'[rip[s]].seen = bucket[rip[s]].seen /\ (Known(rip[s])' <=> bucket'[rip[s]] # NoBucket)
          /\ bucket'[rip[s]] # NoBucket
      BY <3>1, <3>2, UsedSeen DEF Known
    <3> QED BY <3>1, <3>2, <3>3
  <2> QED BY <2>1, <2>2
<1>3. /\ bucket' \in [IPs -> BucketType]
      /\ \A i \in IPs : bucket'[i].seen = bucket[i].seen /\ (Known(i)' <=> Known(i))
  BY UsedSeen
<1> QED BY <1>1, <1>2, <1>3 DEF LimiterInv

\* The cleanup: a bucket in use was seen at most three times MaxLag ago.
LEMMA CleanupStep ==
  ASSUME LimiterInv, LimiterCleanup, UNCHANGED <<now, origin>>
  PROVE  LimiterInv'
<1>1. /\ bucket' = [ip \in IPs |-> IF Stale(ip) THEN NoBucket ELSE bucket[ip]]
      /\ UNCHANGED <<rpc, rip, rsince, ract>>
  BY DEF LimiterCleanup
<1>2. NoBucket \in BucketType /\ NoBucket.seen = -1
  BY DEF NoBucket, BucketType
<1>3. ASSUME NEW r \in Requests, rpc[r] \in InUse
      PROVE  ~Stale(rip[r])
  <2>1. /\ rip[r] \in IPs /\ now - rsince[r] <= MaxLag
        /\ bucket[rip[r]].seen + 2 * MaxLag >= rsince[r]
    BY <1>3 DEF LimiterInv, HoldersFresh
  <2>2. bucket[rip[r]].seen \in Int /\ now \in Int /\ rsince[r] \in Int
    BY <2>1 DEF LimiterInv, BucketType
  <2> QED BY <2>1, <2>2, FullFacts DEF Stale
<1>4. bucket' \in [IPs -> BucketType] /\ \A ip \in IPs : bucket'[ip].seen <= now
  BY <1>1, <1>2 DEF LimiterInv
<1>5. \A ip \in IPs : Known(ip)' <=> bucket'[ip].seen >= 0
  BY <1>1, <1>2 DEF LimiterInv, Known
<1>6. HoldersFresh'
  BY <1>1, <1>3 DEF LimiterInv, HoldersFresh, Known
<1> QED BY <1>1, <1>4, <1>5, <1>6 DEF LimiterInv

LEMMA LimiterTickStep ==
  ASSUME LimiterInv, ClockTick, LimiterTick, UNCHANGED origin
  PROVE  LimiterInv'
<1>1. now' = now + 1 /\ UNCHANGED <<bucket, rpc, rip, rsince, ract>>
  BY DEF ClockTick, LimiterTick, limiterVars
<1>2. HoldersFresh'
  BY <1>1, FullFacts DEF LimiterInv, HoldersFresh, LimiterTick, Known
<1> QED BY <1>1, <1>2 DEF LimiterInv, BucketType, Known

LEMMA LimiterStep ==
  ASSUME LimiterInv, [TrafficNext]_trafficVars
  PROVE  LimiterInv'
<1>1. ASSUME NEW r \in Requests, Limit(r)
      PROVE  LimiterInv'
  <2>1. LimiterKey(origin[r]) \in IPs \cup {NoIP}
    BY AddressTypes DEF LimiterInv
  <2> QED BY <1>1, <2>1, LookupStep, UseStep DEF Limit
<1>2. ASSUME UNCHANGED <<now, limiterVars, origin>>
      PROVE  LimiterInv'
  BY <1>2 DEF limiterVars, LimiterInv, HoldersFresh, Known
<1>3. Cleanup => LimiterInv'
  BY <1>2, CleanupStep DEF Cleanup
<1>4. Tick => LimiterInv'
  BY LimiterTickStep DEF Tick
<1> QED BY <1>1, <1>2, <1>3, <1>4 DEF TrafficNext, Spawn, RunRecorder, trafficVars

LEMMA LimiterStart == TrafficInit => LimiterInv
<1>1. NoBucket \in BucketType /\ NoBucket.seen = -1
  BY DEF NoBucket, BucketType
<1> QED BY <1>1
  DEF TrafficInit, ClockInit, LimiterInit, LimiterInv, HoldersFresh, RPC, InUse, Known

(* The cleanup never drops a bucket under a request: between its lookup    *)
(* and its last use no second bucket of the address can come to be.        *)
THEOREM HoldersKeep == TrafficSpec => []HoldersKeepBucket
<1>1. LimiterInv /\ [TrafficNext]_trafficVars => LimiterInv'
  BY LimiterStep
<1>2. LimiterInv => HoldersKeepBucket
  BY DEF LimiterInv, HoldersFresh, HoldersKeepBucket
<1> QED BY <1>1, <1>2, LimiterStart, PTL DEF TrafficSpec

-----------------------------------------------------------------------------
(* Types.                                                                  *)

\* What the operations of a bucket keep true of it.
BucketFine(b) == b.tokens <= Full /\ b.last \in 0..now /\ b.lastEvent \in Nat

LEMMA OpsFine ==
  ASSUME now \in Nat, NEW b \in BucketType, NEW act \in Int, BucketFine(b), NEW t \in 0..now
  PROVE  /\ Tokens(b, t) \in Int /\ Tokens(b, t) <= Full
         /\ BucketFine(Taken(b, t)) /\ BucketFine(Cancelled(b, act, t))
         /\ Taken(b, t).tokens = Tokens(b, t) - Cost /\ Taken(b, t).last = t
<1>1. Tokens(b, t) \in Int /\ Tokens(b, t) <= Full
  <2>1. b.tokens \in Int /\ b.last \in Int /\ t \in Int /\ b.tokens <= Full
    BY DEF BucketType, BucketFine
  <2> QED BY <2>1, FilledTypes DEF Tokens
<1>2. BucketFine(Taken(b, t)) /\ Taken(b, t).tokens = Tokens(b, t) - Cost /\ Taken(b, t).last = t
  <2> DEFINE left == Tokens(b, t) - Cost
             event == IF left < 0 THEN t - left ELSE t
  <2>1. Taken(b, t) = [b EXCEPT !.tokens = left, !.last = t, !.lastEvent = event]
    BY DEF Taken
  <2>2. left \in Int /\ left <= Full /\ event \in Nat
    BY <1>1, FullFacts
  <2> HIDE DEF event
  <2> QED BY <2>1, <2>2 DEF BucketType, BucketFine
<1>3. BucketFine(Cancelled(b, act, t))
  <2> DEFINE restore == Cost - (b.lastEvent - act)
             left == IF Tokens(b, t) + restore < Full THEN Tokens(b, t) + restore ELSE Full
             event == IF act = b.lastEvent /\ act - Cost >= t THEN act - Cost ELSE b.lastEvent
  <2>1. Cancelled(b, act, t) \in {b, [b EXCEPT !.tokens = left, !.last = t, !.lastEvent = event]}
    BY DEF Cancelled
  <2>2. left \in Int /\ left <= Full /\ event \in Nat
    BY <1>1, FullFacts DEF BucketType, BucketFine
  <2> HIDE DEF restore, left, event
  <2>3. BucketFine([b EXCEPT !.tokens = left, !.last = t, !.lastEvent = event])
    BY <2>2 DEF BucketType, BucketFine
  <2> QED BY <2>1, <2>3
<1> QED BY <1>1, <1>2, <1>3

BucketsFine ==
  /\ credit \in [IPs -> {k \in Int : k <= Full}]
  /\ crossed \in [IPs -> BOOLEAN]
  /\ \A ip \in IPs : Known(ip) => BucketFine(bucket[ip])

TypesInv ==
  /\ LimiterInv /\ GeoInv /\ BucketsFine
  /\ now <= MaxTime /\ cutOff >= NoCutOff
  /\ recorder \in [Requests -> {"none", "spawned", "done"}]

LEMMA FineStep ==
  ASSUME LimiterInv, LimiterInv', BucketsFine, [TrafficNext]_trafficVars
  PROVE  BucketsFine'
<1>0. Full \in Nat /\ Cost \in Nat /\ now \in Nat
  BY FullFacts DEF LimiterInv
<1>1. ASSUME NEW r \in Requests, LimiterLookup(r, LimiterKey(origin[r])), UNCHANGED <<now, origin>>
      PROVE  BucketsFine'
  <2> DEFINE ip == LimiterKey(origin[r])
  <2>1. ip \in IPs \cup {NoIP}
    BY AddressTypes DEF LimiterInv
  <2>2. CASE ip = NoIP
    BY <1>1, <2>2 DEF LimiterLookup, BucketsFine, BucketFine, Known
  <2>3. CASE ip # NoIP
    <3> HIDE DEF ip
    <3>1. /\ bucket' = [bucket EXCEPT ![ip] =
                          IF Known(ip) THEN [bucket[ip] EXCEPT !.seen = now] ELSE NewBucket]
          /\ UNCHANGED <<credit, crossed>>
      BY <1>1, <2>3 DEF LimiterLookup, ip
    <3>2. BucketFine(NewBucket)
      BY <1>0 DEF BucketFine, NewBucket
    <3>3. Known(ip) => BucketFine([bucket[ip] EXCEPT !.seen = now])
      BY <2>1, <2>3 DEF BucketsFine, BucketFine, LimiterInv, BucketType
    <3>4. \A i \in IPs : bucket'[i] = bucket[i] \/ BucketFine(bucket'[i])
      BY <2>1, <2>3, <3>1, <3>2, <3>3 DEF LimiterInv
    <3> QED BY <1>1, <3>1, <3>4 DEF BucketsFine, BucketFine, Known
  <2> QED BY <2>2, <2>3
<1>2. ASSUME NEW r \in Requests, Limiting(r), UNCHANGED now
      PROVE  BucketsFine'
  <2>0. rip[r] \in IPs /\ bucket[rip[r]] \in BucketType /\ now \in Nat /\ rsince[r] \in Nat
    BY <1>2, UsedBucket
  <2>1. /\ credit' \in [IPs -> {k \in Int : k <= Full}]
        /\ crossed' \in [IPs -> BOOLEAN]
    <3> DEFINE ip == rip[r]
               Kept(t) == Filled(credit[ip], bucket[ip].last, t)
    <3>1. \A t \in Read(r) : Kept(t) \in Int /\ Kept(t) <= Full
      BY <2>0, FilledTypes DEF Read, BucketsFine, BucketType
    <3>2. \E t \in Read(r) : credit' \in {credit, [credit EXCEPT ![ip] = Kept(t)],
                 [credit EXCEPT ![ip] = Kept(t) - Cost], [credit EXCEPT ![ip] = Full]}
      <4>1. CASE LimiterAllow(r)
        BY <4>1 DEF LimiterAllow
      <4>2. CASE LimiterReserve(r)
        BY <4>2 DEF LimiterReserve
      <4>3. CASE LimiterCancel(r)
        <5>1. PICK t \in Read(r) : credit' = [credit EXCEPT ![ip] =
                       IF bucket' = bucket THEN credit[ip]
                       ELSE IF crossed[ip] \/ Backwards(ip) THEN Full ELSE Kept(t)]
          BY <4>3 DEF LimiterCancel
        <5> HIDE DEF Kept
        <5>2. credit' \in {[credit EXCEPT ![ip] = credit[ip]], [credit EXCEPT ![ip] = Full],
                           [credit EXCEPT ![ip] = Kept(t)]}
          BY <5>1
        <5>3. [credit EXCEPT ![ip] = credit[ip]] = credit
          BY DEF BucketsFine
        <5> QED BY <5>2, <5>3
      <4> QED BY <1>2, <4>1, <4>2, <4>3 DEF Limiting
    <3> HIDE DEF Kept
    <3>3. credit' \in [IPs -> {k \in Int : k <= Full}]
      BY <1>0, <2>0, <3>1, <3>2 DEF BucketsFine
    <3>4. UNCHANGED crossed \/ NoteCrossing(r)
      BY <1>2 DEF Limiting, LimiterAllow, LimiterReserve, LimiterCancel
    <3>5. crossed' \in [IPs -> BOOLEAN]
      BY <2>0, <3>4 DEF NoteCrossing, BucketsFine
    <3> QED BY <3>3, <3>5
  <2>2. ASSUME NEW i \in IPs, Known(i)'
        PROVE  BucketFine(bucket[i])'
    <3>1. CASE i # rip[r]
      BY <1>2, <2>2, <3>1, UsedBucket DEF BucketsFine, BucketFine, Known
    <3>2. CASE i = rip[r]
      <4>1. BucketFine(bucket[i]) /\ bucket[i] \in BucketType /\ ract[r] \in Int
        BY <1>2, <3>2, UsedBucket DEF BucketsFine
      <4>2. \A t \in Read(r) :
              BucketFine(Taken(bucket[i], t)) /\ BucketFine(Cancelled(bucket[i], ract[r], t))
        <5>1. \A t \in Read(r) : t \in 0..now
          BY <2>0 DEF Read
        <5> QED BY <1>0, <4>1, <5>1, OpsFine
      <4>3. BucketFine(bucket'[i])
        BY <1>2, <3>2, <4>1, <4>2, UsedBucket
      <4> QED BY <1>2, <4>3 DEF BucketFine
    <3> QED BY <3>1, <3>2
  <2> QED BY <2>1, <2>2 DEF BucketsFine
<1>3. ASSUME LimiterCleanup, UNCHANGED now
      PROVE  BucketsFine'
  <2>1. /\ bucket' = [ip \in IPs |-> IF Stale(ip) THEN NoBucket ELSE bucket[ip]]
        /\ credit' = [ip \in IPs |-> IF Stale(ip) THEN Full ELSE credit[ip]]
        /\ UNCHANGED crossed
    BY <1>3 DEF LimiterCleanup
  <2>2. credit' \in [IPs -> {k \in Int : k <= Full}]
    BY <1>0, <2>1 DEF BucketsFine
  <2>3. \A ip \in IPs : Known(ip)' => Known(ip) /\ bucket'[ip] = bucket[ip]
    BY <2>1 DEF Known
  <2> QED BY <1>3, <2>1, <2>2, <2>3 DEF BucketsFine, BucketFine
<1>4. ASSUME Tick
      PROVE  BucketsFine'
  BY <1>0, <1>4 DEF Tick, ClockTick, LimiterTick, limiterVars, BucketsFine, BucketFine, Known
<1>5. ASSUME UNCHANGED <<now, limiterVars>>
      PROVE  BucketsFine'
  BY <1>5 DEF limiterVars, BucketsFine, BucketFine, Known
<1> QED BY <1>1, <1>2, <1>3, <1>4, <1>5
        DEF TrafficNext, Limit, Spawn, RunRecorder, Cleanup, trafficVars

LEMMA TypesStep == TypesInv /\ [TrafficNext]_trafficVars => TypesInv'
<1> SUFFICES ASSUME TypesInv, [TrafficNext]_trafficVars
             PROVE  TypesInv'
  OBVIOUS
<1>1. LimiterInv' /\ GeoInv' /\ BucketsFine'
  BY LimiterStep, GeoStep, FineStep DEF TypesInv
<1>2. now' <= MaxTime
  BY MaxTimeAssumption
  DEF TypesInv, GeoInv, TrafficNext, Limit, Spawn, RunRecorder, Cleanup, Tick, ClockTick, trafficVars
<1>3. cutOff' >= NoCutOff
  <2>1. cutOff' \in {cutOff, NoCutOff} \/ cutOff' = now - Validity
    BY DEF TrafficNext, Limit, Spawn, RunRecorder, Record, Cleanup, CleanupStart, CleanupDelete,
           Tick, GeoTick, trafficVars, geoVars
  <2> QED BY <2>1, ValidityAssumption DEF TypesInv, GeoInv, NoCutOff
<1>4. recorder' \in [Requests -> {"none", "spawned", "done"}]
  BY DEF TypesInv, TrafficNext, Limit, Spawn, RunRecorder, Cleanup, Tick, trafficVars
<1> QED BY <1>1, <1>2, <1>3, <1>4 DEF TypesInv

LEMMA TypesStart == TrafficInit => TypesInv
<1> SUFFICES ASSUME TrafficInit
             PROVE  TypesInv
  OBVIOUS
<1>1. LimiterInv /\ GeoInv
  BY LimiterStart, GeoStart
<1>2. BucketsFine
  BY FullFacts DEF TrafficInit, LimiterInit, BucketsFine, Known
<1> QED BY <1>1, <1>2, MaxTimeAssumption, ValidityAssumption
        DEF TypesInv, TrafficInit, ClockInit, GeoInit, NoCutOff

LEMMA TypesHold == TypesInv => TypeOK
<1> SUFFICES ASSUME TypesInv
             PROVE  TypeOK
  OBVIOUS
<1>1. LimiterTypeOK
  BY DEF TypesInv, LimiterInv, BucketsFine, BucketFine, BucketType, HoldersFresh, LimiterTypeOK
<1>2. GeoTypeOK
  BY ValidityAssumption DEF TypesInv, GeoInv, GeoTypeOK, NoCutOff
<1> QED BY <1>1, <1>2, MaxTimeAssumption DEF TypesInv, GeoInv, TypeOK

(* The types of limiter, statistics and goroutines: also after a Cancel in *)
(* any order a bucket holds no more than it may, and its events are times. *)
THEOREM TrafficTypes == TrafficSpec => []TypeOK
BY TypesStart, TypesStep, TypesHold, PTL DEF TrafficSpec

-----------------------------------------------------------------------------
(* Counts and admissions.                                                  *)

\* The requests whose goroutine has ended, by country.
Recorded(c) == {r \in Requests : recorder[r] = "done" /\ Country(origin[r].code) = c}

\* A goroutine was spawned for an admitted request, and counts it once.
CountInv ==
  /\ TypesInv
  /\ \A r \in Requests : recorder[r] # "none" => rpc[r] = "admitted"
  /\ \A c \in Countries : countries[c] <= Cardinality(Recorded(c))

LEMMA RecordedFinite ==
  \A c : IsFiniteSet(Recorded(c)) /\ Cardinality(Recorded(c)) \in Nat
BY RequestsAssumption, FS_Subset, FS_CardinalityType DEF Recorded

LEMMA RecorderStep ==
  ASSUME CountInv, NEW r \in Requests, RunRecorder(r)
  PROVE  \A c \in Countries : countries'[c] <= Cardinality(Recorded(c))'
<1> DEFINE home == Country(origin[r].code)
<1>1. /\ recorder[r] = "spawned" /\ recorder' = [recorder EXCEPT ![r] = "done"]
      /\ UNCHANGED origin
      /\ recorder \in [Requests -> {"none", "spawned", "done"}]
      /\ countries \in [Countries -> Nat]
  BY DEF RunRecorder, CountInv, TypesInv, GeoInv
<1>2. countries' \in {countries, [countries EXCEPT ![home] = @ + 1]}
  BY DEF RunRecorder, Record, geoVars
<1> SUFFICES ASSUME NEW c \in Countries
             PROVE  countries'[c] <= Cardinality(Recorded(c)')
  OBVIOUS
<1>3. countries[c] \in Nat /\ countries[c] <= Cardinality(Recorded(c)) /\ Cardinality(Recorded(c)) \in Nat
  BY <1>1, RecordedFinite DEF CountInv
<1>4. CASE c = home
  <2>1. Recorded(c)' = Recorded(c) \cup {r}
    BY <1>1, <1>4 DEF Recorded
  <2>2. r \notin Recorded(c)
    BY <1>1 DEF Recorded
  <2>3. Cardinality(Recorded(c)') = Cardinality(Recorded(c)) + 1
    BY <2>1, <2>2, RecordedFinite, FS_AddElement
  <2>4. countries'[c] <= countries[c] + 1
    BY <1>1, <1>2, <1>3
  <2> QED BY <1>1, <1>2, <1>3, <2>3, <2>4
<1>5. CASE c # home
  <2>1. Recorded(c)' = Recorded(c)
    BY <1>1, <1>5 DEF Recorded
  <2>2. countries'[c] = countries[c]
    BY <1>1, <1>2, <1>5
  <2> QED BY <1>3, <2>1, <2>2
<1> QED BY <1>4, <1>5

LEMMA CountStep == CountInv /\ [TrafficNext]_trafficVars => CountInv'
<1> SUFFICES ASSUME CountInv, [TrafficNext]_trafficVars
             PROVE  CountInv'
  OBVIOUS
<1>1. TypesInv'
  BY TypesStep DEF CountInv
<1>2. \A r \in Requests : rpc[r] = "admitted" => rpc'[r] = "admitted"
  <2>1. ASSUME NEW s \in Requests, Limit(s)
        PROVE  \A r \in Requests : rpc[r] = "admitted" => rpc'[r] = "admitted"
    <3>1. rpc \in [Requests -> RPC]
      BY DEF CountInv, TypesInv, LimiterInv
    <3>2. rpc[s] # "admitted"
      BY <2>1 DEF Limit, LimiterLookup, Limiting, LimiterAllow, LimiterReserve, LimiterCancel
    <3>3. \A r \in Requests \ {s} : rpc'[r] = rpc[r]
      BY <2>1, <3>1
      DEF Limit, LimiterLookup, Limiting, LimiterAllow, LimiterReserve, LimiterCancel, Leave, Step
    <3> QED BY <3>2, <3>3
  <2> QED BY <2>1 DEF TrafficNext, Spawn, RunRecorder, Cleanup, LimiterCleanup, Tick, LimiterTick,
                      limiterVars, trafficVars
<1>3. \A r \in Requests : recorder'[r] # "none" => rpc'[r] = "admitted"
  <2>1. \A r \in Requests : recorder'[r] = recorder[r] \/ rpc[r] = "admitted"
    BY DEF CountInv, TypesInv, TrafficNext, Limit, Spawn, RunRecorder, Cleanup, Tick, trafficVars
  <2> QED BY <1>2, <2>1 DEF CountInv
<1>4. \A c \in Countries : countries'[c] <= Cardinality(Recorded(c))'
  <2>1. ASSUME NEW r \in Requests, RunRecorder(r)
        PROVE  \A c \in Countries : countries'[c] <= Cardinality(Recorded(c))'
    BY <2>1, RecorderStep
  <2>2. ASSUME UNCHANGED countries, \A c : Recorded(c)' = Recorded(c)
        PROVE  \A c \in Countries : countries'[c] <= Cardinality(Recorded(c))'
    BY <2>2 DEF CountInv
  <2>3. ASSUME NEW r \in Requests, Spawn(r)
        PROVE  \A c : Recorded(c)' = Recorded(c)
    BY <2>3 DEF Spawn, Recorded, CountInv, TypesInv
  <2>4. UNCHANGED <<recorder, origin>> => \A c : Recorded(c)' = Recorded(c)
    BY DEF Recorded
  <2> QED BY <2>1, <2>2, <2>3, <2>4
          DEF TrafficNext, Limit, Spawn, Cleanup, CleanupStart, CleanupDelete, Tick, GeoTick,
              geoVars, trafficVars
<1> QED BY <1>1, <1>3, <1>4 DEF CountInv

(* A visit is counted for one admitted request of its country: whatever    *)
(* the order of limiter, goroutines and cleanups, what the limiter refuses *)
(* leaves no trace in the statistics.                                      *)
THEOREM Counted == TrafficSpec => []CountsAreAdmitted
<1>1. TrafficInit => CountInv
  <2> SUFFICES ASSUME TrafficInit
               PROVE  CountInv
    OBVIOUS
  <2>1. \A c \in Countries : countries[c] = 0
    BY DEF TrafficInit, GeoInit
  <2> QED BY <2>1, TypesStart, RecordedFinite DEF TrafficInit, CountInv
<1>2. CountInv => CountsAreAdmitted
  <2> SUFFICES ASSUME CountInv, NEW c \in Countries
               PROVE  countries[c] <= Cardinality(AdmittedFrom(c))
    BY DEF CountsAreAdmitted
  <2>1. Recorded(c) \subseteq AdmittedFrom(c)
    BY DEF CountInv, Recorded, AdmittedFrom
  <2>2. /\ IsFiniteSet(AdmittedFrom(c)) /\ Cardinality(AdmittedFrom(c)) \in Nat
        /\ Cardinality(Recorded(c)) <= Cardinality(AdmittedFrom(c))
    <3>1. IsFiniteSet(AdmittedFrom(c))
      BY RequestsAssumption, FS_Subset DEF AdmittedFrom
    <3> QED BY <2>1, <3>1, FS_Subset, FS_CardinalityType
  <2>3. countries[c] \in Nat
    BY DEF CountInv, TypesInv, GeoInv
  <2> QED BY <2>2, <2>3, RecordedFinite DEF CountInv
<1> QED BY <1>1, <1>2, CountStep, PTL DEF TrafficSpec

-----------------------------------------------------------------------------
(* The potential, from powers of two and multiples of Cost.                *)

\* Induction, for a set of numbers.
LEMMA SetOfAllNumbers ==
  ASSUME NEW P \in SUBSET Nat, 0 \in P, \A n \in P : n + 1 \in P
  PROVE  P = Nat
<1> SUFFICES ASSUME Nat \ P # {}
             PROVE  FALSE
  OBVIOUS
<1> DEFINE m == Min(Nat \ P)
<1>1. m \in Nat /\ m \notin P /\ \A y \in Nat \ P : m <= y
  BY FirstPosition
<1> HIDE DEF m
<1>2. m # 0 /\ m - 1 \in Nat
  BY <1>1
<1>3. m - 1 \in P
  BY <1>1, <1>2
<1>4. (m - 1) + 1 = m
  BY <1>1
<1> QED BY <1>1, <1>3, <1>4

\* Powers of two.
Twos(k) == Cardinality(SUBSET (1..k))

LEMMA TwosFacts ==
  /\ Twos(0) = 1
  /\ \A k \in Nat : Twos(k) \in Nat \ {0} /\ Twos(k + 1) = 2 * Twos(k)
  /\ \A j, k \in Nat : j <= k => Twos(j) <= Twos(k)
<1>0. \A k \in Nat : IsFiniteSet(1..k) /\ IsFiniteSet(SUBSET (1..k)) /\ Twos(k) \in Nat
  <2> SUFFICES ASSUME NEW k \in Nat
               PROVE  IsFiniteSet(1..k) /\ IsFiniteSet(SUBSET (1..k)) /\ Twos(k) \in Nat
    OBVIOUS
  <2>1. IsFiniteSet(1..k)
    BY FS_Interval
  <2>2. IsFiniteSet(SUBSET (1..k))
    BY <2>1, FS_SUBSET
  <2> QED BY <2>1, <2>2, FS_CardinalityType DEF Twos
<1>1. Twos(0) = 1
  <2>1. SUBSET (1..0) = {{}}
    BY SMT
  <2> QED BY <2>1, FS_Singleton DEF Twos
<1>2. \A j, k \in Nat : j <= k => Twos(j) <= Twos(k)
  <2> SUFFICES ASSUME NEW j \in Nat, NEW k \in Nat, j <= k
               PROVE  Twos(j) <= Twos(k)
    OBVIOUS
  <2>1. 1..j \subseteq 1..k
    BY SMT
  <2>2. SUBSET (1..j) \in SUBSET (SUBSET (1..k))
    BY <2>1
  <2> QED BY <1>0, <2>2, FS_Subset DEF Twos
<1>3. ASSUME NEW k \in Nat
      PROVE  Twos(k + 1) = 2 * Twos(k)
  <2> DEFINE S == SUBSET (1..k)
             T == {X \cup {k + 1} : X \in S}
             f == [X \in S |-> X \cup {k + 1}]
  <2>1. 1..(k + 1) = (1..k) \cup {k + 1} /\ k + 1 \notin 1..k
    BY SMT
  <2>2. SUBSET (1..(k + 1)) = S \cup T
    <3>1. ASSUME NEW Y \in SUBSET (1..(k + 1)), k + 1 \in Y
          PROVE  Y \in T
      <4>1. Y \ {k + 1} \in S /\ (Y \ {k + 1}) \cup {k + 1} = Y
        BY <2>1, <3>1
      <4> QED BY <4>1
    <3>2. \A Y \in SUBSET (1..(k + 1)) : k + 1 \notin Y => Y \in S
      BY <2>1
    <3>3. S \cup T \subseteq SUBSET (1..(k + 1))
      BY <2>1
    <3> QED BY <3>1, <3>2, <3>3
  <2>3. S \cap T = {}
    BY <2>1
  <2>4. f \in Bijection(S, T)
    <3>1. \A X, Y \in S : X \cup {k + 1} = Y \cup {k + 1} => X = Y
      BY <2>1
    <3>2. /\ f \in [S -> T] /\ \A X \in S : f[X] = X \cup {k + 1}
          /\ \A Y \in T : \E X \in S : f[X] = Y
      BY Zenon
    <3> HIDE DEF f, S, T
    <3>3. \A X, Y \in S : f[X] = f[Y] => X = Y
      BY <3>1, <3>2
    <3> QED BY <3>2, <3>3 DEF Bijection, Injection, Surjection, IsInjective
  <2>5. IsFiniteSet(T) /\ Cardinality(T) = Cardinality(S)
    BY <1>0, <2>4, FS_Bijection DEF ExistsBijection
  <2>6. Cardinality(S \cup T) = Cardinality(S) + Cardinality(T) - Cardinality(S \cap T)
    BY <1>0, <2>5, FS_Union
  <2>7. Cardinality(S \cap T) = 0
    BY <2>3, FS_EmptySet
  <2>8. Twos(k) = Cardinality(S) /\ Twos(k + 1) = Cardinality(S \cup T) /\ Twos(k) \in Nat
    BY <1>0, <2>2 DEF Twos
  <2> HIDE DEF S, T
  <2> QED BY <2>5, <2>6, <2>7, <2>8
<1>4. \A k \in Nat : Twos(k) # 0
  <2>1. \A k \in Nat : 0 <= k /\ Twos(0) <= Twos(k)
    BY <1>2
  <2> QED BY <1>0, <1>1, <2>1
<1> QED BY <1>0, <1>1, <1>2, <1>3, <1>4

\* The costs that a time of y holds, rounded up.
Costs(y) == Min({k \in Nat : y <= k * Cost})

LEMMA CostsFacts ==
  /\ \A y \in Int : Costs(y) \in Nat /\ y <= Costs(y) * Cost
  /\ \A y \in Int, k \in Nat : y <= k * Cost => Costs(y) <= k
<1>1. ASSUME NEW y \in Int
      PROVE  {k \in Nat : y <= k * Cost} # {}
  <2>1. CASE y <= 0
    <3>1. 0 \in Nat /\ y <= 0 * Cost
      BY <2>1, BucketAssumption
    <3> QED BY <3>1
  <2>2. CASE y > 0
    <3>1. \A m \in Nat, n \in Nat \ {0} : m <= m * n
      OBVIOUS
    <3>2. y \in Nat /\ y <= y * Cost
      BY <2>2, <3>1, BucketAssumption
    <3> QED BY <3>2
  <2> QED BY <2>1, <2>2
<1>2. \A y \in Int : {k \in Nat : y <= k * Cost} \in SUBSET Nat
  OBVIOUS
<1> QED BY <1>1, <1>2, FirstPosition DEF Costs

LEMMA CostsBelow ==
  ASSUME NEW y \in Int, y > 0
  PROVE  Costs(y) >= 1 /\ y > (Costs(y) - 1) * Cost /\ Costs(y - Cost) = Costs(y) - 1
<1>1. Costs(y) \in Nat /\ y <= Costs(y) * Cost
  BY CostsFacts
<1>2. Costs(y) # 0
  BY <1>1, BucketAssumption
<1>3. \A k \in Int : (k - 1) * Cost = k * Cost - Cost /\ (k + 1) * Cost = k * Cost + Cost
  BY BucketAssumption
<1> DEFINE k == Costs(y)
<1>4. k \in Nat \ {0} /\ y <= k * Cost /\ k - 1 \in Nat
  BY <1>1, <1>2
<1>5. y > (k - 1) * Cost
  <2> SUFFICES ASSUME ~ (y > (k - 1) * Cost)
               PROVE  FALSE
    OBVIOUS
  <2> HIDE DEF k
  <2>1. y <= (k - 1) * Cost
    <3>1. \A m, n \in Int : m * n \in Int
      OBVIOUS
    <3>2. (k - 1) * Cost \in Int
      BY <1>4, <3>1, BucketAssumption
    <3> QED BY <3>2
  <2>2. k <= k - 1
    BY <1>4, <2>1, CostsFacts DEF k
  <2> QED BY <1>4, <2>2
<1> DEFINE j == Costs(y - Cost)
<1>6. j \in Nat /\ y - Cost <= j * Cost
  BY CostsFacts, BucketAssumption
<1> HIDE DEF k, j
<1>7. j <= k - 1
  <2>1. y - Cost <= (k - 1) * Cost
    BY <1>3, <1>4, BucketAssumption
  <2> QED BY <1>4, <2>1, CostsFacts, BucketAssumption DEF j
<1>8. k <= j + 1
  <2>1. y <= (j + 1) * Cost
    BY <1>3, <1>6, BucketAssumption
  <2> QED BY <1>6, <2>1, CostsFacts DEF k
<1>9. j = k - 1
  BY <1>4, <1>6, <1>7, <1>8
<1> QED BY <1>4, <1>5, <1>9 DEF k, j

(* A reservation that acts y later is owed Pot(y - Cost), and a bucket     *)
(* that is short of y tokens has Pot(y) for it.  A Cancel gives back what  *)
(* no later event has been built upon, and moves the latest event back:    *)
(* then an earlier Cancel gives back more, so that up to zero Pot counts   *)
(* ticks and from there on doubles with every Cost.                        *)
Pot(y) == Twos(Costs(y)) * (y - Costs(y) * Cost + 2 * Cost)

LEMMA PotFacts ==
  /\ \A y \in Int : Pot(y) \in Int
  /\ \A y \in Int : y <= 0 => Pot(y) = y + 2 * Cost
  /\ \A y \in Int : y >= 0 => Pot(y) = 2 * Pot(y - Cost)
<1>0. Cost \in Nat \ {0} /\ \A m, n \in Int : m * n \in Int
  BY BucketAssumption
<1>1. ASSUME NEW y \in Int
      PROVE  Pot(y) \in Int
  <2>1. Costs(y) \in Nat
    BY CostsFacts
  <2>2. Twos(Costs(y)) \in Int
    BY <2>1, TwosFacts
  <2>3. y - Costs(y) * Cost + 2 * Cost \in Int
    BY <1>0, <2>1
  <2> QED BY <1>0, <2>2, <2>3 DEF Pot
<1>2. ASSUME NEW y \in Int, y <= 0
      PROVE  Pot(y) = y + 2 * Cost
  <2>1. Costs(y) \in Nat /\ Costs(y) <= 0
    <3>1. y <= 0 * Cost
      BY <1>0, <1>2
    <3> QED BY <3>1, CostsFacts
  <2>2. Costs(y) = 0
    BY <2>1
  <2> QED BY <1>0, <2>2, TwosFacts DEF Pot
<1>3. ASSUME NEW y \in Int, y >= 0
      PROVE  Pot(y) = 2 * Pot(y - Cost)
  <2>1. CASE y = 0
    BY <1>0, <1>2, <2>1
  <2>2. CASE y > 0
    <3> DEFINE k == Costs(y)
               X == y - k * Cost + 2 * Cost
    <3>1. k \in Nat /\ k - 1 \in Nat /\ Costs(y - Cost) = k - 1
      BY <2>2, CostsBelow, CostsFacts
    <3>2. (k - 1) * Cost = k * Cost - Cost /\ k * Cost \in Int
      BY <1>0, <3>1
    <3>3. Twos(k) = 2 * Twos(k - 1) /\ Twos(k - 1) \in Int
      <4>1. (k - 1) + 1 = k
        BY <3>1
      <4> QED BY <3>1, <4>1, TwosFacts
    <3>4. (y - Cost) - (k - 1) * Cost + 2 * Cost = X /\ X \in Int
      BY <1>0, <3>2
    <3>5. Pot(y) = Twos(k) * X /\ Pot(y - Cost) = Twos(k - 1) * X
      BY <3>1, <3>4 DEF Pot
    <3> HIDE DEF k, X
    <3>6. \A t, x \in Int : (2 * t) * x = 2 * (t * x)
      OBVIOUS
    <3> QED BY <3>3, <3>4, <3>5, <3>6
  <2> QED BY <1>3, <2>1, <2>2
<1> QED BY <1>1, <1>2, <1>3

LEMMA PotSlope ==
  ASSUME NEW y \in Int
  PROVE  Pot(y) = Pot(y - 1) + Twos(Costs(y))
<1>0. Cost \in Nat \ {0} /\ \A m, n \in Int : m * n \in Int
  BY BucketAssumption
<1>1. CASE y <= 0
  <2>1. Costs(y) \in Nat /\ Costs(y) <= 0
    <3>1. y <= 0 * Cost
      BY <1>0, <1>1
    <3> QED BY <3>1, CostsFacts
  <2>2. Twos(Costs(y)) = 1
    BY <2>1, TwosFacts
  <2> QED BY <1>0, <1>1, <2>2, PotFacts
<1>2. CASE y > 0
  <2> DEFINE k == Costs(y)
             X == y - k * Cost + 2 * Cost
  <2>1. /\ k \in Nat /\ k - 1 \in Nat /\ y <= k * Cost /\ y > (k - 1) * Cost
        /\ (k - 1) * Cost = k * Cost - Cost /\ k * Cost \in Int /\ (k - 1) * Cost \in Int
    <3>1. k \in Nat /\ k >= 1 /\ y <= k * Cost /\ y > (k - 1) * Cost
      BY <1>2, CostsBelow, CostsFacts
    <3>2. (k - 1) * Cost = k * Cost - Cost /\ k * Cost \in Int
      BY <1>0, <3>1
    <3>3. (k - 1) * Cost \in Int
      BY <1>0, <3>2
    <3> QED BY <3>1, <3>2, <3>3
  <2>2. Twos(k) = 2 * Twos(k - 1) /\ Twos(k) \in Int /\ Twos(k - 1) \in Int
    <3>1. (k - 1) + 1 = k
      BY <2>1
    <3> QED BY <2>1, <3>1, TwosFacts
  <2>3. Pot(y) = Twos(k) * X /\ X \in Int
    BY <1>0, <2>1 DEF Pot
  <2>4. CASE Costs(y - 1) = k
    <3>1. Pot(y - 1) = Twos(k) * (X - 1)
      <4>1. (y - 1) - k * Cost + 2 * Cost = X - 1
        BY <1>0, <2>1
      <4> QED BY <2>4, <4>1 DEF Pot
    <3> HIDE DEF k, X
    <3>2. \A t, x \in Int : t * x = t * (x - 1) + t
      OBVIOUS
    <3> QED BY <2>2, <2>3, <3>1, <3>2 DEF k
  <2>5. CASE Costs(y - 1) # k
    <3> DEFINE j == Costs(y - 1)
    <3>1. j \in Nat /\ y - 1 <= j * Cost /\ j <= k
      BY <2>1, CostsFacts
    <3>2. j <= k - 1
      BY <2>1, <2>5, <3>1
    <3>3. k - 1 <= j
      <4>1. y - 1 >= (k - 1) * Cost
        <5> DEFINE u == (k - 1) * Cost
        <5>1. u \in Int /\ y > u
          BY <2>1
        <5> HIDE DEF u
        <5>2. y - 1 >= u
          BY <5>1
        <5> QED BY <5>2 DEF u
      <4>2. y - Cost <= j * Cost
        BY <1>0, <3>1
      <4>3. Costs(y - Cost) <= j
        BY <1>0, <3>1, <4>2, CostsFacts
      <4> QED BY <1>2, <4>3, CostsBelow
    <3>4. j = k - 1
      BY <2>1, <3>1, <3>2, <3>3
    <3>5. y - 1 = (k - 1) * Cost
      <4> DEFINE u == (k - 1) * Cost
      <4>1. u \in Int /\ y > u /\ y - 1 <= u
        BY <2>1, <3>1, <3>4
      <4> HIDE DEF u
      <4>2. y - 1 = u
        BY <4>1
      <4> QED BY <4>2 DEF u
    <3>6. X = Cost + 1
      BY <1>0, <2>1, <3>5
    <3>7. Pot(y - 1) = Twos(k - 1) * (2 * Cost)
      <4>1. (y - 1) - (k - 1) * Cost + 2 * Cost = 2 * Cost
        BY <1>0, <2>1, <3>5
      <4> QED BY <3>4, <4>1 DEF Pot
    <3> HIDE DEF k, X, j
    <3>8. \A t, x \in Int : (2 * t) * (x + 1) = t * (2 * x) + 2 * t
      OBVIOUS
    <3>9. Twos(k) * (Cost + 1) = Twos(k - 1) * (2 * Cost) + Twos(k)
      BY <1>0, <2>2, <3>8
    <3> QED BY <2>3, <3>6, <3>7, <3>9 DEF k
  <2> QED BY <2>4, <2>5
<1> QED BY <1>1, <1>2

\* The higher up, the more a step of the same length counts.
LEMMA PotConvex ==
  ASSUME NEW x \in Int, NEW y \in Int, x <= y, NEW n \in Nat
  PROVE  Pot(x) - Pot(x - n) <= Pot(y) - Pot(y - n)
<1> DEFINE P == {m \in Nat : Pot(x) - Pot(x - m) <= Pot(y) - Pot(y - m)}
<1>1. 0 \in P
  BY PotFacts
<1>2. ASSUME NEW m \in P
      PROVE  m + 1 \in P
  <2>1. /\ Pot(x - m) = Pot(x - m - 1) + Twos(Costs(x - m))
        /\ Pot(y - m) = Pot(y - m - 1) + Twos(Costs(y - m))
    BY PotSlope
  <2>2. Twos(Costs(x - m)) <= Twos(Costs(y - m))
    <3>1. /\ Costs(x - m) \in Nat /\ Costs(y - m) \in Nat
          /\ y - m <= Costs(y - m) * Cost /\ Costs(y - m) * Cost \in Int
      BY CostsFacts, BucketAssumption
    <3>2. x - m <= Costs(y - m) * Cost
      BY <3>1
    <3>3. Costs(x - m) <= Costs(y - m)
      BY <3>1, <3>2, CostsFacts
    <3> QED BY <3>1, <3>3, TwosFacts
  <2>3. /\ Pot(x) \in Int /\ Pot(y) \in Int /\ Pot(x - m) \in Int /\ Pot(y - m) \in Int
        /\ Pot(x - m - 1) \in Int /\ Pot(y - m - 1) \in Int
        /\ Twos(Costs(x - m)) \in Int /\ Twos(Costs(y - m)) \in Int
    <3>1. Costs(x - m) \in Nat /\ Costs(y - m) \in Nat
      BY CostsFacts
    <3>2. Twos(Costs(x - m)) \in Int /\ Twos(Costs(y - m)) \in Int
      BY <3>1, TwosFacts
    <3>3. m \in Int
      OBVIOUS
    <3> HIDE DEF P
    <3> QED BY <3>2, <3>3, PotFacts
  <2>4. x - (m + 1) = x - m - 1 /\ y - (m + 1) = y - m - 1
    OBVIOUS
  <2> QED BY <2>1, <2>2, <2>3, <2>4
<1>3. P = Nat
  <2> HIDE DEF P
  <2>1. P \in SUBSET Nat
    BY DEF P
  <2> QED BY <1>1, <1>2, <2>1, SetOfAllNumbers
<1> QED BY <1>3

\* Each step of time counts for one at least.
LEMMA PotGrows ==
  ASSUME NEW y \in Int, NEW n \in Nat
  PROVE  Pot(y - n) + n <= Pot(y)
<1> PICK x \in Int : x <= y /\ x <= 0
  <2>1. CASE y <= 0
    BY <2>1
  <2>2. CASE y > 0
    BY <2>2
  <2> QED BY <2>1, <2>2
<1>1. Pot(x) = x + 2 * Cost /\ Pot(x - n) = x - n + 2 * Cost
  BY PotFacts
<1>2. Pot(x) - Pot(x - n) <= Pot(y) - Pot(y - n)
  BY PotConvex
<1>3. Pot(y) \in Int /\ Pot(y - n) \in Int /\ Cost \in Nat
  BY PotFacts, BucketAssumption
<1> QED BY <1>1, <1>2, <1>3

\* It never falls below the line it starts with.
LEMMA PotAbove == \A y \in Int : Pot(y) >= y + 2 * Cost
<1> SUFFICES ASSUME NEW y \in Int
             PROVE  Pot(y) >= y + 2 * Cost
  OBVIOUS
<1>1. CASE y <= 0
  BY <1>1, PotFacts, BucketAssumption
<1>2. CASE y > 0
  <2>1. Pot(0) = 2 * Cost /\ Pot(y) \in Int
    BY PotFacts, BucketAssumption
  <2>2. Pot(y - y) + y <= Pot(y)
    BY <1>2, PotGrows
  <2>3. y - y = 0
    OBVIOUS
  <2> QED BY <2>1, <2>2, <2>3, BucketAssumption
<1> QED BY <1>1, <1>2

\* Below one Cost.
LEMMA PotFirst == \A y \in 0..Cost : Pot(y) = 2 * y + 2 * Cost
<1> SUFFICES ASSUME NEW y \in 0..Cost
             PROVE  Pot(y) = 2 * y + 2 * Cost
  OBVIOUS
<1>0. Cost \in Nat
  BY BucketAssumption
<1>1. y - Cost \in Int /\ y - Cost <= 0 /\ y \in Int /\ y >= 0
  BY <1>0
<1>2. Pot(y) = 2 * Pot(y - Cost) /\ Pot(y - Cost) = (y - Cost) + 2 * Cost
  BY <1>1, PotFacts
<1> QED BY <1>0, <1>2

\* A Cancel gives Cost - u to a bucket that is short of y as of a time q before
\* the latest event, itself u after the reservation acts.
LEMMA ReturnBefore ==
  ASSUME NEW y \in Int, NEW q \in Nat, NEW u \in Int, y <= q, u < Cost
  PROVE  Pot(y) - Pot(y - (Cost - u)) <= Pot(q - u - Cost)
<1>0. Cost \in Nat /\ Cost - u \in Nat /\ q - Cost \in Int /\ q \in Int
  BY BucketAssumption
<1>1. Pot(y) - Pot(y - (Cost - u)) <= Pot(q) - Pot(q - (Cost - u))
  <2> DEFINE n == Cost - u
  <2>1. n \in Nat
    BY <1>0
  <2> HIDE DEF n
  <2>2. Pot(y) - Pot(y - n) <= Pot(q) - Pot(q - n)
    BY <1>0, <2>1, PotConvex
  <2> QED BY <2>2 DEF n
<1>2. Pot(q) = 2 * Pot(q - Cost)
  BY PotFacts
<1>3. 2 * Pot(q - Cost) <= Pot(q - u - Cost) + Pot(q - (Cost - u))
  <2>0. /\ q - u - Cost \in Int /\ q - (Cost - u) \in Int
        /\ (q - Cost) - u = q - u - Cost /\ (q - Cost) + u = q - (Cost - u)
    BY <1>0
  <2>1. /\ Pot(q - Cost) \in Int /\ Pot(q - u - Cost) \in Int /\ Pot(q - (Cost - u)) \in Int
    BY <1>0, <2>0, PotFacts
  <2>2. CASE u >= 0
    <3> DEFINE x == q - (Cost - u)
    <3>1. x \in Int /\ q - Cost <= x /\ u \in Nat /\ x - u = q - Cost
      BY <1>0, <2>0, <2>2
    <3>2. Pot(q - Cost) - Pot((q - Cost) - u) <= Pot(x) - Pot(x - u)
      BY <1>0, <3>1, PotConvex
    <3> QED BY <2>0, <2>1, <3>1, <3>2
  <2>3. CASE u < 0
    <3> DEFINE x == q - u - Cost
    <3>1. x \in Int /\ q - Cost <= x /\ -u \in Nat /\ x - (-u) = q - Cost
          /\ (q - Cost) - (-u) = q - (Cost - u)
      BY <1>0, <2>0, <2>3
    <3>2. Pot(q - Cost) - Pot((q - Cost) - (-u)) <= Pot(x) - Pot(x - (-u))
      BY <1>0, <3>1, PotConvex
    <3> QED BY <2>0, <2>1, <3>1, <3>2
  <2> QED BY <2>2, <2>3
<1>4. /\ Pot(y) \in Int /\ Pot(y - (Cost - u)) \in Int /\ Pot(q) \in Int /\ Pot(q - Cost) \in Int
      /\ Pot(q - (Cost - u)) \in Int /\ Pot(q - u - Cost) \in Int
  <2>1. y - (Cost - u) \in Int /\ q - (Cost - u) \in Int /\ q - u - Cost \in Int
    BY <1>0
  <2> QED BY <1>0, <2>1, PotFacts
<1> QED BY <1>1, <1>2, <1>3, <1>4

\* And as of the time d after the reservation acts, when it was short of y.
LEMMA ReturnAfter ==
  ASSUME NEW y \in Int, NEW u \in Nat, NEW d \in Nat, y <= u, u < Cost
  PROVE  Pot(y) - d - Cost <= Pot(y - d - (Cost - u))
<1>0. Cost \in Nat /\ y - d - (Cost - u) \in Int
  BY BucketAssumption
<1>1. /\ Pot(y - d - (Cost - u)) >= y - d - (Cost - u) + 2 * Cost
      /\ Pot(y - d - (Cost - u)) \in Int /\ Pot(y) \in Int
  BY <1>0, PotAbove, PotFacts
<1>2. CASE y <= 0
  <2>1. Pot(y) = y + 2 * Cost
    BY <1>2, PotFacts
  <2> QED BY <1>0, <1>1, <2>1
<1>3. CASE y > 0
  <2>1. Pot(y) = 2 * y + 2 * Cost
    <3>1. y \in 0..Cost
      BY <1>0, <1>3
    <3> QED BY <3>1, PotFirst
  <2> QED BY <1>0, <1>1, <2>1
<1> QED BY <1>2, <1>3

\* Being shorter of tokens is having more for what is owed.
LEMMA PotMonotone ==
  ASSUME NEW x \in Int, NEW y \in Int, x <= y
  PROVE  Pot(x) <= Pot(y)
<1>1. y - x \in Nat /\ y - (y - x) = x
  OBVIOUS
<1>2. Pot(y - (y - x)) + (y - x) <= Pot(y)
  BY <1>1, PotGrows
<1> QED BY <1>1, <1>2, PotFacts

\* A reservation is owed its Cost at least.
LEMMA PotPositive ==
  \A y \in Nat : Pot(y - Cost) \in Nat /\ Pot(y - Cost) >= y + Cost
<1> SUFFICES ASSUME NEW y \in Nat
             PROVE  Pot(y - Cost) \in Nat /\ Pot(y - Cost) >= y + Cost
  OBVIOUS
<1>1. Cost \in Nat \ {0} /\ -Cost \in Int /\ y - Cost \in Int
  BY BucketAssumption
<1>2. Pot(-Cost) = Cost
  BY <1>1, PotFacts
<1>3. (y - Cost) - y = -Cost
  BY <1>1
<1>4. Pot((y - Cost) - y) + y <= Pot(y - Cost)
  BY <1>1, PotGrows
<1>5. Pot(y - Cost) \in Int
  BY <1>1, PotFacts
<1> QED BY <1>1, <1>2, <1>3, <1>4, <1>5

-----------------------------------------------------------------------------
(* Sums, as numbers of pairs.                                              *)
Units(S, w) == {p \in S \X Nat : p[2] < w[p[1]]}
Total(S, w) == Cardinality(Units(S, w))

LEMMA OneUnits ==
  ASSUME NEW r, NEW w, w[r] \in Nat
  PROVE  /\ IsFiniteSet(Units({r}, w))
         /\ Total({r}, w) = w[r]
<1> DEFINE D == 0..(w[r] - 1)
           f == [k \in D |-> <<r, k>>]
<1>1. IsFiniteSet(D) /\ Cardinality(D) = w[r]
  BY FS_Interval
<1>2. f \in Bijection(D, Units({r}, w))
  <2>1. f \in [D -> Units({r}, w)]
    BY DEF Units
  <2>2. \A j, k \in D : f[j] = f[k] => j = k
    OBVIOUS
  <2>3. \A p \in Units({r}, w) : \E k \in D : f[k] = p
    <3> SUFFICES ASSUME NEW p \in Units({r}, w)
                 PROVE  \E k \in D : f[k] = p
      OBVIOUS
    <3>1. p = <<r, p[2]>> /\ p[2] \in Nat /\ p[2] < w[r]
      BY DEF Units
    <3>2. p[2] \in D
      BY <3>1
    <3> QED BY <3>1, <3>2
  <2> HIDE DEF f, D
  <2> QED BY <2>1, <2>2, <2>3 DEF Bijection, Injection, Surjection, IsInjective, f
<1> QED BY <1>1, <1>2, FS_Bijection DEF ExistsBijection, Total

LEMMA AddUnits ==
  ASSUME NEW S, NEW r, r \notin S, NEW w, w[r] \in Nat, IsFiniteSet(Units(S, w))
  PROVE  /\ IsFiniteSet(Units(S \cup {r}, w))
         /\ Total(S \cup {r}, w) = Total(S, w) + w[r]
<1>1. Units(S \cup {r}, w) = Units(S, w) \cup Units({r}, w)
  BY DEF Units
<1>2. Units(S, w) \cap Units({r}, w) = {}
  BY DEF Units
<1>3. Cardinality(Units(S, w) \cap Units({r}, w)) = 0
  BY <1>2, FS_EmptySet
<1>4. Total(S, w) \in Nat
  BY FS_CardinalityType DEF Total
<1>5. IsFiniteSet(Units({r}, w)) /\ Cardinality(Units({r}, w)) = w[r]
  BY OneUnits DEF Total
<1>6. /\ IsFiniteSet(Units(S, w) \cup Units({r}, w))
      /\ Cardinality(Units(S, w) \cup Units({r}, w))
           = Cardinality(Units(S, w)) + Cardinality(Units({r}, w))
               - Cardinality(Units(S, w) \cap Units({r}, w))
  BY <1>5, FS_Union
<1>7. Total(S \cup {r}, w) = Total(S, w) + w[r] - 0
  BY <1>1, <1>3, <1>5, <1>6 DEF Total
<1>8. IsFiniteSet(Units(S \cup {r}, w))
  BY <1>1, <1>6
<1>9. Total(S \cup {r}, w) = Total(S, w) + w[r]
  BY <1>4, <1>7
<1> QED BY <1>8, <1>9

\* A finite sum of numbers.
LEMMA FiniteUnits ==
  ASSUME NEW S, IsFiniteSet(S), NEW w, \A r \in S : w[r] \in Nat
  PROVE  IsFiniteSet(Units(S, w)) /\ Total(S, w) \in Nat
<1> DEFINE P == {n \in Nat : \A T \in SUBSET S : Cardinality(T) = n => IsFiniteSet(Units(T, w))}
<1>1. 0 \in P
  <2>1. ASSUME NEW T \in SUBSET S, Cardinality(T) = 0
        PROVE  IsFiniteSet(Units(T, w))
    <3>1. T = {}
      BY <2>1, FS_Subset, FS_EmptySet
    <3>2. Units(T, w) = {}
      BY <3>1 DEF Units
    <3> QED BY <3>2, FS_EmptySet
  <2> QED BY <2>1
<1>2. ASSUME NEW n \in P
      PROVE  n + 1 \in P
  <2>1. ASSUME NEW T \in SUBSET S, Cardinality(T) = n + 1
        PROVE  IsFiniteSet(Units(T, w))
    <3>1. IsFiniteSet(T) /\ T # {}
      BY <2>1, FS_Subset, FS_EmptySet
    <3>2. PICK r \in T : TRUE
      BY <3>1
    <3>3. T \ {r} \in SUBSET S /\ Cardinality(T \ {r}) = n
      <4>1. Cardinality(T \ {r}) = Cardinality(T) - 1
        BY <3>1, <3>2, FS_RemoveElement
      <4>2. n \in Nat /\ Cardinality(T) = n + 1
        BY <2>1
      <4> HIDE DEF P
      <4> QED BY <4>1, <4>2
    <3>4. IsFiniteSet(Units(T \ {r}, w))
      BY <3>3
    <3>5. T = (T \ {r}) \cup {r} /\ w[r] \in Nat
      BY <3>2
    <3> QED BY <3>4, <3>5, AddUnits
  <2> QED BY <2>1
<1>3. P = Nat
  <2>1. P \in SUBSET Nat
    OBVIOUS
  <2> HIDE DEF P
  <2> QED BY <1>1, <1>2, <2>1, SetOfAllNumbers
<1>4. IsFiniteSet(Units(S, w))
  <2>1. S \in SUBSET S /\ Cardinality(S) \in P
    BY <1>3, FS_CardinalityType
  <2> QED BY <2>1
<1> QED BY <1>4, FS_CardinalityType DEF Total

LEMMA NoUnits ==
  ASSUME NEW w
  PROVE  Total({}, w) = 0
<1>1. Units({}, w) = {}
  BY DEF Units
<1> QED BY <1>1, FS_EmptySet DEF Total

\* More and heavier terms.
LEMMA TotalGrows ==
  ASSUME NEW S, IsFiniteSet(S), NEW T \in SUBSET S, NEW v, NEW w,
         \A r \in S : w[r] \in Nat, \A r \in T : v[r] \in Nat /\ v[r] <= w[r]
  PROVE  Total(T, v) <= Total(S, w)
<1>1. Units(T, v) \in SUBSET Units(S, w)
  BY DEF Units
<1> QED BY <1>1, FiniteUnits, FS_Subset DEF Total

\* If each of the remaining terms, of which there is one, gains n.
LEMMA TotalGains ==
  ASSUME NEW S, IsFiniteSet(S), NEW T \in SUBSET S, T # {}, NEW v, NEW w, NEW n \in Nat,
         \A r \in S : w[r] \in Nat, \A r \in T : v[r] \in Nat /\ v[r] + n <= w[r]
  PROVE  Total(T, v) + n <= Total(S, w)
<1>1. PICK r \in T : TRUE
  OBVIOUS
<1> DEFINE T1 == T \ {r}
           S1 == S \ {r}
<1>2. IsFiniteSet(S1) /\ IsFiniteSet(T1) /\ S = S1 \cup {r} /\ T = T1 \cup {r}
      /\ T1 \in SUBSET S1 /\ r \notin S1 /\ r \notin T1 /\ r \in S
  BY <1>1, FS_Subset, FS_RemoveElement
<1> HIDE DEF S1, T1
<1>3. /\ IsFiniteSet(Units(S1, w)) /\ Total(S1, w) \in Nat
      /\ IsFiniteSet(Units(T1, v)) /\ Total(T1, v) \in Nat
  BY <1>2, FiniteUnits
<1>4. Total(T1, v) <= Total(S1, w)
  BY <1>2, TotalGrows
<1>5. Total(S, w) = Total(S1, w) + w[r] /\ Total(T, v) = Total(T1, v) + v[r]
  BY <1>2, <1>3, AddUnits
<1>6. v[r] \in Nat /\ w[r] \in Nat /\ v[r] + n <= w[r]
  BY <1>2
<1> QED BY <1>3, <1>4, <1>5, <1>6

-----------------------------------------------------------------------------
(* What a Cancel gives back.                                               *)

\* What the reservations of L that act at t or later are owed as of t.
Later(L, act, t) == {r \in L : act[r] >= t}
Owed(L, act, t) == Total(Later(L, act, t), [r \in L |-> Pot(act[r] - t - Cost)])

LEMMA OwedFinite ==
  ASSUME NEW L, IsFiniteSet(L), NEW act, \A r \in L : act[r] \in Int, NEW t \in Int
  PROVE  /\ IsFiniteSet(Later(L, act, t)) /\ Owed(L, act, t) \in Nat
         /\ \A r \in Later(L, act, t) : Pot(act[r] - t - Cost) \in Nat
<1>1. IsFiniteSet(Later(L, act, t))
  BY FS_Subset DEF Later
<1>2. ASSUME NEW r \in Later(L, act, t)
      PROVE  Pot(act[r] - t - Cost) \in Nat
  <2>1. act[r] - t \in Nat
    BY DEF Later
  <2> QED BY <2>1, PotPositive
<1> DEFINE w == [r \in L |-> Pot(act[r] - t - Cost)]
<1>3. \A r \in Later(L, act, t) : w[r] \in Nat
  BY <1>2 DEF Later
<1> HIDE DEF w
<1>4. Total(Later(L, act, t), w) \in Nat
  BY <1>1, <1>3, FiniteUnits
<1> QED BY <1>1, <1>2, <1>4 DEF Owed, w

\* Fewer reservations.
LEMMA OwedLess ==
  ASSUME NEW L, IsFiniteSet(L), NEW act, \A r \in L : act[r] \in Int, NEW t \in Int,
         NEW M \in SUBSET L, NEW act2, \A r \in M : act2[r] = act[r]
  PROVE  Owed(M, act2, t) <= Owed(L, act, t)
<1> DEFINE w == [r \in L |-> Pot(act[r] - t - Cost)]
           v == [r \in M |-> Pot(act2[r] - t - Cost)]
           A == Later(L, act, t)
           B == Later(M, act2, t)
<1>1. B \in SUBSET A /\ IsFiniteSet(A)
  BY OwedFinite DEF Later
<1>2. \A r \in A : w[r] \in Nat
  BY OwedFinite DEF Later
<1>3. \A r \in B : v[r] = w[r]
  BY DEF Later
<1> HIDE DEF w, v, A, B
<1>4. \A r \in B : v[r] \in Nat /\ v[r] <= w[r]
  BY <1>1, <1>2, <1>3
<1>5. Total(B, v) <= Total(A, w)
  BY <1>1, <1>2, <1>4, TotalGrows
<1> QED BY <1>5 DEF Owed, w, v, A, B

\* One reservation more.
LEMMA OwedJoins ==
  ASSUME NEW L, IsFiniteSet(L), NEW act, \A r \in L : act[r] \in Int, NEW t \in Int,
         NEW r, r \notin L, NEW M \in SUBSET (L \cup {r}),
         NEW act2, \A q \in L : act2[q] = act[q], act2[r] \in Int
  PROVE  /\ act2[r] >= t => /\ Owed(M, act2, t) <= Owed(L, act, t) + Pot(act2[r] - t - Cost)
                            /\ Pot(act2[r] - t - Cost) \in Nat
         /\ act2[r] < t => Owed(M, act2, t) <= Owed(L, act, t)
<1> DEFINE N == L \cup {r}
           w == [q \in L |-> Pot(act[q] - t - Cost)]
           v == [q \in N |-> Pot(act2[q] - t - Cost)]
           A == Later(L, act, t)
           B == Later(N, act2, t)
<1>1. IsFiniteSet(N) /\ \A q \in N : act2[q] \in Int
  BY FS_AddElement
<1>2. Owed(M, act2, t) <= Owed(N, act2, t)
  BY <1>1, OwedLess
<1>3. Owed(L, act, t) \in Nat /\ Owed(N, act2, t) \in Nat /\ Owed(M, act2, t) \in Nat
  <2>1. IsFiniteSet(M) /\ \A q \in M : act2[q] \in Int
    BY <1>1, FS_Subset
  <2> QED BY <1>1, <2>1, OwedFinite
<1>4. Owed(L, act2, t) <= Owed(L, act, t)
  BY OwedLess
<1>5. ASSUME act2[r] < t
      PROVE  Owed(M, act2, t) <= Owed(L, act, t)
  <2>1. B = A
    BY <1>5 DEF Later
  <2>2. \A q \in A : v[q] \in Nat /\ v[q] <= w[q] /\ w[q] \in Nat
    <3>1. \A q \in A : v[q] = w[q] /\ w[q] \in Nat
      BY OwedFinite DEF Later
    <3> HIDE DEF v, w, A
    <3> QED BY <3>1
  <2>3. IsFiniteSet(A)
    BY OwedFinite
  <2> HIDE DEF A, B, v, w
  <2>4. Total(A, v) <= Total(A, w)
    BY <2>2, <2>3, TotalGrows
  <2>5. Owed(N, act2, t) <= Owed(L, act, t)
    BY <2>1, <2>4 DEF Owed, A, B, v, w
  <2> QED BY <1>2, <1>3, <2>5
<1>6. ASSUME act2[r] >= t
      PROVE  /\ Owed(M, act2, t) <= Owed(L, act, t) + Pot(act2[r] - t - Cost)
             /\ Pot(act2[r] - t - Cost) \in Nat
  <2>1. B = A \cup {r} /\ r \notin A
    BY <1>6 DEF Later
  <2>2. \A q \in A : v[q] \in Nat /\ v[q] <= w[q] /\ w[q] \in Nat
    <3>1. \A q \in A : v[q] = w[q] /\ w[q] \in Nat
      BY OwedFinite DEF Later
    <3> HIDE DEF v, w, A
    <3> QED BY <3>1
  <2>3. IsFiniteSet(A)
    BY OwedFinite
  <2>4. v[r] = Pot(act2[r] - t - Cost) /\ v[r] \in Nat
    BY <1>1, <1>6, OwedFinite DEF Later
  <2> HIDE DEF A, B, v, w
  <2>5. Total(A, v) <= Total(A, w) /\ IsFiniteSet(Units(A, v))
    BY <2>2, <2>3, TotalGrows, FiniteUnits
  <2>6. Total(A \cup {r}, v) = Total(A, v) + v[r]
    BY <2>1, <2>4, <2>5, AddUnits
  <2>7. Owed(N, act2, t) = Total(A, v) + v[r] /\ Owed(L, act, t) = Total(A, w)
    BY <2>1, <2>6 DEF Owed, A, B, v, w
  <2>8. Total(A, v) \in Nat
    BY <2>2, <2>3, FiniteUnits
  <2>9. Owed(N, act2, t) <= Owed(L, act, t) + v[r]
    BY <1>3, <2>4, <2>5, <2>7, <2>8
  <2> QED BY <1>2, <1>3, <2>4, <2>9
<1> QED BY <1>5, <1>6

(* One reservation less: what it owed as of s is gone, and by the time t,  *)
(* if any is left, each of the others owes less by the time between.       *)
LEMMA OwedLeaves ==
  ASSUME NEW L, IsFiniteSet(L), NEW act, \A q \in L : act[q] \in Int,
         NEW r \in L, NEW M \in SUBSET (L \ {r}), NEW act2, \A q \in M : act2[q] = act[q],
         NEW s \in Int, NEW t \in Int, s <= t, s <= act[r]
  PROVE  /\ Pot(act[r] - s - Cost) \in Nat /\ Pot(act[r] - s - Cost) <= Owed(L, act, s)
         /\ \/ Owed(M, act2, t) = 0
            \/ Owed(M, act2, t) + (t - s) + Pot(act[r] - s - Cost) <= Owed(L, act, s)
<1> DEFINE N == L \ {r}
           w == [q \in L |-> Pot(act[q] - s - Cost)]
           v == [q \in M |-> Pot(act2[q] - t - Cost)]
           A == Later(N, act, s)
           B == Later(M, act2, t)
<1>1. Later(L, act, s) = A \cup {r} /\ r \notin A
  BY DEF Later
<1>2. IsFiniteSet(L) /\ IsFiniteSet(Later(L, act, s)) /\ IsFiniteSet(A)
  BY <1>1, FS_Subset, OwedFinite
<1>3. \A q \in A \cup {r} : w[q] \in Nat
  <2>1. \A q \in Later(L, act, s) : w[q] \in Nat
    BY OwedFinite DEF Later
  <2> HIDE DEF w, A
  <2> QED BY <1>1, <2>1
<1>4. B \in SUBSET A
  BY DEF Later
<1>5. \A q \in B : v[q] \in Nat /\ v[q] + (t - s) <= w[q]
  <2> SUFFICES ASSUME NEW q \in B
               PROVE  v[q] \in Nat /\ v[q] + (t - s) <= w[q]
    OBVIOUS
  <2>1. /\ q \in M /\ q \in L /\ act2[q] = act[q] /\ act[q] \in Int /\ act[q] - t \in Nat
        /\ t - s \in Nat /\ Cost \in Int
    BY BucketAssumption DEF Later
  <2>2. v[q] = Pot(act[q] - t - Cost) /\ w[q] = Pot(act[q] - s - Cost)
    BY <2>1
  <2>3. Pot(act[q] - t - Cost) \in Nat
    BY <2>1, PotPositive
  <2>4. (act[q] - s - Cost) - (t - s) = act[q] - t - Cost
    BY <2>1
  <2>5. Pot((act[q] - s - Cost) - (t - s)) + (t - s) <= Pot(act[q] - s - Cost)
    BY <2>1, PotGrows
  <2> HIDE DEF v, w
  <2> QED BY <2>2, <2>3, <2>4, <2>5
<1>6. w[r] = Pot(act[r] - s - Cost)
  OBVIOUS
<1>7. Owed(L, act, s) = Total(A \cup {r}, w) /\ Owed(M, act2, t) = Total(B, v)
  BY <1>1 DEF Owed
<1> HIDE DEF w, v, A, B
<1>8. Total(A \cup {r}, w) = Total(A, w) + w[r] /\ Total(A, w) \in Nat
  BY <1>1, <1>2, <1>3, AddUnits, FiniteUnits
<1>9. B = {} => Total(B, v) = 0
  BY NoUnits
<1>10. ASSUME B # {}
       PROVE  Total(B, v) + (t - s) <= Total(A, w) /\ Total(B, v) \in Nat
  <2>1. t - s \in Nat
    OBVIOUS
  <2>2. IsFiniteSet(B)
    BY <1>2, <1>4, FS_Subset
  <2> QED BY <1>2, <1>3, <1>4, <1>5, <1>10, <2>1, <2>2, TotalGains, FiniteUnits
<1>11. w[r] \in Nat
  BY <1>3
<1> QED BY <1>6, <1>7, <1>8, <1>9, <1>10, <1>11

(* What k as of the time s is at t, later or earlier, and so a bucket; the *)
(* credit that is full as of s is full at any time.                        *)
Grown(k, s, t) == IF k + (t - s) < Full THEN k + (t - s) ELSE Full
At(b, t) == Grown(b.tokens, b.last, t)
CreditAt(k, s, t) == IF k = Full THEN Full ELSE Grown(k, s, t)

LEMMA GrownFacts ==
  ASSUME NEW k \in Int, k <= Full, NEW s \in Int, NEW t \in Int
  PROVE  /\ Grown(k, s, t) \in Int /\ Grown(k, s, t) <= Full
         /\ CreditAt(k, s, t) \in Int /\ CreditAt(k, s, t) <= Full
         /\ t >= s => CreditAt(k, s, t) >= k /\ Filled(k, s, t) = Grown(k, s, t)
         /\ Filled(k, s, t) \in Int /\ Filled(k, s, t) <= Full /\ Filled(k, s, t) >= k
BY FullFacts DEF Grown, CreditAt, Filled

LEMMA GrownOrder ==
  ASSUME NEW k \in Int, k <= Full, NEW j \in Int, j <= k, NEW s \in Int, NEW t \in Int
  PROVE  Filled(j, s, t) <= Filled(k, s, t) /\ Grown(j, s, t) <= CreditAt(k, s, t)
BY FullFacts DEF Grown, CreditAt, Filled

\* Taking up a bucket or a credit at a later time s changes nothing from then on.
LEMMA GrownLater ==
  ASSUME NEW k \in Int, k <= Full, NEW l \in Int, NEW s \in Int, l <= s, NEW t \in Int
  PROVE  /\ CreditAt(k, l, t) <= CreditAt(Filled(k, l, s), s, t)
         /\ t >= s => Grown(Filled(k, l, s), s, t) = Grown(k, l, t)
BY FullFacts DEF Grown, CreditAt, Filled

LEMMA BucketGrown ==
  ASSUME NEW b \in BucketType, b.tokens <= Full, NEW n \in Int
  PROVE  /\ b.tokens \in Int /\ b.last \in Int /\ b.lastEvent \in Int
         /\ Tokens(b, n) \in Int /\ Tokens(b, n) <= Full
         /\ n >= b.last => Tokens(b, n) = At(b, n)
         /\ n <= b.last => Tokens(b, n) = b.tokens
         /\ \A t \in Int : At(b, t) \in Int /\ -At(b, t) \in Int /\ At(b, t) <= Full
         /\ \A t \in Int : Pot(-At(b, t)) \in Int
<1>1. b.tokens \in Int /\ b.last \in Int /\ b.lastEvent \in Int
  BY DEF BucketType
<1>2. /\ Tokens(b, n) \in Int /\ Tokens(b, n) <= Full
      /\ n >= b.last => Tokens(b, n) = At(b, n)
      /\ n <= b.last => Tokens(b, n) = b.tokens
  BY <1>1, FullFacts DEF Tokens, At, Filled, Grown
<1>3. \A t \in Int : At(b, t) \in Int /\ -At(b, t) \in Int /\ At(b, t) <= Full
  BY <1>1, FullFacts DEF At, Grown
<1> QED BY <1>1, <1>2, <1>3, PotFacts

\* rate's operations, field by field.
LEMMA TakenFields ==
  ASSUME NEW b \in BucketType, b.tokens <= Full, NEW n \in Int
  PROVE  /\ Taken(b, n) \in BucketType /\ Taken(b, n).seen = b.seen
         /\ Taken(b, n).tokens = Tokens(b, n) - Cost /\ Taken(b, n).last = n
         /\ Taken(b, n).lastEvent = IF Tokens(b, n) < Cost THEN n + Cost - Tokens(b, n) ELSE n
<1>1. Cost \in Nat /\ Tokens(b, n) \in Int
  BY FullFacts, BucketGrown
<1> DEFINE left == Tokens(b, n) - Cost
           event == IF left < 0 THEN n - left ELSE n
<1>2. Taken(b, n) = [b EXCEPT !.tokens = left, !.last = n, !.lastEvent = event]
  BY DEF Taken
<1>3. left \in Int /\ event \in Int /\ left = Tokens(b, n) - Cost
      /\ event = IF Tokens(b, n) < Cost THEN n + Cost - Tokens(b, n) ELSE n
  BY <1>1
<1> HIDE DEF left, event
<1>4. /\ Taken(b, n).tokens = left /\ Taken(b, n).last = n /\ Taken(b, n).lastEvent = event
      /\ Taken(b, n) \in BucketType /\ Taken(b, n).seen = b.seen
  BY <1>2, <1>3 DEF BucketType
<1> QED BY <1>3, <1>4

\* A Cancel either changes nothing or it is of a reservation that has not acted
\* and gives something back.
LEMMA CancelFields ==
  ASSUME NEW b \in BucketType, b.tokens <= Full, NEW n \in Int, NEW a \in Int,
         Cancelled(b, a, n) # b
  PROVE  LET c == Cancelled(b, a, n) IN
         /\ a >= n /\ b.lastEvent - a < Cost /\ c \in BucketType /\ c.seen = b.seen
         /\ c.tokens = (IF Tokens(b, n) + (Cost - (b.lastEvent - a)) < Full
                          THEN Tokens(b, n) + (Cost - (b.lastEvent - a)) ELSE Full)
         /\ c.last = n
         /\ \/ c.lastEvent = b.lastEvent
            \/ a = b.lastEvent /\ c.lastEvent = a - Cost /\ a - Cost >= n
<1> DEFINE restore == Cost - (b.lastEvent - a)
           left == IF Tokens(b, n) + restore < Full THEN Tokens(b, n) + restore ELSE Full
           event == IF a = b.lastEvent /\ a - Cost >= n THEN a - Cost ELSE b.lastEvent
           c == Cancelled(b, a, n)
<1>1. Full \in Nat /\ Cost \in Nat /\ Tokens(b, n) \in Int /\ b.lastEvent \in Int
  BY FullFacts, BucketGrown
<1>2. /\ ~ (a < n \/ restore <= 0)
      /\ c = [b EXCEPT !.tokens = left, !.last = n, !.lastEvent = event]
  BY DEF Cancelled
<1>3. a >= n /\ b.lastEvent - a < Cost
  BY <1>1, <1>2
<1>4. left \in Int /\ event \in Int
  BY <1>1
<1>5. \/ event = b.lastEvent
      \/ a = b.lastEvent /\ event = a - Cost /\ a - Cost >= n
  OBVIOUS
<1>6. left = IF Tokens(b, n) + (Cost - (b.lastEvent - a)) < Full
               THEN Tokens(b, n) + (Cost - (b.lastEvent - a)) ELSE Full
  OBVIOUS
<1> HIDE DEF restore, left, event, c
<1>7. c.tokens = left /\ c.last = n /\ c.lastEvent = event /\ c \in BucketType /\ c.seen = b.seen
  BY <1>2, <1>4 DEF BucketType
<1> QED BY <1>3, <1>5, <1>6, <1>7 DEF c

\* A bucket in debt has an event at the time when the debt is paid, or later.
Debt(b) == b.lastEvent >= b.last - b.tokens \/ b.tokens = Full

LEMMA DebtKept ==
  ASSUME NEW b \in BucketType, b.tokens <= Full, Debt(b), NEW n \in Int, NEW a \in Int
  PROVE  Debt(Taken(b, n)) /\ Debt(Cancelled(b, a, n))
<1>0. Full \in Nat /\ Cost \in Nat
  BY FullFacts
<1>1. /\ b.tokens \in Int /\ b.last \in Int /\ b.lastEvent \in Int /\ Tokens(b, n) \in Int
      /\ Tokens(b, n) = Filled(b.tokens, b.last, n)
  BY BucketGrown DEF Tokens
<1>2. Tokens(b, n) = Full \/ b.lastEvent >= n - Tokens(b, n)
  <2> DEFINE T == Filled(b.tokens, b.last, n)
  <2>1. T = Full \/ b.lastEvent >= n - T
    BY <1>0, <1>1 DEF Debt, Filled
  <2> QED BY <1>1, <2>1
<1>3. Debt(Taken(b, n))
  <2> DEFINE T == Tokens(b, n)
  <2> HIDE DEF T
  <2>1. /\ Taken(b, n).tokens = T - Cost /\ Taken(b, n).last = n
        /\ Taken(b, n).lastEvent = IF T < Cost THEN n + Cost - T ELSE n
    BY TakenFields DEF T
  <2> QED BY <1>0, <1>1, <2>1 DEF Debt, T
<1>4. ASSUME Cancelled(b, a, n) # b
      PROVE  Debt(Cancelled(b, a, n))
  <2> DEFINE T == Tokens(b, n)
             c == Cancelled(b, a, n)
  <2>1. /\ b.lastEvent - a < Cost
        /\ c.tokens = (IF T + (Cost - (b.lastEvent - a)) < Full
                         THEN T + (Cost - (b.lastEvent - a)) ELSE Full)
        /\ c.last = n
        /\ c.lastEvent = b.lastEvent \/ (a = b.lastEvent /\ c.lastEvent = a - Cost /\ a - Cost >= n)
    BY <1>4, CancelFields
  <2>2. T \in Int /\ (T = Full \/ b.lastEvent >= n - T)
    BY <1>1, <1>2
  <2> HIDE DEF T, c
  <2>3. Debt(c)
    BY <1>0, <1>1, <2>1, <2>2 DEF Debt
  <2> QED BY <2>3 DEF c
<1> QED BY <1>3, <1>4

(* From the time s on, and at any time from the latest event on, what the  *)
(* reservations of L are owed is covered by what the bucket is behind the  *)
(* credit; and the same of a bucket that holds T as of s.                  *)
Holds(b, k, s, L, act) ==
  \A t \in Int : t >= s \/ t >= b.lastEvent =>
    Owed(L, act, t) + 2 * Cost <= CreditAt(k, s, t) + Pot(-At(b, t))
Held(T, k, s, L, act) ==
  \A t \in Int : t >= s =>
    Owed(L, act, t) + 2 * Cost <= CreditAt(k, s, t) + Pot(-Grown(T, s, t))

\* So the bucket holds no more than the credit.
LEMMA HoldsNow ==
  ASSUME NEW b \in BucketType, b.tokens <= Full, NEW k \in Int, k <= Full, k >= 0,
         NEW L, IsFiniteSet(L), NEW act, \A r \in L : act[r] \in Int,
         Holds(b, k, b.last, L, act)
  PROVE  b.tokens <= k
<1>1. b.tokens \in Int /\ b.last \in Int /\ Full \in Nat /\ Cost \in Nat
  BY BucketGrown, FullFacts
<1>2. At(b, b.last) = b.tokens /\ CreditAt(k, b.last, b.last) = k
  BY <1>1 DEF At, CreditAt, Grown
<1>3. Owed(L, act, b.last) + 2 * Cost <= k + Pot(-b.tokens)
  <2>1. b.last \in Int /\ b.last >= b.last
    BY <1>1
  <2> QED BY <1>2, <2>1 DEF Holds
<1>4. Owed(L, act, b.last) \in Nat
  BY <1>1, OwedFinite
<1>5. CASE b.tokens >= 0
  <2>1. -b.tokens \in Int /\ -b.tokens <= 0
    BY <1>1, <1>5
  <2>2. Pot(-b.tokens) = -b.tokens + 2 * Cost
    BY <2>1, PotFacts
  <2> QED BY <1>1, <1>3, <1>4, <2>2
<1>6. CASE b.tokens < 0
  BY <1>1, <1>6
<1> QED BY <1>1, <1>5, <1>6

\* While there is no reservation it is enough that the bucket holds no more.
LEMMA NothingOwed == ASSUME NEW act, NEW t PROVE Owed({}, act, t) = 0
BY NoUnits DEF Owed, Later, Total, Units

LEMMA HeldAlone ==
  ASSUME NEW k \in Int, k <= Full, NEW T \in Int, T <= k, NEW s \in Int, NEW act
  PROVE  Held(T, k, s, {}, act)
<1> SUFFICES ASSUME NEW t \in Int
             PROVE  0 + 2 * Cost <= CreditAt(k, s, t) + Pot(-Grown(T, s, t))
  BY NothingOwed DEF Held
<1>1. /\ Grown(T, s, t) \in Int /\ CreditAt(k, s, t) \in Int
      /\ Grown(T, s, t) <= CreditAt(k, s, t) /\ Cost \in Nat
  <2>1. T <= Full
    BY FullFacts
  <2> QED BY <2>1, GrownFacts, GrownOrder, FullFacts
<1>2. -Grown(T, s, t) \in Int
  BY <1>1
<1>3. Pot(-Grown(T, s, t)) >= -Grown(T, s, t) + 2 * Cost /\ Pot(-Grown(T, s, t)) \in Int
  BY <1>2, PotAbove, PotFacts
<1> QED BY <1>1, <1>3

LEMMA HoldsAlone ==
  ASSUME NEW b \in BucketType, NEW k \in Int, k <= Full, b.tokens <= k, NEW act
  PROVE  Holds(b, k, b.last, {}, act)
<1> SUFFICES ASSUME NEW t \in Int
             PROVE  0 + 2 * Cost <= CreditAt(k, b.last, t) + Pot(-At(b, t))
  BY NothingOwed DEF Holds
<1>1. b.tokens \in Int /\ b.last \in Int /\ b.tokens <= Full
  BY FullFacts DEF BucketType
<1>2. /\ At(b, t) \in Int /\ CreditAt(k, b.last, t) \in Int /\ At(b, t) <= CreditAt(k, b.last, t)
      /\ Cost \in Nat
  BY <1>1, GrownFacts, GrownOrder, FullFacts DEF At
<1>3. -At(b, t) \in Int
  BY <1>2
<1>4. Pot(-At(b, t)) >= -At(b, t) + 2 * Cost /\ Pot(-At(b, t)) \in Int
  BY <1>3, PotAbove, PotFacts
<1> QED BY <1>2, <1>4

\* Fewer reservations.
LEMMA HoldsLess ==
  ASSUME NEW b \in BucketType, b.tokens <= Full, NEW k \in Int, k <= Full, NEW s \in Int,
         NEW L, IsFiniteSet(L), NEW act, \A r \in L : act[r] \in Int,
         NEW M \in SUBSET L, NEW act2, \A r \in M : act2[r] = act[r],
         Holds(b, k, s, L, act)
  PROVE  Holds(b, k, s, M, act2)
<1> SUFFICES ASSUME NEW t \in Int, t >= s \/ t >= b.lastEvent
             PROVE  Owed(M, act2, t) + 2 * Cost <= CreditAt(k, s, t) + Pot(-At(b, t))
  BY DEF Holds
<1>1. Owed(L, act, t) + 2 * Cost <= CreditAt(k, s, t) + Pot(-At(b, t))
  BY DEF Holds
<1>2. /\ Owed(M, act2, t) <= Owed(L, act, t)
      /\ Owed(L, act, t) \in Nat /\ Owed(M, act2, t) \in Nat
  <2>1. IsFiniteSet(M) /\ \A r \in M : act2[r] \in Int
    BY FS_Subset
  <2> QED BY <2>1, OwedLess, OwedFinite
<1>3. CreditAt(k, s, t) \in Int /\ Pot(-At(b, t)) \in Int /\ Cost \in Nat
  BY GrownFacts, BucketGrown, FullFacts
<1> QED BY <1>1, <1>2, <1>3

\* Time passes for bucket and credit alike.
LEMMA HoldsLater ==
  ASSUME NEW b \in BucketType, b.tokens <= Full, NEW k \in Int, k <= Full,
         NEW n \in Int, n >= b.last,
         NEW L, IsFiniteSet(L), NEW act, \A r \in L : act[r] \in Int,
         Holds(b, k, b.last, L, act)
  PROVE  /\ Holds(b, Filled(k, b.last, n), n, L, act)
         /\ Held(Tokens(b, n), Filled(k, b.last, n), n, L, act)
<1>1. b.last \in Int /\ b.lastEvent \in Int /\ b.tokens \in Int /\ Cost \in Nat
  BY BucketGrown, FullFacts
<1>2. ASSUME NEW t \in Int, t >= n \/ t >= b.lastEvent
      PROVE  Owed(L, act, t) + 2 * Cost <= CreditAt(Filled(k, b.last, n), n, t) + Pot(-At(b, t))
  <2>1. t >= b.last \/ t >= b.lastEvent
    BY <1>1, <1>2
  <2>2. Owed(L, act, t) + 2 * Cost <= CreditAt(k, b.last, t) + Pot(-At(b, t))
    BY <2>1 DEF Holds
  <2>3. CreditAt(k, b.last, t) <= CreditAt(Filled(k, b.last, n), n, t)
    BY <1>1, GrownLater
  <2>4. /\ CreditAt(k, b.last, t) \in Int /\ CreditAt(Filled(k, b.last, n), n, t) \in Int
        /\ Pot(-At(b, t)) \in Int /\ Owed(L, act, t) \in Nat
    <3>1. Filled(k, b.last, n) \in Int /\ Filled(k, b.last, n) <= Full
      BY <1>1, GrownFacts
    <3> QED BY <1>1, <3>1, GrownFacts, BucketGrown, OwedFinite
  <2> QED BY <1>1, <2>2, <2>3, <2>4
<1>3. \A t \in Int : t >= n => Grown(Tokens(b, n), n, t) = At(b, t)
  BY <1>1, FullFacts DEF Tokens, At, Filled, Grown
<1> QED BY <1>2, <1>3 DEF Holds, Held

LEMMA CostFits == Cost <= Full
<1>1. \A m, n \in Nat \ {0} : n <= m * n
  OBVIOUS
<1> QED BY <1>1, BucketAssumption DEF Full

LEMMA GrownLess ==
  ASSUME NEW T \in Int, NEW u \in Int
  PROVE  LET old == IF T + u < Full THEN T + u ELSE Full
             new == IF T - Cost + u < Full THEN T - Cost + u ELSE Full
         IN  old \in Int /\ new \in Int /\ new <= old
BY FullFacts

\* Allow: as much from the credit as from the bucket.
LEMMA AllowHolds ==
  ASSUME NEW T \in Int, NEW k \in Int, T <= k, k <= Full, T >= Cost, NEW n \in Int,
         NEW L, IsFiniteSet(L), NEW act, \A r \in L : act[r] \in Int, Held(T, k, n, L, act),
         NEW M \in SUBSET L, NEW act2, \A r \in M : act2[r] = act[r],
         NEW c \in BucketType, c.tokens = T - Cost, c.last = n, c.lastEvent = n
  PROVE  Holds(c, k - Cost, n, M, act2)
<1>1. Full \in Nat /\ Cost \in Nat \ {0} /\ Cost <= Full
  BY FullFacts, BucketAssumption, CostFits
<1> SUFFICES ASSUME NEW t \in Int, t >= n
             PROVE  Owed(M, act2, t) + 2 * Cost <= CreditAt(k - Cost, n, t) + Pot(-At(c, t))
  BY DEF Holds
<1> DEFINE old == Grown(T, n, t)
           new == Grown(T - Cost, n, t)
           K == CreditAt(k, n, t)
           J == CreditAt(k - Cost, n, t)
<1>2. At(c, t) = new
  BY DEF At
<1>3. Owed(L, act, t) + 2 * Cost <= K + Pot(-old)
  BY DEF Held
<1>4. /\ Owed(M, act2, t) <= Owed(L, act, t)
      /\ Owed(L, act, t) \in Nat /\ Owed(M, act2, t) \in Nat
  <2>1. IsFiniteSet(M) /\ \A r \in M : act2[r] \in Int
    BY FS_Subset
  <2> QED BY <2>1, OwedLess, OwedFinite
<1>5. old \in Nat /\ new \in Nat /\ old - new >= K - J /\ K \in Int /\ J \in Int
  BY <1>1 DEF Grown, CreditAt
<1> HIDE DEF old, new, K, J
<1>6. Pot(-old) = -old + 2 * Cost /\ Pot(-new) = -new + 2 * Cost
  <2>1. -old \in Int /\ -old <= 0 /\ -new \in Int /\ -new <= 0
    BY <1>5
  <2> QED BY <2>1, PotFacts
<1>7. Owed(M, act2, t) + 2 * Cost <= J + Pot(-new)
  BY <1>1, <1>3, <1>4, <1>5, <1>6
<1> QED BY <1>2, <1>7 DEF J

\* What Reserve leaves, with a reservation that acts at a.
Reserved(c, T, n, a) ==
  /\ c.tokens = T - Cost /\ c.last = n /\ c.lastEvent = a
  /\ a = IF T < Cost THEN n + Cost - T ELSE n

\* Reserve: the bucket has paid for what the reservation may give back.
LEMMA ReserveHolds ==
  ASSUME NEW T \in Int, T <= Full, NEW k \in 0..Full, NEW n \in Int,
         NEW L, IsFiniteSet(L), NEW act, \A q \in L : act[q] \in Int, Held(T, k, n, L, act),
         NEW r \in Requests, r \notin L, NEW M, M \in SUBSET (L \cup {r}),
         NEW act2, \A q \in L : act2[q] = act[q],
         NEW c \in BucketType, Reserved(c, T, n, act2[r])
  PROVE  Holds(c, k, n, M, act2)
<1> DEFINE a == act2[r]
<1>0. /\ c.tokens = T - Cost /\ c.last = n /\ c.lastEvent = act2[r]
      /\ act2[r] = IF T < Cost THEN n + Cost - T ELSE n
  BY DEF Reserved
<1>1. Full \in Nat /\ Cost \in Nat \ {0} /\ Cost <= Full
  BY FullFacts, BucketAssumption, CostFits
<1>2. a \in Int /\ a >= n /\ a = (IF T < Cost THEN n + Cost - T ELSE n)
  <2>1. a = IF T < Cost THEN n + Cost - T ELSE n
    BY <1>0
  <2> HIDE DEF a
  <2> QED BY <1>1, <2>1
<1> SUFFICES ASSUME NEW t \in Int, t >= n
             PROVE  Owed(M, act2, t) + 2 * Cost <= CreditAt(k, n, t) + Pot(-At(c, t))
  BY <1>0, <1>2 DEF Holds
<1> DEFINE u == t - n
           old == IF T + u < Full THEN T + u ELSE Full
           new == IF T - Cost + u < Full THEN T - Cost + u ELSE Full
           K == CreditAt(k, n, t)
           D == Owed(L, act, t)
           E == Owed(M, act2, t)
           W == Pot(a - t - Cost)
<1>3. u \in Nat /\ t = n + u
  OBVIOUS
<1>4. At(c, t) = new /\ Grown(T, n, t) = old /\ K \in Int
  <2>1. K \in Int
    BY <1>1, GrownFacts
  <2>2. At(c, t) = new /\ Grown(T, n, t) = old
    BY <1>0, <1>1 DEF At, Grown
  <2> QED BY <2>1, <2>2
<1>5. D + 2 * Cost <= K + Pot(-old)
  BY <1>4 DEF Held
<1>6. /\ D \in Nat /\ E \in Nat
      /\ a >= t => E <= D + W /\ W \in Nat
      /\ a < t => E <= D
  <2>1. IsFiniteSet(M) /\ \A q \in M : act2[q] \in Int
    <3>1. IsFiniteSet(L \cup {r})
      BY FS_AddElement
    <3> QED BY <1>2, <3>1, FS_Subset
  <2>2. D \in Nat /\ E \in Nat
    BY <2>1, OwedFinite
  <2>3. /\ act2[r] >= t => /\ Owed(M, act2, t) <= Owed(L, act, t) + Pot(act2[r] - t - Cost)
                           /\ Pot(act2[r] - t - Cost) \in Nat
        /\ act2[r] < t => Owed(M, act2, t) <= Owed(L, act, t)
    BY <1>2, OwedJoins
  <2> QED BY <2>2, <2>3
<1> SUFFICES E + 2 * Cost <= K + Pot(-new)
  BY <1>4
<1> HIDE DEF a, u, K, D, E
<1>7. old \in Int /\ new \in Int /\ new <= old
  <2>1. T \in Int /\ u \in Int
    BY <1>3
  <2> QED BY ONLY <2>1, GrownLess
<1>8. CASE a >= t /\ T <= Cost
  <2>1. /\ old = T + u /\ new = old - Cost /\ Cost - old \in Nat
        /\ a - t - Cost = -old /\ -new = Cost - old /\ (Cost - old) - Cost = -old
    BY <1>1, <1>2, <1>3, <1>8
  <2> HIDE DEF old, new
  <2>2. Pot(-new) = 2 * Pot(-old) /\ Pot(-old) \in Int
    <3>1. Cost - old \in Int /\ Cost - old >= 0 /\ -old \in Int
      BY <1>7, <2>1
    <3> QED BY <2>1, <3>1, PotFacts
  <2>3. W = Pot(-old)
    BY <2>1
  <2> HIDE DEF W
  <2> QED BY <1>1, <1>4, <1>5, <1>6, <1>8, <2>2, <2>3
<1>9. CASE a >= t /\ T > Cost
  <2>1. old = T /\ new = T - Cost /\ a - t - Cost = -Cost
    <3>1. a = n /\ u = 0 /\ a - t = 0
      BY <1>1, <1>2, <1>3, <1>9
    <3> QED BY <1>1, <1>9, <3>1
  <2> HIDE DEF old, new
  <2>2. /\ -old \in Int /\ -old <= 0 /\ -new \in Int /\ -new <= 0 /\ -Cost \in Int /\ -Cost <= 0
    BY <1>1, <1>9, <2>1
  <2>3. Pot(-old) = -old + 2 * Cost /\ Pot(-new) = -new + 2 * Cost /\ Pot(-Cost) = -Cost + 2 * Cost
    BY <2>2, PotFacts
  <2>4. W = Pot(-Cost)
    BY <2>1
  <2> HIDE DEF W
  <2> QED BY <1>1, <1>4, <1>5, <1>6, <1>9, <2>1, <2>3, <2>4
<1>10. CASE a < t
  <2> HIDE DEF old, new, W
  <2>1. -old \in Int /\ -new \in Int /\ -old <= -new
    BY <1>7
  <2>2. Pot(-old) <= Pot(-new) /\ Pot(-old) \in Int /\ Pot(-new) \in Int
    BY <2>1, PotMonotone, PotFacts
  <2> QED BY <1>1, <1>4, <1>5, <1>6, <1>10, <2>2
<1> QED BY <1>1, <1>2, <1>8, <1>9, <1>10

(* The arithmetic of a Cancel, of a reservation that acts at a: S[s] is    *)
(* owed as of s before it, m as of t after it, and the bucket b becomes c. *)
(* Up to the time a and the latest event, Pot's convexity pays for what    *)
(* the bucket gains; later, what the others are owed has fallen with time. *)
LEMMA CancelCovered ==
  ASSUME NEW b \in BucketType, b.tokens <= Full, Debt(b), NEW k \in 0..Full,
         NEW n \in Int, n >= b.last, NEW a \in Int, a >= n, b.lastEvent - a < Cost,
         NEW S \in [Int -> Nat],
         \A s \in Int : (s >= n \/ s >= b.lastEvent) =>
                          S[s] + 2 * Cost <= CreditAt(k, n, s) + Pot(-At(b, s)),
         \A s \in Int : s <= a => Pot(a - s - Cost) <= S[s],
         NEW t \in Int, t >= n \/ t >= b.lastEvent,
         NEW m \in Nat,
         \A s \in Int : s <= a /\ s <= t => m = 0 \/ m + (t - s) + Pot(a - s - Cost) <= S[s],
         NEW c, c.tokens = (IF Tokens(b, n) + (Cost - (b.lastEvent - a)) < Full
                              THEN Tokens(b, n) + (Cost - (b.lastEvent - a)) ELSE Full),
         c.last = n
  PROVE  m + 2 * Cost <= CreditAt(k, n, t) + Pot(-At(c, t))
<1> DEFINE T == Tokens(b, n)
           e == b.lastEvent
           u == e - a
           R == Cost - u
           left == IF T + R < Full THEN T + R ELSE Full
           Before(s) == IF T + (s - n) < Full THEN T + (s - n) ELSE Full
           After == IF left + (t - n) < Full THEN left + (t - n) ELSE Full
           K(s) == CreditAt(k, n, s)
           W(s) == Pot(a - s - Cost)
<1>0. /\ Full \in Nat /\ Cost \in Nat \ {0} /\ n \in Int /\ T \in Int /\ T <= Full /\ e \in Int
      /\ u \in Int /\ R \in Int /\ R > 0 /\ left \in Int /\ After \in Int
      /\ \A s \in Int : Before(s) \in Int /\ Before(s) <= Full
  <2>1. /\ Full \in Nat /\ Cost \in Nat \ {0} /\ T \in Int /\ T <= Full /\ e \in Int
    BY FullFacts, BucketAssumption, BucketGrown
  <2> HIDE DEF T, e
  <2>2. u \in Int /\ R \in Int
    BY <2>1
  <2> HIDE DEF u, R
  <2>3. left \in Int
    BY <2>1, <2>2
  <2> HIDE DEF left
  <2>4. R > 0
    BY <2>1, <2>2 DEF R, u, e
  <2> QED BY <2>1, <2>2, <2>3, <2>4
<1>1. /\ \A s \in Int : K(s) \in Int /\ K(s) <= Full /\ (s >= n => K(s) >= k)
      /\ \A s, r \in Int : s <= r => K(s) <= K(r)
      /\ \A s, r \in Int, x \in Int : s <= r /\ x <= K(s) + (r - s) /\ x <= Full => x <= K(r)
  BY <1>0 DEF CreditAt, Grown
<1>2. \A s \in Int : s <= a => W(s) \in Int /\ W(s) >= (a - s) + Cost /\ W(s) <= S[s]
  <2> SUFFICES ASSUME NEW s \in Int, s <= a
               PROVE  W(s) \in Int /\ W(s) >= (a - s) + Cost /\ W(s) <= S[s]
    OBVIOUS
  <2>1. a - s \in Nat
    OBVIOUS
  <2> QED BY <2>1, PotPositive
<1> HIDE DEF K, W
<1>3. \A x \in Int : Pot(x) \in Int /\ Pot(x) >= x + 2 * Cost /\ (x <= 0 => Pot(x) = x + 2 * Cost)
  BY PotFacts, PotAbove
\* While a reservation can be cancelled the bucket is not full.
<1>4. T < Full
  <2> SUFFICES ASSUME T = Full
               PROVE  FALSE
    <3> HIDE DEF T
    <3> QED BY <1>0
  <2>1. At(b, n) = Full
    BY BucketGrown
  <2>2. S[n] + 2 * Cost <= K(n) + Pot(-Full)
    BY <2>1 DEF K
  <2>3. Pot(-Full) = -Full + 2 * Cost
    BY <1>0, <1>3
  <2>4. W(n) <= S[n] /\ W(n) >= Cost /\ W(n) \in Int /\ S[n] \in Nat
    BY <1>0, <1>2
  <2> QED BY <1>0, <1>1, <2>2, <2>3, <2>4
<1>5. e >= n - T /\ \A s \in Int : At(b, s) = Before(s)
  <2>1. T = b.tokens + (n - b.last) /\ b.tokens \in Int /\ b.last \in Int
    <3>1. T = At(b, n) /\ b.tokens \in Int /\ b.last \in Int
      BY BucketGrown
    <3> HIDE DEF T
    <3> QED BY <1>0, <1>4, <3>1 DEF At, Grown
  <2>2. \A s \in Int : b.tokens + (s - b.last) = T + (s - n)
    BY <1>0, <2>1
  <2>3. e >= n - T
    <3> HIDE DEF T
    <3> QED BY <1>0, <1>4, <2>1 DEF Debt
  <2> HIDE DEF T, e
  <2> QED BY <2>2, <2>3 DEF At, Grown
<1>6. At(c, t) = After
  BY DEF At, Grown
<1>7. \A s \in Int : (s >= n \/ s >= e) => S[s] + 2 * Cost <= K(s) + Pot(-Before(s))
  BY <1>5 DEF K
<1>8. \A s \in Int : s <= a /\ s <= t => m = 0 \/ m + (t - s) + W(s) <= S[s]
  BY DEF W
<1>9. t >= n \/ t >= e
  OBVIOUS
<1> HIDE DEF T, e, left
<1>10. After <= Full /\ After <= T + R + (t - n)
  BY <1>0 DEF left
\* Nor is it full by then.
<1>11. ASSUME NEW s \in Int, s <= a, s >= n \/ s >= e
       PROVE  Before(s) = T + (s - n)
  <2> SUFFICES ASSUME Before(s) = Full
               PROVE  FALSE
    BY <1>0
  <2>1. S[s] + 2 * Cost <= K(s) + Pot(-Full)
    BY <1>7, <1>11
  <2>2. Pot(-Full) = -Full + 2 * Cost
    BY <1>0, <1>3
  <2>3. W(s) <= S[s] /\ W(s) >= (a - s) + Cost /\ W(s) \in Int /\ S[s] \in Nat
    BY <1>0, <1>2, <1>11
  <2> HIDE DEF Before
  <2> QED BY <1>0, <1>1, <1>11, <2>1, <2>2, <2>3
<1> HIDE DEF After, Before, u, R
<1> SUFFICES m + 2 * Cost <= K(t) + Pot(-After)
  BY <1>6 DEF K
<1>12. CASE t <= a /\ t <= e
  <2> DEFINE y == -(T + (t - n))
             q == e - t
  <2>1. /\ y \in Int /\ q \in Nat /\ u < Cost /\ y <= q /\ q - u - Cost = a - t - Cost
        /\ R = Cost - u /\ y - R \in Int /\ -After \in Int /\ y - R <= -After
    BY <1>0, <1>5, <1>10, <1>12 DEF u, R, e
  <2>2. S[t] + 2 * Cost <= K(t) + Pot(y)
    <3>1. Before(t) = T + (t - n)
      BY <1>9, <1>11, <1>12
    <3> QED BY <1>7, <1>9, <3>1
  <2> HIDE DEF y, q
  <2>3. Pot(y) - Pot(y - (Cost - u)) <= W(t)
    <3>1. Pot(y) - Pot(y - (Cost - u)) <= Pot(q - u - Cost)
      BY <1>0, <2>1, ReturnBefore
    <3> QED BY <2>1, <3>1 DEF W
  <2>4. Pot(y - R) <= Pot(-After)
    BY <2>1, PotMonotone
  <2>5. m + W(t) <= S[t]
    <3>1. W(t) <= S[t] /\ W(t) \in Int /\ (m = 0 \/ m + (t - t) + W(t) <= S[t])
      BY <1>2, <1>8, <1>12
    <3>2. S[t] \in Nat
      OBVIOUS
    <3> QED BY <3>1, <3>2
  <2>6. /\ W(t) \in Int /\ Pot(y) \in Int /\ Pot(y - R) \in Int /\ Pot(-After) \in Int
        /\ S[t] \in Nat
    BY <1>2, <1>3, <1>12, <2>1
  <2>7. Pot(y) - Pot(y - R) <= W(t)
    BY <2>1, <2>3
  <2> QED BY <1>0, <1>1, <2>2, <2>4, <2>5, <2>6, <2>7
<1>13. CASE t > a /\ a <= e
  <2> DEFINE y == -(T + (a - n))
             d == t - a
  <2>1. /\ y \in Int /\ d \in Nat /\ u \in Nat /\ u < Cost /\ y <= u
        /\ R = Cost - u /\ y - d - R \in Int /\ -After \in Int /\ y - d - R <= -After
    BY <1>0, <1>5, <1>10, <1>13 DEF u, R, e
  <2>2. S[a] + 2 * Cost <= K(a) + Pot(y)
    <3>1. Before(a) = T + (a - n)
      BY <1>11
    <3> QED BY <1>7, <3>1
  <2>3. W(a) <= S[a] /\ W(a) >= Cost /\ W(a) \in Int /\ (m = 0 \/ m + (t - a) + W(a) <= S[a])
    BY <1>0, <1>2, <1>8, <1>13
  <2>4. K(a) \in Int /\ K(t) \in Int /\ K(a) <= K(t) /\ S[a] \in Nat
    BY <1>1, <1>13
  <2>5. After <= K(a) + d => After <= K(t)
    BY <1>0, <1>1, <1>10, <1>13
  <2> HIDE DEF y
  <2>6. Pot(y) \in Int /\ Pot(-After) \in Int /\ Pot(-After) >= -After + 2 * Cost
    BY <1>3, <2>1
  <2>7. CASE m = 0
    <3>1. 3 * Cost <= K(a) + Pot(y)
      BY <1>0, <2>2, <2>3, <2>4, <2>6
    <3>2. After <= K(a) + d
      <4>1. CASE y <= 0
        <5>1. Pot(y) = y + 2 * Cost
          BY <1>3, <2>1, <4>1
        <5> QED BY <1>0, <2>1, <2>4, <3>1, <5>1
      <4>2. CASE y > 0
        <5>1. Pot(y) = 2 * y + 2 * Cost
          <6>1. y \in 0..Cost
            BY <1>0, <2>1, <4>2
          <6> QED BY <6>1, PotFirst
        <5> QED BY <1>0, <2>1, <2>4, <3>1, <5>1
      <4> QED BY <2>1, <4>1, <4>2
    <3> QED BY <1>0, <2>4, <2>5, <2>6, <2>7, <3>2
  <2>8. CASE m + d + W(a) <= S[a]
    <3>1. Pot(y) - d - Cost <= Pot(y - d - R)
      <4>1. Pot(y) - d - Cost <= Pot(y - d - (Cost - u))
        BY <1>0, <2>1, ReturnAfter
      <4> QED BY <2>1, <4>1
    <3>2. Pot(y - d - R) <= Pot(-After)
      BY <2>1, PotMonotone
    <3>3. Pot(y - d - R) \in Int
      BY <1>3, <2>1
    <3> QED BY <1>0, <2>1, <2>2, <2>3, <2>4, <2>6, <2>8, <3>1, <3>2, <3>3
  <2> QED BY <2>3, <2>7, <2>8
<1>14. CASE t > e /\ a > e
  <2> DEFINE p == T + (e - n)
  <2>1. /\ p \in Int /\ p >= 0 /\ R = (a - e) + Cost /\ After <= p + R + (t - e)
    BY <1>0, <1>5, <1>10, <1>14 DEF u, R
  <2>2. S[e] + p <= K(e)
    <3>1. Before(e) = p
      BY <1>0, <1>11, <1>14
    <3>2. Pot(-p) = -p + 2 * Cost
      BY <1>3, <2>1
    <3>3. S[e] + 2 * Cost <= K(e) + Pot(-p)
      BY <1>0, <1>7, <3>1
    <3>4. S[e] \in Nat /\ K(e) \in Int
      BY <1>0, <1>1
    <3> HIDE DEF p
    <3> QED BY <1>0, <2>1, <3>2, <3>3, <3>4
  <2>3. W(e) <= S[e] /\ W(e) >= R /\ W(e) \in Int /\ (m = 0 \/ m + (t - e) + W(e) <= S[e])
    BY <1>0, <1>2, <1>8, <1>14, <2>1
  <2>4. K(e) \in Int /\ K(t) \in Int /\ K(e) <= K(t) /\ S[e] \in Nat
    <3>1. e \in Int /\ e <= t
      BY <1>0, <1>14
    <3>2. K(e) <= K(t)
      BY <1>1, <3>1
    <3> QED BY <1>1, <3>1, <3>2
  <2>5. After <= K(e) + (t - e) => After <= K(t)
    BY <1>0, <1>1, <1>10, <1>14
  <2>6. Pot(-After) \in Int /\ Pot(-After) >= -After + 2 * Cost
    <3>1. -After \in Int
      BY <1>0
    <3> QED BY <1>3, <3>1
  <2> HIDE DEF p
  <2>7. m + After <= K(t)
    BY <1>0, <2>1, <2>2, <2>3, <2>4, <2>5
  <2> QED BY <1>0, <2>4, <2>6, <2>7
<1>15. \/ t <= a /\ t <= e
       \/ t > a /\ a <= e
       \/ t > e /\ a > e
  BY <1>0
<1> QED BY <1>12, <1>13, <1>14, <1>15

LEMMA ReturnHolds ==
  ASSUME NEW b \in BucketType, b.tokens <= Full, Debt(b), NEW k \in 0..Full,
         NEW n \in Int, n >= b.last,
         NEW L, IsFiniteSet(L), NEW act, \A q \in L : act[q] \in Int, Holds(b, k, n, L, act),
         NEW r \in L, Cancelled(b, act[r], n) # b,
         NEW M \in SUBSET (L \ {r}), NEW act2, \A q \in M : act2[q] = act[q]
  PROVE  Holds(Cancelled(b, act[r], n), k, n, M, act2)
<1> DEFINE a == act[r]
           c == Cancelled(b, a, n)
           S == [s \in Int |-> Owed(L, act, s)]
<1>1. a \in Int /\ c # b /\ b.lastEvent \in Int /\ Cost \in Nat
  BY BucketGrown, FullFacts
<1>2. /\ a >= n /\ b.lastEvent - a < Cost
      /\ c.tokens = (IF Tokens(b, n) + (Cost - (b.lastEvent - a)) < Full
                       THEN Tokens(b, n) + (Cost - (b.lastEvent - a)) ELSE Full)
      /\ c.last = n
      /\ \/ c.lastEvent = b.lastEvent
         \/ a = b.lastEvent /\ c.lastEvent = a - Cost /\ a - Cost >= n
  <2> HIDE DEF a
  <2> QED BY <1>1, CancelFields
<1>3. IsFiniteSet(M) /\ \A q \in M : act2[q] \in Int
  BY FS_Subset
<1>4. ASSUME NEW s \in Int, NEW t \in Int, s <= a, s <= t
      PROVE  /\ Pot(a - s - Cost) <= S[s] /\ Owed(M, act2, t) \in Nat
             /\ Owed(M, act2, t) = 0 \/ Owed(M, act2, t) + (t - s) + Pot(a - s - Cost) <= S[s]
  <2>1. /\ Pot(a - s - Cost) <= Owed(L, act, s)
        /\ Owed(M, act2, t) = 0 \/ Owed(M, act2, t) + (t - s) + Pot(a - s - Cost) <= Owed(L, act, s)
    BY <1>4, OwedLeaves
  <2>2. Owed(M, act2, t) \in Nat
    BY <1>3, OwedFinite
  <2> QED BY <2>1, <2>2
<1>5. /\ S \in [Int -> Nat]
      /\ \A s \in Int : (s >= n \/ s >= b.lastEvent) =>
                          S[s] + 2 * Cost <= CreditAt(k, n, s) + Pot(-At(b, s))
  <2>1. S \in [Int -> Nat]
    BY OwedFinite
  <2> QED BY <2>1 DEF Holds
<1> SUFFICES ASSUME NEW t \in Int, t >= n \/ t >= c.lastEvent
             PROVE  Owed(M, act2, t) + 2 * Cost <= CreditAt(k, n, t) + Pot(-At(c, t))
  BY DEF Holds
<1> DEFINE m == Owed(M, act2, t)
<1>6. t >= n \/ t >= b.lastEvent
  BY <1>1, <1>2
<1>7. /\ \A s \in Int : s <= a => Pot(a - s - Cost) <= S[s]
      /\ \A s \in Int : s <= a /\ s <= t => m = 0 \/ m + (t - s) + Pot(a - s - Cost) <= S[s]
      /\ m \in Nat
  <2>1. \A s \in Int : s <= a => Pot(a - s - Cost) <= S[s]
    <3>1. \A s \in Int : s <= s
      OBVIOUS
    <3> QED BY <1>4, <3>1
  <2>2. m \in Nat
    BY <1>3, OwedFinite
  <2> QED BY <1>4, <2>1, <2>2
<1> HIDE DEF S, m, c, a
<1>8. m + 2 * Cost <= CreditAt(k, n, t) + Pot(-At(c, t))
  BY <1>1, <1>2, <1>5, <1>6, <1>7, CancelCovered
<1> QED BY <1>8 DEF m

-----------------------------------------------------------------------------
(* Buckets and credit.                                                     *)

\* The reservations that a Cancel may still give back.
Live(ip) == {r \in Requests : rpc[r] = "cancel" /\ rip[r] = ip}

\* The time of a bucket was read within three steps of its request's lookup.
CreditOf(ip) ==
  /\ credit[ip] \in 0..Full
  /\ Known(ip) => /\ bucket[ip].tokens <= credit[ip] /\ Debt(bucket[ip])
                  /\ bucket[ip].last <= bucket[ip].seen + 3 * MaxLag
  /\ ~Known(ip) => credit[ip] = Full

\* While no reservation of the address was overtaken by an earlier time.
Covered(ip) ==
  Known(ip) /\ ~crossed[ip] => Holds(bucket[ip], credit[ip], bucket[ip].last, Live(ip), ract)

CreditInv == TypesInv /\ \A ip \in IPs : CreditOf(ip) /\ Covered(ip)

LEMMA BucketFacts ==
  ASSUME CreditInv, NEW ip \in IPs
  PROVE  /\ bucket \in [IPs -> BucketType] /\ credit \in [IPs -> Int] /\ crossed \in [IPs -> BOOLEAN]
         /\ bucket[ip] \in BucketType /\ credit[ip] \in 0..Full /\ Full \in Nat
         /\ credit[ip] \in Int /\ credit[ip] <= Full
         /\ Known(ip) => /\ bucket[ip].tokens <= Full /\ bucket[ip].tokens <= credit[ip]
                         /\ Debt(bucket[ip]) /\ bucket[ip].last \in Nat
                         /\ bucket[ip].last <= bucket[ip].seen + 3 * MaxLag
         /\ ~Known(ip) => credit[ip] = Full
         /\ IsFiniteSet(Live(ip)) /\ \A r \in Live(ip) : r \in Requests /\ ract[r] \in Int
<1>1. /\ bucket \in [IPs -> BucketType] /\ credit \in [IPs -> Int] /\ crossed \in [IPs -> BOOLEAN]
      /\ Known(ip) => bucket[ip].tokens <= Full /\ bucket[ip].last \in Nat
  BY FullFacts DEF CreditInv, TypesInv, LimiterInv, BucketsFine, BucketFine
<1>2. IsFiniteSet(Live(ip)) /\ \A r \in Live(ip) : r \in Requests /\ ract[r] \in Int
  BY RequestsAssumption, FS_Subset DEF Live, CreditInv, TypesInv, LimiterInv
<1>3. CreditOf(ip)
  BY DEF CreditInv
<1> QED BY <1>1, <1>2, <1>3, FullFacts DEF CreditOf

\* What r finds when it uses the bucket of its address, having read the time t.
LEMMA UseFacts ==
  ASSUME CreditInv, NEW r \in Requests, rpc[r] \in InUse, NEW t \in Read(r)
  PROVE  /\ rip[r] \in IPs /\ Known(rip[r])
         /\ t \in Int /\ t \in (now - MaxLag)..now
         /\ t <= bucket[rip[r]].seen + 3 * MaxLag /\ bucket[rip[r]].seen >= 0
<1> PICK ip : ip = rip[r]
  OBVIOUS
<1>1. /\ ip \in IPs /\ Known(ip) /\ rsince[r] <= now /\ now - rsince[r] <= MaxLag
      /\ bucket[ip].seen + 2 * MaxLag >= rsince[r]
  BY DEF CreditInv, TypesInv, LimiterInv, HoldersFresh
<1>2. /\ bucket[ip].seen \in Int /\ bucket[ip].seen >= 0 /\ now \in Nat /\ rsince[r] \in Nat
      /\ MaxLag \in Nat
  BY <1>1, FullFacts DEF CreditInv, TypesInv, LimiterInv, BucketType
<1>3. t \in Int /\ t >= rsince[r] /\ t <= now
  BY <1>2 DEF Read
<1> QED BY <1>1, <1>2, <1>3

\* An address whose bucket and credit a step leaves alone.
LEMMA SameCredit ==
  ASSUME CreditInv, NEW ip \in IPs, bucket'[ip] \in BucketType, credit'[ip] = credit[ip],
         Known(ip)' <=> Known(ip),
         Known(ip) => bucket'[ip] = bucket[ip] \/ bucket'[ip] = [bucket[ip] EXCEPT !.seen = now],
         Live(ip)' \subseteq Live(ip), \A r \in Live(ip)' : ract'[r] = ract[r],
         (crossed'[ip] <=> crossed[ip]) \/ Live(ip)' = {}
  PROVE  CreditOf(ip)' /\ Covered(ip)'
<1>1. CASE ~Known(ip)
  BY <1>1, BucketFacts DEF CreditOf, Covered
<1>2. CASE Known(ip)
  <2> PICK b : b = bucket[ip]
    OBVIOUS
  <2> PICK c : c = bucket'[ip]
    OBVIOUS
  <2>1. /\ b \in BucketType /\ c \in BucketType /\ credit[ip] \in Int /\ credit[ip] <= Full
        /\ b.tokens <= Full /\ b.tokens <= credit[ip] /\ Debt(b) /\ b.last <= b.seen + 3 * MaxLag
        /\ b.seen <= now /\ now \in Nat /\ MaxLag \in Nat
    BY <1>2, BucketFacts, FullFacts DEF CreditInv, TypesInv, LimiterInv
  <2>2. /\ c.tokens = b.tokens /\ c.last = b.last /\ c.lastEvent = b.lastEvent /\ c.seen >= b.seen
        /\ b.seen \in Int /\ b.last \in Int /\ c.seen \in Int
    <3>1. c = b \/ c = [b EXCEPT !.seen = now]
      BY <1>2
    <3> QED BY <2>1, <3>1 DEF BucketType
  <2>3. CreditOf(ip)'
    <3>1. Debt(c) /\ c.tokens <= credit[ip] /\ c.last <= c.seen + 3 * MaxLag
      BY <2>1, <2>2 DEF Debt
    <3>2. credit[ip] \in 0..Full
      BY BucketFacts
    <3> QED BY <1>2, <3>1, <3>2 DEF CreditOf
  <2>4. ASSUME ~crossed'[ip]
        PROVE  Holds(c, credit[ip], c.last, Live(ip)', ract')
    <3>1. CASE Live(ip)' = {}
      BY <2>1, <2>2, <3>1, HoldsAlone
    <3>2. CASE Live(ip)' # {}
      <4>1. Holds(b, credit[ip], b.last, Live(ip), ract)
        BY <1>2, <2>4, <3>2 DEF CreditInv, Covered
      <4>2. Holds(b, credit[ip], b.last, Live(ip)', ract')
        <5>1. IsFiniteSet(Live(ip)) /\ \A r \in Live(ip) : ract[r] \in Int
          BY BucketFacts
        <5>2. b.last \in Int
          BY <2>2
        <5> QED BY <2>1, <4>1, <5>1, <5>2, HoldsLess
      <4> QED BY <2>2, <4>2 DEF Holds, At
    <3> QED BY <3>1, <3>2
  <2> QED BY <2>3, <2>4 DEF Covered
<1> QED BY <1>1, <1>2

\* A step of one request within Middleware.
LEMMA LiveStep ==
  ASSUME LimiterInv, NEW r \in Requests,
         rpc' = [rpc EXCEPT ![r] = rpc'[r]], ract' = [ract EXCEPT ![r] = ract'[r]],
         rip' = [rip EXCEPT ![r] = rip'[r]]
  PROVE  /\ \A q \in Requests \ {r} : rpc'[q] = rpc[q] /\ rip'[q] = rip[q] /\ ract'[q] = ract[q]
         /\ \A ip : rpc'[r] # "cancel" \/ rip'[r] # ip =>
              Live(ip)' \subseteq Live(ip) \ {r} /\ \A q \in Live(ip)' : ract'[q] = ract[q]
<1>1. \A q \in Requests \ {r} : rpc'[q] = rpc[q] /\ rip'[q] = rip[q] /\ ract'[q] = ract[q]
  BY DEF LimiterInv
<1> QED BY <1>1 DEF Live

LEMMA LookupCredit ==
  ASSUME CreditInv, NEW r \in Requests, LimiterLookup(r, LimiterKey(origin[r])),
         UNCHANGED <<now, origin>>
  PROVE  /\ \A ip \in IPs : CreditOf(ip)' /\ Covered(ip)'
         /\ UNCHANGED <<now, credit, [ip \in IPs |-> bucket[ip].last], crossed>>
<1> PICK key : key = LimiterKey(origin[r])
  OBVIOUS
<1>1. /\ key \in IPs \cup {NoIP} /\ bucket \in [IPs -> BucketType] /\ now \in Nat /\ LimiterInv
      /\ \A ip \in IPs : Known(ip) <=> bucket[ip].seen >= 0
  BY AddressTypes DEF CreditInv, TypesInv, LimiterInv
<1>2. /\ UNCHANGED <<credit, crossed>>
      /\ \/ UNCHANGED bucket
         \/ key \in IPs /\ bucket' = [bucket EXCEPT ![key] =
                             IF Known(key) THEN [bucket[key] EXCEPT !.seen = now] ELSE NewBucket]
      /\ rpc' = [rpc EXCEPT ![r] = rpc'[r]] /\ ract' = [ract EXCEPT ![r] = ract'[r]]
      /\ rip' = [rip EXCEPT ![r] = rip'[r]] /\ rpc'[r] # "cancel"
  BY <1>1 DEF LimiterLookup, Leave, LimiterInv
<1>3. NewBucket \in BucketType /\ NewBucket # NoBucket /\ NewBucket.last = 0 /\ NoBucket.last = 0
      /\ NewBucket.tokens = Full /\ NewBucket.lastEvent = 0 /\ NewBucket.seen = now
  BY <1>1, FullFacts DEF BucketType, NewBucket, NoBucket
<1>4. ASSUME NEW ip \in IPs
      PROVE  CreditOf(ip)' /\ Covered(ip)' /\ bucket'[ip].last = bucket[ip].last
  <2>1. Live(ip)' \subseteq Live(ip) /\ \A q \in Live(ip)' : ract'[q] = ract[q]
    BY <1>1, <1>2, LiveStep
  <2>2. CASE bucket'[ip] = bucket[ip]
    <3>1. Known(ip)' <=> Known(ip)
      BY <2>2 DEF Known
    <3> QED BY <1>1, <1>2, <2>1, <2>2, <3>1, SameCredit
  <2>3. CASE Known(ip) /\ bucket'[ip] = [bucket[ip] EXCEPT !.seen = now]
    <3>1. /\ bucket'[ip] \in BucketType /\ bucket'[ip].last = bucket[ip].last /\ bucket'[ip].seen >= 0
      BY <1>1, <2>3 DEF BucketType
    <3>2. Known(ip)' <=> Known(ip)
      BY <2>3, <3>1 DEF Known, NoBucket
    <3> QED BY <1>2, <2>1, <2>3, <3>1, <3>2, SameCredit
  <2>4. CASE ~Known(ip) /\ bucket'[ip] = NewBucket
    <3>1. Live(ip)' = {}
      BY <1>1, <2>1, <2>4 DEF LimiterInv, HoldersFresh, InUse, Live
    <3>2. Known(ip)' /\ bucket[ip] = NoBucket /\ credit'[ip] = Full /\ credit'[ip] \in 0..Full
      BY <1>2, <1>3, <2>4, BucketFacts, FullFacts DEF Known
    <3>3. Debt(NewBucket) /\ NewBucket.last <= NewBucket.seen + 3 * MaxLag /\ NewBucket.tokens <= Full
      BY <1>1, <1>3, FullFacts DEF Debt
    <3>4. CreditOf(ip)'
      BY <2>4, <3>2, <3>3 DEF CreditOf
    <3>5. Holds(NewBucket, Full, NewBucket.last, {}, ract')
      BY <1>3, <3>3, FullFacts, HoldsAlone
    <3>6. Covered(ip)'
      BY <2>4, <3>1, <3>2, <3>5 DEF Covered
    <3> QED BY <1>3, <2>4, <3>2, <3>4, <3>6
  <2> QED BY <1>1, <1>2, <2>2, <2>3, <2>4
<1>5. [ip \in IPs |-> bucket'[ip].last] = [ip \in IPs |-> bucket[ip].last]
  BY <1>4
<1> QED BY <1>2, <1>4, <1>5

LEMMA Compare ==
  ASSUME NEW b \in BucketType, NEW j \in 0..Full, b.tokens <= j, NEW t \in Int
  PROVE  /\ Tokens(b, t) \in Int /\ Tokens(b, t) <= Filled(j, b.last, t)
         /\ Filled(j, b.last, t) \in 0..Full /\ Filled(j, b.last, t) \in Int
         /\ Filled(j, b.last, t) <= Full
<1>1. Full \in Nat /\ b.tokens \in Int /\ b.last \in Int /\ j \in Int /\ j <= Full /\ j >= 0
  BY FullFacts DEF BucketType
<1>2. Filled(j, b.last, t) \in Int /\ Filled(j, b.last, t) <= Full /\ Filled(j, b.last, t) >= j
  BY <1>1, GrownFacts
<1>3. Tokens(b, t) \in Int /\ Tokens(b, t) <= Filled(j, b.last, t)
  BY <1>1, FullFacts DEF Tokens, Filled
<1> QED BY <1>1, <1>2, <1>3

\* What a step that leaves the bucket of ip with the time t means for the abstract ones.
Sets(ip, t) ==
  /\ [i \in IPs |-> bucket'[i].last] = [[i \in IPs |-> bucket[i].last] EXCEPT ![ip] = t]
  /\ \E x \in BOOLEAN : /\ x => crossed[ip] \/ t < [i \in IPs |-> bucket[i].last][ip]
                        /\ crossed' = [crossed EXCEPT ![ip] = x]
  /\ Buckets!Filled(credit[ip], [i \in IPs |-> bucket[i].last][ip], t)
       = Filled(credit[ip], bucket[ip].last, t)
  /\ Backwards(ip) <=> t < [i \in IPs |-> bucket[i].last][ip]

LEMMA Leaves ==
  ASSUME CreditInv, NEW r \in Requests, NEW ip \in IPs, ip = rip[r],
         NEW c, NEW t, c.last = t,
         bucket' = [bucket EXCEPT ![ip] = c], NoteCrossing(r)
  PROVE  Sets(ip, t)
<1>1. bucket \in [IPs -> BucketType] /\ crossed \in [IPs -> BOOLEAN]
  BY BucketFacts
<1>2. /\ [i \in IPs |-> bucket'[i].last] = [[i \in IPs |-> bucket[i].last] EXCEPT ![ip] = t]
      /\ bucket'[ip].last = t
  BY <1>1
<1> PICK x : x = (/\ crossed[ip] \/ Backwards(ip)
                  /\ \E q \in Requests \ {r} : rpc[q] = "cancel" /\ rip[q] = ip)
  OBVIOUS
<1>3. Backwards(ip) <=> t < [i \in IPs |-> bucket[i].last][ip]
  BY <1>2 DEF Backwards
<1>4. x \in BOOLEAN /\ (x => crossed[ip] \/ t < [i \in IPs |-> bucket[i].last][ip])
  BY <1>3
<1>5. crossed' = [crossed EXCEPT ![ip] = x]
  BY DEF NoteCrossing
<1>6. Buckets!Filled(credit[ip], [i \in IPs |-> bucket[i].last][ip], t)
        = Filled(credit[ip], bucket[ip].last, t)
  BY DEF Buckets!Filled, Filled, Buckets!Full, Full
<1> QED BY <1>2, <1>3, <1>4, <1>5, <1>6 DEF Sets

\* The reservations of an address on which r's step leaves none overtaken.
LEMMA Uncrossed ==
  ASSUME CreditInv, NEW r \in Requests, NEW ip \in IPs, ip = rip[r], NoteCrossing(r),
         ~crossed'[ip]
  PROVE  \/ ~crossed[ip] /\ ~Backwards(ip)
         \/ Live(ip) \subseteq {r}
<1>1. crossed \in [IPs -> BOOLEAN]
  BY BucketFacts
<1> QED BY <1>1 DEF NoteCrossing, Live

LEMMA AllowStep ==
  ASSUME CreditInv, NEW r \in Requests, rpc[r] = "allow", NEW t \in Read(r),
         NEW ip, ip = rip[r], Tokens(bucket[ip], t) >= Cost, Leave(r, "admitted"),
         bucket' = [bucket EXCEPT ![ip] = Taken(bucket[ip], t)],
         credit' = [credit EXCEPT ![ip] = Filled(credit[ip], bucket[ip].last, t) - Cost],
         NoteCrossing(r), UNCHANGED now
  PROVE  CreditOf(ip)' /\ Covered(ip)' /\ Buckets!Admit(ip, t)
<1> PICK b : b = bucket[ip]
  OBVIOUS
<1> PICK c : c = Taken(b, t)
  OBVIOUS
<1> PICK T : T = Tokens(b, t)
  OBVIOUS
<1> PICK k : k = Filled(credit[ip], b.last, t)
  OBVIOUS
<1>1. /\ ip \in IPs /\ Known(ip) /\ t \in Int /\ t <= b.seen + 3 * MaxLag /\ b.seen >= 0
      /\ Cost \in Nat /\ Full \in Nat
  BY UseFacts, FullFacts DEF InUse
<1>2. /\ b \in BucketType /\ b.tokens <= Full /\ b.tokens <= credit[ip] /\ Debt(b)
      /\ credit[ip] \in 0..Full /\ credit[ip] \in Int /\ credit[ip] <= Full
      /\ b.last \in Int /\ b.tokens \in Int
      /\ IsFiniteSet(Live(ip)) /\ \A q \in Live(ip) : ract[q] \in Int
      /\ bucket'[ip] = c /\ credit'[ip] = k - Cost
  BY <1>1, BucketFacts DEF BucketType
<1>3. T \in Int /\ k \in Int /\ T <= k /\ k <= Full /\ T >= Cost
  BY <1>1, <1>2, Compare
<1>4. /\ c \in BucketType /\ c.tokens = T - Cost /\ c.last = t /\ c.lastEvent = t
      /\ c.seen = b.seen /\ Debt(c)
  <2>1. Debt(c)
    <3>1. 0 \in Int
      OBVIOUS
    <3> QED BY <1>1, <1>2, <3>1, DebtKept
  <2>2. /\ c \in BucketType /\ c.tokens = T - Cost /\ c.last = t /\ c.seen = b.seen
        /\ c.lastEvent = IF T < Cost THEN t + Cost - T ELSE t
    BY <1>1, <1>2, TakenFields
  <2> QED BY <1>1, <1>3, <2>1, <2>2
<1>5. Known(ip)'
  BY <1>1, <1>2, <1>4 DEF Known, NoBucket
<1>6. CreditOf(ip)'
  <2>1. credit'[ip] \in 0..Full /\ c.tokens <= credit'[ip]
    BY <1>1, <1>2, <1>3, <1>4
  <2> QED BY <1>1, <1>2, <1>4, <1>5, <2>1 DEF CreditOf
<1>7. Live(ip)' \subseteq Live(ip) \ {r} /\ \A q \in Live(ip)' : ract'[q] = ract[q]
  <2>1. /\ rpc' = [rpc EXCEPT ![r] = rpc'[r]] /\ ract' = [ract EXCEPT ![r] = ract'[r]]
        /\ rip' = [rip EXCEPT ![r] = rip'[r]] /\ rpc'[r] # "cancel" /\ LimiterInv
    BY DEF Leave, CreditInv, TypesInv, LimiterInv
  <2> QED BY <2>1, LiveStep
<1>8. ASSUME ~crossed'[ip]
      PROVE  Holds(c, k - Cost, t, Live(ip)', ract')
  <2>1. CASE ~crossed[ip] /\ ~Backwards(ip)
    <3>1. t >= b.last
      BY <1>1, <1>2, <1>4, <2>1 DEF Backwards
    <3>2. Holds(b, credit[ip], b.last, Live(ip), ract)
      BY <1>1, <2>1 DEF CreditInv, Covered
    <3>3. Held(T, k, t, Live(ip), ract)
      BY <1>1, <1>2, <3>1, <3>2, HoldsLater
    <3> QED BY <1>1, <1>2, <1>3, <1>4, <1>7, <3>3, AllowHolds
  <2>2. CASE Live(ip) \subseteq {r}
    <3>1. Live(ip)' = {}
      BY <1>7, <2>2
    <3>2. k - Cost \in Int /\ k - Cost <= Full /\ c.tokens <= k - Cost
      BY <1>1, <1>3, <1>4
    <3> QED BY <1>4, <3>1, <3>2, HoldsAlone
  <2> QED BY <1>1, <1>8, <2>1, <2>2, Uncrossed
<1>9. Covered(ip)'
  BY <1>2, <1>4, <1>8 DEF Covered
<1>10. Buckets!Admit(ip, t)
  <2>1. credit' = [credit EXCEPT ![ip] = k - Cost] /\ k >= Cost
    BY <1>1, <1>3
  <2>2. /\ [i \in IPs |-> bucket'[i].last] = [[i \in IPs |-> bucket[i].last] EXCEPT ![ip] = t]
        /\ \E x \in BOOLEAN : /\ x => crossed[ip] \/ t < [i \in IPs |-> bucket[i].last][ip]
                              /\ crossed' = [crossed EXCEPT ![ip] = x]
        /\ Buckets!Filled(credit[ip], [i \in IPs |-> bucket[i].last][ip], t) = k
    <3>1. c \in BucketType /\ c.last = t /\ t \in Int /\ bucket' = [bucket EXCEPT ![ip] = c]
      BY <1>1, <1>4
    <3>2. Sets(ip, t)
      BY <1>1, <3>1, Leaves
    <3> QED BY <3>2 DEF Sets
  <2> QED BY <2>1, <2>2 DEF Buckets!Admit, Buckets!Leave
<1> QED BY <1>6, <1>9, <1>10

LEMMA ReserveStep ==
  ASSUME CreditInv, NEW r \in Requests, rpc[r] = "reserve", NEW t \in Read(r),
         NEW ip, ip = rip[r], Step(r, "cancel"),
         bucket' = [bucket EXCEPT ![ip] = Taken(bucket[ip], t)],
         ract' = [ract EXCEPT ![r] = Taken(bucket[ip], t).lastEvent],
         credit' = [credit EXCEPT ![ip] = Filled(credit[ip], bucket[ip].last, t)],
         NoteCrossing(r), UNCHANGED now
  PROVE  CreditOf(ip)' /\ Covered(ip)' /\ Buckets!Refuse(ip, t)
<1> PICK b : b = bucket[ip]
  OBVIOUS
<1> PICK c : c = Taken(b, t)
  OBVIOUS
<1> PICK T : T = Tokens(b, t)
  OBVIOUS
<1> PICK k : k = Filled(credit[ip], b.last, t)
  OBVIOUS
<1>1. /\ ip \in IPs /\ Known(ip) /\ t \in Int /\ t <= b.seen + 3 * MaxLag /\ b.seen >= 0
      /\ Cost \in Nat /\ Full \in Nat
  BY UseFacts, FullFacts DEF InUse
<1>2. /\ b \in BucketType /\ b.tokens <= Full /\ b.tokens <= credit[ip] /\ Debt(b)
      /\ credit[ip] \in 0..Full /\ credit[ip] \in Int /\ credit[ip] <= Full
      /\ b.last \in Int /\ b.tokens \in Int
      /\ IsFiniteSet(Live(ip)) /\ \A q \in Live(ip) : ract[q] \in Int
      /\ bucket'[ip] = c /\ credit'[ip] = k
  BY <1>1, BucketFacts DEF BucketType
<1>3. T \in Int /\ k \in 0..Full /\ k \in Int /\ T <= k /\ k <= Full /\ T <= Full
  <2>1. T \in Int /\ k \in 0..Full /\ k \in Int /\ T <= k /\ k <= Full
    BY <1>1, <1>2, Compare
  <2> QED BY <1>1, <2>1
<1>4. /\ c \in BucketType /\ c.tokens = T - Cost /\ c.last = t
      /\ c.lastEvent = (IF T < Cost THEN t + Cost - T ELSE t)
      /\ c.seen = b.seen /\ Debt(c) /\ ract'[r] = c.lastEvent
  <2>1. Debt(c)
    <3>1. 0 \in Int
      OBVIOUS
    <3> QED BY <1>1, <1>2, <3>1, DebtKept
  <2>2. ract'[r] = c.lastEvent
    BY DEF CreditInv, TypesInv, LimiterInv
  <2> QED BY <1>1, <1>2, <2>1, <2>2, TakenFields
<1>5. Known(ip)'
  BY <1>1, <1>2, <1>4 DEF Known, NoBucket
<1>6. CreditOf(ip)'
  <2>1. credit'[ip] \in 0..Full /\ c.tokens <= credit'[ip]
    BY <1>1, <1>2, <1>3, <1>4
  <2> QED BY <1>1, <1>2, <1>4, <1>5, <2>1 DEF CreditOf
<1>7. /\ r \notin Live(ip) /\ Live(ip)' \subseteq Live(ip) \cup {r}
      /\ \A q \in Live(ip) : ract'[q] = ract[q]
  <2>1. /\ rpc' = [rpc EXCEPT ![r] = rpc'[r]] /\ ract' = [ract EXCEPT ![r] = ract'[r]]
        /\ rip' = [rip EXCEPT ![r] = rip'[r]] /\ LimiterInv
    BY DEF Step, CreditInv, TypesInv, LimiterInv
  <2>2. \A q \in Requests \ {r} : rpc'[q] = rpc[q] /\ rip'[q] = rip[q] /\ ract'[q] = ract[q]
    BY <2>1, LiveStep
  <2> QED BY <2>2 DEF Live
<1>8. ASSUME ~crossed'[ip]
      PROVE  Holds(c, k, t, Live(ip)', ract')
  <2>1. PICK L \in SUBSET Live(ip) : Held(T, k, t, L, ract) /\ Live(ip)' \subseteq L \cup {r}
    <3>1. CASE ~crossed[ip] /\ ~Backwards(ip)
      <4>1. t >= b.last
        BY <1>1, <1>2, <1>4, <3>1 DEF Backwards
      <4>2. Holds(b, credit[ip], b.last, Live(ip), ract)
        BY <1>1, <3>1 DEF CreditInv, Covered
      <4>3. Held(T, k, t, Live(ip), ract)
        BY <1>1, <1>2, <4>1, <4>2, HoldsLater
      <4> QED BY <1>7, <4>3
    <3>2. CASE Live(ip) \subseteq {r}
      <4>1. Live(ip)' \subseteq {} \cup {r}
        BY <1>7, <3>2
      <4>2. Held(T, k, t, {}, ract)
        BY <1>1, <1>3, HeldAlone
      <4> QED BY <4>1, <4>2
    <3> QED BY <1>1, <1>8, <3>1, <3>2, Uncrossed
  <2>2. /\ IsFiniteSet(L) /\ r \notin L /\ \A q \in L : ract[q] \in Int
        /\ \A q \in L : ract'[q] = ract[q]
    BY <1>2, <1>7, FS_Subset
  <2> PICK M : M = Live(ip)'
    OBVIOUS
  <2> PICK act2 : act2 = ract'
    OBVIOUS
  <2>3. /\ M \in SUBSET (L \cup {r}) /\ \A q \in L : act2[q] = ract[q]
        /\ act2[r] = (IF T < Cost THEN t + Cost - T ELSE t) /\ c.lastEvent = act2[r]
    BY <1>4, <2>1, <2>2
  <2>4. /\ T \in Int /\ T <= Full /\ k \in 0..Full /\ t \in Int /\ Held(T, k, t, L, ract)
        /\ c \in BucketType /\ Reserved(c, T, t, act2[r])
    BY <1>1, <1>3, <1>4, <2>1, <2>3 DEF Reserved
  <2>5. Holds(c, k, t, M, act2)
    <3>1. r \in Requests
      OBVIOUS
    <3> QED BY ONLY <2>2, <2>3, <2>4, <3>1, ReserveHolds
  <2> QED BY <2>5
<1>9. Covered(ip)'
  BY <1>2, <1>4, <1>8 DEF Covered
<1>10. Buckets!Refuse(ip, t)
  <2>1. credit' = [credit EXCEPT ![ip] = k]
    OBVIOUS
  <2>2. /\ [i \in IPs |-> bucket'[i].last] = [[i \in IPs |-> bucket[i].last] EXCEPT ![ip] = t]
        /\ \E x \in BOOLEAN : /\ x => crossed[ip] \/ t < [i \in IPs |-> bucket[i].last][ip]
                              /\ crossed' = [crossed EXCEPT ![ip] = x]
        /\ Buckets!Filled(credit[ip], [i \in IPs |-> bucket[i].last][ip], t) = k
    <3>1. c \in BucketType /\ c.last = t /\ t \in Int /\ bucket' = [bucket EXCEPT ![ip] = c]
      BY <1>1, <1>4
    <3>2. Sets(ip, t)
      BY <1>1, <3>1, Leaves
    <3> QED BY <3>2 DEF Sets
  <2> QED BY <2>1, <2>2 DEF Buckets!Refuse, Buckets!Leave
<1> QED BY <1>6, <1>9, <1>10


\* A Cancel that gives something back.
LEMMA CancelStep ==
  ASSUME CreditInv, NEW r \in Requests, rpc[r] = "cancel", NEW t \in Read(r),
         NEW ip, ip = rip[r], Cancelled(bucket[ip], ract[r], t) # bucket[ip], Leave(r, "refused"),
         bucket' = [bucket EXCEPT ![ip] = Cancelled(bucket[ip], ract[r], t)],
         credit' = [credit EXCEPT ![ip] = IF crossed[ip] \/ Backwards(ip) THEN Full
                                          ELSE Filled(credit[ip], bucket[ip].last, t)],
         NoteCrossing(r), UNCHANGED now
  PROVE  /\ CreditOf(ip)' /\ Covered(ip)'
         /\ Buckets!Overflow(ip, t) \/ Buckets!Refuse(ip, t)
         /\ ~crossed[ip] /\ ~Backwards(ip) =>
              bucket'[ip].tokens <= Filled(credit[ip], bucket[ip].last, bucket'[ip].last)
<1> PICK b : b = bucket[ip]
  OBVIOUS
<1> PICK c : c = Cancelled(b, ract[r], t)
  OBVIOUS
<1> PICK k : k = Filled(credit[ip], b.last, t)
  OBVIOUS
<1>1. /\ ip \in IPs /\ Known(ip) /\ t \in Int /\ t <= b.seen + 3 * MaxLag /\ b.seen >= 0
      /\ Cost \in Nat /\ Full \in Nat
  BY UseFacts, FullFacts DEF InUse
<1>2. /\ b \in BucketType /\ b.tokens <= Full /\ b.tokens <= credit[ip] /\ Debt(b)
      /\ credit[ip] \in 0..Full /\ credit[ip] \in Int /\ credit[ip] <= Full
      /\ b.last \in Int /\ b.tokens \in Int
      /\ IsFiniteSet(Live(ip)) /\ \A q \in Live(ip) : ract[q] \in Int
      /\ bucket'[ip] = c /\ credit'[ip] = IF crossed[ip] \/ Backwards(ip) THEN Full ELSE k
  BY <1>1, BucketFacts DEF BucketType
<1>3. k \in 0..Full /\ k \in Int /\ k <= Full
  BY <1>1, <1>2, Compare
<1>4. r \in Live(ip) /\ ract[r] \in Int
  BY <1>2 DEF Live
<1>5. /\ c \in BucketType /\ c.tokens <= Full /\ c.tokens \in Int /\ c.last = t /\ c.seen = b.seen
      /\ Debt(c) /\ c # b
  <2>1. c # b
    OBVIOUS
  <2>2. Debt(c)
    BY <1>1, <1>2, <1>4, DebtKept
  <2>3. /\ c \in BucketType /\ c.seen = b.seen /\ c.last = t
        /\ c.tokens = (IF Tokens(b, t) + (Cost - (b.lastEvent - ract[r])) < Full
                         THEN Tokens(b, t) + (Cost - (b.lastEvent - ract[r])) ELSE Full)
    BY <1>1, <1>2, <1>4, <2>1, CancelFields
  <2>4. Tokens(b, t) + (Cost - (b.lastEvent - ract[r])) \in Int
    BY <1>1, <1>2, <1>4, BucketGrown
  <2> QED BY <1>1, <2>1, <2>2, <2>3, <2>4
<1>6. Known(ip)'
  BY <1>1, <1>2, <1>5 DEF Known, NoBucket
<1>7. Live(ip)' \subseteq Live(ip) \ {r} /\ \A q \in Live(ip)' : ract'[q] = ract[q]
  <2>1. /\ rpc' = [rpc EXCEPT ![r] = rpc'[r]] /\ ract' = [ract EXCEPT ![r] = ract'[r]]
        /\ rip' = [rip EXCEPT ![r] = rip'[r]] /\ rpc'[r] # "cancel" /\ LimiterInv
    BY DEF Leave, CreditInv, TypesInv, LimiterInv
  <2> QED BY <2>1, LiveStep
<1>8. Sets(ip, t)
  <2>1. c \in BucketType /\ c.last = t /\ t \in Int /\ bucket' = [bucket EXCEPT ![ip] = c]
    BY <1>1, <1>5
  <2> QED BY <1>1, <2>1, Leaves
<1>9. CASE crossed[ip] \/ Backwards(ip)
  <2>1. credit'[ip] = Full /\ credit' = [credit EXCEPT ![ip] = Full]
    BY <1>2, <1>9
  <2>2. CreditOf(ip)'
    BY <1>1, <1>2, <1>5, <1>6, <2>1 DEF CreditOf
  <2>3. ASSUME ~crossed'[ip]
        PROVE  Holds(c, Full, t, Live(ip)', ract')
    <3>1. Live(ip)' = {}
      <4>1. (~crossed[ip] /\ ~Backwards(ip)) \/ Live(ip) \subseteq {r}
        BY <1>1, <2>3, Uncrossed
      <4> QED BY <1>7, <1>9, <4>1
    <3>2. Full \in Int /\ Full <= Full
      BY <1>1
    <3> QED BY <1>5, <3>1, <3>2, HoldsAlone
  <2>4. Covered(ip)'
    BY <1>2, <1>5, <2>1, <2>3 DEF Covered
  <2>5. Buckets!Overflow(ip, t)
    BY <1>8, <1>9, <2>1 DEF Sets, Buckets!Overflow, Buckets!Leave, Buckets!Full, Full
  <2> QED BY <1>9, <2>2, <2>4, <2>5
<1>10. CASE ~(crossed[ip] \/ Backwards(ip))
  <2>1. credit'[ip] = k /\ credit' = [credit EXCEPT ![ip] = k]
    BY <1>2, <1>10
  <2>2. t >= b.last
    BY <1>1, <1>2, <1>5, <1>10 DEF Backwards
  <2>3. Holds(b, k, t, Live(ip), ract)
    <3>1. Holds(b, credit[ip], b.last, Live(ip), ract)
      BY <1>1, <1>10 DEF CreditInv, Covered
    <3> QED BY <1>1, <1>2, <2>2, <3>1, HoldsLater
  <2> PICK L : L = Live(ip)
    OBVIOUS
  <2> PICK M : M = Live(ip)'
    OBVIOUS
  <2> PICK act2 : act2 = ract'
    OBVIOUS
  <2>4. /\ IsFiniteSet(L) /\ r \in L /\ \A q \in L : ract[q] \in Int
        /\ M \in SUBSET (L \ {r}) /\ \A q \in M : act2[q] = ract[q] /\ act2[q] \in Int
        /\ IsFiniteSet(M)
    <3>1. /\ IsFiniteSet(L) /\ r \in L /\ \A q \in L : ract[q] \in Int
          /\ M \in SUBSET (L \ {r}) /\ \A q \in M : act2[q] = ract[q] /\ act2[q] \in Int
      BY <1>2, <1>4, <1>7
    <3> QED BY <3>1, FS_Subset
  <2>5. Holds(c, k, t, M, act2)
    <3>1. /\ b \in BucketType /\ b.tokens <= Full /\ Debt(b) /\ k \in 0..Full /\ t \in Int
          /\ t >= b.last /\ Holds(b, k, t, L, ract) /\ c = Cancelled(b, ract[r], t) /\ c # b
      BY <1>1, <1>2, <1>3, <1>5, <2>2, <2>3
    <3> QED BY ONLY <2>4, <3>1, ReturnHolds
  <2>6. c.tokens <= k
    <3>1. Holds(c, k, c.last, M, act2) /\ k >= 0
      BY <1>1, <1>3, <1>5, <2>5
    <3>2. c \in BucketType /\ c.tokens <= Full /\ k \in Int /\ k <= Full
      BY <1>3, <1>5
    <3> QED BY ONLY <2>4, <3>1, <3>2, HoldsNow
  <2>7. CreditOf(ip)'
    BY <1>1, <1>2, <1>3, <1>5, <1>6, <2>1, <2>6 DEF CreditOf
  <2>8. Covered(ip)'
    BY <1>2, <1>5, <2>1, <2>5 DEF Covered
  <2>9. Buckets!Refuse(ip, t)
    BY <1>8, <2>1 DEF Sets, Buckets!Refuse, Buckets!Leave
  <2>10. bucket'[ip].tokens <= Filled(credit[ip], bucket[ip].last, bucket'[ip].last)
    BY <1>2, <1>5, <2>6
  <2> QED BY <2>7, <2>8, <2>9, <2>10
<1> QED BY <1>9, <1>10

\* A Cancel that gives nothing back.
LEMMA IdleCancel ==
  ASSUME CreditInv, NEW r \in Requests, rpc[r] = "cancel", NEW ip, ip = rip[r],
         Leave(r, "refused"), UNCHANGED <<bucket, credit, now>>, NoteCrossing(r)
  PROVE  /\ CreditOf(ip)' /\ Covered(ip)'
         /\ Buckets!Settle(ip) \/ UNCHANGED Buckets!bucketsVars
         /\ bucket'[ip].tokens <= Filled(credit[ip], bucket[ip].last, bucket'[ip].last)
<1>1. /\ ip \in IPs /\ Known(ip) /\ crossed \in [IPs -> BOOLEAN] /\ LimiterInv
      /\ bucket[ip] \in BucketType /\ credit[ip] \in Int /\ bucket[ip].tokens <= credit[ip]
      /\ bucket[ip].last \in Int
  <2>1. ip \in IPs /\ Known(ip) /\ LimiterInv
    BY DEF CreditInv, TypesInv, LimiterInv, HoldersFresh, InUse
  <2> QED BY <2>1, BucketFacts DEF BucketType
<1>2. ~Backwards(ip)
  BY <1>1 DEF Backwards
<1>3. /\ \A i \in IPs \ {ip} : crossed'[i] = crossed[i]
      /\ crossed' = crossed \/ (crossed' = [crossed EXCEPT ![ip] = FALSE] /\ ~crossed'[ip])
  <2> PICK x : x = (/\ crossed[ip] \/ Backwards(ip)
                    /\ \E q \in Requests \ {r} : rpc[q] = "cancel" /\ rip[q] = ip)
    OBVIOUS
  <2>1. crossed' = [crossed EXCEPT ![ip] = x]
    BY DEF NoteCrossing
  <2>2. x = FALSE \/ x = crossed[ip]
    BY <1>1, <1>2
  <2>3. CASE x = FALSE
    BY <1>1, <2>1, <2>3
  <2>4. CASE x = crossed[ip]
    BY <1>1, <2>1, <2>4
  <2> QED BY <2>2, <2>3, <2>4
<1>4. Live(ip)' \subseteq Live(ip) \ {r} /\ \A q \in Live(ip)' : ract'[q] = ract[q]
  <2>1. /\ rpc' = [rpc EXCEPT ![r] = rpc'[r]] /\ ract' = [ract EXCEPT ![r] = ract'[r]]
        /\ rip' = [rip EXCEPT ![r] = rip'[r]] /\ rpc'[r] # "cancel"
    BY DEF Leave, CreditInv, TypesInv, LimiterInv
  <2> QED BY <1>1, <2>1, LiveStep
<1>5. (crossed'[ip] <=> crossed[ip]) \/ Live(ip)' = {}
  <2>1. CASE crossed' = crossed
    BY <2>1
  <2>2. CASE ~crossed'[ip] /\ crossed[ip]
    BY <1>1, <1>4, <2>2, Uncrossed
  <2> QED BY <1>1, <1>3, <2>1, <2>2
<1>6. CreditOf(ip)' /\ Covered(ip)'
  <2>1. bucket'[ip] = bucket[ip] /\ credit'[ip] = credit[ip] /\ (Known(ip)' <=> Known(ip))
    BY DEF Known
  <2> QED BY <1>1, <1>4, <1>5, <2>1, SameCredit
<1>7. Buckets!Settle(ip) \/ UNCHANGED Buckets!bucketsVars
  BY <1>3 DEF Buckets!Settle, Buckets!bucketsVars
<1>8. bucket'[ip].tokens <= Filled(credit[ip], bucket[ip].last, bucket'[ip].last)
  BY <1>1 DEF Filled
<1> QED BY <1>6, <1>7, <1>8

\* The addresses that a step of r within Middleware is not about.
LEMMA OthersKept ==
  ASSUME CreditInv, NEW r \in Requests, NEW ip \in IPs \ {rip[r]},
         bucket'[ip] = bucket[ip], credit'[ip] = credit[ip], crossed'[ip] = crossed[ip],
         rpc' = [rpc EXCEPT ![r] = rpc'[r]], ract' = [ract EXCEPT ![r] = ract'[r]],
         rip' = [rip EXCEPT ![r] = rip'[r]], rip'[r] \in {rip[r], NoIP}
  PROVE  CreditOf(ip)' /\ Covered(ip)'
<1>1. bucket[ip] \in BucketType /\ LimiterInv /\ ip \in IPs
  BY BucketFacts DEF CreditInv, TypesInv
<1>2. rip'[r] # ip
  BY NoIPAssumption
<1>3. Live(ip)' \subseteq Live(ip) /\ \A q \in Live(ip)' : ract'[q] = ract[q]
  BY <1>1, <1>2, LiveStep
<1>4. Known(ip)' <=> Known(ip)
  BY DEF Known
<1> QED BY <1>1, <1>3, <1>4, SameCredit

LEMMA UseCredit ==
  ASSUME CreditInv, NEW r \in Requests, Limiting(r), UNCHANGED <<now, origin>>
  PROVE  /\ \A ip \in IPs : CreditOf(ip)' /\ Covered(ip)'
         /\ [Buckets!BucketsNext]_(Buckets!bucketsVars)
         /\ WithinCredit
<1> PICK ip : ip = rip[r]
  OBVIOUS
<1>1. /\ ip \in IPs /\ LimiterInv /\ rpc \in [Requests -> RPC] /\ ract \in [Requests -> Int]
      /\ bucket \in [IPs -> BucketType] /\ credit \in [IPs -> Int] /\ crossed \in [IPs -> BOOLEAN]
  <2>1. rpc[r] \in InUse
    BY DEF Limiting, LimiterAllow, LimiterReserve, LimiterCancel, InUse
  <2>2. LimiterInv /\ ip \in IPs
    BY <2>1 DEF CreditInv, TypesInv, LimiterInv, HoldersFresh
  <2> QED BY <2>2, BucketFacts DEF LimiterInv
<1>2. /\ rpc' = [rpc EXCEPT ![r] = rpc'[r]] /\ ract' = [ract EXCEPT ![r] = ract'[r]]
      /\ rip' = [rip EXCEPT ![r] = rip'[r]] /\ rip'[r] \in {rip[r], NoIP}
  BY <1>1 DEF Limiting, LimiterAllow, LimiterReserve, LimiterCancel, Leave, Step, LimiterInv
<1>3. ASSUME NEW i \in IPs \ {ip}
      PROVE  bucket'[i] = bucket[i] /\ credit'[i] = credit[i] /\ crossed'[i] = crossed[i]
  <2>1. bucket'[i] = bucket[i] /\ credit'[i] = credit[i]
    BY <1>1 DEF Limiting, LimiterAllow, LimiterReserve, LimiterCancel
  <2>2. crossed'[i] = crossed[i]
    BY <1>1 DEF Limiting, LimiterAllow, LimiterReserve, LimiterCancel, NoteCrossing
  <2> QED BY <2>1, <2>2
<1>4. ASSUME NEW i \in IPs \ {ip}
      PROVE  CreditOf(i)' /\ Covered(i)'
  BY <1>2, <1>3, <1>4, OthersKept
<1>5. ASSUME CreditOf(ip)', Covered(ip)'
      PROVE  \A i \in IPs : CreditOf(i)' /\ Covered(i)'
  BY <1>4, <1>5
<1>6. ASSUME rpc[r] = "cancel" =>
               (~crossed[ip] /\ ~Backwards(ip) =>
                  bucket'[ip].tokens <= Filled(credit[ip], bucket[ip].last, bucket'[ip].last))
      PROVE  WithinCredit
  <2> SUFFICES ASSUME NEW q \in Requests, NEW i \in IPs,
                      rpc[q] = "cancel", rip[q] = i, rpc'[q] = "refused",
                      ~crossed[i], ~Backwards(i)
               PROVE  bucket'[i].tokens <= Filled(credit[i], bucket[i].last, bucket'[i].last)
    BY DEF WithinCredit
  <2>1. q = r
    BY <1>1, <1>2
  <2> QED BY <1>6, <2>1
<1>7. CASE LimiterAllow(r)
  <2>1. PICK t \in Read(r) :
          IF Tokens(bucket[ip], t) >= Cost
            THEN /\ Leave(r, "admitted")
                 /\ bucket' = [bucket EXCEPT ![ip] = Taken(bucket[ip], t)]
                 /\ credit' = [credit EXCEPT ![ip] = Filled(credit[ip], bucket[ip].last, t) - Cost]
                 /\ NoteCrossing(r)
            ELSE Step(r, "reserve") /\ UNCHANGED <<bucket, ract, credit, crossed>>
    BY <1>1, <1>7 DEF LimiterAllow
  <2>2. rpc[r] = "allow" /\ rpc[r] \in InUse
    BY <1>7 DEF LimiterAllow, InUse
  <2>3. CASE Tokens(bucket[ip], t) >= Cost
    <3>1. CreditOf(ip)' /\ Covered(ip)' /\ Buckets!Admit(ip, t)
      BY <2>1, <2>2, <2>3, AllowStep
    <3>2. t \in (now - MaxLag)..now
      BY <2>2, UseFacts
    <3> QED BY <1>1, <1>5, <1>6, <2>2, <3>1, <3>2 DEF Buckets!BucketsNext
  <2>4. CASE ~(Tokens(bucket[ip], t) >= Cost)
    <3>1. Step(r, "reserve") /\ UNCHANGED <<bucket, ract, credit, crossed>>
      BY <2>1, <2>4
    <3>2. rpc'[r] # "cancel"
      BY <1>1, <3>1 DEF Step
    <3>3. Live(ip)' \subseteq Live(ip) /\ \A q \in Live(ip)' : ract'[q] = ract[q]
      BY <1>1, <1>2, <3>2, LiveStep
    <3>4. bucket'[ip] = bucket[ip] /\ bucket[ip] \in BucketType /\ (Known(ip)' <=> Known(ip))
      BY <1>1, <3>1 DEF Known
    <3>5. CreditOf(ip)' /\ Covered(ip)'
      BY <1>1, <3>1, <3>3, <3>4, SameCredit
    <3>6. UNCHANGED Buckets!bucketsVars
      BY <3>1 DEF Buckets!bucketsVars
    <3> QED BY <1>5, <1>6, <2>2, <3>5, <3>6
  <2> QED BY <2>3, <2>4
<1>8. CASE LimiterReserve(r)
  <2>1. PICK t \in Read(r) :
          /\ bucket' = [bucket EXCEPT ![ip] = Taken(bucket[ip], t)]
          /\ ract' = [ract EXCEPT ![r] = Taken(bucket[ip], t).lastEvent]
          /\ credit' = [credit EXCEPT ![ip] = Filled(credit[ip], bucket[ip].last, t)]
    BY <1>1, <1>8 DEF LimiterReserve
  <2>2. rpc[r] = "reserve" /\ rpc[r] \in InUse /\ Step(r, "cancel") /\ NoteCrossing(r)
    BY <1>8 DEF LimiterReserve, InUse
  <2>3. CreditOf(ip)' /\ Covered(ip)' /\ Buckets!Refuse(ip, t)
    BY <2>1, <2>2, ReserveStep
  <2>4. t \in (now - MaxLag)..now
    BY <2>2, UseFacts
  <2> QED BY <1>1, <1>5, <1>6, <2>2, <2>3, <2>4 DEF Buckets!BucketsNext
<1>9. CASE LimiterCancel(r)
  <2>1. PICK t \in Read(r) :
          /\ bucket' = [bucket EXCEPT ![ip] = Cancelled(bucket[ip], ract[r], t)]
          /\ credit' = [credit EXCEPT ![ip] =
                          IF bucket' = bucket THEN credit[ip]
                          ELSE IF crossed[ip] \/ Backwards(ip) THEN Full
                          ELSE Filled(credit[ip], bucket[ip].last, t)]
    BY <1>1, <1>9 DEF LimiterCancel
  <2>2. rpc[r] = "cancel" /\ rpc[r] \in InUse /\ Leave(r, "refused") /\ NoteCrossing(r)
    BY <1>9 DEF LimiterCancel, InUse
  <2>3. CASE Cancelled(bucket[ip], ract[r], t) # bucket[ip]
    <3>1. bucket' # bucket
      BY <1>1, <2>1, <2>3
    <3>2. credit' = [credit EXCEPT ![ip] = IF crossed[ip] \/ Backwards(ip) THEN Full
                                           ELSE Filled(credit[ip], bucket[ip].last, t)]
      BY <2>1, <3>1
    <3>3. /\ CreditOf(ip)' /\ Covered(ip)'
          /\ Buckets!Overflow(ip, t) \/ Buckets!Refuse(ip, t)
          /\ ~crossed[ip] /\ ~Backwards(ip) =>
               bucket'[ip].tokens <= Filled(credit[ip], bucket[ip].last, bucket'[ip].last)
      BY <2>1, <2>2, <2>3, <3>2, CancelStep
    <3>4. t \in (now - MaxLag)..now
      BY <2>2, UseFacts
    <3> QED BY <1>1, <1>5, <1>6, <3>3, <3>4 DEF Buckets!BucketsNext
  <2>4. CASE Cancelled(bucket[ip], ract[r], t) = bucket[ip]
    <3>1. UNCHANGED bucket
      BY <1>1, <2>1, <2>4
    <3>2. UNCHANGED credit
      BY <1>1, <2>1, <3>1
    <3>3. /\ CreditOf(ip)' /\ Covered(ip)'
          /\ Buckets!Settle(ip) \/ UNCHANGED Buckets!bucketsVars
          /\ bucket'[ip].tokens <= Filled(credit[ip], bucket[ip].last, bucket'[ip].last)
      BY <2>2, <3>1, <3>2, IdleCancel
    <3> QED BY <1>1, <1>5, <1>6, <3>3 DEF Buckets!BucketsNext
  <2> QED BY <2>3, <2>4
<1> QED BY <1>7, <1>8, <1>9 DEF Limiting

\* A bucket is only dropped when its time is more than the Patience ago.
LEMMA CleanupCredit ==
  ASSUME CreditInv, LimiterCleanup, UNCHANGED <<now, origin>>
  PROVE  /\ \A ip \in IPs : CreditOf(ip)' /\ Covered(ip)'
         /\ \E gone \in SUBSET IPs : Buckets!Forget(gone)
<1> PICK gone : gone = {ip \in IPs : Stale(ip)}
  OBVIOUS
<1>1. /\ bucket' = [ip \in IPs |-> IF ip \in gone THEN NoBucket ELSE bucket[ip]]
      /\ credit' = [ip \in IPs |-> IF ip \in gone THEN Full ELSE credit[ip]]
      /\ UNCHANGED <<rpc, rip, ract, crossed>>
  BY DEF LimiterCleanup
<1>2. NoBucket.last = 0
  BY DEF NoBucket
<1>3. ASSUME NEW ip \in gone
      PROVE  ip \in IPs /\ now - bucket[ip].last > InactiveLimit - 3 * MaxLag
  <2>1. ip \in IPs /\ Known(ip) /\ now - bucket[ip].seen > InactiveLimit
    BY DEF Stale
  <2>2. bucket[ip].last <= bucket[ip].seen + 3 * MaxLag /\ bucket[ip] \in BucketType
    BY <2>1, BucketFacts
  <2>3. bucket[ip].last \in Int /\ bucket[ip].seen \in Int /\ now \in Int /\ MaxLag \in Int
        /\ InactiveLimit \in Int
    BY <2>2, FullFacts, InactiveAssumption DEF BucketType, CreditInv, TypesInv, LimiterInv
  <2> QED BY <2>1, <2>2, <2>3
<1>4. ASSUME NEW ip \in IPs
      PROVE  CreditOf(ip)' /\ Covered(ip)'
  <2>1. CASE ip \in gone
    <3>1. ~Known(ip)' /\ credit'[ip] = Full /\ Full \in 0..Full
      BY <1>1, <2>1, FullFacts DEF Known
    <3> QED BY <3>1 DEF CreditOf, Covered
  <2>2. CASE ip \notin gone
    <3>1. bucket'[ip] = bucket[ip] /\ credit'[ip] = credit[ip] /\ (Known(ip)' <=> Known(ip))
      BY <1>1, <2>2 DEF Known
    <3>2. Live(ip)' \subseteq Live(ip) /\ \A q \in Live(ip)' : ract'[q] = ract[q]
      BY <1>1 DEF Live
    <3>3. bucket[ip] \in BucketType /\ crossed'[ip] = crossed[ip]
      BY <1>1, BucketFacts
    <3> QED BY <3>1, <3>2, <3>3, SameCredit
  <2> QED BY <2>1, <2>2
<1>5. [ip \in IPs |-> bucket'[ip].last]
        = [ip \in IPs |-> IF ip \in gone THEN 0 ELSE [i \in IPs |-> bucket[i].last][ip]]
  BY <1>1, <1>2
<1>6. \A ip \in gone : now - [i \in IPs |-> bucket[i].last][ip] > InactiveLimit - 3 * MaxLag
  BY <1>3
<1>7. Buckets!Forget(gone)
  BY <1>1, <1>5, <1>6 DEF Buckets!Forget, Buckets!Full, Full
<1> QED BY <1>4, <1>7

\* A step that leaves the limiter alone.
LEMMA IdleCredit ==
  ASSUME CreditInv, UNCHANGED limiterVars
  PROVE  \A ip \in IPs : CreditOf(ip)' /\ Covered(ip)'
<1> SUFFICES ASSUME NEW ip \in IPs
             PROVE  CreditOf(ip)' /\ Covered(ip)'
  OBVIOUS
<1>1. /\ bucket'[ip] = bucket[ip] /\ credit'[ip] = credit[ip] /\ (Known(ip)' <=> Known(ip))
      /\ crossed'[ip] = crossed[ip] /\ bucket[ip] \in BucketType
  BY BucketFacts DEF limiterVars, Known
<1>2. Live(ip)' \subseteq Live(ip) /\ \A q \in Live(ip)' : ract'[q] = ract[q]
  BY DEF Live, limiterVars
<1> QED BY <1>1, <1>2, SameCredit

LEMMA CreditStep ==
  ASSUME CreditInv, [TrafficNext]_trafficVars
  PROVE  /\ CreditInv'
         /\ [Buckets!BucketsNext]_(Buckets!bucketsVars)
         /\ [WithinCredit]_limiterVars
<1> DEFINE Result == /\ \A ip \in IPs : CreditOf(ip)' /\ Covered(ip)'
                     /\ [Buckets!BucketsNext]_(Buckets!bucketsVars)
                     /\ [WithinCredit]_limiterVars
<1>1. TypesInv'
  BY TypesStep DEF CreditInv
<1>2. ASSUME UNCHANGED rpc
      PROVE  WithinCredit
  <2>1. \A r \in Requests : rpc[r] = "cancel" => rpc'[r] # "refused"
    BY <1>2
  <2> QED BY <2>1 DEF WithinCredit
<1>3. ASSUME NEW r \in Requests, LimiterLookup(r, LimiterKey(origin[r])), UNCHANGED <<now, origin>>
      PROVE  Result
  <2>1. /\ \A ip \in IPs : CreditOf(ip)' /\ Covered(ip)'
        /\ UNCHANGED <<now, credit, [ip \in IPs |-> bucket[ip].last], crossed>>
    BY <1>3, LookupCredit
  <2>2. WithinCredit
    <3>1. rpc[r] = "new" /\ rpc' = [rpc EXCEPT ![r] = rpc'[r]]
      BY <1>3 DEF LimiterLookup, Leave, CreditInv, TypesInv, LimiterInv
    <3>2. \A q \in Requests : rpc[q] = "cancel" => rpc'[q] # "refused"
      BY <3>1 DEF CreditInv, TypesInv, LimiterInv
    <3> QED BY <3>2 DEF WithinCredit
  <2> QED BY <2>1, <2>2 DEF Buckets!bucketsVars
<1>4. ASSUME NEW r \in Requests, Limiting(r), UNCHANGED <<now, origin>>
      PROVE  Result
  BY <1>4, UseCredit
<1>5. ASSUME LimiterCleanup, UNCHANGED <<now, origin>>
      PROVE  Result
  <2>1. UNCHANGED rpc
    BY <1>5 DEF LimiterCleanup
  <2>2. \A ip \in IPs : CreditOf(ip)' /\ Covered(ip)'
    BY <1>5, CleanupCredit
  <2>3. \E gone \in SUBSET IPs : Buckets!Forget(gone)
    BY <1>5, CleanupCredit
  <2> QED BY <1>2, <2>1, <2>2, <2>3 DEF Buckets!BucketsNext
<1>6. ASSUME UNCHANGED <<now, limiterVars>>
      PROVE  Result
  <2>1. UNCHANGED Buckets!bucketsVars
    BY <1>6 DEF Buckets!bucketsVars, limiterVars
  <2>2. \A ip \in IPs : CreditOf(ip)' /\ Covered(ip)'
    BY <1>6, IdleCredit
  <2> QED BY <1>6, <2>1, <2>2
<1>7. ASSUME Tick
      PROVE  Result
  <2>1. UNCHANGED limiterVars /\ now' = now + 1
    BY <1>7 DEF Tick, LimiterTick, ClockTick
  <2>2. \A ip \in IPs : CreditOf(ip)' /\ Covered(ip)'
    BY <2>1, IdleCredit
  <2>3. Buckets!TimePasses
    BY <2>1 DEF limiterVars, Buckets!TimePasses
  <2> QED BY <2>1, <2>2, <2>3 DEF Buckets!BucketsNext
<1>8. Result
  <2> HIDE DEF Result
  <2> QED BY <1>3, <1>4, <1>5, <1>6, <1>7
          DEF TrafficNext, Limit, Spawn, RunRecorder, Cleanup, trafficVars
<1> QED BY <1>1, <1>8 DEF CreditInv

LEMMA CreditStart == TrafficInit => CreditInv /\ Buckets!BucketsInit
<1> SUFFICES ASSUME TrafficInit
             PROVE  CreditInv /\ Buckets!BucketsInit
  OBVIOUS
<1>1. /\ credit = [ip \in IPs |-> Full] /\ \A ip \in IPs : ~Known(ip)
      /\ bucket = [ip \in IPs |-> NoBucket] /\ crossed = [ip \in IPs |-> FALSE] /\ now = 0
  BY DEF TrafficInit, LimiterInit, ClockInit, Known
<1>2. [ip \in IPs |-> bucket[ip].last] = [ip \in IPs |-> 0]
  BY <1>1 DEF NoBucket
<1>3. CreditInv
  BY <1>1, TypesStart, FullFacts DEF CreditInv, CreditOf, Covered
<1>4. Buckets!BucketsInit
  BY <1>1, <1>2 DEF Buckets!BucketsInit, Buckets!Full, Full
<1> QED BY <1>3, <1>4

(* However refusals overlap and in whatever order they cancel, with times  *)
(* read before they had the bucket, none leaves more in it than the        *)
(* admitted requests have left, unless the bucket's time was set back      *)
(* under a reservation that is still to be cancelled.                      *)
THEOREM CancelsBounded == TrafficSpec => CancelsWithinCredit
<1>1. CreditInv /\ [TrafficNext]_trafficVars => CreditInv' /\ [WithinCredit]_limiterVars
  BY CreditStep
<1> QED BY <1>1, CreditStart, PTL DEF TrafficSpec, CancelsWithinCredit

(* No more are admitted than by one bucket for each address that only      *)
(* admitted requests take from and that fills with the times they read:    *)
(* more only by what a time set back fills twice, by what a Cancel of an   *)
(* overtaken reservation gives back, and by the bucket that an address     *)
(* starts with again when it has been idle.                                *)
THEOREM BucketsRefined == TrafficSpec => ImplementsBuckets
<1>1. CreditInv /\ [TrafficNext]_trafficVars
        => CreditInv' /\ [Buckets!BucketsNext]_(Buckets!bucketsVars)
  BY CreditStep
<1> QED BY <1>1, CreditStart, PTL DEF TrafficSpec, ImplementsBuckets, Buckets!BucketsSpec
=============================================================================
