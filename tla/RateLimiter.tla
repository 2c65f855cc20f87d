---------------------------- MODULE RateLimiter ----------------------------
(***************************************************************************)
(* The rate limiter of internal/middleware/limiter.go: a map of buckets by *)
(* address behind a mutex, a background cleanup, and for each request the  *)
(* steps of Middleware: getLimiter, Allow and, when that refuses, the look *)
(* ahead by Reserve, Delay and Cancel.  Each of these calls is one step of *)
(* its own under the mutex of the map or of the bucket.  getLimiter reads  *)
(* the clock under its mutex; the other three before they have theirs, so  *)
(* that a step works with a time read since the request's step before it,  *)
(* which may be earlier than the time of the bucket.                       *)
(*                                                                         *)
(* A bucket is golang.org/x/time/rate's Limiter: tokens as of the time     *)
(* last, and the time lastEvent of the latest event.  Tokens are counted   *)
(* in ticks: a request takes Cost of them.                                 *)
(*                                                                         *)
(* A definition whose name has a suffix _Mutant... is a plausible slip.    *)
(***************************************************************************)
EXTENDS Clock, Integers, FiniteSets

CONSTANTS
  Requests,       \* the requests of a run, each used once
  IPs,            \* the canonical addresses
  NoIP,           \* "": no valid address
  Burst, Cost,    \* the burst, and the ticks for one request: 1/rps
  InactiveLimit,  \* the idle time after which a bucket is dropped, 3 minutes
  MaxLag          \* a request goes from one step to the next within this time

ASSUME NoIPAssumption == NoIP \notin IPs
ASSUME RequestsAssumption == IsFiniteSet(Requests)
ASSUME BucketAssumption == Burst \in Nat \ {0} /\ Cost \in Nat \ {0}
(* The scheduler does not suspend a request for a minute between two of    *)
(* its steps.  Of the rest nothing is assumed: a burst may take longer to  *)
(* fill than the limit, since config.go only asks for positive values.     *)
ASSUME InactiveAssumption ==
  /\ InactiveLimit \in Nat /\ MaxLag \in Nat \ {0}
  /\ 3 * MaxLag <= InactiveLimit

VARIABLES
  bucket,   \* IPRateLimiter.ips: the bucket of each address, or none
  rpc,      \* where each request is in Middleware
  rip,      \* its canonical address
  rsince,   \* when it made its last step
  ract,     \* timeToAct of its reservation
  credit,   \* history: what each bucket would hold, as of its time, if only
            \* admitted requests took from it
  crossed   \* history: reservations of the address are outstanding that the
            \* bucket's time was set back under

limiterVars == <<bucket, rpc, rip, rsince, ract, credit, crossed>>

Full == Burst * Cost
NoBucket == [tokens |-> 0, last |-> 0, lastEvent |-> 0, seen |-> -1]
NewBucket == [tokens |-> Full, last |-> 0, lastEvent |-> 0, seen |-> now]
Known(ip) == bucket[ip] # NoBucket

InUse == {"allow", "reserve", "cancel"}
Ended == {"admitted", "refused", "invalid"}
RPC == {"new"} \cup InUse \cup Ended

LimiterInit ==
  /\ bucket = [ip \in IPs |-> NoBucket]
  /\ rpc = [r \in Requests |-> "new"]
  /\ rip = [r \in Requests |-> NoIP]
  /\ rsince = [r \in Requests |-> 0]
  /\ ract = [r \in Requests |-> 0]
  /\ credit = [ip \in IPs |-> Full]
  /\ crossed = [ip \in IPs |-> FALSE]

-----------------------------------------------------------------------------
(* golang.org/x/time/rate.                                                 *)

\* What k as of the time s has grown to at t; nothing is lost if t is earlier.
Filled(k, s, t) ==
  IF t <= s THEN k ELSE IF k + (t - s) < Full THEN k + (t - s) ELSE Full

\* advance: the tokens as of t.
Tokens(b, t) == Filled(b.tokens, b.last, t)

\* reserveN: take the cost of one request, to act when the debt is paid.
Taken(b, t) ==
  LET left == Tokens(b, t) - Cost
      act == IF left < 0 THEN t - left ELSE t
  IN [b EXCEPT !.tokens = left, !.last = t, !.lastEvent = act]

\* Slip: what the later reservations took is given back as well.
Cancelled_MutantSign(b, act, t) ==
  LET restore == Cost + (b.lastEvent - act)
      tokens == IF Tokens(b, t) + restore < Full THEN Tokens(b, t) + restore ELSE Full
      event == IF act = b.lastEvent /\ act - Cost >= t THEN act - Cost ELSE b.lastEvent
  IN IF act < t THEN b
     ELSE [b EXCEPT !.tokens = tokens, !.last = t, !.lastEvent = event]

\* CancelAt: give back what no later reservation has been built upon.
Cancelled(b, act, t) ==
  LET restore == Cost - (b.lastEvent - act)
      tokens == IF Tokens(b, t) + restore < Full THEN Tokens(b, t) + restore ELSE Full
      event == IF act = b.lastEvent /\ act - Cost >= t THEN act - Cost ELSE b.lastEvent
  IN IF act < t \/ restore <= 0 THEN b
     ELSE [b EXCEPT !.tokens = tokens, !.last = t, !.lastEvent = event]

-----------------------------------------------------------------------------
(* Middleware.                                                             *)

Step(r, at) ==
  /\ rpc' = [rpc EXCEPT ![r] = at]
  /\ rsince' = [rsince EXCEPT ![r] = now]
  /\ UNCHANGED rip

\* The request leaves Middleware, or goes on to the next handler.
Leave(r, at) ==
  /\ rpc' = [rpc EXCEPT ![r] = at]
  /\ rip' = [rip EXCEPT ![r] = NoIP]
  /\ rsince' = [rsince EXCEPT ![r] = 0]
  /\ ract' = [ract EXCEPT ![r] = 0]

\* Slip: lastSeen is only set when the client is new.
LimiterLookup_MutantSeen(r, ip) ==
  /\ rpc[r] = "new" /\ ip # NoIP
  /\ rpc' = [rpc EXCEPT ![r] = "allow"]
  /\ rip' = [rip EXCEPT ![r] = ip]
  /\ rsince' = [rsince EXCEPT ![r] = now]
  /\ bucket' = [bucket EXCEPT ![ip] = IF Known(ip) THEN @ ELSE NewBucket]
  /\ UNCHANGED <<ract, credit, crossed>>

\* Slip: whether the map has the client is not asked.
LimiterLookup_MutantFresh(r, ip) ==
  /\ rpc[r] = "new" /\ ip # NoIP
  /\ rpc' = [rpc EXCEPT ![r] = "allow"]
  /\ rip' = [rip EXCEPT ![r] = ip]
  /\ rsince' = [rsince EXCEPT ![r] = now]
  /\ bucket' = [bucket EXCEPT ![ip] = NewBucket]
  /\ UNCHANGED <<ract, credit, crossed>>

\* getLimiter: an address that net.ParseIP refuses ends with 400.
LimiterLookup(r, ip) ==
  /\ rpc[r] = "new"
  /\ IF ip = NoIP
       THEN Leave(r, "invalid") /\ UNCHANGED bucket
       ELSE /\ rpc' = [rpc EXCEPT ![r] = "allow"]
            /\ rip' = [rip EXCEPT ![r] = ip]
            /\ rsince' = [rsince EXCEPT ![r] = now]
            /\ bucket' = [bucket EXCEPT ![ip] =
                            IF Known(ip) THEN [@ EXCEPT !.seen = now] ELSE NewBucket]
            /\ UNCHANGED ract
  /\ UNCHANGED <<credit, crossed>>

\* What r read from the clock, at some time since its step before.
Read(r) == rsince[r]..now

Backwards(ip) == bucket'[ip].last < bucket[ip].last

\* History: r's step sets the time of its bucket back, or does not.
NoteCrossing(r) ==
  crossed' = [crossed EXCEPT ![rip[r]] =
                /\ @ \/ Backwards(rip[r])
                /\ \E q \in Requests \ {r} : rpc[q] = "cancel" /\ rip[q] = rip[r]]

LimiterAllow(r) ==
  /\ rpc[r] = "allow"
  /\ \E t \in Read(r) : LET ip == rip[r] b == bucket[ip] IN
       IF Tokens(b, t) >= Cost
         THEN /\ Leave(r, "admitted")
              /\ bucket' = [bucket EXCEPT ![ip] = Taken(b, t)]
              /\ credit' = [credit EXCEPT ![ip] = Filled(@, b.last, t) - Cost]
              /\ NoteCrossing(r)
         ELSE Step(r, "reserve") /\ UNCHANGED <<bucket, ract, credit, crossed>>

LimiterReserve(r) ==
  /\ rpc[r] = "reserve"
  /\ \E t \in Read(r) : LET ip == rip[r] b == bucket[ip] IN
       /\ bucket' = [bucket EXCEPT ![ip] = Taken(b, t)]
       /\ ract' = [ract EXCEPT ![r] = Taken(b, t).lastEvent]
       /\ credit' = [credit EXCEPT ![ip] = Filled(@, b.last, t)]
  /\ Step(r, "cancel")
  /\ NoteCrossing(r)

\* A Cancel of a reservation that was overtaken may give back too much.
LimiterCancel(r) ==
  /\ rpc[r] = "cancel"
  /\ \E t \in Read(r) : LET ip == rip[r] b == bucket[ip] IN
       /\ bucket' = [bucket EXCEPT ![ip] = Cancelled(b, ract[r], t)]
       /\ credit' = [credit EXCEPT ![ip] =
                       IF bucket' = bucket THEN @
                       ELSE IF crossed[ip] \/ Backwards(ip) THEN Full
                       ELSE Filled(@, b.last, t)]
  /\ Leave(r, "refused")
  /\ NoteCrossing(r)

Limiting(r) == LimiterAllow(r) \/ LimiterReserve(r) \/ LimiterCancel(r)

\* Slip: the limit in the wrong unit.
Stale_MutantUnit(ip) == Known(ip) /\ now > bucket[ip].seen

Stale(ip) == Known(ip) /\ now - bucket[ip].seen > InactiveLimit

LimiterCleanup ==
  /\ \E ip \in IPs : Stale(ip)
  /\ bucket' = [ip \in IPs |-> IF Stale(ip) THEN NoBucket ELSE bucket[ip]]
  /\ credit' = [ip \in IPs |-> IF Stale(ip) THEN Full ELSE credit[ip]]
  /\ UNCHANGED <<rpc, rip, rsince, ract, crossed>>

\* Time passes, though not for a request that made its last step MaxLag ago.
LimiterTick ==
  /\ \A r \in Requests : rpc[r] \in InUse => now - rsince[r] < MaxLag
  /\ UNCHANGED limiterVars

-----------------------------------------------------------------------------
(* Properties.                                                             *)

\* That a credit is never negative is ImplementsBuckets.
LimiterTypeOK ==
  /\ \A ip \in IPs : Known(ip) =>
       /\ bucket[ip].tokens \in Int /\ bucket[ip].tokens <= Full
       /\ bucket[ip].last \in 0..now /\ bucket[ip].seen \in 0..now
       /\ bucket[ip].lastEvent \in Nat
  /\ rpc \in [Requests -> RPC]
  /\ rip \in [Requests -> IPs \cup {NoIP}]
  /\ \A r \in Requests : rpc[r] \in InUse => rip[r] \in IPs /\ rsince[r] \in 0..now
  /\ credit \in [IPs -> {k \in Int : k <= Full}]
  /\ crossed \in [IPs -> BOOLEAN]

(* The cleanup never drops a bucket that a request has looked up and not   *)
(* finished with: otherwise the next request of that address would have a  *)
(* second, full bucket beside it.                                          *)
HoldersKeepBucket == \A r \in Requests : rpc[r] \in InUse => Known(rip[r])

(* Overlapping refusals give back at most what they took, in whatever      *)
(* order they cancel, although a Cancel may give back less than its own    *)
(* reservation took and a later one more: unless the bucket's time was set *)
(* back under its reservation, none leaves more in the bucket than the     *)
(* admitted requests have left.                                            *)
WithinCredit ==
  \A r \in Requests, ip \in IPs :
    /\ rpc[r] = "cancel" /\ rip[r] = ip /\ rpc'[r] = "refused"
    /\ ~crossed[ip] /\ ~Backwards(ip)
    => bucket'[ip].tokens <= Filled(credit[ip], bucket[ip].last, bucket'[ip].last)
CancelsWithinCredit == [][WithinCredit]_limiterVars

Buckets == INSTANCE TokenBuckets WITH
  last <- [ip \in IPs |-> bucket[ip].last],
  Lag <- MaxLag,
  Patience <- InactiveLimit - 3 * MaxLag

(* Refusals, cancelled reservations of any number of overlapping requests  *)
(* and dropped buckets admit no more than one bucket for each address      *)
(* would that fills with the times the requests read: where a time is      *)
(* earlier than the one before, as much more as that is earlier, and a     *)
(* full bucket for a Cancel only while one that was overtaken is left, or  *)
(* for an address that was idle.                                           *)
ImplementsBuckets == Buckets!BucketsSpec

(* The comments of the look ahead, "Peek at when next token available      *)
(* (without consuming)" and "Don't consume": while no request is between   *)
(* its lookup and its end, the bucket holds all that the admitted requests *)
(* have left.  Of two overlapping refusals the first Cancel gives nothing  *)
(* back: violated.                                                         *)
RefusedTakesNothing ==
  \A ip \in IPs :
    Known(ip) /\ (\A r \in Requests : rpc[r] \in InUse => rip[r] # ip) =>
      Tokens(bucket[ip], now) = Filled(credit[ip], bucket[ip].last, now)
=============================================================================
