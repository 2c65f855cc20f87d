---------------------------- MODULE TokenBuckets ----------------------------
(***************************************************************************)
(* What the rate limiter promises: each address has one bucket that fills  *)
(* by one unit at each tick and holds Burst requests, and admitting one    *)
(* takes the Cost of it; refusing takes and gives nothing.  So between     *)
(* times s and t an address has at most Burst requests admitted, and one   *)
(* more for each Cost of the t - s + Lag ticks.                            *)
(*                                                                         *)
(* The promise has its exceptions.  A request works with a time it read up *)
(* to Lag ago: where it takes the bucket back to an earlier time, the      *)
(* ticks after that time fill it twice, and the bucket may overflow to     *)
(* full as long as refusals that this happened to are under way.  And an   *)
(* address that has been idle for Patience starts again with a full one.   *)
(***************************************************************************)
EXTENDS Integers

CONSTANTS IPs, Burst, Cost, Lag, Patience

VARIABLES
  now,
  credit,   \* what the bucket of each address holds as of its last time
  last,
  crossed   \* refusals are under way that an earlier time has overtaken

bucketsVars == <<now, credit, last, crossed>>

Full == Burst * Cost

\* What a bucket that holds k at the time s holds at t: no less.
Filled(k, s, t) ==
  IF t <= s THEN k ELSE IF k + (t - s) < Full THEN k + (t - s) ELSE Full

BucketsInit ==
  /\ now = 0
  /\ credit = [ip \in IPs |-> Full]
  /\ last = [ip \in IPs |-> 0]
  /\ crossed = [ip \in IPs |-> FALSE]

\* A request that read the time t leaves k in the bucket.
Leave(ip, t, k) ==
  /\ credit' = [credit EXCEPT ![ip] = k]
  /\ last' = [last EXCEPT ![ip] = t]
  /\ \E x \in BOOLEAN :
       /\ x => crossed[ip] \/ t < last[ip]
       /\ crossed' = [crossed EXCEPT ![ip] = x]
  /\ UNCHANGED now

Admit(ip, t) ==
  LET held == Filled(credit[ip], last[ip], t) IN
  /\ held >= Cost
  /\ Leave(ip, t, held - Cost)

Refuse(ip, t) == Leave(ip, t, Filled(credit[ip], last[ip], t))

Overflow(ip, t) == (crossed[ip] \/ t < last[ip]) /\ Leave(ip, t, Full)

\* The last of the refusals that were overtaken ends.
Settle(ip) == crossed' = [crossed EXCEPT ![ip] = FALSE] /\ UNCHANGED <<now, credit, last>>

Forget(gone) ==
  /\ \A ip \in gone : now - last[ip] > Patience
  /\ credit' = [ip \in IPs |-> IF ip \in gone THEN Full ELSE credit[ip]]
  /\ last' = [ip \in IPs |-> IF ip \in gone THEN 0 ELSE last[ip]]
  /\ UNCHANGED <<now, crossed>>

TimePasses == now' = now + 1 /\ UNCHANGED <<credit, last, crossed>>

BucketsNext ==
  \/ \E ip \in IPs, t \in (now - Lag)..now : Admit(ip, t) \/ Refuse(ip, t) \/ Overflow(ip, t)
  \/ \E ip \in IPs : Settle(ip)
  \/ \E gone \in SUBSET IPs : Forget(gone)
  \/ TimePasses

BucketsSpec == BucketsInit /\ [][BucketsNext]_bucketsVars
=============================================================================
