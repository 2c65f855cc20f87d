--------------------------- MODULE VariantLifecycle ---------------------------
(***************************************************************************)
(* What the image processor promises of each variant, without channel,     *)
(* sync.Map, workers or callers: the life of a job during one run of the   *)
(* process.  A free job is claimed by one request, which submits it or     *)
(* lets go of it; a submitted job is started once, may store its variant   *)
(* while it runs, and is then spent: no second run of it ever starts.      *)
(* ImageProcessor implements this specification.                           *)
(***************************************************************************)
CONSTANT Jobs

VARIABLES
  life,      \* where each job is in its life
  variants   \* the jobs whose variant is in the object store

lvars == <<life, variants>>

Move(j, from, to) ==
  /\ life[j] = from
  /\ life' = [life EXCEPT ![j] = to]

LInit ==
  /\ life = [j \in Jobs |-> "free"]
  /\ variants \in SUBSET Jobs

Claim(j) == Move(j, "free", "claimed") /\ UNCHANGED variants

Release(j) == Move(j, "claimed", "free") /\ UNCHANGED variants

Submit(j) == Move(j, "claimed", "queued") /\ UNCHANGED variants

\* The claim of a request that panicked is never let go of.
Abandon(j) == Move(j, "claimed", "spent") /\ UNCHANGED variants

Start(j) == Move(j, "queued", "running") /\ UNCHANGED variants

Store(j) ==
  /\ life[j] = "running"
  /\ variants' = variants \cup {j}
  /\ UNCHANGED life

Finish(j) == Move(j, "running", "spent") /\ UNCHANGED variants

LNext ==
  \E j \in Jobs :
    \/ Claim(j) \/ Release(j) \/ Submit(j) \/ Abandon(j)
    \/ Start(j) \/ Store(j) \/ Finish(j)

LSpec == LInit /\ [][LNext]_lvars
=============================================================================
