--------------------------- MODULE WeightEmission ---------------------------
(***************************************************************************)
(* From a validator's scores to the integers it submits: set_weights of    *)
(* template/base/validator.py, with process_weights_for_netuid,            *)
(* normalize_max_weight and convert_weights_and_uids_for_emit of           *)
(* template/base/utils/weight_utils.py.  Pure operators; both validators'  *)
(* loops end in EmittedWeights.                                            *)
(*                                                                         *)
(* Data abstraction.  Every stage only fixes the weights relative to each  *)
(* other, so a float vector is a function from its uids to naturals, up to *)
(* a common factor; the epsilons of 1e-7 are left out.  The two numbers    *)
(* that decide what rounding erases, U16_MAX and the 1e-5 of the fallback, *)
(* are parameters, so that a small instance keeps their ratio.             *)
(***************************************************************************)
EXTENDS Naturals, FiniteSets, FiniteSetsExt, Functions

CONSTANTS
  UIDs,         \* metagraph.uids
  BurnUid,      \* BURN_UID
  BurnPct,      \* BURN_PERCENTAGE, in percent
  MinAllowed,   \* the subnet's min_allowed_weights
  LimitNum,     \* the subnet's max_weight_limit is LimitNum / LimitDen
  LimitDen,
  U16Max,       \* U16_MAX
  DustDen       \* the fallback adds 1 / DustDen to every raw weight

ASSUME EmissionAssumption ==
  /\ IsFiniteSet(UIDs)
  /\ BurnPct \in 0 .. 100
  /\ MinAllowed \in Nat
  /\ LimitNum \in Nat \ {0} /\ LimitDen \in Nat \ {0} /\ LimitNum <= LimitDen
  /\ U16Max \in Nat \ {0} /\ DustDen \in Nat \ {0}

MaxOf(w) == Max(Range(w))

\* sum of min(w[v], x) over v: what (n - i - 1) * x + cumsum[i] is for x at
\* position i of the sorted vector.
ClippedSum(w, x) ==
  SumFunction([v \in DOMAIN w |-> IF w[v] < x THEN w[v] ELSE x])

\* At most limit * sum for any uid, by cutting the largest weights down to a
\* common value; uniform when the limit leaves no room.
NormalizeMaxWeight(w) ==
  LET n == Cardinality(DOMAIN w)
      low == {u \in DOMAIN w : w[u] * LimitDen < LimitNum * ClippedSum(w, w[u])}
      factor == LimitDen - LimitNum * (n - Cardinality(low))
      cutoff == LimitNum * SumFunctionOnSet(w, low)
  IN IF SumFunction(w) = 0 \/ n * LimitNum <= LimitDen
     THEN [u \in DOMAIN w |-> 1]
     ELSE IF MaxOf(w) * LimitDen <= LimitNum * SumFunction(w) THEN w
     ELSE [u \in DOMAIN w |-> IF w[u] * factor > cutoff THEN cutoff ELSE w[u] * factor]

NonZero(w) == {u \in DOMAIN w : w[u] > 0}

\* exclude_quantile is 0: no non-zero weight is below the lowest quantile.
ProcessWeights(s) ==
  IF NonZero(s) = {} \/ Cardinality(UIDs) < MinAllowed
  THEN [u \in UIDs |-> 1]
  ELSE IF Cardinality(NonZero(s)) < MinAllowed
  THEN NormalizeMaxWeight([u \in UIDs |-> SumFunction(s) + DustDen * s[u]])
  ELSE NormalizeMaxWeight(Restrict(s, NonZero(s)))

\* BURN_UID gets its share and the miners split the rest as before; all of it
\* burns when no miner has any weight, or none is meant for them.
ApplyBurnAllocation(w) ==
  LET miners == DOMAIN w \ {BurnUid}
      total == SumFunctionOnSet(w, miners)
  IN IF total > 0 /\ BurnPct < 100
     THEN [u \in miners \cup {BurnUid} |->
             IF u = BurnUid THEN total * BurnPct ELSE w[u] * (100 - BurnPct)]
     ELSE [u \in {BurnUid} |-> 1]

\* Python's round of the fraction a / b: halves go to the even neighbour.
RoundHalfEven(a, b) ==
  LET q == a \div b
      twice == 2 * (a % b)
  IN IF twice > b \/ (twice = b /\ q % 2 = 1) THEN q + 1 ELSE q

\* Scaled so that the largest is U16_MAX, rounded, zeros dropped.
ConvertForEmit(w) ==
  LET val(u) == RoundHalfEven(w[u] * U16Max, MaxOf(w))
  IN [u \in {v \in DOMAIN w : val(v) # 0} |-> val(u)]

\* Mutant: an all-zero vector takes the path of any other.
ProcessAnyScores(s) == ProcessWeights(s)

\* With no positive score the zeros bypass ProcessWeights, which would answer
\* them with a uniform split.
EarnedWeights(s) ==
  IF NonZero(s) = {} THEN [u \in UIDs |-> 0] ELSE ProcessWeights(s)

\* What set_weights submits for scores s; the caller checks that BURN_UID is a
\* uid of the metagraph.
EmittedWeights(s) == ConvertForEmit(ApplyBurnAllocation(EarnedWeights(s)))

-----------------------------------------------------------------------------
(* What a submission promises *)

\* Short of min_allowed_weights earners the fallback pays every uid.
EnoughEarners(s) == NonZero(s) = {} \/ Cardinality(NonZero(s)) >= MinAllowed

\* With no scored miner everything burns.  Otherwise only scored miners get
\* weight, a higher score no less of it, nobody more than the limit of the
\* miners' share, if the limit leaves room and BURN_UID has no score of its own,
\* and BURN_UID its percentage.  Every weight is rounded by at most a half.
SplitByScore(s, w) ==
  LET miners == UIDs \ {BurnUid}
      earners == NonZero(s) \ {BurnUid}
      n == Cardinality(earners)
      total == SumFunctionOnSet(w, miners)
  IN IF earners = {}
     THEN w = [u \in UIDs |-> IF u = BurnUid THEN U16Max ELSE 0]
     ELSE /\ \A u \in miners \ earners : w[u] = 0
          /\ \A u, v \in miners : s[u] <= s[v] => w[u] <= w[v]
          /\ \/ s[BurnUid] > 0
             \/ n * LimitNum <= LimitDen
             \/ \A u \in miners : (2 * w[u] - 1) * LimitDen <= (2 * total + n) * LimitNum
          /\ (2 * w[BurnUid] - 1) * (100 - BurnPct) <= (2 * total + n) * BurnPct
          /\ (2 * w[BurnUid] + 1) * (100 - BurnPct) >= (2 * total - n) * BurnPct

=============================================================================
