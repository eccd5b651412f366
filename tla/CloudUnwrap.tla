---------------------------- MODULE CloudUnwrap ----------------------------
(***************************************************************************)
(* Recovering a message key from the shares of the Sealed Servers:         *)
(* unwrap_message_key and subset_combinations                              *)
(* (crates/umbrella-backup/src/cloud_wrap/unwrap.rs).                      *)
(*                                                                         *)
(* Abstractions.  A share is what its point is worth: genuine, tampered (a *)
(* point of the group that is not the server's partial) or undecodable.    *)
(* Lagrange combination and the AEAD tag are ideal: a subset opens the key *)
(* exactly when all its shares are genuine and the AAD is the one the key  *)
(* was wrapped under.  Two early errors are left out.  Duplicate and       *)
(* out-of-range witness indices: the HTTP/2 dispatch yields one share per  *)
(* server, and the shares staged for the stub, which does not check them,  *)
(* are taken to be so too.  InvalidRistrettoEncoding of a damaged          *)
(* ephemeral_r: the sync that meets it ends as one whose ciphertext is     *)
(* damaged, which CloudHistory has.                                        *)
(***************************************************************************)
EXTENDS Naturals, Sequences, FiniteSets

CONSTANTS
  WrapTotal,          \* ThresholdConfig::total
  WrapThreshold,      \* ThresholdConfig::threshold
  MaxRetrySubsets     \* MAX_RETRY_SUBSETS

ASSUME ThresholdAssumption ==
  /\ WrapTotal \in Nat /\ WrapThreshold \in 1..WrapTotal
  /\ MaxRetrySubsets \in Nat \ {0}

\* ThresholdConfig::new admits 1 <= threshold <= total <= 5 only, so there are
\* never more than 10 subsets to try, which is MAX_RETRY_SUBSETS.
ASSUME RetryAssumption ==
  \A n \in 0..WrapTotal :
    Cardinality({S \in SUBSET (1..n) : Cardinality(S) = WrapThreshold})
      <= MaxRetrySubsets

\* What the filter has kept of the first i elements.
Keeping(s, S) ==
  LET kept[i \in 0..Len(s)] ==
        IF i = 0 THEN <<>>
        ELSE IF s[i] \in S THEN Append(kept[i - 1], s[i]) ELSE kept[i - 1]
  IN  kept

\* The elements of s that are in S, in order.
Kept(s, S) == Keeping(s, S)[Len(s)]

ShareKinds == {"genuine", "tampered", "undecodable"}

\* The next combination in lexicographic order: the rightmost position that
\* can still move is incremented and the ones after it follow on.  <<>> when
\* there is none.
NextCombination(cur, n, t) ==
  LET movable == {i \in 1..Len(cur) : cur[i] < n - (t - i)}
  IN  IF movable = {} THEN <<>>
      ELSE LET i == CHOOSE k \in movable : \A l \in movable : l <= k
           IN  [j \in 1..t |-> IF j < i THEN cur[j] ELSE cur[i] + 1 + (j - i)]

\* The combinations in the order of the search, <<>> after the last one.
CombinationAt(n, t) ==
  LET combo[k \in 1..MaxRetrySubsets] ==
        IF k = 1 THEN [i \in 1..t |-> i]
                 ELSE NextCombination(combo[k - 1], n, t)
  IN  combo

\* Mutant: the retry budget is one short of all the 3-of-5 subsets.
SubsetCombinations_OneShort(n, t) ==
  IF t > n THEN {}
  ELSE {CombinationAt(n, t)[k] : k \in 1..(MaxRetrySubsets - 1)} \ {<<>>}

\* The first MaxRetrySubsets size-t combinations of 1..n.
SubsetCombinations(n, t) ==
  IF t > n THEN {}
  ELSE {CombinationAt(n, t)[k] : k \in 1..MaxRetrySubsets} \ {<<>>}

\* The subsets tried for each number of usable shares.
Combinations ==
  [n \in 0..WrapTotal |-> SubsetCombinations(n, WrapThreshold)]

\* Some tried subset opens the key.
SomeSubsetOpens(valid) ==
  \E combo \in Combinations[Len(valid)] :
    \A i \in 1..WrapThreshold : valid[combo[i]] = "genuine"

UnwrapMessageKey(shares, aad_matches) ==
  LET valid == Kept(shares, {"genuine", "tampered"})
  IN  IF Len(valid) < WrapThreshold THEN "InsufficientUnwrapShares"
      ELSE IF aad_matches /\ SomeSubsetOpens(valid) THEN "Ok"
      ELSE "AllSubsetsFailedUnwrap"

Count(shares, kind) ==
  Cardinality({i \in DOMAIN shares : shares[i] = kind})
=============================================================================
