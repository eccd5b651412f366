--------------------------- MODULE MCBlindPostman ---------------------------
(* Model-checking instance of BlindPostman: three messages, one envelope   *)
(* the endpoint does not take and one that does not parse.                 *)
EXTENDS BlindPostman, TLC

CONSTANTS e1, e2, e3, e4, e5, s1, s2, s3

MCParsedAs ==
  [e \in Envelopes |-> CASE e = e4 -> "KeyPackage"
                         [] e = e5 -> "Malformed"
                         [] OTHER  -> "PrivateMessage"]

MCMessages == {e \in Envelopes : MCParsedAs[e] = "PrivateMessage"}

Symmetry == Permutations(MCMessages) \cup Permutations(Senders)
=============================================================================
