---------------------------- MODULE MCCurlHandles ----------------------------
EXTENDS CurlHandles, TLC

\* Objects of a kind are alike, and so are handles and strings.
Symmetry ==
    Permutations(Sessions) \cup Permutations(Requests) \cup Permutations(Responses)
      \cup Permutations(Handles) \cup Permutations(Strings)
=============================================================================
