------------------------------ MODULE MCCache ------------------------------
(* Small instances of Cache for TLC. *)
EXTENDS Cache, TLC

CONSTANTS t1, t2, a, b, c

TwoThreads == {t1, t2}
OneThread == {t1}
ThreeURIs == {a, b, c}
OneURI == {a}
Symmetric == Permutations(Threads) \cup Permutations(URIs \cap {a, b})

\* a and b are in one bucket, so that their nodes share a list; c is a letter
\* beyond ASCII, as UTF-8.
Letters == [u \in URIs |-> CASE u = a -> <<97, 98>> [] u = b -> <<98, 97>>
                             [] OTHER -> <<195, 169>>]

\* c is never kept: one version of it will do.
Versions == [u \in URIs |-> IF u = c THEN 0 ELSE 1]

Headers(reval, ttl, tag) == [store |-> TRUE, reval |-> reval, ttl |-> ttl, tag |-> tag]
\* max-age; must-revalidate with an ETag; both without one; no-store.
AllPolicies ==
  {Headers(FALSE, 1, FALSE), Headers(TRUE, 0, TRUE), Headers(TRUE, 1, FALSE),
   [Headers(FALSE, 0, TRUE) EXCEPT !.store = FALSE]}
\* Revalidated responses that carry an ETag, and ones that expire.
Tagged == {Headers(TRUE, 0, TRUE), Headers(FALSE, 1, FALSE)}
=============================================================================
