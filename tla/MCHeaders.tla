------------------------------ MODULE MCHeaders ------------------------------
(* Small instances of Headers for TLC. *)
EXTENDS Headers, SequencesExt

Plain(name, n) == [name |-> name, spelling |-> "plain", spaced |-> TRUE, age |-> n]
PlainPolicies ==
  {Plain(n, 0) : n \in {"no-store", "private", "no-cache", "must-revalidate", "other"}}
    \cup {Plain("max-age", n) : n \in {-1, 5}}

\* Policies that the code takes for something else, or dies of.
OddPolicies ==
  {[Plain("private", 0) EXCEPT !.spelling = "suffixed"],
   [Plain("no-store", 0) EXCEPT !.spelling = "capital"],
   [Plain("no-store", 0) EXCEPT !.spaced = FALSE], Plain("max-age", 9)}

CacheControlLine(ps) == [header |-> "Cache-Control", policies |-> ps]
OtherLines ==
  {[header |-> h, policies |-> <<>>] : h \in {"ETag", "Content-Length", "Transfer-Encoding", "other"}}

\* One long Cache-Control line and another line before or after it, and two
\* short ones with a third line.
Long == {CacheControlLine(ps) : ps \in BoundedSeq(PlainPolicies, 3)}
Short == {CacheControlLine(ps) : ps \in BoundedSeq(PlainPolicies \cup OddPolicies, 1)}
SomeResponses ==
  BoundedSeq(OtherLines, 2)
    \cup {<<c>> : c \in Long}
    \cup {<<c, o>> : c \in Long, o \in OtherLines} \cup {<<o, c>> : c \in Long, o \in OtherLines}
    \cup {<<c, o, d>> : c \in Short, o \in OtherLines, d \in Short}
    \cup {<<c, d, o>> : c \in Short, o \in OtherLines, d \in Short}
=============================================================================
