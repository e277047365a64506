------------------------------- MODULE Headers -------------------------------
(***************************************************************************)
(* What parseResponse() and parseCacheHeaders() make of the headers of a   *)
(* response: whether it may be kept, what the cache has to know about it,  *)
(* and how its end is found.  One step is one line, or one policy of a     *)
(* Cache-Control line.                                                     *)
(*                                                                         *)
(* A policy is recognised by its spelling.  "plain" is the name as the     *)
(* code has it, "capital" another case, "suffixed" has something after the *)
(* name; one character is dropped after each comma, so a policy that is    *)
(* not spaced by exactly one loses its first letter or keeps a blank.      *)
(***************************************************************************)
EXTENDS Integers, Sequences

CONSTANTS
  Responses,   \* the headers the origin may send, as sequences of lines
  MaxAge       \* beyond this many seconds gmtime() returns NULL

Forbidding   == {"no-store", "private"}
Revalidating == {"must-revalidate", "proxy-revalidate", "no-cache"}

PolicyType ==
  [name: Forbidding \cup Revalidating \cup {"max-age", "other"},
   spelling: {"plain", "capital", "suffixed"}, spaced: BOOLEAN, age: Int]
LineType ==
  [header: {"Cache-Control", "ETag", "Content-Length", "Transfer-Encoding", "other"},
   policies: Seq(PolicyType)]

ASSUME HeadersAssumption ==
  /\ Responses \subseteq Seq(LineType)
  /\ MaxAge \in Nat

NULL == 0
Fields == {"needsRevalidation", "expiryTime", "eTag"}

VARIABLES
  lines,
  i, j,              \* the line, and the policy in it
  pc,
  canCache, hasCacheControl,
  needsRevalidation,
  expiryTime,        \* <<>> for NULL, or <<the max-age it is made from>>
  eTag,              \* NULL, or the line that had it
  defined,           \* the fields of cacheInfo that were written to since malloc()
  isChunked

info == <<needsRevalidation, expiryTime, eTag, defined>>
vars == <<lines, i, j, pc, canCache, hasCacheControl, info, isChunked>>

Init ==
  /\ lines \in Responses
  /\ i = 1 /\ j = 1 /\ pc = "line"
  /\ canCache = TRUE /\ hasCacheControl = FALSE
  /\ needsRevalidation \in BOOLEAN /\ expiryTime = <<>> /\ eTag = NULL /\ defined = {}
  /\ isChunked = -1

Line   == lines[i]
Policy == Line.policies[j]

Recognised(p) ==
  /\ p.spaced
  /\ \/ p.name \in {"must-revalidate", "max-age"}      \* strncasecmp() of a prefix
     \/ p.name = "no-store" /\ p.spelling # "suffixed" \* strcasecmp()
     \/ p.name \in {"private", "proxy-revalidate", "no-cache"} /\ p.spelling = "plain"

At(header) == pc = "line" /\ i <= Len(lines) /\ Line.header = header

\* Mutant: the next Cache-Control line starts where this one stopped.
NextLineNoReset == i' = i + 1 /\ pc' = "line" /\ UNCHANGED j

NextLine == i' = i + 1 /\ j' = 1 /\ pc' = "line"
NextPolicy == j' = j + 1 /\ UNCHANGED <<i, pc>>

-----------------------------------------------------------------------------
(* parseCacheHeaders() *)

Defaults ==
  /\ needsRevalidation' = FALSE /\ expiryTime' = <<>> /\ eTag' = NULL
  /\ defined' = Fields

CacheControl ==
  /\ At("Cache-Control")
  /\ hasCacheControl' = TRUE
  /\ Defaults
  /\ pc' = "policy"
  /\ UNCHANGED <<lines, i, j, canCache, isChunked>>

AtPolicy == pc = "policy" /\ j <= Len(Line.policies)

\* Mutant: a forbidding policy is one among others.
ForbidAndGoOn ==
  /\ AtPolicy /\ Recognised(Policy) /\ Policy.name \in Forbidding
  /\ canCache' = FALSE
  /\ NextPolicy
  /\ UNCHANGED <<lines, hasCacheControl, info, isChunked>>

\* Return 0: the rest of the line is not read.
Forbid ==
  /\ AtPolicy /\ Recognised(Policy) /\ Policy.name \in Forbidding
  /\ canCache' = FALSE
  /\ NextLine
  /\ UNCHANGED <<lines, hasCacheControl, info, isChunked>>

Revalidate ==
  /\ AtPolicy /\ Recognised(Policy) /\ Policy.name \in Revalidating
  /\ needsRevalidation' = TRUE
  /\ NextPolicy
  /\ UNCHANGED <<lines, canCache, hasCacheControl, expiryTime, eTag, defined, isChunked>>

\* getTimeFromExpiry() copies what gmtime() returns, NULL for a time it cannot
\* express: the process dies.
SetAge ==
  /\ AtPolicy /\ Recognised(Policy) /\ Policy.name = "max-age"
  /\ IF Policy.age <= MaxAge
     THEN expiryTime' = <<Policy.age>> /\ NextPolicy
     ELSE pc' = "crashed" /\ UNCHANGED <<i, j, expiryTime>>
  /\ UNCHANGED <<lines, canCache, hasCacheControl, needsRevalidation, eTag, defined,
                 isChunked>>

Unknown ==
  /\ AtPolicy /\ (~Recognised(Policy) \/ Policy.name = "other")
  /\ NextPolicy
  /\ UNCHANGED <<lines, canCache, hasCacheControl, info, isChunked>>

\* Return 1, whatever an earlier Cache-Control line has said.
Allow ==
  /\ pc = "policy" /\ j > Len(Line.policies)
  /\ canCache' = TRUE
  /\ NextLine
  /\ UNCHANGED <<lines, hasCacheControl, info, isChunked>>

-----------------------------------------------------------------------------
(* The other headers *)

Tag ==
  /\ At("ETag")
  /\ eTag' = i /\ defined' = defined \cup {"eTag"}
  /\ NextLine
  /\ UNCHANGED <<lines, canCache, hasCacheControl, needsRevalidation, expiryTime, isChunked>>

\* The last of these lines says how the end of the body is found.
Framing ==
  /\ \/ At("Content-Length") /\ isChunked' = 0
     \/ At("Transfer-Encoding") /\ isChunked' = 1
  /\ NextLine
  /\ UNCHANGED <<lines, canCache, hasCacheControl, info>>

Other ==
  /\ At("other")
  /\ NextLine
  /\ UNCHANGED <<lines, canCache, hasCacheControl, info, isChunked>>

\* Mutant: without a Cache-Control line the response is kept.
EndKeeps ==
  /\ pc = "line" /\ i > Len(lines)
  /\ pc' = "done"
  /\ UNCHANGED <<lines, i, j, canCache, hasCacheControl, info, isChunked>>

\* The blank line.
End ==
  /\ pc = "line" /\ i > Len(lines)
  /\ canCache' = (canCache /\ hasCacheControl)
  /\ pc' = "done"
  /\ UNCHANGED <<lines, i, j, hasCacheControl, info, isChunked>>

Next ==
  \/ CacheControl \/ Forbid \/ Revalidate \/ SetAge \/ Unknown \/ Allow
  \/ Tag \/ Framing \/ Other \/ End

Spec == Init /\ [][Next]_vars

-----------------------------------------------------------------------------
(* What holds *)

\* Every variable has its type, and the line and the policy are within bounds.
TypeOK ==
  /\ lines \in Responses
  /\ pc \in {"line", "policy", "done", "crashed"}
  /\ i \in 1 .. Len(lines) + 1
  /\ j \in Nat \ {0}
  /\ pc = "policy" => /\ i <= Len(lines) /\ Line.header = "Cache-Control"
                      /\ j <= Len(Line.policies) + 1
  /\ pc = "line" => j = 1
  /\ canCache \in BOOLEAN /\ hasCacheControl \in BOOLEAN
  /\ needsRevalidation \in BOOLEAN /\ defined \subseteq Fields
  /\ expiryTime = <<>> \/ (Len(expiryTime) = 1 /\ expiryTime[1] <= MaxAge)
  /\ eTag \in 0 .. Len(lines)
  /\ isChunked \in {-1, 0, 1}

\* What is kept never has a field that nothing was written to: malloc() left
\* cacheInfo as it was, and only a Cache-Control line sets it.
KeptInfoSet ==
  pc = "done" /\ canCache => defined = Fields

\* When there is one Cache-Control line, spelled plainly, with one max-age at
\* most, and no ETag before it, the outcome is what the policies mean as a set,
\* in whatever order they come.
CacheControls == {k \in DOMAIN lines : lines[k].header = "Cache-Control"}
Tags == {k \in DOMAIN lines : lines[k].header = "ETag"}
Policies == UNION {{lines[k].policies[m] : m \in DOMAIN lines[k].policies} : k \in CacheControls}

PlainlySent ==
  /\ \A k, l \in CacheControls :
       /\ k = l
       /\ \A m, n \in DOMAIN lines[k].policies :
            lines[k].policies[m].name = "max-age" /\ lines[k].policies[n].name = "max-age" => m = n
  /\ \A p \in Policies : p.spaced /\ p.spelling = "plain"
  /\ \A k \in CacheControls, l \in Tags : k < l

ReadAsMeant ==
  pc = "done" /\ PlainlySent =>
    /\ canCache <=> /\ CacheControls # {}
                    /\ \A p \in Policies : p.name \notin Forbidding
    /\ canCache =>
         /\ needsRevalidation <=> \E p \in Policies : p.name \in Revalidating
         /\ \A p \in Policies : p.name = "max-age" => expiryTime = <<p.age>>
         /\ (\A p \in Policies : p.name # "max-age") => expiryTime = <<>>
         /\ eTag = NULL <=> Tags = {}
=============================================================================
