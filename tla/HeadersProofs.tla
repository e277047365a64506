--------------------------- MODULE HeadersProofs ---------------------------
(***************************************************************************)
(* Theorems about the parsing of the cache headers, for every response.    *)
(***************************************************************************)
EXTENDS Headers, SequenceTheorems, TLAPS

\* The lines of a response, and the policies of a line.
LEMMA LinesTyped ==
  ASSUME TypeOK
  PROVE  /\ lines \in Seq(LineType) /\ Len(lines) \in Nat
         /\ DOMAIN lines = 1 .. Len(lines)
         /\ \A k \in 1 .. Len(lines) :
              /\ lines[k] \in LineType /\ lines[k].policies \in Seq(PolicyType)
              /\ DOMAIN lines[k].policies = 1 .. Len(lines[k].policies)
              /\ Len(lines[k].policies) \in Nat
         /\ i \in Nat /\ i >= 1 /\ i <= Len(lines) + 1 /\ j \in Nat /\ j >= 1
<1>1. lines \in Seq(LineType)
  BY HeadersAssumption DEF TypeOK
<1>2. Len(lines) \in Nat /\ DOMAIN lines = 1 .. Len(lines)
  BY <1>1
<1>3. ASSUME NEW k \in 1 .. Len(lines)
      PROVE  /\ lines[k] \in LineType /\ lines[k].policies \in Seq(PolicyType)
             /\ DOMAIN lines[k].policies = 1 .. Len(lines[k].policies)
             /\ Len(lines[k].policies) \in Nat
  <2>1. lines[k] \in LineType
    BY <1>1
  <2>2. lines[k].policies \in Seq(PolicyType)
    BY <2>1 DEF LineType
  <2> QED
    BY <2>1, <2>2
<1>4. i \in Nat /\ i >= 1 /\ i <= Len(lines) + 1 /\ j \in Nat /\ j >= 1
  BY <1>2 DEF TypeOK
<1> QED
  BY <1>1, <1>2, <1>3, <1>4

\* At the first line every variable has its type.
LEMMA TypeOKInit == Init => TypeOK
<1> SUFFICES ASSUME Init PROVE TypeOK
  OBVIOUS
<1>1. lines \in Seq(LineType)
  BY HeadersAssumption DEF Init
<1>2. needsRevalidation \in BOOLEAN /\ canCache \in BOOLEAN /\ hasCacheControl \in BOOLEAN
  BY DEF Init
<1> QED
  BY <1>1, <1>2 DEF Init, TypeOK, NULL

\* The parser stays within the lines and within the policies of the line.
LEMMA TypeOKStep == TypeOK /\ [Next]_vars => TypeOK'
<1> SUFFICES ASSUME TypeOK, [Next]_vars PROVE TypeOK'
  OBVIOUS
<1> USE DEF info, At, AtPolicy, NextLine, NextPolicy, Line, Policy
<1>0. /\ lines \in Responses /\ Len(lines) \in Nat
      /\ i \in Nat /\ i >= 1 /\ i <= Len(lines) + 1 /\ j \in Nat /\ j >= 1
  BY LinesTyped DEF TypeOK
<1>p. pc = "policy" => i \in 1 .. Len(lines) /\ Len(lines[i].policies) \in Nat
  BY LinesTyped DEF TypeOK
<1>1. CASE CacheControl
  <2>1. Len(lines[i].policies) \in Nat
    BY <1>0, <1>1, LinesTyped DEF CacheControl
  <2>2. hasCacheControl' \in BOOLEAN /\ needsRevalidation' \in BOOLEAN /\ canCache' \in BOOLEAN
    BY <1>1 DEF CacheControl, Defaults, TypeOK
  <2>3. /\ pc' = "policy" /\ UNCHANGED <<lines, i, j, isChunked>>
        /\ i <= Len(lines) /\ lines[i].header = "Cache-Control"
        /\ expiryTime' = <<>> /\ eTag' = 0 /\ defined' \subseteq Fields
    BY <1>1 DEF CacheControl, Defaults, NULL
  <2>4. j = 1
    BY <1>1 DEF CacheControl, TypeOK
  <2> QED
    BY <1>0, <2>1, <2>2, <2>3, <2>4 DEF TypeOK
<1>2. CASE Forbid
  <2>1. canCache' \in BOOLEAN
    BY <1>2 DEF Forbid
  <2>2. pc' = "line" /\ i' = i + 1 /\ j' = 1 /\ UNCHANGED <<lines, hasCacheControl, info, isChunked>>
    BY <1>2 DEF Forbid
  <2>3. i \in 1 .. Len(lines)
    BY <1>p, <1>2 DEF Forbid
  <2> QED
    BY <1>0, <2>1, <2>2, <2>3 DEF TypeOK
<1>3. CASE Revalidate
  BY <1>0, <1>p, <1>3 DEF Revalidate, TypeOK
<1>4. CASE SetAge
  BY <1>0, <1>p, <1>4 DEF SetAge, TypeOK
<1>5. CASE Unknown
  BY <1>0, <1>p, <1>5 DEF Unknown, TypeOK
<1>6. CASE Allow
  BY <1>0, <1>p, <1>6 DEF Allow, TypeOK
<1>7. CASE Tag
  BY <1>0, <1>7 DEF Tag, TypeOK, Fields
<1>8. CASE Framing \/ Other
  BY <1>0, <1>8 DEF Framing, Other, TypeOK
<1>9. CASE End
  BY <1>0, <1>9 DEF End, TypeOK
<1>10. CASE UNCHANGED vars
  BY <1>10 DEF vars, TypeOK
<1> QED
  BY <1>1, <1>2, <1>3, <1>4, <1>5, <1>6, <1>7, <1>8, <1>9, <1>10 DEF Next

-----------------------------------------------------------------------------
(* Kept information is set *)

\* Once a Cache-Control line was seen every field has been written to, and what is
\* kept had one.
InfoSet ==
  /\ hasCacheControl => defined = Fields
  /\ pc = "done" /\ canCache => hasCacheControl

\* Nothing takes a field back.
LEMMA InfoSetStep == InfoSet /\ [Next]_vars => InfoSet'
<1> SUFFICES ASSUME InfoSet, [Next]_vars PROVE InfoSet'
  OBVIOUS
<1> USE DEF info, At, AtPolicy, NextLine, NextPolicy, InfoSet
<1>1. CASE CacheControl
  BY <1>1 DEF CacheControl, Defaults
<1>2. CASE Forbid \/ Revalidate \/ Unknown \/ Allow
  BY <1>2 DEF Forbid, Revalidate, Unknown, Allow
<1>3. CASE SetAge
  BY <1>3 DEF SetAge
<1>4. CASE Tag
  BY <1>4 DEF Tag, Fields
<1>5. CASE Framing \/ Other
  BY <1>5 DEF Framing, Other
<1>6. CASE End
  BY <1>6 DEF End
<1>7. CASE UNCHANGED vars
  BY <1>7 DEF vars
<1> QED
  BY <1>1, <1>2, <1>3, <1>4, <1>5, <1>6, <1>7 DEF Next

-----------------------------------------------------------------------------
(* The outcome is what the policies mean *)

NoneForbids(ps) == \A p \in ps : p.name \notin Forbidding

\* What cacheInfo says of a set of policies.
Meant(ps) ==
  /\ needsRevalidation <=> \E p \in ps : p.name \in Revalidating
  /\ \A p \in ps : p.name = "max-age" => expiryTime = <<p.age>>
  /\ (\A p \in ps : p.name # "max-age") => expiryTime = <<>>

\* The policies of the line that have been read.
Seen == {Line.policies[m] : m \in 1 .. j - 1}

\* The part of a well-spelled response that has been read is reflected: before
\* its Cache-Control line, in it, and after it.
SoFar ==
  PlainlySent =>
    /\ pc = "line" /\ ~hasCacheControl =>
         canCache /\ \A k \in CacheControls : k >= i
    /\ pc = "policy" =>
         /\ canCache /\ hasCacheControl /\ NoneForbids(Seen) /\ Meant(Seen)
         /\ eTag = NULL /\ \A l \in Tags : l > i
    /\ pc = "line" /\ hasCacheControl =>
         /\ \E k \in CacheControls : k < i
         /\ canCache <=> NoneForbids(Policies)
         /\ canCache => Meant(Policies) /\ (eTag = NULL <=> \A l \in Tags : l >= i)
    /\ ReadAsMeant

\* There is one Cache-Control line, so its policies are all there are.
LEMMA OneLine ==
  ASSUME TypeOK, PlainlySent, NEW k \in CacheControls
  PROVE  /\ k \in 1 .. Len(lines)
         /\ \A l \in CacheControls : l = k
         /\ \A p : p \in Policies <=> \E m \in 1 .. Len(lines[k].policies) : p = lines[k].policies[m]
         /\ \A m, n \in 1 .. Len(lines[k].policies) :
              lines[k].policies[m].name = "max-age" /\ lines[k].policies[n].name = "max-age" => m = n
<1>1. k \in 1 .. Len(lines) /\ DOMAIN lines[k].policies = 1 .. Len(lines[k].policies)
  BY LinesTyped DEF CacheControls
<1>2. \A l \in CacheControls : l = k
  BY DEF PlainlySent
<1>3. \A m, n \in 1 .. Len(lines[k].policies) :
        lines[k].policies[m].name = "max-age" /\ lines[k].policies[n].name = "max-age" => m = n
  BY <1>1 DEF PlainlySent
<1>4. Policies = {lines[k].policies[m] : m \in 1 .. Len(lines[k].policies)}
  BY <1>1, <1>2 DEF Policies
<1> QED
  BY <1>1, <1>2, <1>3, <1>4

\* A policy that is spelled well is recognised unless it has no meaning here.
LEMMA RecognisedIfPlain ==
  ASSUME TypeOK, PlainlySent, NEW p \in Policies, ~Recognised(p)
  PROVE  p.name = "other"
<1>1. p.spaced /\ p.spelling = "plain"
  BY DEF PlainlySent
<1>2. p \in PolicyType
  BY LinesTyped DEF Policies, CacheControls
<1> QED
  BY <1>1, <1>2 DEF PolicyType, Recognised, Forbidding, Revalidating

\* Nothing changes what the origin has sent.
LEMMA LinesKept == [Next]_vars => lines' = lines
<1>1. CacheControl \/ Forbid \/ Revalidate \/ SetAge \/ Unknown \/ Allow => lines' = lines
  BY DEF CacheControl, Forbid, Revalidate, SetAge, Unknown, Allow
<1>2. Tag \/ Framing \/ Other \/ End \/ UNCHANGED vars => lines' = lines
  BY DEF Tag, Framing, Other, End, vars
<1> QED
  BY <1>1, <1>2 DEF Next

\* A line that does not matter here is passed over.
LEMMA PassedOver ==
  ASSUME TypeOK, SoFar, pc = "line", i <= Len(lines), i \notin CacheControls, i \notin Tags,
         pc' = "line", i' = i + 1,
         UNCHANGED <<lines, canCache, hasCacheControl, needsRevalidation, expiryTime, eTag>>
  PROVE  SoFar'
<1>0. /\ CacheControls' = CacheControls /\ Tags' = Tags /\ Policies' = Policies
      /\ PlainlySent' <=> PlainlySent
      /\ Meant(Policies)' <=> Meant(Policies)
      /\ NoneForbids(Policies)' <=> NoneForbids(Policies)
  BY DEF CacheControls, Tags, Policies, PlainlySent, Meant, NoneForbids
<1>1. \A k \in CacheControls \cup Tags : k \in Nat
  BY LinesTyped DEF CacheControls, Tags
<1>2. ReadAsMeant'
  BY DEF ReadAsMeant
<1>3. i \in Nat
  BY LinesTyped
<1>4. (\A l \in Tags : l >= i) <=> \A l \in Tags : l >= i + 1
  BY <1>1, <1>3
<1>5. \A k \in CacheControls : (k >= i => k >= i + 1) /\ (k < i => k < i + 1)
  BY <1>1, <1>3
<1> QED
  BY <1>0, <1>2, <1>4, <1>5 DEF SoFar

\* A policy that is read is one more of those that count.
LEMMA SoFarStep == TypeOK /\ SoFar /\ [Next]_vars => SoFar'
<1> SUFFICES ASSUME TypeOK, SoFar, [Next]_vars PROVE SoFar'
  OBVIOUS
<1> SUFFICES ASSUME PlainlySent PROVE SoFar'
  <2>1. lines' = lines
    BY LinesKept
  <2>2. PlainlySent' <=> PlainlySent
    BY <2>1 DEF PlainlySent, CacheControls, Tags, Policies
  <2> QED
    BY <2>2 DEF SoFar
<1> USE DEF info, At, AtPolicy, NextLine, NextPolicy
<1>0. /\ lines' = lines /\ CacheControls' = CacheControls /\ Tags' = Tags /\ Policies' = Policies
      /\ PlainlySent'
  <2>1. lines' = lines
    BY LinesKept
  <2> QED
    BY <2>1 DEF PlainlySent, CacheControls, Tags, Policies
<1>1. /\ \A k \in CacheControls \cup Tags : k \in 1 .. Len(lines)
      /\ Len(lines) \in Nat /\ i \in Nat /\ j \in Nat /\ i >= 1 /\ j >= 1
  BY LinesTyped DEF CacheControls, Tags
<1>2. ASSUME pc = "policy"
      PROVE  /\ i \in CacheControls /\ i \in 1 .. Len(lines) /\ Len(lines[i].policies) \in Nat
             /\ \A l \in CacheControls : l = i
             /\ \A p : p \in Policies <=> \E m \in 1 .. Len(lines[i].policies) : p = lines[i].policies[m]
             /\ \A m, n \in 1 .. Len(lines[i].policies) :
                  lines[i].policies[m].name = "max-age" /\ lines[i].policies[n].name = "max-age" => m = n
  <2>1. i \in CacheControls
    BY <1>1, <1>2, LinesTyped DEF TypeOK, CacheControls, Line
  <2>2. i \in 1 .. Len(lines) /\ Len(lines[i].policies) \in Nat
    BY <2>1, LinesTyped DEF CacheControls
  <2> QED
    BY <2>1, <2>2, OneLine
<1>3. ASSUME pc = "policy", j <= Len(Line.policies), i' = i, j' = j + 1
      PROVE  /\ Policy \in Policies
             /\ Seen' = Seen \cup {Policy}
             /\ Policy.name = "max-age" => \A p \in Seen : p.name # "max-age"
  <2>1. j \in 1 .. Len(lines[i].policies)
    BY <1>1, <1>2, <1>3 DEF Line
  <2>2. Policy \in Policies
    BY <1>2, <1>3, <2>1 DEF Policy, Line
  <2>3. Seen' = Seen \cup {Policy}
    BY <1>0, <1>1, <1>3, <2>1 DEF Seen, Policy, Line
  <2>4. ASSUME Policy.name = "max-age", NEW m \in 1 .. j - 1 PROVE Line.policies[m].name # "max-age"
    BY <1>1, <1>2, <1>3, <2>1, <2>4 DEF Policy, Line
  <2> QED
    BY <2>2, <2>3, <2>4 DEF Seen
<1>4. CASE CacheControl
  <2>1. i \in CacheControls
    BY <1>1, <1>4 DEF CacheControl, CacheControls, Line
  <2>2. ~hasCacheControl /\ canCache
    BY <1>1, <1>4, <2>1 DEF CacheControl, SoFar, PlainlySent
  <2>3. Seen' = {}
    BY <1>1, <1>4 DEF CacheControl, TypeOK, Seen
  <2>4. NoneForbids(Seen') /\ Meant(Seen)'
    BY <1>4, <2>3 DEF CacheControl, Defaults, NoneForbids, Meant
  <2>5. \A l \in Tags : l > i
    BY <1>1, <2>1 DEF PlainlySent
  <2>6. canCache' /\ hasCacheControl' /\ eTag' = NULL /\ pc' = "policy" /\ i' = i
    BY <1>4, <2>2 DEF CacheControl, Defaults
  <2>7. ReadAsMeant'
    BY <2>6 DEF ReadAsMeant
  <2> QED
    BY <1>0, <2>4, <2>5, <2>6, <2>7 DEF SoFar, NoneForbids
<1>5. CASE Forbid
  <2>1. Policy \in Policies
    BY <1>1, <1>2, <1>5 DEF Forbid, Policy, Line
  <2>2. ~NoneForbids(Policies)
    BY <1>5, <2>1 DEF Forbid, NoneForbids
  <2>3. canCache' = FALSE /\ pc' = "line" /\ i' = i + 1 /\ hasCacheControl' /\ i \in CacheControls
    BY <1>2, <1>5 DEF Forbid, SoFar
  <2>4. ReadAsMeant'
    BY <2>3 DEF ReadAsMeant
  <2> QED
    BY <1>0, <1>1, <2>2, <2>3, <2>4 DEF SoFar, NoneForbids
<1>6. CASE Revalidate
  <2>1. pc = "policy" /\ j <= Len(Line.policies) /\ i' = i /\ j' = j + 1 /\ pc' = "policy"
        /\ UNCHANGED <<canCache, hasCacheControl, expiryTime, eTag>>
        /\ needsRevalidation' = TRUE /\ Policy.name \in Revalidating
    BY <1>6 DEF Revalidate
  <2>2. Seen' = Seen \cup {Policy}
    BY <1>3, <2>1
  <2>3. Policy.name \notin Forbidding /\ Policy.name # "max-age"
    BY <2>1 DEF Forbidding, Revalidating
  <2>4. NoneForbids(Seen') /\ Meant(Seen)'
    BY <2>1, <2>2, <2>3 DEF SoFar, NoneForbids, Meant
  <2>5. ReadAsMeant'
    BY <2>1 DEF ReadAsMeant
  <2> QED
    BY <1>0, <2>1, <2>4, <2>5 DEF SoFar, NoneForbids
<1>7. CASE SetAge
  <2>1. CASE pc' = "crashed"
    BY <2>1 DEF SoFar, ReadAsMeant
  <2>2. CASE pc' # "crashed"
    <3>1. pc = "policy" /\ j <= Len(Line.policies) /\ i' = i /\ j' = j + 1 /\ pc' = "policy"
          /\ UNCHANGED <<canCache, hasCacheControl, needsRevalidation, eTag>>
          /\ expiryTime' = <<Policy.age>> /\ Policy.name = "max-age"
      BY <1>7, <2>2 DEF SetAge
    <3>2. Seen' = Seen \cup {Policy} /\ \A p \in Seen : p.name # "max-age"
      BY <1>3, <3>1
    <3>3. Policy.name \notin Forbidding /\ Policy.name \notin Revalidating
      BY <3>1 DEF Forbidding, Revalidating
    <3>4. NoneForbids(Seen') /\ Meant(Seen)'
      BY <3>1, <3>2, <3>3 DEF SoFar, NoneForbids, Meant
    <3>5. ReadAsMeant'
      BY <3>1 DEF ReadAsMeant
    <3> QED
      BY <1>0, <3>1, <3>4, <3>5 DEF SoFar, NoneForbids
  <2> QED
    BY <2>1, <2>2
<1>8. CASE Unknown
  <2>1. pc = "policy" /\ j <= Len(Line.policies) /\ i' = i /\ j' = j + 1 /\ pc' = "policy"
        /\ UNCHANGED <<canCache, hasCacheControl, needsRevalidation, expiryTime, eTag>>
    BY <1>8 DEF Unknown
  <2>2. Policy.name = "other" /\ Seen' = Seen \cup {Policy}
    BY <1>3, <1>8, <2>1, RecognisedIfPlain DEF Unknown
  <2>3. NoneForbids(Seen') /\ Meant(Seen)'
    BY <2>1, <2>2 DEF SoFar, NoneForbids, Meant, Forbidding, Revalidating
  <2>4. ReadAsMeant'
    BY <2>1 DEF ReadAsMeant
  <2> QED
    BY <1>0, <2>1, <2>3, <2>4 DEF SoFar, NoneForbids
<1>9. CASE Allow
  <2>1. pc = "policy" /\ j > Len(Line.policies) /\ i' = i + 1 /\ pc' = "line" /\ canCache' = TRUE
        /\ UNCHANGED <<hasCacheControl, needsRevalidation, expiryTime, eTag>>
    BY <1>9 DEF Allow
  <2>2. Seen = Policies
    <3>1. j = Len(lines[i].policies) + 1
      BY <1>1, <1>2, <2>1 DEF TypeOK, Line
    <3> QED
      BY <1>2, <2>1, <3>1 DEF Seen, Line
  <2>3. NoneForbids(Policies) /\ Meant(Policies)'
    BY <1>0, <2>1, <2>2 DEF SoFar, Meant
  <2>4. \A l \in Tags : l >= i + 1
    BY <1>1, <2>1 DEF SoFar
  <2>5. i \in CacheControls
    BY <1>2, <2>1
  <2>6. ReadAsMeant'
    BY <2>1 DEF ReadAsMeant
  <2> QED
    BY <1>0, <1>1, <2>1, <2>3, <2>4, <2>5, <2>6 DEF SoFar, NoneForbids
<1>10. CASE Tag
  <2>1. i \in Tags /\ i \notin CacheControls
    BY <1>1, <1>10 DEF Tag, Tags, CacheControls, Line
  <2>2. /\ eTag' = i /\ i' = i + 1 /\ pc = "line" /\ pc' = "line" /\ eTag' # NULL
        /\ UNCHANGED <<canCache, hasCacheControl, needsRevalidation, expiryTime>>
    BY <1>1, <1>10 DEF Tag, NULL
  <2>3. ~(\A l \in Tags : l >= i + 1)
    BY <1>1, <2>1
  <2>4. Meant(Policies)' <=> Meant(Policies)
    BY <1>0, <2>2 DEF Meant
  <2>5. ReadAsMeant'
    BY <2>2 DEF ReadAsMeant
  <2>6. \A k \in CacheControls : (k >= i => k >= i + 1) /\ (k < i => k < i + 1)
    BY <1>1, <2>1
  <2> QED
    BY <1>0, <2>2, <2>3, <2>4, <2>5, <2>6 DEF SoFar, NoneForbids
<1>11. CASE Framing \/ Other
  <2>1. i \notin Tags /\ i \notin CacheControls
    BY <1>11 DEF Framing, Other, Tags, CacheControls, Line
  <2> QED
    BY <1>11, <2>1, PassedOver DEF Framing, Other
<1>12. CASE End
  <2>1. pc = "line" /\ pc' = "done" /\ i > Len(lines) /\ (canCache' <=> canCache /\ hasCacheControl)
        /\ UNCHANGED <<i, hasCacheControl, needsRevalidation, expiryTime, eTag>>
    BY <1>12 DEF End
  <2>2. ~hasCacheControl => CacheControls = {}
    BY <1>1, <2>1 DEF SoFar
  <2>3. hasCacheControl => CacheControls # {}
    BY <2>1 DEF SoFar
  <2>4. (\A l \in Tags : l >= i) <=> Tags = {}
    BY <1>1, <2>1
  <2>5. hasCacheControl => (canCache <=> NoneForbids(Policies))
    BY <2>1 DEF SoFar
  <2>6. canCache /\ hasCacheControl => Meant(Policies) /\ (eTag = NULL <=> Tags = {})
    BY <2>1, <2>4 DEF SoFar
  <2>7. canCache' <=> CacheControls # {} /\ NoneForbids(Policies)
    BY <2>1, <2>2, <2>3, <2>5
  <2>8. canCache' => Meant(Policies)' /\ (eTag' = NULL <=> Tags = {})
    BY <1>0, <2>1, <2>6 DEF Meant
  <2>9. ReadAsMeant'
    BY <1>0, <2>7, <2>8 DEF ReadAsMeant, Meant, NoneForbids
  <2> QED
    BY <2>1, <2>9 DEF SoFar
<1>13. CASE UNCHANGED vars
  BY <1>13 DEF vars, SoFar, ReadAsMeant, PlainlySent, CacheControls, Tags, Policies, NoneForbids, Meant,
               Seen, Line
<1> QED
  BY <1>4, <1>5, <1>6, <1>7, <1>8, <1>9, <1>10, <1>11, <1>12, <1>13 DEF Next

-----------------------------------------------------------------------------
(* Theorems *)

\* The inductive invariant.
IInv == TypeOK /\ InfoSet /\ SoFar

\* It holds at first, and every step keeps it.
THEOREM Invariance == Spec => []IInv
<1>1. Init => IInv
  <2> SUFFICES ASSUME Init PROVE IInv
    OBVIOUS
  <2>1. TypeOK
    BY TypeOKInit
  <2>2. InfoSet
    BY DEF Init, InfoSet
  <2>3. \A k \in CacheControls : k >= 1
    BY <2>1, LinesTyped DEF CacheControls
  <2>4. SoFar
    BY <2>3 DEF Init, SoFar, ReadAsMeant
  <2> QED
    BY <2>1, <2>2, <2>4 DEF IInv
<1>2. IInv /\ [Next]_vars => IInv'
  BY TypeOKStep, InfoSetStep, SoFarStep DEF IInv
<1> QED
  BY <1>1, <1>2, PTL DEF Spec

\* Every variable keeps its type, and the parser its place within the lines.
THEOREM TypeCorrect == Spec => []TypeOK
<1>1. IInv => TypeOK
  BY DEF IInv
<1> QED
  BY Invariance, <1>1, PTL

\* parseResponse() never has a response kept with a field of cacheInfo that is
\* still as malloc() left it.
THEOREM KeptIsSet == Spec => []KeptInfoSet
<1>1. IInv => KeptInfoSet
  BY DEF IInv, InfoSet, KeptInfoSet
<1> QED
  BY Invariance, <1>1, PTL

\* Whatever the number and the order of the policies and of the other lines, a
\* well-spelled response is taken for what it says.
THEOREM OrderIrrelevant == Spec => []ReadAsMeant
<1>1. IInv => ReadAsMeant
  BY DEF IInv, SoFar, ReadAsMeant
<1> QED
  BY Invariance, <1>1, PTL
=============================================================================
