---------------------------- MODULE ResponsesProofs ----------------------------
(***************************************************************************)
(* Proofs about Responses: what a one-shot call returns for any response,  *)
(* of any length, and that it leaves nothing open.                         *)
(***************************************************************************)
EXTENDS Responses, SequenceTheorems, TLAPS

Count == Len(resp.svids)

(* What is open, by where the call is. *)
OpenInv ==
    /\ pc = "new" => own /\ open = {}
    /\ pc \in {"fetch", "returned"} => open = {"conn"}
    /\ pc \in {"svids", "own", "map"} => open = {"conn", "stream"}
    /\ OnlyOwnClientClosed

(* The first n SVIDs have been dealt with. *)
SVIDsUpTo(n) ==
    /\ Range(svids) = {j \in Selected : j <= n}
    /\ \A a, b \in DOMAIN svids : a < b => svids[a] < svids[b]
    /\ \A j \in Selected : j <= n => resp.svids[j].valid

(* The bundles of the first n SVIDs and of the keys K have been. *)
BundlesUpTo(n, K) ==
    /\ \A j \in 1..n : resp.svids[j].td # Malformed
    /\ \A k \in K : Names[k] # Malformed
    /\ \A t \in TrustDomains :
          /\ t \in DOMAIN bundles <=> \/ \E j \in 1..n : resp.svids[j].td = t
                                      \/ \E k \in K : Names[k] = t
          /\ (\E k \in K : Names[k] = t) => bundles[t] \in K /\ Names[bundles[t]] = t
          /\ (\A k \in K : Names[k] # t) /\ (\E j \in 1..n : resp.svids[j].td = t) =>
                /\ bundles[t] \in 1..n /\ resp.svids[bundles[t]].td = t
                /\ \A j \in 1..n : resp.svids[j].td = t => j <= bundles[t]

(* The causes for which a response is refused. *)
Refusable ==
    \/ call # "Bundles" /\ resp.svids = <<>>
    \/ \E j \in Selected : ~resp.svids[j].valid
    \/ call = "Context" /\ \E j \in DOMAIN resp.svids : resp.svids[j].td = Malformed
    \/ \E k \in resp.bundles : Names[k] = Malformed

(* How far the call has come with the response, by where it is. *)
BeforeResponse ==
    /\ resp = EmptyResponse /\ svids = <<>> /\ bundles = <<>>
    /\ i = 1 /\ hints = {} /\ ~err

ParsingSVIDs ==
    /\ call \notin {"Bundles", "Watch"}
    /\ i \in 1 .. Limit + 1
    /\ hints = {resp.svids[j].hint : j \in 1 .. i - 1}
    /\ SVIDsUpTo(i - 1)
    /\ bundles = <<>> /\ left = resp.bundles /\ ~err

ParsingOwnBundles ==
    /\ call = "Context" /\ Count > 0
    /\ i \in 1 .. Count + 1
    /\ SVIDsUpTo(Count) /\ BundlesUpTo(i - 1, {})
    /\ left = resp.bundles /\ ~err

ParsingBundles ==
    /\ call \in {"Context", "Bundles"} /\ (call = "Context" => Count > 0)
    /\ left \subseteq resp.bundles
    /\ SVIDsUpTo(Count) /\ BundlesUpTo(Count, resp.bundles \ left)
    /\ ~err

Answered ==
    \/ /\ err /\ svids = <<>> /\ bundles = <<>>
       /\ resp = EmptyResponse \/ Refusable
    \/ /\ ~err
       /\ call # "Bundles" => Count > 0
       /\ SVIDsUpTo(Count)
       /\ call \in {"Context", "Bundles"} => BundlesUpTo(Count, resp.bundles)

ResponseInv ==
    /\ call = "Bundles" => resp.svids = <<>>
    /\ call \in {"SVID", "SVIDs", "Validate", "Watch"} => resp.bundles = {}
    /\ pc \in {"new", "fetch"} => BeforeResponse
    /\ pc = "svids" => ParsingSVIDs
    /\ pc = "own" => ParsingOwnBundles
    /\ pc = "map" => ParsingBundles
    /\ pc = "returned" => Answered

-----------------------------------------------------------------------------
(* A function over 1..n is a sequence of length n. *)
LEMMA FunctionIsSeq ==
    ASSUME NEW S, NEW n \in Nat, NEW f \in [1..n -> S]
    PROVE  f \in Seq(S) /\ Len(f) = n
OBVIOUS

(* The SVIDs of a response are a sequence of at most MaxSVIDs entries. *)
LEMMA ResponseType ==
    ASSUME NEW r \in Responses
    PROVE  /\ r.svids \in Seq(Entries)
           /\ Len(r.svids) \in 0..MaxSVIDs
           /\ DOMAIN r.svids = 1..Len(r.svids)
           /\ \A j \in 1..Len(r.svids) : r.svids[j] \in Entries
           /\ r.bundles \subseteq Keys
<1>1. PICK n \in 0..MaxSVIDs : r.svids \in [1..n -> Entries]
  BY DEF Responses
<1>2. n \in Nat
  BY ResponsesAssumption
<1>3. r.svids \in Seq(Entries) /\ Len(r.svids) = n
  BY <1>1, <1>2, FunctionIsSeq
<1>4. QED
  BY <1>1, <1>3 DEF Responses

(* A response that a failed call never received is empty. *)
LEMMA EmptyResponseType == EmptyResponse \in Responses
<1>1. <<>> \in [1..0 -> Entries] /\ 0 \in 0..MaxSVIDs
  BY ResponsesAssumption
<1>2. <<>> \in UNION {[1 .. n -> Entries] : n \in 0 .. MaxSVIDs}
  BY <1>1
<1>3. QED
  BY <1>2 DEF EmptyResponse, Responses

(* A bundle is added for a trust domain. *)
LEMMA AddBundleType ==
    ASSUME NEW td \in TrustDomains, NEW where \in 1 .. MaxSVIDs \cup Keys, AddBundle(td, where),
           DOMAIN bundles \subseteq TrustDomains, Range(bundles) \subseteq 1 .. MaxSVIDs \cup Keys
    PROVE  DOMAIN bundles' \subseteq TrustDomains /\ Range(bundles') \subseteq 1 .. MaxSVIDs \cup Keys
BY DEF AddBundle, Range

(* A method that fails returns nothing. *)
LEMMA FailType ==
    ASSUME TypeOK, Fail, UNCHANGED <<call, resp, i, left>>, hints' \subseteq Hints \cup {NoHint}
    PROVE  TypeOK'
<1>1. svids' \in Seq(1 .. MaxSVIDs)
  BY EmptySeq DEF Fail
<1>2. DOMAIN bundles' \subseteq TrustDomains /\ Range(bundles') \subseteq 1 .. MaxSVIDs \cup Keys
  BY DEF Fail, Range
<1>3. QED
  BY <1>1, <1>2 DEF Fail, Return, TypeOK

(* Every step keeps the variables within their types. *)
LEMMA TypeStep ==
    ASSUME TypeOK, [Next]_vars
    PROVE  TypeOK'
<1>1. /\ resp.svids \in Seq(Entries) /\ Count \in 0..MaxSVIDs /\ MaxSVIDs \in Nat
      /\ \A j \in 1..Count : resp.svids[j] \in Entries
  BY ResponseType, ResponsesAssumption DEF TypeOK, Count
<1>2. Limit \in 0..Count
  BY <1>1 DEF Limit, Count
<1>3. ASSUME i <= Count
      PROVE  /\ i \in 1..Count /\ i \in 1..MaxSVIDs /\ i + 1 \in 1..MaxSVIDs + 1
             /\ resp.svids[i].hint \in Hints \cup {NoHint}
             /\ resp.svids[i].td \in TrustDomains \cup {Malformed}
  <2>1. i \in 1..Count /\ i \in 1..MaxSVIDs /\ i + 1 \in 1..MaxSVIDs + 1
    BY <1>1, <1>3 DEF TypeOK
  <2>2. resp.svids[i] \in Entries
    BY <1>1, <2>1
  <2>3. QED
    BY <2>1, <2>2 DEF Entries
<1>4. 1 \in 1 .. MaxSVIDs + 1
  BY <1>1
<1>5. CASE NewFails \/ New \/ OwnBundlesDone \/ Close
  BY <1>5 DEF NewFails, New, OwnBundlesDone, Close, TypeOK, Resources
<1>6. CASE FetchFails \/ NoSVIDs \/ ParseOwnBundleFails \/ ParseBundleFails
  BY <1>6, FailType DEF FetchFails, NoSVIDs, ParseOwnBundleFails, ParseBundleFails, TypeOK
<1>7. CASE Fetch
  BY <1>7, ResponseType DEF Fetch, TypeOK, Resources
<1>8. CASE SkipSVID
  BY <1>1, <1>2, <1>3, <1>8 DEF SkipSVID, TypeOK
<1>9. CASE ParseSVID
  <2>1. i <= Count
    BY <1>1, <1>2, <1>9 DEF ParseSVID, TypeOK
  <2>2. svids' \in Seq(1 .. MaxSVIDs)
    BY <1>3, <1>9, <2>1, AppendProperties DEF ParseSVID, TypeOK
  <2>3. QED
    BY <1>3, <1>9, <2>1, <2>2 DEF ParseSVID, TypeOK
<1>10. CASE ParseSVIDFails
  <2>1. i <= Count
    BY <1>1, <1>2, <1>10 DEF ParseSVIDFails, TypeOK
  <2>2. hints' \subseteq Hints \cup {NoHint}
    BY <1>3, <1>10, <2>1 DEF ParseSVIDFails, TypeOK
  <2>3. QED
    BY <1>10, <2>2, FailType DEF ParseSVIDFails
<1>11. CASE SVIDsDone \/ BundlesDone
  BY <1>4, <1>11 DEF SVIDsDone, BundlesDone, Return, TypeOK
<1>12. CASE ParseOwnBundle
  <2>1. i <= Count /\ resp.svids[i].td # Malformed /\ AddBundle(resp.svids[i].td, i)
    BY <1>12 DEF ParseOwnBundle, Count
  <2>2. DOMAIN bundles' \subseteq TrustDomains /\ Range(bundles') \subseteq 1 .. MaxSVIDs \cup Keys
    BY <1>3, <2>1, AddBundleType DEF TypeOK
  <2>3. QED
    BY <1>3, <1>12, <2>1, <2>2 DEF ParseOwnBundle, TypeOK
<1>13. CASE ParseBundle
  <2>1. PICK k \in left : /\ Names[k] # Malformed
                          /\ AddBundle(Names[k], k)
                          /\ left' = left \ {k}
    BY <1>13 DEF ParseBundle
  <2>2. k \in Keys /\ Names[k] \in TrustDomains
    BY <2>1, ResponsesAssumption DEF TypeOK
  <2>3. DOMAIN bundles' \subseteq TrustDomains /\ Range(bundles') \subseteq 1 .. MaxSVIDs \cup Keys
    BY <2>1, <2>2, AddBundleType DEF TypeOK
  <2>4. QED
    BY <1>13, <2>1, <2>3 DEF ParseBundle, TypeOK
<1>14. CASE UNCHANGED vars
  BY <1>14 DEF vars, TypeOK
<1>15. QED
  BY <1>5, <1>6, <1>7, <1>8, <1>9, <1>10, <1>11, <1>12, <1>13, <1>14 DEF Next, Done

-----------------------------------------------------------------------------
(* What a call has open follows from where it is. *)
LEMMA OpenStep ==
    ASSUME TypeOK, OpenInv, [Next]_vars
    PROVE  OpenInv'
<1> USE DEF OpenInv, OnlyOwnClientClosed
<1>1. CASE NewFails \/ New \/ Fetch \/ Close
  BY <1>1 DEF NewFails, New, Fetch, Close
<1>2. CASE FetchFails \/ NoSVIDs \/ ParseSVIDFails \/ ParseOwnBundleFails \/ ParseBundleFails
  BY <1>2 DEF FetchFails, NoSVIDs, ParseSVIDFails, ParseOwnBundleFails, ParseBundleFails, Fail, Return
<1>3. CASE SVIDsDone \/ BundlesDone \/ OwnBundlesDone
  BY <1>3 DEF SVIDsDone, BundlesDone, OwnBundlesDone, Return
<1>4. CASE SkipSVID \/ ParseSVID \/ ParseOwnBundle \/ ParseBundle
  BY <1>4 DEF SkipSVID, ParseSVID, ParseOwnBundle, ParseBundle
<1>5. CASE UNCHANGED vars
  BY <1>5 DEF vars
<1>6. QED
  BY <1>1, <1>2, <1>3, <1>4, <1>5 DEF Next, Done

-----------------------------------------------------------------------------
(* The response a call looks at, as its loops do. *)
LEMMA RespFacts ==
    ASSUME TypeOK
    PROVE  /\ resp.svids \in Seq(Entries) /\ Count \in Nat
           /\ DOMAIN resp.svids = 1..Count
           /\ Limit \in 0..Count
           /\ Selected \subseteq 1..Count
           /\ svids \in Seq(1..MaxSVIDs)
<1>1. resp.svids \in Seq(Entries) /\ Count \in Nat /\ DOMAIN resp.svids = 1..Count
  BY ResponseType, ResponsesAssumption DEF TypeOK, Count
<1>2. Limit \in 0..Count
  BY <1>1 DEF Limit, Count
<1>3. Selected \subseteq 1..Count
  BY <1>1 DEF Selected
<1>4. QED
  BY <1>1, <1>2, <1>3 DEF TypeOK

(* The hints seen tell the duplicates: those that are not selected. *)
LEMMA DuplicateIffNotSelected ==
    ASSUME TypeOK, ParsingSVIDs, i <= Limit
    PROVE  Duplicate <=> i \notin Selected
<1>1. Count \in Nat /\ DOMAIN resp.svids = 1..Count /\ Limit \in 0..Count
  BY RespFacts
<1>2. i \in 1..Count /\ (call = "SVID" => i = 1)
  BY <1>1 DEF ParsingSVIDs, Limit, Count
<1>3. resp.svids[i].hint \in hints <=> \E k \in 1 .. i - 1 : resp.svids[k].hint = resp.svids[i].hint
  BY DEF ParsingSVIDs
<1>4. QED
  BY <1>1, <1>2, <1>3 DEF Duplicate, Selected

(* A method that fails for one of the causes has answered. *)
LEMMA FailAnswers ==
    ASSUME ResponseInv, Fail, UNCHANGED <<call, resp>>, resp = EmptyResponse \/ Refusable
    PROVE  ResponseInv'
<1>1. Refusable' = Refusable
  BY DEF Refusable, Selected
<1>2. pc' = "returned" /\ err' /\ svids' = <<>> /\ bundles' = <<>>
  BY DEF Fail, Return
<1>3. Answered'
  BY <1>1, <1>2 DEF Answered
<1>4. QED
  BY <1>2, <1>3 DEF ResponseInv

(* A step that leaves the response alone leaves alone what is said of it. *)
LEMMA SameResponse ==
    ASSUME UNCHANGED <<call, resp>>
    PROVE  Selected' = Selected /\ Limit' = Limit /\ Count' = Count
BY DEF Selected, Limit, Count

(* The loop of parse*SVIDs. *)
LEMMA SkipSVIDStep ==
    ASSUME TypeOK, ResponseInv, SkipSVID
    PROVE  ResponseInv'
<1>1. /\ pc = "svids" /\ pc' = "svids" /\ i <= Limit /\ Duplicate /\ i' = i + 1
      /\ UNCHANGED <<call, resp, hints, svids, left, bundles, err>>
  BY DEF SkipSVID
<1>2. ParsingSVIDs
  BY <1>1 DEF ResponseInv
<1>3. Count \in Nat /\ Limit \in 0..Count /\ Selected \subseteq 1..Count /\ i \in 1..Limit
  BY <1>1, <1>2, RespFacts DEF ParsingSVIDs
<1>4. i \notin Selected
  BY <1>1, <1>2, DuplicateIffNotSelected
<1>5. \A j \in Selected : j <= i <=> j <= i - 1
  BY <1>3, <1>4
<1>6. {j \in Selected : j <= i} = {j \in Selected : j <= i - 1}
  BY <1>5
<1>7. SVIDsUpTo(i - 1)
  BY <1>2 DEF ParsingSVIDs
<1>8. SVIDsUpTo(i - 1)'
  <2>1. i' - 1 = i
    BY <1>1, <1>3
  <2>2. QED
    BY <1>1, <1>5, <1>6, <1>7, <2>1, SameResponse DEF SVIDsUpTo
<1>9. hints = {resp.svids[j].hint : j \in 1 .. i}
  <2>1. resp.svids[i].hint \in hints
    BY <1>1 DEF Duplicate
  <2>2. hints = {resp.svids[j].hint : j \in 1 .. i - 1}
    BY <1>2 DEF ParsingSVIDs
  <2>3. 1 .. i = (1 .. i - 1) \cup {i}
    BY <1>3
  <2>4. QED
    BY <2>1, <2>2, <2>3
<1>10. ParsingSVIDs'
  <2>1. i' \in 1 .. Limit + 1 /\ i' - 1 = i
    BY <1>1, <1>3
  <2>2. QED
    BY <1>1, <1>2, <1>8, <1>9, <2>1, SameResponse DEF ParsingSVIDs
<1>11. QED
  BY <1>1, <1>10 DEF ResponseInv

(* An SVID that parses and whose hint is new is appended, which extends    *)
(* what is returned so far to one more entry of the response.              *)
LEMMA ParseSVIDStep ==
    ASSUME TypeOK, ResponseInv, ParseSVID
    PROVE  ResponseInv'
<1>1. /\ pc = "svids" /\ pc' = "svids" /\ i <= Limit /\ ~Duplicate /\ i' = i + 1
      /\ resp.svids[i].valid
      /\ hints' = hints \cup {resp.svids[i].hint}
      /\ svids' = Append(svids, i)
      /\ UNCHANGED <<call, resp, left, bundles, err>>
  BY DEF ParseSVID
<1>2. ParsingSVIDs
  BY <1>1 DEF ResponseInv
<1>3. Count \in Nat /\ Limit \in 0..Count /\ Selected \subseteq 1..Count /\ i \in 1..Limit
  BY <1>1, <1>2, RespFacts DEF ParsingSVIDs
<1>4. i \in Selected
  BY <1>1, <1>2, DuplicateIffNotSelected
<1>5. \A j \in Selected : j <= i <=> j <= i - 1 \/ j = i
  BY <1>3
<1>6. {j \in Selected : j <= i} = {j \in Selected : j <= i - 1} \cup {i}
  BY <1>3, <1>4, <1>5
<1>7. SVIDsUpTo(i - 1)
  BY <1>2 DEF ParsingSVIDs
<1>8. /\ svids \in Seq(Nat) /\ Len(svids) \in Nat /\ DOMAIN svids = 1..Len(svids)
      /\ \A a \in 1..Len(svids) : svids[a] \in Nat /\ svids[a] <= i - 1
  <2>1. svids \in Seq(1..MaxSVIDs) /\ MaxSVIDs \in Nat
    BY RespFacts, ResponsesAssumption
  <2>2. \A a \in DOMAIN svids : svids[a] \in Range(svids)
    BY DEF Range
  <2>3. QED
    BY <1>3, <1>7, <2>1, <2>2 DEF SVIDsUpTo
<1>9. /\ DOMAIN svids' = 1..(Len(svids) + 1)
      /\ \A a \in 1..Len(svids) : svids'[a] = svids[a]
      /\ svids'[Len(svids) + 1] = i
  BY <1>1, <1>3, <1>8
<1>10. Range(svids') = Range(svids) \cup {i}
  <2>1. 1..(Len(svids) + 1) = (1..Len(svids)) \cup {Len(svids) + 1}
    BY <1>8
  <2>2. QED
    BY <1>8, <1>9, <2>1 DEF Range
<1>11. ASSUME NEW a \in DOMAIN svids', NEW b \in DOMAIN svids', a < b
       PROVE  svids'[a] < svids'[b]
  <2>1. a \in 1..Len(svids)
    BY <1>8, <1>9, <1>11
  <2>2. CASE b \in 1..Len(svids)
    BY <1>7, <1>8, <1>9, <1>11, <2>1, <2>2 DEF SVIDsUpTo
  <2>3. CASE b = Len(svids) + 1
    BY <1>3, <1>8, <1>9, <2>1, <2>3
  <2>4. QED
    BY <1>8, <1>9, <2>2, <2>3
<1>12. SVIDsUpTo(i - 1)'
  <2>1. i' - 1 = i
    BY <1>1, <1>3
  <2>2. Range(svids') = {j \in Selected : j <= i}
    BY <1>6, <1>7, <1>10 DEF SVIDsUpTo
  <2>3. \A j \in Selected : j <= i => resp.svids[j].valid
    BY <1>1, <1>5, <1>7 DEF SVIDsUpTo
  <2>4. QED
    BY <1>1, <1>11, <2>1, <2>2, <2>3, SameResponse DEF SVIDsUpTo
<1>13. hints' = {resp.svids[j].hint : j \in 1 .. i}
  <2>1. hints = {resp.svids[j].hint : j \in 1 .. i - 1}
    BY <1>2 DEF ParsingSVIDs
  <2>2. 1 .. i = (1 .. i - 1) \cup {i}
    BY <1>3
  <2>3. QED
    BY <1>1, <2>1, <2>2
<1>14. ParsingSVIDs'
  <2>1. i' \in 1 .. Limit + 1 /\ i' - 1 = i
    BY <1>1, <1>3
  <2>2. QED
    BY <1>1, <1>2, <1>12, <1>13, <2>1, SameResponse DEF ParsingSVIDs
<1>15. QED
  BY <1>1, <1>14 DEF ResponseInv

(* No bundle has been found yet. *)
LEMMA NoBundlesYet ==
    ASSUME bundles = <<>>
    PROVE  BundlesUpTo(0, {})
BY DEF BundlesUpTo

(* After the last SVID the list is that of the whole response; a context   *)
(* goes on with the bundles, the other calls return.                       *)
LEMMA SVIDsDoneStep ==
    ASSUME TypeOK, ResponseInv, SVIDsDone
    PROVE  ResponseInv'
<1>1. /\ pc = "svids" /\ Limit > 0 /\ i > Limit /\ i' = 1
      /\ UNCHANGED <<call, resp, hints, svids, left, bundles, err>>
      /\ pc' = IF call = "Context" THEN "own" ELSE "returned"
  BY DEF SVIDsDone, Return
<1>2. ParsingSVIDs
  BY <1>1 DEF ResponseInv
<1>3. Count \in Nat /\ Limit \in 0..Count /\ Selected \subseteq 1..Count
  BY RespFacts
<1>4. i - 1 = Limit /\ Count > 0
  BY <1>1, <1>2, <1>3 DEF ParsingSVIDs
<1>5. \A j \in Selected : j <= Limit <=> j <= Count
  <2>1. CASE call = "SVID"
    BY <1>3, <1>4, <2>1 DEF Limit, Selected, Count
  <2>2. CASE call # "SVID"
    BY <2>2 DEF Limit, Count
  <2>3. QED
    BY <2>1, <2>2
<1>6. {j \in Selected : j <= Limit} = {j \in Selected : j <= Count}
  BY <1>5
<1>7. SVIDsUpTo(Count)
  BY <1>2, <1>4, <1>5, <1>6 DEF ParsingSVIDs, SVIDsUpTo
<1>8. SVIDsUpTo(Count)'
  BY <1>1, <1>7, SameResponse DEF SVIDsUpTo
<1>9. CASE call = "Context"
  <2>1. BundlesUpTo(i - 1, {})'
    BY <1>1, <1>2, NoBundlesYet DEF ParsingSVIDs, BundlesUpTo
  <2>2. ParsingOwnBundles'
    BY <1>1, <1>2, <1>3, <1>4, <1>8, <1>9, <2>1, SameResponse DEF ParsingOwnBundles, ParsingSVIDs
  <2>3. QED
    BY <1>1, <1>9, <2>2 DEF ResponseInv
<1>10. CASE call # "Context"
  <2>1. Answered'
    BY <1>1, <1>2, <1>3, <1>4, <1>8, <1>10, SameResponse DEF Answered, ParsingSVIDs
  <2>2. QED
    BY <1>1, <1>10, <2>1 DEF ResponseInv
<1>11. QED
  BY <1>9, <1>10

(* The bundle of an SVID replaces that of an earlier one. *)
LEMMA AddOwnBundle ==
    ASSUME NEW n \in Nat, BundlesUpTo(n, {}), UNCHANGED resp,
           resp.svids[n + 1].td \in TrustDomains, resp.svids[n + 1].td # Malformed,
           AddBundle(resp.svids[n + 1].td, n + 1)
    PROVE  BundlesUpTo(n + 1, {})'
<1> DEFINE td == resp.svids[n + 1].td
<1>1. /\ DOMAIN bundles' = DOMAIN bundles \cup {td}
      /\ bundles'[td] = n + 1
      /\ \A t \in DOMAIN bundles : t # td => bundles'[t] = bundles[t]
  BY DEF AddBundle
<1>2. 1 .. n + 1 = (1..n) \cup {n + 1} /\ \A j \in 1..n : j <= n + 1
  OBVIOUS
<1>3. \A j \in 1 .. n + 1 : resp.svids[j].td # Malformed
  BY <1>2 DEF BundlesUpTo
<1>4. ASSUME NEW t \in TrustDomains
      PROVE  /\ t \in DOMAIN bundles' <=> \E j \in 1 .. n + 1 : resp.svids[j].td = t
             /\ (\E j \in 1 .. n + 1 : resp.svids[j].td = t) =>
                   /\ bundles'[t] \in 1 .. n + 1 /\ resp.svids[bundles'[t]].td = t
                   /\ \A j \in 1 .. n + 1 : resp.svids[j].td = t => j <= bundles'[t]
  <2>1. CASE t = td
    BY <1>1, <1>2, <2>1
  <2>2. CASE t # td
    <3>1. (\E j \in 1 .. n + 1 : resp.svids[j].td = t) <=> (\E j \in 1 .. n : resp.svids[j].td = t)
      BY <1>2, <2>2
    <3>2. t \in DOMAIN bundles' <=> \E j \in 1 .. n : resp.svids[j].td = t
      BY <1>1, <2>2 DEF BundlesUpTo
    <3>3. ASSUME \E j \in 1 .. n : resp.svids[j].td = t
          PROVE  /\ bundles'[t] = bundles[t] /\ bundles[t] \in 1 .. n
                 /\ resp.svids[bundles[t]].td = t
                 /\ \A j \in 1 .. n : resp.svids[j].td = t => j <= bundles[t]
      BY <1>1, <2>2, <3>3 DEF BundlesUpTo
    <3>4. QED
      BY <1>2, <2>2, <3>1, <3>2, <3>3
  <2>3. QED
    BY <2>1, <2>2
<1>5. QED
  BY <1>3, <1>4 DEF BundlesUpTo

(* The bundle of a key replaces any other. *)
LEMMA AddKeyBundle ==
    ASSUME NEW n \in Nat, NEW K, NEW k, BundlesUpTo(n, K), UNCHANGED resp,
           Names[k] # Malformed, AddBundle(Names[k], k)
    PROVE  BundlesUpTo(n, K \cup {k})'
<1>1. /\ DOMAIN bundles' = DOMAIN bundles \cup {Names[k]}
      /\ bundles'[Names[k]] = k
      /\ \A t \in DOMAIN bundles : t # Names[k] => bundles'[t] = bundles[t]
  BY DEF AddBundle
<1>2. /\ \A j \in 1 .. n : resp.svids[j].td # Malformed
      /\ \A x \in K \cup {k} : Names[x] # Malformed
  BY DEF BundlesUpTo
<1>3. ASSUME NEW t \in TrustDomains
      PROVE  /\ t \in DOMAIN bundles' <=> \/ \E j \in 1..n : resp.svids[j].td = t
                                          \/ \E x \in K \cup {k} : Names[x] = t
             /\ (\E x \in K \cup {k} : Names[x] = t) =>
                   bundles'[t] \in K \cup {k} /\ Names[bundles'[t]] = t
             /\ (\A x \in K \cup {k} : Names[x] # t) /\ (\E j \in 1..n : resp.svids[j].td = t) =>
                   /\ bundles'[t] \in 1..n /\ resp.svids[bundles'[t]].td = t
                   /\ \A j \in 1..n : resp.svids[j].td = t => j <= bundles'[t]
  <2>1. CASE t = Names[k]
    BY <1>1, <2>1
  <2>2. CASE t # Names[k]
    <3>1. t \in DOMAIN bundles' <=> t \in DOMAIN bundles
      BY <1>1, <2>2
    <3>2. t \in DOMAIN bundles => bundles'[t] = bundles[t]
      BY <1>1, <2>2
    <3>3. (\E x \in K \cup {k} : Names[x] = t) <=> (\E x \in K : Names[x] = t)
      BY <2>2
    <3>4. QED
      BY <3>1, <3>2, <3>3 DEF BundlesUpTo
  <2>3. QED
    BY <2>1, <2>2
<1>4. QED
  BY <1>2, <1>3 DEF BundlesUpTo

(* The bundle of an SVID's own trust domain replaces an earlier one. *)
LEMMA ParseOwnBundleStep ==
    ASSUME TypeOK, ResponseInv, ParseOwnBundle
    PROVE  ResponseInv'
<1>1. /\ pc = "own" /\ pc' = "own" /\ i <= Count /\ i' = i + 1
      /\ resp.svids[i].td # Malformed /\ AddBundle(resp.svids[i].td, i)
      /\ UNCHANGED <<call, resp, hints, svids, left, err>>
  BY DEF ParseOwnBundle, Count
<1>2. ParsingOwnBundles
  BY <1>1 DEF ResponseInv
<1>3. Count \in Nat /\ i \in 1..Count
  BY <1>1, <1>2, RespFacts DEF ParsingOwnBundles
<1>4. resp.svids[i].td \in TrustDomains
  BY <1>1, <1>3, ResponseType DEF TypeOK, Count, Entries
<1>5. PICK n \in Nat : i = n + 1
  BY <1>3
<1>6. BundlesUpTo(n, {})
  BY <1>2, <1>5 DEF ParsingOwnBundles
<1>7. BundlesUpTo(n + 1, {})'
  BY <1>1, <1>4, <1>5, <1>6, AddOwnBundle
<1>8. BundlesUpTo(i - 1, {})'
  <2>1. i' - 1 = n + 1
    BY <1>1, <1>5
  <2>2. QED
    BY <1>7, <2>1 DEF BundlesUpTo
<1>9. SVIDsUpTo(Count)'
  BY <1>1, <1>2, SameResponse DEF ParsingOwnBundles, SVIDsUpTo
<1>10. ParsingOwnBundles'
  <2>1. i' \in 1 .. Count + 1
    BY <1>1, <1>3
  <2>2. QED
    BY <1>1, <1>2, <1>8, <1>9, <2>1, SameResponse DEF ParsingOwnBundles
<1>11. QED
  BY <1>1, <1>10 DEF ResponseInv

(* The own bundles are done: any key of the map may come. *)
LEMMA OwnBundlesDoneStep ==
    ASSUME TypeOK, ResponseInv, OwnBundlesDone
    PROVE  ResponseInv'
<1>1. /\ pc = "own" /\ pc' = "map" /\ i > Count
      /\ UNCHANGED <<call, resp, i, hints, svids, left, bundles, err>>
  BY DEF OwnBundlesDone, Count
<1>2. ParsingOwnBundles
  BY <1>1 DEF ResponseInv
<1>3. i - 1 = Count
  BY <1>1, <1>2, RespFacts DEF ParsingOwnBundles
<1>4. BundlesUpTo(Count, resp.bundles \ left)
  BY <1>2, <1>3 DEF ParsingOwnBundles
<1>5. BundlesUpTo(Count, resp.bundles \ left)'
  BY <1>1, <1>4, SameResponse DEF BundlesUpTo
<1>6. SVIDsUpTo(Count)'
  BY <1>1, <1>2, SameResponse DEF ParsingOwnBundles, SVIDsUpTo
<1>7. ParsingBundles'
  BY <1>1, <1>2, <1>5, <1>6, SameResponse DEF ParsingOwnBundles, ParsingBundles
<1>8. QED
  BY <1>1, <1>7 DEF ResponseInv

(* The loop of parse*Bundles. *)
LEMMA ParseBundleStep ==
    ASSUME TypeOK, ResponseInv, ParseBundle
    PROVE  ResponseInv'
<1>1. pc = "map" /\ pc' = "map" /\ UNCHANGED <<call, resp, i, hints, svids, err>>
  BY DEF ParseBundle
<1>2. ParsingBundles
  BY <1>1 DEF ResponseInv
<1>3. PICK k \in left : /\ Names[k] # Malformed
                        /\ AddBundle(Names[k], k)
                        /\ left' = left \ {k}
  BY DEF ParseBundle
<1>4. PICK n \in Nat : n = Count
  BY RespFacts
<1>5. PICK K : K = resp.bundles \ left
  OBVIOUS
<1>6. BundlesUpTo(n, K)
  BY <1>2, <1>4, <1>5 DEF ParsingBundles
<1>7. BundlesUpTo(n, K \cup {k})'
  BY <1>1, <1>3, <1>6, AddKeyBundle
<1>8. BundlesUpTo(Count, resp.bundles \ left)'
  <2>1. Count' = n
    BY <1>1, <1>4, SameResponse
  <2>2. resp'.bundles \ left' = K \cup {k}
    BY <1>1, <1>2, <1>3, <1>5 DEF ParsingBundles
  <2>3. QED
    BY <1>7, <2>1, <2>2 DEF BundlesUpTo
<1>9. SVIDsUpTo(Count)'
  BY <1>1, <1>2, SameResponse DEF ParsingBundles, SVIDsUpTo
<1>10. ParsingBundles'
  BY <1>1, <1>2, <1>3, <1>8, <1>9, SameResponse DEF ParsingBundles
<1>11. QED
  BY <1>1, <1>10 DEF ResponseInv

(* When no entry of the map is left, the call returns a bundle for each. *)
LEMMA BundlesDoneStep ==
    ASSUME TypeOK, ResponseInv, BundlesDone
    PROVE  ResponseInv'
<1>1. /\ pc = "map" /\ pc' = "returned" /\ left = {}
      /\ UNCHANGED <<call, resp, i, hints, svids, left, bundles, err>>
  BY DEF BundlesDone, Return
<1>2. ParsingBundles
  BY <1>1 DEF ResponseInv
<1>3. resp.bundles \ left = resp.bundles
  BY <1>1
<1>4. BundlesUpTo(Count, resp.bundles)
  BY <1>2, <1>3 DEF ParsingBundles
<1>5. BundlesUpTo(Count, resp.bundles)'
  BY <1>1, <1>4, SameResponse DEF BundlesUpTo
<1>6. SVIDsUpTo(Count)'
  BY <1>1, <1>2, SameResponse DEF ParsingBundles, SVIDsUpTo
<1>7. Answered'
  BY <1>1, <1>2, <1>5, <1>6, SameResponse DEF Answered, ParsingBundles
<1>8. QED
  BY <1>1, <1>7 DEF ResponseInv

(* A response arrives. *)
LEMMA FetchStep ==
    ASSUME TypeOK, TypeOK', ResponseInv, Fetch
    PROVE  ResponseInv'
<1>1. /\ pc = "fetch" /\ call # "Watch" /\ left' = resp'.bundles
      /\ pc' = IF call = "Bundles" THEN "map" ELSE "svids"
      /\ call = "Bundles" => resp'.svids = <<>>
      /\ call \in {"SVID", "SVIDs", "Validate"} => resp'.bundles = {}
      /\ UNCHANGED <<call, i, hints, svids, bundles, err>>
  BY DEF Fetch
<1>2. BeforeResponse
  BY <1>1 DEF ResponseInv
<1>3. Count' \in Nat /\ Limit' \in 0..Count' /\ Selected' \subseteq 1..Count'
  <2>1. Count' \in Nat /\ DOMAIN resp'.svids = 1..Count'
    BY ResponseType, ResponsesAssumption DEF TypeOK, Count
  <2>2. QED
    BY <2>1 DEF Limit, Selected, Count
<1>4. Range(svids') = {}
  BY <1>1, <1>2 DEF BeforeResponse, Range
<1>5. DOMAIN svids' = {}
  BY <1>1, <1>2 DEF BeforeResponse
<1>6. CASE call = "Bundles"
  <2>1. Count' = 0
    BY <1>1, <1>6 DEF Count
  <2>2. SVIDsUpTo(Count)'
    <3>1. \A j \in Selected' : ~(j <= Count')
      BY <1>3, <2>1
    <3>2. QED
      BY <1>4, <1>5, <3>1 DEF SVIDsUpTo
  <2>3. BundlesUpTo(Count, resp.bundles \ left)'
    BY <1>1, <1>2, <2>1 DEF BundlesUpTo, BeforeResponse
  <2>4. ParsingBundles'
    BY <1>1, <1>2, <1>6, <2>2, <2>3 DEF ParsingBundles, BeforeResponse
  <2>5. QED
    BY <1>1, <1>6, <2>4 DEF ResponseInv
<1>7. CASE call # "Bundles"
  <2>1. i' = 1 /\ i' - 1 = 0 /\ i' \in 1 .. Limit' + 1
    <3>1. i' = 1
      BY <1>1, <1>2 DEF BeforeResponse
    <3>2. Limit' \in Nat
      BY <1>3
    <3>3. \A m \in Nat : 1 \in 1 .. m + 1 /\ 1 - 1 = 0
      OBVIOUS
    <3>4. QED
      BY <3>1, <3>2, <3>3
  <2>2. SVIDsUpTo(i - 1)'
    <3>1. \A j \in Selected' : ~(j <= i' - 1)
      BY <1>3, <2>1
    <3>2. QED
      BY <1>4, <1>5, <3>1 DEF SVIDsUpTo
  <2>3. hints' = {resp'.svids[j].hint : j \in 1 .. i' - 1}
    BY <1>1, <1>2, <2>1 DEF BeforeResponse
  <2>4. ParsingSVIDs'
    BY <1>1, <1>2, <1>7, <2>1, <2>2, <2>3 DEF ParsingSVIDs, BeforeResponse
  <2>5. QED
    BY <1>1, <1>7, <2>4 DEF ResponseInv
<1>8. QED
  BY <1>6, <1>7

(* Every step keeps what is known of the answer. *)
LEMMA ResponseStep ==
    ASSUME TypeOK, TypeOK', ResponseInv, [Next]_vars
    PROVE  ResponseInv'
<1>1. CASE NewFails
  BY <1>1 DEF NewFails, ResponseInv
<1>2. CASE New
  BY <1>2 DEF New, ResponseInv, BeforeResponse
<1>3. CASE FetchFails
  BY <1>3, FailAnswers DEF FetchFails, ResponseInv, BeforeResponse
<1>4. CASE Fetch
  BY <1>4, FetchStep
<1>5. CASE NoSVIDs
  <2>1. Count = 0 /\ call # "Bundles"
    BY <1>5, RespFacts DEF NoSVIDs, Limit, Count, ResponseInv, ParsingSVIDs
  <2>2. resp.svids = <<>>
    BY <2>1, RespFacts, EmptySeq DEF Count
  <2>3. QED
    BY <1>5, <2>1, <2>2, FailAnswers DEF NoSVIDs, Refusable
<1>6. CASE SkipSVID
  BY <1>6, SkipSVIDStep
<1>7. CASE ParseSVID
  BY <1>7, ParseSVIDStep
<1>8. CASE ParseSVIDFails
  <2>1. i \in Selected
    BY <1>8, DuplicateIffNotSelected DEF ParseSVIDFails, ResponseInv
  <2>2. QED
    BY <1>8, <2>1, FailAnswers DEF ParseSVIDFails, Refusable
<1>9. CASE SVIDsDone
  BY <1>9, SVIDsDoneStep
<1>10. CASE ParseOwnBundle
  BY <1>10, ParseOwnBundleStep
<1>11. CASE ParseOwnBundleFails
  <2>1. call = "Context" /\ i \in DOMAIN resp.svids
    BY <1>11, RespFacts DEF ParseOwnBundleFails, ResponseInv, ParsingOwnBundles, Count
  <2>2. QED
    BY <1>11, <2>1, FailAnswers DEF ParseOwnBundleFails, Refusable
<1>12. CASE OwnBundlesDone
  BY <1>12, OwnBundlesDoneStep
<1>13. CASE ParseBundle
  BY <1>13, ParseBundleStep
<1>14. CASE ParseBundleFails
  BY <1>14, FailAnswers DEF ParseBundleFails, Refusable, ResponseInv, ParsingBundles
<1>15. CASE BundlesDone
  BY <1>15, BundlesDoneStep
<1>16. CASE Close
  BY <1>16 DEF Close, ResponseInv
<1>17. CASE UNCHANGED vars
  <2>1. Selected' = Selected /\ Limit' = Limit /\ Count' = Count
    BY <1>17, SameResponse DEF vars
  <2>2. QED
    BY <1>17, <2>1 DEF vars, ResponseInv, BeforeResponse, ParsingSVIDs, ParsingOwnBundles,
       ParsingBundles, Answered, Refusable, SVIDsUpTo, BundlesUpTo
<1>18. QED
  BY <1>1, <1>2, <1>3, <1>4, <1>5, <1>6, <1>7, <1>8, <1>9, <1>10, <1>11, <1>12, <1>13, <1>14,
     <1>15, <1>16, <1>17 DEF Next, Done

-----------------------------------------------------------------------------
(* What an answer says, from the invariant. *)
LEMMA InvGivesFirstOfEqualHints ==
    ASSUME TypeOK, ResponseInv
    PROVE  FirstOfEqualHints
<1>1. SUFFICES ASSUME pc = "returned", ~err, call # "Bundles"
               PROVE  /\ Range(svids) = Selected
                      /\ \A a, b \in DOMAIN svids : a < b => svids[a] < svids[b]
                      /\ svids[1] = 1
  BY DEF FirstOfEqualHints
<1>2. Count > 0 /\ SVIDsUpTo(Count)
  BY <1>1 DEF ResponseInv, Answered
<1>3. /\ Count \in Nat /\ DOMAIN resp.svids = 1..Count /\ Selected \subseteq 1..Count
      /\ svids \in Seq(1..MaxSVIDs)
  BY RespFacts
<1>4. Range(svids) = Selected
  <2>1. \A j \in Selected : j <= Count
    BY <1>3
  <2>2. {j \in Selected : j <= Count} = Selected
    BY <2>1
  <2>3. Range(svids) = {j \in Selected : j <= Count}
    BY <1>2 DEF SVIDsUpTo
  <2>4. QED
    BY <2>2, <2>3
<1>5. 1 \in Selected
  BY <1>2, <1>3 DEF Selected
<1>6. PICK a \in DOMAIN svids : svids[a] = 1
  BY <1>4, <1>5 DEF Range
<1>7. /\ DOMAIN svids = 1..Len(svids) /\ Len(svids) \in Nat
      /\ \A b \in DOMAIN svids : svids[b] \in Nat /\ svids[b] >= 1
  BY <1>3, ResponsesAssumption
<1>8. 1 \in DOMAIN svids /\ a \in Nat /\ a >= 1
  BY <1>6, <1>7
<1>9. svids[1] = 1
  <2>1. CASE a = 1
    BY <1>6, <2>1
  <2>2. CASE 1 < a
    <3>1. svids[1] < 1
      BY <1>2, <1>6, <1>8, <2>2 DEF SVIDsUpTo
    <3>2. QED
      BY <1>7, <1>8, <3>1
  <2>3. QED
    BY <1>8, <2>1, <2>2
<1>10. QED
  BY <1>2, <1>4, <1>9 DEF SVIDsUpTo

(* A call that returned failed exactly if the response has a fault, and    *)
(* then returns nothing.                                                   *)
LEMMA InvGivesAllOrNothing ==
    ASSUME TypeOK, ResponseInv
    PROVE  AllOrNothing
<1>1. SUFFICES ASSUME pc = "returned", resp # EmptyResponse \/ ~err
               PROVE  (err <=> Refusable) /\ (err => svids = <<>> /\ bundles = <<>>)
  BY DEF AllOrNothing, Refusable
<1>2. Answered
  BY <1>1 DEF ResponseInv
<1>3. CASE err
  BY <1>1, <1>2, <1>3 DEF Answered
<1>4. CASE ~err
  <2>1. /\ call # "Bundles" => Count > 0
        /\ SVIDsUpTo(Count)
        /\ call \in {"Context", "Bundles"} => BundlesUpTo(Count, resp.bundles)
    BY <1>2, <1>4 DEF Answered
  <2>2. Count \in Nat /\ DOMAIN resp.svids = 1..Count /\ Selected \subseteq 1..Count
    BY RespFacts
  <2>3. ~(call # "Bundles" /\ resp.svids = <<>>)
    BY <2>1 DEF Count
  <2>4. ~\E j \in Selected : ~resp.svids[j].valid
    BY <2>1, <2>2 DEF SVIDsUpTo
  <2>5. call \in {"SVID", "SVIDs", "Validate", "Watch"} => resp.bundles = {}
    BY <1>4 DEF ResponseInv
  <2>6. QED
    BY <1>4, <2>1, <2>2, <2>3, <2>4, <2>5 DEF Refusable, BundlesUpTo, TypeOK, Calls
<1>5. QED
  BY <1>3, <1>4

(* A bundle that was returned is the federated one of its trust domain,    *)
(* or else that of the last SVID.                                          *)
LEMMA InvGivesBundlePrecedence ==
    ASSUME TypeOK, ResponseInv
    PROVE  BundlePrecedence
<1>1. SUFFICES ASSUME pc = "returned", ~err, call \in {"Context", "Bundles"},
                      NEW t \in TrustDomains
               PROVE  LET from == {j \in DOMAIN resp.svids : resp.svids[j].td = t}
                          fed == {k \in resp.bundles : Names[k] = t}
                      IN  /\ t \in DOMAIN bundles <=> from \cup fed # {}
                          /\ fed # {} => bundles[t] \in fed
                          /\ fed = {} /\ from # {} =>
                                 bundles[t] \in from /\ \A j \in from : j <= bundles[t]
  BY DEF BundlePrecedence
<1>2. BundlesUpTo(Count, resp.bundles)
  BY <1>1 DEF ResponseInv, Answered
<1>3. DOMAIN resp.svids = 1..Count
  BY RespFacts
<1>4. QED
  BY <1>2, <1>3 DEF BundlesUpTo

(* The invariants hold when a call begins. *)
LEMMA ResponsesInit ==
    ASSUME Init
    PROVE  TypeOK /\ OpenInv /\ ResponseInv
<1>1. /\ 1 \in 1 .. MaxSVIDs + 1 /\ <<>> \in Seq(1 .. MaxSVIDs) /\ DOMAIN <<>> = {}
      /\ Range(<<>>) = {}
  BY ResponsesAssumption, EmptySeq DEF Range
<1>2. TypeOK
  <2>1. resp \in Responses
    BY EmptyResponseType DEF Init
  <2>2. i \in 1 .. MaxSVIDs + 1 /\ svids \in Seq(1 .. MaxSVIDs)
        /\ DOMAIN bundles = {} /\ Range(bundles) = {}
    BY <1>1 DEF Init
  <2>3. own \in BOOLEAN /\ open \subseteq Resources /\ call \in Calls /\ err \in BOOLEAN
        /\ pc \in {"new", "fetch"} /\ hints = {} /\ left = {}
    BY DEF Init, Resources
  <2>4. QED
    BY <2>1, <2>2, <2>3 DEF TypeOK
<1>3. OpenInv
  BY DEF Init, OpenInv, OnlyOwnClientClosed
<1>4. ResponseInv
  BY DEF Init, ResponseInv, BeforeResponse, EmptyResponse
<1>5. QED
  BY <1>2, <1>3, <1>4

-----------------------------------------------------------------------------
(* The invariant holds in every reachable state. *)
LEMMA ResponsesInvariant == Spec => [](TypeOK /\ ResponseInv)
<1>1. TypeOK /\ ResponseInv /\ [Next]_vars => (TypeOK /\ ResponseInv)'
  BY TypeStep, ResponseStep
<1>2. QED
  BY <1>1, ResponsesInit, PTL DEF Spec

(* A call keeps its variables within their types. *)
THEOREM ResponsesTypeCorrect == Spec => []TypeOK
<1>1. QED
  BY ResponsesInit, TypeStep, PTL DEF Spec

(* A call closes what it opened and only that, however it ends: the        *)
(* deferred cancel() of the methods and the deferred Close of the          *)
(* functions in convenience.go.                                            *)
THEOREM NoCallLeaks == Spec => []OnlyOwnClientClosed
<1>1. OpenInv => OnlyOwnClientClosed
  BY DEF OpenInv
<1>2. QED
  BY <1>1, ResponsesInit, TypeStep, OpenStep, PTL DEF Spec

(* Of a response of any length, with any hints, parse*SVIDs returns the    *)
(* first SVID of every hint and all without one, in order.                 *)
THEOREM SVIDsOfAnyResponse == Spec => []FirstOfEqualHints
<1>1. QED
  BY ResponsesInvariant, InvGivesFirstOfEqualHints, PTL

(* A response is accepted as a whole or refused, for exactly the stated    *)
(* causes.                                                                 *)
THEOREM ResponsesAllOrNothing == Spec => []AllOrNothing
<1>1. QED
  BY ResponsesInvariant, InvGivesAllOrNothing, PTL

(* Whatever the order in which Go visits the map of bundles, a federated   *)
(* bundle takes the place of one that came with an SVID, and the last SVID *)
(* of a trust domain that of earlier ones.                                 *)
THEOREM BundlesOfAnyResponse == Spec => []BundlePrecedence
<1>1. QED
  BY ResponsesInvariant, InvGivesBundlePrecedence, PTL
=============================================================================
