--------------------------- MODULE IdentitiesProofs ---------------------------
(***************************************************************************)
(* Proofs about SpiffeID and SVIDs: for texts, paths and segments of any   *)
(* length, every function of spiffeid accepts exactly the grammar and      *)
(* every ID a program can get is well formed; from that, what the readers  *)
(* of SVIDs accept.                                                        *)
(*                                                                         *)
(* The grammar is stated with subsequences, the scanners look at           *)
(* characters.  The first lemmas restate the grammar with positions; after *)
(* them, each scanner has a loop invariant.                                *)
(***************************************************************************)
EXTENDS SVIDs, SequenceTheorems, FiniteSetTheorems, TLAPS

-----------------------------------------------------------------------------
(* Texts by position *)

Text == Seq(Chars)

(* The characters after position a up to b are those of a segment. *)
SegmentChars(p, a, b) == \A k \in a + 1 .. b : isValidPathSegmentChar(p[k])

(* They are one dot or two. *)
Dots(p, a, b) ==
    \/ b = a + 1 /\ p[a + 1] = "."
    \/ b = a + 2 /\ p[a + 1] = "." /\ p[a + 2] = "."

SegmentAt(p, a, b) == a < b /\ SegmentChars(p, a, b) /\ ~Dots(p, a, b)

(* Where the segment that a slash at position a begins comes to an end. *)
EndsAt(p, a, b) == SegmentAt(p, a, b) /\ (b = Len(p) \/ p[b + 1] = "/")

(* What a slice is. *)
LEMMA SliceProperties ==
    ASSUME NEW s \in Text, NEW a \in Nat, NEW b \in Nat, a <= b, b <= Len(s)
    PROVE  /\ Slice(s, a, b) \in Text
           /\ Len(Slice(s, a, b)) = b - a
           /\ \A k \in 1 .. b - a : Slice(s, a, b)[k] = s[a + k]
<1>1. \A k \in a + 1 .. b : s[k] \in Chars
  BY DEF Text
<1>2. a + 1 \in Int /\ b \in Int
  OBVIOUS
<1>3. /\ SubSeq(s, a + 1, b) \in Seq(Chars)
      /\ Len(SubSeq(s, a + 1, b)) = IF a + 1 <= b THEN b - (a + 1) + 1 ELSE 0
      /\ \A k \in 1 .. b - (a + 1) + 1 : SubSeq(s, a + 1, b)[k] = s[(a + 1) + k - 1]
  BY <1>1, <1>2, SubSeqProperties
<1>4. b - (a + 1) + 1 = b - a /\ \A k \in 1 .. b - a : (a + 1) + k - 1 = a + k
  OBVIOUS
<1>5. QED
  BY <1>3, <1>4 DEF Slice, Text

(* A slice from the beginning. *)
LEMMA SliceFromStart ==
    ASSUME NEW s \in Text, NEW n \in Nat, n <= Len(s)
    PROVE  /\ Slice(s, 0, n) \in Text
           /\ Len(Slice(s, 0, n)) = n
           /\ \A k \in 1 .. n : Slice(s, 0, n)[k] = s[k]
<1>1. 0 \in Nat /\ 0 <= n /\ n - 0 = n /\ \A k \in 1 .. n : 0 + k = k
  OBVIOUS
<1>2. /\ Slice(s, 0, n) \in Text
      /\ Len(Slice(s, 0, n)) = n - 0
      /\ \A k \in 1 .. n - 0 : Slice(s, 0, n)[k] = s[0 + k]
  BY <1>1, SliceProperties
<1>3. QED
  BY <1>1, <1>2

(* The short texts that are compared with. *)
LEMMA EmptyText ==
    ASSUME NEW s \in Text
    PROVE  s = <<>> <=> Len(s) = 0
BY DEF Text

(* A text of one character. *)
LEMMA TextOfOne ==
    ASSUME NEW s \in Text, NEW x \in Chars
    PROVE  s = <<x>> <=> Len(s) = 1 /\ s[1] = x
<1>1. ASSUME Len(s) = 1, s[1] = x PROVE s = <<x>>
  BY <1>1, SeqEqual DEF Text
<1>2. QED
  BY <1>1

(* A text of two characters. *)
LEMMA TextOfTwo ==
    ASSUME NEW s \in Text, NEW x \in Chars, NEW y \in Chars
    PROVE  s = <<x, y>> <=> Len(s) = 2 /\ s[1] = x /\ s[2] = y
<1>1. ASSUME Len(s) = 2, s[1] = x, s[2] = y PROVE s = <<x, y>>
  <2>1. \A k \in 1 .. 2 : k = 1 \/ k = 2
    OBVIOUS
  <2>2. QED
    BY <1>1, <2>1, SeqEqual DEF Text
<1>2. QED
  BY <1>1

(* A text of three characters. *)
LEMMA TextOfThree ==
    ASSUME NEW s \in Text, NEW x \in Chars, NEW y \in Chars, NEW z \in Chars
    PROVE  s = <<x, y, z>> <=> Len(s) = 3 /\ s[1] = x /\ s[2] = y /\ s[3] = z
<1>1. ASSUME Len(s) = 3, s[1] = x, s[2] = y, s[3] = z PROVE s = <<x, y, z>>
  <2>1. \A k \in 1 .. 3 : k = 1 \/ k = 2 \/ k = 3
    OBVIOUS
  <2>2. QED
    BY <1>1, <2>1, SeqEqual DEF Text
<1>2. QED
  BY <1>1

(* The characters of a text, as the grammar quantifies over them. *)
LEMMA RangeOfText ==
    ASSUME NEW s \in Text
    PROVE  Range(s) = {s[k] : k \in 1 .. Len(s)}
BY DEF Range, Text

(* A slice is a segment if its characters are those of one. *)
LEMMA SegmentByPosition ==
    ASSUME NEW p \in Text, NEW a \in Nat, NEW b \in Nat, a <= b, b <= Len(p)
    PROVE  IsSegment(Slice(p, a, b)) <=> SegmentAt(p, a, b)
<1> DEFINE s == Slice(p, a, b)
<1>0. s \in Text
  BY SliceProperties
<1>1. Len(s) = b - a /\ \A k \in 1 .. b - a : s[k] = p[a + k]
  BY SliceProperties
<1>2. "." \in Chars
  BY DEF Chars
<1> HIDE DEF s
<1>3. s \notin {<<>>, <<".">>, <<".", ".">>} <=> a < b /\ ~Dots(p, a, b)
  <2>1. s = <<>> <=> a = b
    BY <1>0, <1>1, EmptyText
  <2>2. s = <<".">> <=> b = a + 1 /\ p[a + 1] = "."
    <3>1. s = <<".">> <=> Len(s) = 1 /\ s[1] = "."
      BY <1>0, <1>2, TextOfOne
    <3>2. Len(s) = 1 <=> b = a + 1
      BY <1>1
    <3>3. Len(s) = 1 => s[1] = p[a + 1]
      BY <1>1
    <3>4. QED
      BY <3>1, <3>2, <3>3
  <2>3. s = <<".", ".">> <=> b = a + 2 /\ p[a + 1] = "." /\ p[a + 2] = "."
    <3>1. s = <<".", ".">> <=> Len(s) = 2 /\ s[1] = "." /\ s[2] = "."
      BY <1>0, <1>2, TextOfTwo
    <3>2. Len(s) = 2 <=> b = a + 2
      BY <1>1
    <3>3. Len(s) = 2 => s[1] = p[a + 1] /\ s[2] = p[a + 2]
      <4>1. b = a + 2 => 1 \in 1 .. b - a /\ 2 \in 1 .. b - a
        OBVIOUS
      <4>2. QED
        BY <1>1, <3>2, <4>1
    <3>4. QED
      BY <3>1, <3>2, <3>3
  <2>4. QED
    BY <2>1, <2>2, <2>3 DEF Dots
<1>4. (\A c \in Range(s) : isValidPathSegmentChar(c)) <=> SegmentChars(p, a, b)
  <2>1. (\A c \in Range(s) : isValidPathSegmentChar(c))
            <=> \A k \in 1 .. b - a : isValidPathSegmentChar(p[a + k])
    <3>1. Range(s) = {s[k] : k \in 1 .. b - a}
      BY <1>0, <1>1, RangeOfText
    <3>2. (\A c \in Range(s) : isValidPathSegmentChar(c))
              <=> \A k \in 1 .. b - a : isValidPathSegmentChar(s[k])
      BY <3>1
    <3>3. QED
      BY <1>1, <3>2 DEF isValidPathSegmentChar
  <2>2. \A k \in a + 1 .. b : k - a \in 1 .. b - a /\ a + (k - a) = k
    OBVIOUS
  <2>3. \A k \in 1 .. b - a : a + k \in a + 1 .. b
    OBVIOUS
  <2>4. QED
    BY <2>1, <2>2, <2>3 DEF SegmentChars
<1>5. QED
  BY <1>3, <1>4 DEF IsSegment, SegmentAt, s

(* A path begins with a slash, and from every slash on there is a segment  *)
(* that ends with the path or at a slash.                                  *)
LEMMA PathByPosition ==
    ASSUME NEW p \in Text
    PROVE  IsPath(p) <=>
               /\ Len(p) > 0 => p[1] = "/"
               /\ \A a \in 1 .. Len(p) :
                     p[a] = "/" => \E b \in a + 1 .. Len(p) : EndsAt(p, a, b)
<1>1. Len(p) \in Nat /\ (p # <<>> <=> Len(p) > 0)
  BY EmptyText DEF Text
<1>2. ASSUME NEW a \in 1 .. Len(p), NEW b \in a + 1 .. Len(p)
      PROVE  IsSegment(SubSeq(p, a + 1, b)) <=> SegmentAt(p, a, b)
  <2>1. a \in Nat /\ b \in Nat /\ a <= b /\ b <= Len(p)
    BY <1>1, <1>2
  <2>2. QED
    BY <2>1, SegmentByPosition DEF Slice
<1>3. ASSUME NEW a \in 1 .. Len(p), NEW b \in a + 1 .. Len(p)
      PROVE  IsSegment(SubSeq(p, a + 1, b)) /\ (b = Len(p) \/ p[b + 1] = "/") <=> EndsAt(p, a, b)
  BY <1>2, <1>3 DEF EndsAt
<1>4. IsPath(p) <=>
        /\ Len(p) > 0 => p[1] = "/"
        /\ \A a \in 1 .. Len(p) : p[a] = "/" =>
              \E b \in a + 1 .. Len(p) :
                 IsSegment(SubSeq(p, a + 1, b)) /\ (b = Len(p) \/ p[b + 1] = "/")
  BY <1>1 DEF IsPath
<1>5. QED
  BY <1>3, <1>4, Zenon

(* What the scanner of paths refuses at the end of a segment. *)
LEMMA RefusedSegment ==
    ASSUME NEW p \in Text, NEW a \in Nat, NEW b \in Nat, a < b, b <= Len(p), p[a + 1] = "/"
    PROVE  Slice(p, a, b) \in {<<"/">>} \cup DotSegments <=> b = a + 1 \/ Dots(p, a + 1, b)
<1> DEFINE s == Slice(p, a, b)
<1>0. a <= b
  OBVIOUS
<1>1. s \in Text
  BY <1>0, SliceProperties
<1>2. Len(s) = b - a /\ \A k \in 1 .. b - a : s[k] = p[a + k]
  BY <1>0, SliceProperties
<1>3. "." \in Chars /\ "/" \in Chars
  BY DEF Chars
<1> HIDE DEF s
<1>4. s = <<"/">> <=> b = a + 1
  <2>1. s = <<"/">> <=> Len(s) = 1 /\ s[1] = "/"
    BY <1>1, <1>3, TextOfOne
  <2>2. QED
    BY <1>2, <2>1
<1>5. s = <<"/", ".">> <=> b = (a + 1) + 1 /\ p[(a + 1) + 1] = "."
  <2>1. s = <<"/", ".">> <=> Len(s) = 2 /\ s[1] = "/" /\ s[2] = "."
    BY <1>1, <1>3, TextOfTwo
  <2>2. Len(s) = 2 => s[1] = p[a + 1] /\ s[2] = p[a + 2]
    <3>1. Len(s) = 2 => 1 \in 1 .. b - a /\ 2 \in 1 .. b - a
      BY <1>2
    <3>2. QED
      BY <1>2, <3>1
  <2>3. Len(s) = 2 <=> b = a + 2
    BY <1>2
  <2>4. QED
    BY <2>1, <2>2, <2>3
<1>6. s = <<"/", ".", ".">> <=>
          b = (a + 1) + 2 /\ p[(a + 1) + 1] = "." /\ p[(a + 1) + 2] = "."
  <2>1. s = <<"/", ".", ".">> <=> Len(s) = 3 /\ s[1] = "/" /\ s[2] = "." /\ s[3] = "."
    BY <1>1, <1>3, TextOfThree
  <2>2. Len(s) = 3 => s[1] = p[a + 1] /\ s[2] = p[a + 2] /\ s[3] = p[a + 3]
    <3>1. SUFFICES ASSUME Len(s) = 3 PROVE s[1] = p[a + 1] /\ s[2] = p[a + 2] /\ s[3] = p[a + 3]
      OBVIOUS
    <3>2. b - a = 3
      BY <1>2, <3>1
    <3>3. \A k \in 1 .. 3 : s[k] = p[a + k]
      BY <1>2, <3>2
    <3>4. QED
      BY <3>3
  <2>3. Len(s) = 3 <=> b = a + 3
    BY <1>2
  <2>4. QED
    BY <2>1, <2>2, <2>3
<1>7. QED
  BY <1>4, <1>5, <1>6 DEF DotSegments, Dots, s

(* What a concatenation is. *)
LEMMA ConcatTexts ==
    ASSUME NEW s \in Text, NEW t \in Text
    PROVE  /\ s \o t \in Text
           /\ Len(s) \in Nat /\ Len(t) \in Nat /\ Len(s \o t) = Len(s) + Len(t)
           /\ \A k \in 1 .. Len(s) : (s \o t)[k] = s[k]
           /\ \A k \in 1 .. Len(t) : (s \o t)[Len(s) + k] = t[k]
<1> DEFINE r == s \o t
           m == Len(s)
           n == Len(t)
<1>1. \A k \in 1 .. m + n : r[k] = IF k <= m THEN s[k] ELSE t[k - m]
  BY ConcatProperties DEF Text
<1>2. r \in Text /\ Len(r) = m + n /\ m \in Nat /\ n \in Nat
  BY ConcatProperties DEF Text
<1> HIDE DEF r, m, n
<1>3. \A k \in 1 .. m : k \in 1 .. m + n /\ k <= m
  BY <1>2
<1>4. \A k \in 1 .. n : m + k \in 1 .. m + n /\ ~(m + k <= m) /\ (m + k) - m = k
  BY <1>2
<1>5. (\A k \in 1 .. m : r[k] = s[k]) /\ (\A k \in 1 .. n : r[m + k] = t[k])
  BY <1>1, <1>3, <1>4
<1>6. QED
  BY <1>2, <1>5 DEF r, m, n

(* Paths may be appended to each other. *)
LEMMA ConcatPaths ==
    ASSUME NEW p \in Text, NEW q \in Text, IsPath(p), IsPath(q)
    PROVE  p \o q \in Text /\ IsPath(p \o q)
<1> DEFINE r == p \o q
           m == Len(p)
           n == Len(q)
<1>1. /\ r \in Text /\ Len(r) = m + n /\ m \in Nat /\ n \in Nat
      /\ \A k \in 1 .. m : r[k] = p[k]
      /\ \A k \in 1 .. n : r[m + k] = q[k]
  BY ConcatTexts
<1>2. /\ m > 0 => p[1] = "/"
      /\ \A a \in 1 .. m : p[a] = "/" => \E b \in a + 1 .. m : EndsAt(p, a, b)
  BY PathByPosition
<1>3. /\ n > 0 => q[1] = "/"
      /\ \A a \in 1 .. n : q[a] = "/" => \E b \in a + 1 .. n : EndsAt(q, a, b)
  BY PathByPosition
<1> HIDE DEF r, m, n
<1>4. Len(r) > 0 => r[1] = "/"
  <2>1. CASE m > 0
    BY <1>1, <1>2, <2>1
  <2>2. CASE m = 0 /\ n > 0
    <3>1. 1 \in 1 .. n /\ m + 1 = 1
      BY <1>1, <2>2
    <3>2. QED
      BY <1>1, <1>3, <2>2, <3>1
  <2>3. QED
    BY <1>1, <2>1, <2>2
<1>5. ASSUME NEW a \in 1 .. m, r[a] = "/" PROVE \E b \in a + 1 .. Len(r) : EndsAt(r, a, b)
  <2>1. PICK b \in a + 1 .. m : EndsAt(p, a, b)
    BY <1>1, <1>2, <1>5
  <2>2. b \in a + 1 .. Len(r) /\ b \in Nat /\ a \in Nat /\ \A k \in a + 1 .. b : r[k] = p[k]
    BY <1>1, <2>1
  <2>3. SegmentAt(r, a, b)
    <3>1. SegmentAt(p, a, b)
      BY <2>1 DEF EndsAt
    <3>2. SegmentChars(r, a, b)
      BY <2>2, <3>1 DEF SegmentAt, SegmentChars
    <3>3. Dots(r, a, b) <=> Dots(p, a, b)
      BY <2>2 DEF Dots
    <3>4. QED
      BY <3>1, <3>2, <3>3 DEF SegmentAt
  <2>4. b = Len(r) \/ r[b + 1] = "/"
    <3>1. CASE b = m
      <4>1. CASE n = 0
        BY <1>1, <3>1, <4>1
      <4>2. CASE n > 0
        <5>1. 1 \in 1 .. n
          BY <1>1, <4>2
        <5>2. QED
          BY <1>1, <1>3, <3>1, <4>2, <5>1
      <4>3. QED
        BY <1>1, <4>1, <4>2
    <3>2. CASE b # m
      <4>1. b + 1 \in 1 .. m
        BY <1>1, <2>1, <3>2
      <4>2. p[b + 1] = "/"
        BY <2>1, <3>2 DEF EndsAt, m
      <4>3. QED
        BY <1>1, <4>1, <4>2
    <3>3. QED
      BY <3>1, <3>2
  <2>5. QED
    BY <2>2, <2>3, <2>4 DEF EndsAt
<1>6. ASSUME NEW c \in 1 .. n, r[m + c] = "/"
      PROVE  \E b \in (m + c) + 1 .. Len(r) : EndsAt(r, m + c, b)
  <2>1. PICK d \in c + 1 .. n : EndsAt(q, c, d)
    BY <1>1, <1>3, <1>6
  <2>2. /\ m + d \in (m + c) + 1 .. Len(r) /\ d \in Nat /\ c \in Nat
        /\ \A k \in c + 1 .. d : r[m + k] = q[k]
    BY <1>1, <2>1
  <2>3. SegmentAt(r, m + c, m + d)
    <3>1. SegmentAt(q, c, d)
      BY <2>1 DEF EndsAt
    <3>2. SegmentChars(r, m + c, m + d)
      <4>1. ASSUME NEW k \in (m + c) + 1 .. m + d PROVE isValidPathSegmentChar(r[k])
        <5>1. k - m \in c + 1 .. d /\ m + (k - m) = k
          BY <1>1, <2>2, <4>1
        <5>2. r[k] = q[k - m]
          BY <2>2, <5>1
        <5>3. isValidPathSegmentChar(q[k - m])
          BY <3>1, <5>1 DEF SegmentAt, SegmentChars
        <5>4. QED
          BY <5>2, <5>3
      <4>2. QED
        BY <4>1 DEF SegmentChars
    <3>3. Dots(r, m + c, m + d) => Dots(q, c, d)
      <4>1. m + d = (m + c) + 1 => d = c + 1 /\ r[(m + c) + 1] = q[c + 1]
        <5>1. (m + c) + 1 = m + (c + 1)
          BY <1>1, <2>2
        <5>2. QED
          BY <1>1, <2>2, <5>1
      <4>2. m + d = (m + c) + 2 =>
                d = c + 2 /\ r[(m + c) + 1] = q[c + 1] /\ r[(m + c) + 2] = q[c + 2]
        <5>1. (m + c) + 1 = m + (c + 1) /\ (m + c) + 2 = m + (c + 2)
          BY <1>1, <2>2
        <5>2. QED
          BY <1>1, <2>2, <5>1
      <4>3. QED
        BY <4>1, <4>2 DEF Dots
    <3>4. QED
      BY <1>1, <2>2, <3>1, <3>2, <3>3 DEF SegmentAt
  <2>4. m + d = Len(r) \/ r[(m + d) + 1] = "/"
    <3>1. CASE d = n
      BY <1>1, <3>1
    <3>2. CASE d # n
      <4>1. d + 1 \in 1 .. n /\ (m + d) + 1 = m + (d + 1)
        BY <1>1, <2>1, <2>2, <3>2
      <4>2. q[d + 1] = "/"
        BY <2>1, <3>2 DEF EndsAt, n
      <4>3. QED
        BY <1>1, <4>1, <4>2
    <3>3. QED
      BY <3>1, <3>2
  <2>5. QED
    BY <2>2, <2>3, <2>4 DEF EndsAt
<1>7. ASSUME NEW a \in 1 .. Len(r), r[a] = "/" PROVE \E b \in a + 1 .. Len(r) : EndsAt(r, a, b)
  <2>1. CASE a <= m
    BY <1>1, <1>5, <1>7, <2>1
  <2>2. CASE a > m
    <3>1. a - m \in 1 .. n /\ m + (a - m) = a
      BY <1>1, <1>7, <2>2
    <3>2. QED
      BY <1>6, <1>7, <3>1
  <2>3. QED
    BY <1>1, <2>1, <2>2
<1>8. QED
  BY <1>1, <1>4, <1>7, PathByPosition DEF r

(* A slash and a segment are a path. *)
LEMMA SegmentIsPath ==
    ASSUME NEW s \in Text, IsSegment(s)
    PROVE  <<"/">> \o s \in Text /\ IsPath(<<"/">> \o s)
<1> DEFINE r == <<"/">> \o s
           n == Len(s)
<1>1. "/" \in Chars
  BY DEF Chars
<1>2. <<"/">> \in Text /\ Len(<<"/">>) = 1 /\ <<"/">>[1] = "/"
  BY <1>1 DEF Text
<1>3. /\ r \in Text /\ Len(r) = 1 + n /\ n \in Nat
      /\ \A k \in 1 .. 1 + n : r[k] = IF k <= 1 THEN <<"/">>[k] ELSE s[k - 1]
  BY <1>2, ConcatProperties DEF Text
<1>4. r[1] = "/" /\ \A k \in 2 .. 1 + n : r[k] = s[k - 1]
  BY <1>2, <1>3
<1>5. s = Slice(s, 0, n)
  <2>1. /\ Slice(s, 0, n) \in Text /\ Len(Slice(s, 0, n)) = n
        /\ \A k \in 1 .. n : Slice(s, 0, n)[k] = s[k]
    BY <1>3, SliceFromStart
  <2>2. QED
    BY <2>1, SeqEqual DEF Text
<1>6. SegmentAt(s, 0, n)
  BY <1>3, <1>5, SegmentByPosition
<1> HIDE DEF r, n
<1>7. SegmentAt(r, 1, 1 + n)
  <2>1. 1 < 1 + n
    BY <1>3, <1>6 DEF SegmentAt
  <2>2. SegmentChars(r, 1, 1 + n)
    <3>1. ASSUME NEW k \in 1 + 1 .. 1 + n PROVE isValidPathSegmentChar(r[k])
      <4>1. k - 1 \in 0 + 1 .. n /\ k \in 2 .. 1 + n
        BY <1>3, <3>1
      <4>2. isValidPathSegmentChar(s[k - 1])
        BY <1>6, <4>1 DEF SegmentAt, SegmentChars
      <4>3. QED
        BY <1>4, <4>1, <4>2
    <3>2. QED
      BY <3>1 DEF SegmentChars
  <2>3. ~Dots(r, 1, 1 + n)
    <3>1. n = 1 => r[2] = s[1]
      BY <1>4
    <3>2. n = 2 => r[2] = s[1] /\ r[3] = s[2]
      BY <1>4
    <3>3. QED
      BY <1>3, <1>6, <3>1, <3>2 DEF SegmentAt, Dots
  <2>4. QED
    BY <2>1, <2>2, <2>3 DEF SegmentAt
<1>8. ASSUME NEW a \in 1 .. Len(r), r[a] = "/" PROVE a = 1
  <2>1. SUFFICES ASSUME a # 1 PROVE FALSE
    OBVIOUS
  <2>2. a \in 1 + 1 .. 1 + n
    BY <1>3, <1>8, <2>1
  <2>3. isValidPathSegmentChar("/")
    BY <1>7, <1>8, <2>2 DEF SegmentAt, SegmentChars
  <2>4. QED
    BY <2>3 DEF isValidPathSegmentChar
<1>9. EndsAt(r, 1, 1 + n) /\ 1 + n \in 1 + 1 .. Len(r)
  BY <1>3, <1>7 DEF EndsAt, SegmentAt
<1>10. QED
  BY <1>3, <1>4, <1>8, <1>9, PathByPosition DEF r

(* JoinPathSegments makes paths. *)
LEMMA ExtendedPath ==
    ASSUME NEW p \in Text, NEW s \in Text, IsPath(p), IsSegment(s)
    PROVE  p \o <<"/">> \o s \in Text /\ IsPath(p \o <<"/">> \o s)
<1>1. <<"/">> \in Text
  BY DEF Text, Chars
<1>2. (p \o <<"/">>) \o s = p \o (<<"/">> \o s)
  BY <1>1, ConcatAssociative DEF Text
<1>3. QED
  BY <1>2, SegmentIsPath, ConcatPaths

(* The empty path is one. *)
LEMMA EmptyPath == <<>> \in Text /\ IsPath(<<>>) /\ Len(<<>>) = 0
<1>1. <<>> \in Text /\ Len(<<>>) = 0
  BY DEF Text
<1>2. 1 .. 0 = {}
  OBVIOUS
<1>3. QED
  BY <1>1, <1>2 DEF IsPath

-----------------------------------------------------------------------------
(* IDs by position *)

(* The characters after the scheme up to k are those of a trust domain. *)
NameChars(s, k) == \A j \in schemePrefixLen + 1 .. k : isValidTrustDomainChar(s[j])

(* The scheme, character by character. *)
LEMMA SchemeByPosition ==
    ASSUME NEW s \in Text
    PROVE  HasScheme(s) <=>
              Len(s) >= 4 /\ s[1] = "spiffe" /\ s[2] = ":" /\ s[3] = "/" /\ s[4] = "/"
<1>1. Len(s) \in Nat
  BY DEF Text
<1>2. schemePrefix \in Seq(Chars) /\ Len(schemePrefix) = 4
  BY DEF schemePrefix, Chars
<1>3. CASE Len(s) >= 4
  <2>1. /\ Slice(s, 0, 4) \in Text /\ Len(Slice(s, 0, 4)) = 4
        /\ \A k \in 1 .. 4 : Slice(s, 0, 4)[k] = s[k]
    BY <1>1, <1>3, SliceFromStart
  <2>2. Slice(s, 0, 4) = schemePrefix <=>
            s[1] = "spiffe" /\ s[2] = ":" /\ s[3] = "/" /\ s[4] = "/"
    <3>1. \A k \in 1 .. 4 : k = 1 \/ k = 2 \/ k = 3 \/ k = 4
      OBVIOUS
    <3>2. schemePrefix[1] = "spiffe" /\ schemePrefix[2] = ":" /\ schemePrefix[3] = "/"
              /\ schemePrefix[4] = "/"
      BY DEF schemePrefix
    <3>3. ASSUME s[1] = "spiffe", s[2] = ":", s[3] = "/", s[4] = "/"
          PROVE  Slice(s, 0, 4) = schemePrefix
      <4>1. \A k \in 1 .. 4 : Slice(s, 0, 4)[k] = schemePrefix[k]
        BY <2>1, <3>1, <3>2, <3>3
      <4>2. QED
        BY <1>2, <2>1, <4>1, SeqEqual DEF Text
    <3>4. QED
      BY <2>1, <3>2, <3>3
  <2>3. QED
    BY <1>3, <2>2 DEF HasScheme, schemePrefixLen
<1>4. CASE ~(Len(s) >= 4)
  BY <1>4 DEF HasScheme, schemePrefixLen
<1>5. QED
  BY <1>3, <1>4

(* The name of a trust domain, character by character. *)
LEMMA NameByPosition ==
    ASSUME NEW s \in Text, NEW k \in Nat, 4 <= k, k <= Len(s)
    PROVE  /\ Slice(s, 4, k) \in Text
           /\ IsTrustDomainName(Slice(s, 4, k)) <=> k > 4 /\ NameChars(s, k)
<1> DEFINE t == Slice(s, 4, k)
<1>1. t \in Text
  BY SliceProperties
<1>2. Len(t) = k - 4 /\ \A j \in 1 .. k - 4 : t[j] = s[4 + j]
  BY SliceProperties
<1> HIDE DEF t
<1>3. t # <<>> <=> k > 4
  BY <1>1, <1>2, EmptyText
<1>4. (\A c \in Range(t) : isValidTrustDomainChar(c)) <=> NameChars(s, k)
  <2>1. Range(t) = {t[j] : j \in 1 .. k - 4}
    BY <1>1, <1>2, RangeOfText
  <2>2. (\A c \in Range(t) : isValidTrustDomainChar(c))
            <=> \A j \in 1 .. k - 4 : isValidTrustDomainChar(t[j])
    BY <2>1
  <2>3. ASSUME NEW j \in 4 + 1 .. k PROVE j - 4 \in 1 .. k - 4 /\ t[j - 4] = s[j]
    <3>1. j - 4 \in 1 .. k - 4 /\ 4 + (j - 4) = j
      BY <2>3
    <3>2. QED
      BY <1>2, <3>1
  <2>4. ASSUME NEW j \in 1 .. k - 4 PROVE 4 + j \in 4 + 1 .. k /\ t[j] = s[4 + j]
    BY <1>2, <2>4
  <2>5. QED
    BY <2>2, <2>3, <2>4 DEF NameChars, schemePrefixLen, isValidTrustDomainChar
<1>5. QED
  BY <1>1, <1>3, <1>4 DEF IsTrustDomainName, t

(* What it means that s is an ID with its path at k. *)
LEMMA IDByPosition ==
    ASSUME NEW s \in Text, NEW k \in Nat, 4 <= k, k <= Len(s)
    PROVE  /\ IsIDWithPathAt(s, k) <=>
                 HasScheme(s) /\ k > 4 /\ NameChars(s, k) /\ IsPath(Slice(s, k, Len(s)))
           /\ IsIDWithPathAt(s, k) => k = Len(s) \/ s[k + 1] = "/"
<1>1. Len(s) \in Nat
  BY DEF Text
<1>2. IsIDWithPathAt(s, k) <=>
         HasScheme(s) /\ k > 4 /\ NameChars(s, k) /\ IsPath(Slice(s, k, Len(s)))
  BY NameByPosition DEF IsIDWithPathAt, schemePrefixLen
<1>3. ASSUME IsPath(Slice(s, k, Len(s))), k # Len(s) PROVE s[k + 1] = "/"
  <2> DEFINE p == Slice(s, k, Len(s))
  <2>1. /\ p \in Text /\ Len(p) = Len(s) - k
        /\ \A j \in 1 .. Len(s) - k : p[j] = s[k + j]
    <3>1. Len(s) \in Nat /\ k <= Len(s) /\ Len(s) <= Len(s)
      BY <1>1
    <3>2. QED
      BY <3>1, SliceProperties
  <2>2. Len(s) - k > 0 /\ 1 \in 1 .. Len(s) - k
    BY <1>1, <1>3
  <2>3. QED
    BY <1>3, <2>1, <2>2, PathByPosition
<1>4. QED
  BY <1>2, <1>3

(* A text is split in one way only. *)
LEMMA UniqueSplit ==
    ASSUME NEW s \in Text, NEW k \in Nat, NEW l \in Nat, k <= Len(s), l <= Len(s),
           4 <= k, 4 <= l, IsIDWithPathAt(s, k), IsIDWithPathAt(s, l)
    PROVE  k = l
<1>1. ASSUME NEW a \in Nat, NEW b \in Nat, 4 <= a, a < b, b <= Len(s),
             IsIDWithPathAt(s, a), IsIDWithPathAt(s, b)
      PROVE  FALSE
  <2>1. a # Len(s) /\ a <= Len(s) /\ Len(s) \in Nat
    BY <1>1 DEF Text
  <2>2. s[a + 1] = "/"
    BY <1>1, <2>1, IDByPosition
  <2>3. NameChars(s, b)
    <3>1. 4 <= b
      BY <1>1
    <3>2. QED
      BY <1>1, <3>1, IDByPosition
  <2>4. a + 1 \in schemePrefixLen + 1 .. b
    BY <1>1 DEF schemePrefixLen
  <2>5. QED
    BY <2>2, <2>3, <2>4 DEF NameChars, isValidTrustDomainChar
<1>2. QED
  BY <1>1

-----------------------------------------------------------------------------
(* IDs that are made *)

WellFormed(x) ==
    /\ x \in IDs
    /\ 4 <= x.pathidx /\ x.pathidx <= Len(x.str)
    /\ IsIDWithPathAt(x.str, x.pathidx)

(* The parts of a well-formed ID. *)
LEMMA WellFormedParts ==
    ASSUME NEW x, WellFormed(x)
    PROVE  /\ x.str \in Text /\ x.pathidx \in Nat /\ Len(x.str) \in Nat /\ Len(x.str) >= 4
           /\ ~IsZero(x) /\ x # ZeroID
           /\ TrustDomain(x) \in Text /\ IsTrustDomainName(TrustDomain(x))
           /\ IsID(x.str)
<1>1. /\ x.str \in Text /\ x.pathidx \in Nat /\ Len(x.str) \in Nat
      /\ 4 <= x.pathidx /\ x.pathidx <= Len(x.str)
  BY DEF WellFormed, IDs, Text
<1>2. Len(x.str) >= 4
  BY <1>1
<1>3. x.str # <<>>
  BY <1>1, <1>2, EmptyText
<1>4. TrustDomain(x) = Slice(x.str, 4, x.pathidx)
  BY <1>3 DEF TrustDomain, IsZero, schemePrefixLen
<1>5. TrustDomain(x) \in Text
  BY <1>1, <1>4, NameByPosition
<1>6. IsTrustDomainName(TrustDomain(x))
  BY <1>4 DEF WellFormed, IsIDWithPathAt, schemePrefixLen
<1>7. x.pathidx \in schemePrefixLen .. Len(x.str)
  BY <1>1 DEF schemePrefixLen
<1>8. IsID(x.str)
  BY <1>7 DEF IsID, WellFormed
<1>9. QED
  BY <1>1, <1>2, <1>3, <1>5, <1>6, <1>8 DEF IsZero, ZeroID

(* makeID makes a well-formed ID of a trust domain and a path. *)
LEMMA MadeIDs ==
    ASSUME NEW td \in Text, NEW p \in Text, IsTrustDomainName(td), IsPath(p)
    PROVE  WellFormed(makeID(td, p))
<1> DEFINE m == Len(td)
           n == Len(p)
           h == schemePrefix \o td
           s == schemePrefix \o td \o p
<1>1. /\ schemePrefix \in Text /\ Len(schemePrefix) = 4
      /\ schemePrefix[1] = "spiffe" /\ schemePrefix[2] = ":"
      /\ schemePrefix[3] = "/" /\ schemePrefix[4] = "/"
  BY DEF schemePrefix, Chars, Text
<1>2. /\ h \in Text /\ Len(h) = Len(schemePrefix) + m /\ m \in Nat
      /\ \A k \in 1 .. Len(schemePrefix) : h[k] = schemePrefix[k]
      /\ \A k \in 1 .. m : h[Len(schemePrefix) + k] = td[k]
  BY <1>1, ConcatTexts
<1>3. /\ Len(h) = 4 + m
      /\ \A k \in 1 .. 4 : h[k] = schemePrefix[k]
      /\ \A k \in 1 .. m : h[4 + k] = td[k]
  BY <1>1, <1>2
<1>4. /\ s \in Text /\ Len(s) = Len(h) + n /\ n \in Nat
      /\ \A k \in 1 .. Len(h) : s[k] = h[k]
      /\ \A k \in 1 .. n : s[Len(h) + k] = p[k]
  BY <1>2, ConcatTexts
<1>5. /\ Len(s) = (4 + m) + n
      /\ \A k \in 1 .. 4 + m : s[k] = h[k]
      /\ \A k \in 1 .. n : s[(4 + m) + k] = p[k]
  BY <1>3, <1>4
<1> HIDE DEF m, n, h, s
<1>7. HasScheme(s)
  <2>1. \A k \in 1 .. 4 : s[k] = schemePrefix[k]
    BY <1>2, <1>3, <1>5
  <2>2. s[1] = "spiffe" /\ s[2] = ":" /\ s[3] = "/" /\ s[4] = "/"
    BY <1>1, <2>1
  <2>3. Len(s) >= 4
    BY <1>2, <1>4, <1>5
  <2>4. QED
    BY <1>4, <2>2, <2>3, SchemeByPosition
<1>8. NameChars(s, 4 + m)
  <2>1. ASSUME NEW j \in 4 + 1 .. 4 + m PROVE isValidTrustDomainChar(s[j])
    <3>1. j \in 1 .. 4 + m /\ j - 4 \in 1 .. m /\ 4 + (j - 4) = j
      BY <1>2, <2>1
    <3>2. s[j] = td[j - 4]
      BY <1>3, <1>5, <3>1
    <3>3. td[j - 4] \in Range(td)
      BY <3>1, RangeOfText DEF m
    <3>4. QED
      BY <3>2, <3>3 DEF IsTrustDomainName
  <2>2. QED
    BY <2>1 DEF NameChars, schemePrefixLen
<1>9. m > 0
  BY <1>2, EmptyText DEF IsTrustDomainName, m
<1>10. Slice(s, 4 + m, Len(s)) = p
  <2>1. s \in Text /\ 4 + m \in Nat /\ Len(s) \in Nat /\ 4 + m <= Len(s) /\ Len(s) - (4 + m) = n
    BY <1>2, <1>4, <1>5
  <2>2. /\ Slice(s, 4 + m, Len(s)) \in Text
        /\ Len(Slice(s, 4 + m, Len(s))) = Len(s) - (4 + m)
        /\ \A k \in 1 .. Len(s) - (4 + m) : Slice(s, 4 + m, Len(s))[k] = s[(4 + m) + k]
    <3>1. Len(s) <= Len(s)
      BY <2>1
    <3>2. QED
      BY <2>1, <3>1, SliceProperties
  <2>3. \A k \in 1 .. n : Slice(s, 4 + m, Len(s))[k] = p[k]
    BY <1>5, <2>1, <2>2
  <2>4. Len(Slice(s, 4 + m, Len(s))) = Len(p)
    BY <2>1, <2>2 DEF n
  <2>5. QED
    BY <2>1, <2>2, <2>3, <2>4, SeqEqual DEF n, Text
<1>11. /\ s \in Text /\ 4 + m \in Nat /\ 4 <= 4 + m /\ 4 + m <= Len(s) /\ 4 + m > 4
  BY <1>2, <1>4, <1>5, <1>9
<1>12. IsIDWithPathAt(s, 4 + m)
  BY <1>7, <1>8, <1>10, <1>11, IDByPosition
<1>13. makeID(td, p) = [str |-> s, pathidx |-> 4 + m]
  BY DEF makeID, schemePrefixLen, s, m
<1>14. QED
  BY <1>11, <1>12, <1>13 DEF WellFormed, IDs, Text

(* Appending a path to the text of a well-formed ID leaves it well formed. *)
LEMMA AppendedIDs ==
    ASSUME NEW x, NEW p \in Text, WellFormed(x), IsPath(p)
    PROVE  WellFormed([x EXCEPT !.str = @ \o p])
<1> DEFINE s == x.str
           k == x.pathidx
           m == Len(s)
           n == Len(p)
           r == s \o p
<1>1. /\ s \in Text /\ k \in Nat /\ m \in Nat /\ n \in Nat /\ 4 <= k /\ k <= m
      /\ IsIDWithPathAt(s, k)
  BY DEF WellFormed, IDs, Text
<1>2. r \in Text /\ Len(r) = m + n
  BY <1>1, ConcatTexts
<1>3. (\A j \in 1 .. m : r[j] = s[j]) /\ (\A j \in 1 .. n : r[m + j] = p[j])
  BY <1>1, ConcatTexts
<1>0. m <= Len(s)
  BY <1>1
<1> HIDE DEF s, k, m, n, r
<1>4. HasScheme(s) /\ k > 4 /\ NameChars(s, k) /\ IsPath(Slice(s, k, m))
  BY <1>1, IDByPosition DEF m
<1>5. HasScheme(r)
  <2>1. 1 \in 1 .. m /\ 2 \in 1 .. m /\ 3 \in 1 .. m /\ 4 \in 1 .. m
    BY <1>1
  <2>2. s[1] = "spiffe" /\ s[2] = ":" /\ s[3] = "/" /\ s[4] = "/"
    BY <1>1, <1>4, SchemeByPosition
  <2>3. Len(r) >= 4
    BY <1>1, <1>2
  <2>4. QED
    BY <1>2, <1>3, <2>1, <2>2, <2>3, SchemeByPosition
<1>6. NameChars(r, k)
  <2>1. \A j \in 4 + 1 .. k : j \in 1 .. m
    BY <1>1
  <2>2. QED
    BY <1>3, <1>4, <2>1 DEF NameChars, schemePrefixLen
<1>7. Slice(r, k, Len(r)) = Slice(s, k, m) \o p
  <2> DEFINE a == Slice(r, k, Len(r))
             b == Slice(s, k, m)
  <2>1. b \in Text /\ Len(b) = m - k /\ \A j \in 1 .. m - k : b[j] = s[k + j]
    BY <1>0, <1>1, SliceProperties
  <2>2. k <= Len(r) /\ Len(r) \in Nat /\ Len(r) <= Len(r)
    BY <1>1, <1>2
  <2>3. a \in Text /\ Len(a) = Len(r) - k /\ \A j \in 1 .. Len(r) - k : a[j] = r[k + j]
    BY <1>1, <1>2, <2>2, SliceProperties
  <2>4. /\ b \o p \in Text /\ Len(b \o p) = Len(b) + n
        /\ \A j \in 1 .. Len(b) : (b \o p)[j] = b[j]
        /\ \A j \in 1 .. n : (b \o p)[Len(b) + j] = p[j]
    BY <2>1, ConcatTexts DEF n
  <2> HIDE DEF a, b
  <2>5. Len(r) - k = (m - k) + n /\ Len(b \o p) = (m - k) + n
    BY <1>1, <1>2, <2>1, <2>4
  <2>6. ASSUME NEW j \in 1 .. (m - k) + n PROVE a[j] = (b \o p)[j]
    <3>1. a[j] = r[k + j]
      BY <2>3, <2>5, <2>6
    <3>2. CASE j <= m - k
      <4>1. j \in 1 .. m - k /\ k + j \in 1 .. m
        BY <1>1, <2>6, <3>2
      <4>2. QED
        BY <1>3, <2>1, <2>4, <3>1, <4>1
    <3>3. CASE ~(j <= m - k)
      <4>1. j - (m - k) \in 1 .. n /\ m + (j - (m - k)) = k + j /\ (m - k) + (j - (m - k)) = j
        BY <1>1, <2>6, <3>3
      <4>2. r[k + j] = p[j - (m - k)]
        BY <1>3, <4>1
      <4>3. (b \o p)[j] = p[j - (m - k)]
        BY <2>1, <2>4, <4>1
      <4>4. QED
        BY <3>1, <4>2, <4>3
    <3>4. QED
      BY <3>2, <3>3
  <2>7. Len(a) = Len(b \o p) /\ \A j \in 1 .. Len(a) : a[j] = (b \o p)[j]
    BY <2>3, <2>4, <2>5, <2>6
  <2>8. a = b \o p
    <3>1. a \in Seq(Chars) /\ b \o p \in Seq(Chars)
      BY <2>3, <2>4 DEF Text
    <3>2. QED
      BY <2>7, <3>1, SeqEqual
  <2>9. QED
    BY <2>8 DEF a, b
<1>8. IsPath(Slice(r, k, Len(r)))
  <2>1. Slice(s, k, m) \in Text
    BY <1>0, <1>1, SliceProperties
  <2>2. QED
    BY <1>4, <1>7, <2>1, ConcatPaths
<1>9. k <= Len(r)
  BY <1>1, <1>2
<1>10. IsIDWithPathAt(r, k)
  BY <1>1, <1>2, <1>4, <1>5, <1>6, <1>8, <1>9, IDByPosition
<1>11. [x EXCEPT !.str = @ \o p] = [str |-> r, pathidx |-> k]
  BY SMTT(30) DEF WellFormed, IDs, r, s, k
<1>12. QED
  BY <1>1, <1>2, <1>9, <1>10, <1>11 DEF WellFormed, IDs, Text

-----------------------------------------------------------------------------
(* The invariant of the scanners *)

ParseCalls == {"FromString", "UnmarshalText", "TrustDomainFromString"}

CallNames == {"none"} \cup ParseCalls \cup PathCalls \cup SegmentCalls

IDTypes ==
    /\ backcompat \in BOOLEAN /\ ok \in BOOLEAN
    /\ id \in IDs
    /\ call \in [fn : CallNames, text : Text, segments : Seq(Text)]
    /\ path \in Text /\ pathidx \in Nat /\ i \in Nat /\ start \in Nat

(* The call is one that parses a text, and parses it as an ID. *)
ParsesID ==
    /\ call.fn \in ParseCalls
    /\ call.fn = "TrustDomainFromString" => LooksLikeID(call.text)
    /\ HasScheme(call.text)

(* FromString: what is before i is a scheme and characters of a name. *)
NameSoFar ==
    /\ ParsesID
    /\ 4 <= i /\ i <= Len(call.text) /\ NameChars(call.text, i)
    /\ start = 0

(* The trust domain is over, the rest is the path. *)
Split ==
    /\ ParsesID
    /\ 4 < pathidx /\ pathidx <= Len(call.text) /\ NameChars(call.text, pathidx)
    /\ pathidx < Len(call.text) => call.text[pathidx + 1] = "/"
    /\ path = Slice(call.text, pathidx, Len(call.text))

(* The path is an argument of a function, or of a method of an ID. *)
GivenPath ==
    /\ call.fn \in PathCalls /\ path = call.text
    /\ call.fn \in MethodCalls => ~IsZero(id)

(* ValidatePath: the segments before start are good, and so are the        *)
(* characters of the current one.                                          *)
PathSoFar ==
    /\ i <= Len(path)
    /\ i = 0 => start = 0
    /\ i > 0 => start < i /\ path[1] = "/" /\ path[start + 1] = "/"
    /\ SegmentChars(path, start + 1, i)
    /\ \A a \in 1 .. start : path[a] = "/" =>
          \E b \in a + 1 .. start : SegmentAt(path, a, b) /\ path[b + 1] = "/"

(* JoinPathSegments: the segments so far are good, and joined they are a   *)
(* path.                                                                   *)
SegmentsSoFar ==
    /\ call.fn \in SegmentCalls
    /\ call.fn \in MethodCalls => ~IsZero(id)
    /\ start <= Len(call.segments)
    /\ \A n \in 1 .. start : IsSegment(call.segments[n])
    /\ IsPath(path)
    /\ start < Len(call.segments) =>
          /\ i <= Len(Segment)
          /\ i > 0 => Segment \notin {<<".">>, <<".", ".">>}
          /\ \A k \in 1 .. i : isValidPathSegmentChar(Segment[k])

(* The loop over a name that is no ID. *)
BareNameSoFar ==
    /\ call.fn = "TrustDomainFromString"
    /\ ~LooksLikeID(call.text) /\ call.text # <<>>
    /\ i <= Len(call.text)
    /\ \A k \in 1 .. i : isValidTrustDomainChar(call.text[k])

(* The argument was accepted. *)
Accepted ==
    /\ IsPath(path)
    /\ \/ Split
       \/ GivenPath
       \/ /\ call.fn \in SegmentCalls
          /\ call.fn \in MethodCalls => ~IsZero(id)
          /\ \A n \in 1 .. Len(call.segments) : IsSegment(call.segments[n])

(* The call has an outcome. *)
Outcome ==
    /\ call.fn \in ParseCalls \cup PathCalls \cup SegmentCalls
    /\ AcceptsTheGrammar
    /\ ok /\ call.fn = "FromString" => WellFormed(id) /\ id.str = call.text

IDInv ==
    /\ IDTypes
    /\ id = ZeroID \/ WellFormed(id)
    /\ pc \in {"idle", "trust domain", "path", "segments", "name", "build", "returned"}
    /\ pc = "idle" => path = <<>> /\ i = 0 /\ start = 0
    /\ pc = "trust domain" => NameSoFar
    /\ pc = "path" => (Split \/ GivenPath) /\ PathSoFar
    /\ pc = "segments" => SegmentsSoFar
    /\ pc = "name" => BareNameSoFar
    /\ pc = "build" => Accepted
    /\ pc = "returned" => Outcome

-----------------------------------------------------------------------------
(* What the scanners refuse is not in the grammar. *)

(* A text that looks like an ID is not the name of a trust domain. *)
LEMMA IDIsNoName ==
    ASSUME NEW s \in Text, LooksLikeID(s)
    PROVE  ~IsTrustDomainName(s)
<1>1. PICK k \in 1 .. Len(s) - 1 : s[k] = ":"
  BY DEF LooksLikeID
<1>2. Len(s) \in Nat
  BY DEF Text
<1>3. k \in 1 .. Len(s)
  BY <1>1, <1>2
<1>4. ":" \in Range(s)
  BY <1>1, <1>3, RangeOfText
<1>5. QED
  BY <1>4 DEF IsTrustDomainName, isValidTrustDomainChar

(* A text with the scheme looks like an ID. *)
LEMMA SchemeLooksLikeID ==
    ASSUME NEW s \in Text, HasScheme(s)
    PROVE  LooksLikeID(s)
<1>1. Len(s) \in Nat /\ Len(s) >= 4 /\ s[2] = ":" /\ s[3] = "/"
  BY SchemeByPosition DEF Text
<1>2. 2 \in 1 .. Len(s) - 1 /\ 2 + 1 = 3
  BY <1>1
<1>3. QED
  BY <1>1, <1>2 DEF LooksLikeID

(* FromString refuses a character that is neither of a name nor a slash,   *)
(* and a name without characters.                                          *)
LEMMA NameRefused ==
    ASSUME NEW s \in Text, NEW n \in Nat, 4 <= n, n <= Len(s), NameChars(s, n),
           \/ n < Len(s) /\ s[n + 1] # "/" /\ ~isValidTrustDomainChar(s[n + 1])
           \/ n = 4 /\ (n < Len(s) => s[n + 1] = "/")
    PROVE  ~IsID(s)
<1>1. SUFFICES ASSUME NEW k \in schemePrefixLen .. Len(s), IsIDWithPathAt(s, k)
               PROVE  FALSE
  BY DEF IsID
<1>2. k \in Nat /\ 4 <= k /\ k <= Len(s) /\ Len(s) \in Nat
  BY <1>1 DEF schemePrefixLen, Text
<1>3. k > 4 /\ NameChars(s, k) /\ (k = Len(s) \/ s[k + 1] = "/")
  BY <1>1, <1>2, IDByPosition
<1>4. \A j \in 5 .. n : isValidTrustDomainChar(s[j])
  BY DEF NameChars, schemePrefixLen
<1>5. \A j \in 5 .. k : isValidTrustDomainChar(s[j])
  BY <1>3 DEF NameChars, schemePrefixLen
<1>6. ~isValidTrustDomainChar("/")
  BY DEF isValidTrustDomainChar
<1>7. CASE n < k
  <2>1. n + 1 \in 5 .. k
    BY <1>2, <1>7
  <2>2. QED
    BY <1>2, <1>5, <1>6, <1>7, <2>1
<1>8. CASE k < n
  <2>1. k + 1 \in 5 .. n
    BY <1>2, <1>8
  <2>2. QED
    BY <1>2, <1>3, <1>4, <1>6, <1>8, <2>1
<1>9. CASE k = n
  BY <1>2, <1>3, <1>9
<1>10. QED
  BY <1>2, <1>7, <1>8, <1>9

(* Once the trust domain is known, a text is an ID if the rest is a path. *)
LEMMA SplitDecides ==
    ASSUME NEW s \in Text, NEW k \in Nat, 4 < k, k <= Len(s), HasScheme(s), NameChars(s, k),
           k < Len(s) => s[k + 1] = "/"
    PROVE  IsID(s) <=> IsPath(Slice(s, k, Len(s)))
<1>1. Len(s) \in Nat
  BY DEF Text
<1>2. ASSUME IsPath(Slice(s, k, Len(s))) PROVE IsID(s)
  <2>1. IsIDWithPathAt(s, k)
    <3>1. 4 <= k
      OBVIOUS
    <3>2. QED
      BY <1>2, <3>1, IDByPosition
  <2>2. k \in schemePrefixLen .. Len(s)
    BY <1>1 DEF schemePrefixLen
  <2>3. QED
    BY <2>1, <2>2 DEF IsID
<1>3. ASSUME NEW l \in schemePrefixLen .. Len(s), IsIDWithPathAt(s, l) PROVE l = k
  <2>1. l \in Nat /\ 4 <= l /\ l <= Len(s)
    BY <1>1, <1>3 DEF schemePrefixLen
  <2>2. NameChars(s, l) /\ (l = Len(s) \/ s[l + 1] = "/")
    BY <1>3, <2>1, IDByPosition
  <2>3. \A j \in 5 .. k : isValidTrustDomainChar(s[j])
    BY DEF NameChars, schemePrefixLen
  <2>4. \A j \in 5 .. l : isValidTrustDomainChar(s[j])
    BY <2>2 DEF NameChars, schemePrefixLen
  <2>5. ~isValidTrustDomainChar("/")
    BY DEF isValidTrustDomainChar
  <2>6. CASE k < l
    <3>1. k + 1 \in 5 .. l
      BY <2>1, <2>6
    <3>2. QED
      BY <1>1, <2>1, <2>4, <2>5, <2>6, <3>1
  <2>7. CASE l < k
    <3>1. l + 1 \in 5 .. k
      BY <2>1, <2>7
    <3>2. QED
      BY <1>1, <2>1, <2>2, <2>3, <2>5, <2>7, <3>1
  <2>8. QED
    BY <2>1, <2>6, <2>7
<1>4. QED
  BY <1>2, <1>3 DEF IsID, IsIDWithPathAt

(* ValidatePath refuses a segment that is empty or dots, at its end.  From *)
(* the slash before it no segment can end anywhere else.                   *)
LEMMA SegmentEndRefused ==
    ASSUME NEW p \in Text, NEW a \in Nat, NEW b \in Nat, a < b, b <= Len(p), p[a + 1] = "/",
           SegmentChars(p, a + 1, b), b = Len(p) \/ p[b + 1] = "/"
    PROVE  /\ Slice(p, a, b) \in {<<"/">>} \cup DotSegments => ~IsPath(p)
           /\ Slice(p, a, b) \notin {<<"/">>} \cup DotSegments => SegmentAt(p, a + 1, b)
<1>1. Len(p) \in Nat
  BY DEF Text
<1>2. ~isValidPathSegmentChar("/")
  BY DEF isValidPathSegmentChar
<1>3. Slice(p, a, b) \in {<<"/">>} \cup DotSegments <=> b = a + 1 \/ Dots(p, a + 1, b)
  BY RefusedSegment
<1>4. ASSUME IsPath(p) PROVE b # a + 1 /\ ~Dots(p, a + 1, b)
  <2>1. a + 1 \in 1 .. Len(p)
    BY <1>1
  <2>2. PICK d \in (a + 1) + 1 .. Len(p) : EndsAt(p, a + 1, d)
    BY <1>4, <2>1, PathByPosition
  <2>3. \A k \in (a + 1) + 1 .. d : isValidPathSegmentChar(p[k])
    BY <2>2 DEF EndsAt, SegmentAt, SegmentChars
  <2>4. \A k \in (a + 1) + 1 .. b : isValidPathSegmentChar(p[k])
    BY DEF SegmentChars
  <2>5. d = Len(p) \/ p[d + 1] = "/"
    BY <2>2 DEF EndsAt
  <2>6. CASE d < b
    <3>1. d + 1 \in (a + 1) + 1 .. b /\ d # Len(p)
      BY <1>1, <2>2, <2>6
    <3>2. QED
      BY <1>2, <2>4, <2>5, <3>1
  <2>7. CASE b < d
    <3>1. b + 1 \in (a + 1) + 1 .. d /\ b # Len(p)
      BY <1>1, <2>2, <2>7
    <3>2. QED
      BY <1>2, <2>3, <3>1
  <2>8. CASE d = b
    BY <2>2, <2>8 DEF EndsAt, SegmentAt
  <2>9. QED
    BY <1>1, <2>2, <2>6, <2>7, <2>8
<1>5. QED
  BY <1>3, <1>4 DEF SegmentAt

(* ValidatePath refuses a character that no segment may have. *)
LEMMA SegmentCharRefused ==
    ASSUME NEW p \in Text, NEW a \in Nat, NEW b \in Nat, a <= b, b < Len(p), p[1] = "/",
           b > 0 => a < b /\ p[a + 1] = "/", b = 0 => a = 0,
           SegmentChars(p, a + 1, b), p[b + 1] # "/", ~isValidPathSegmentChar(p[b + 1])
    PROVE  ~IsPath(p)
<1>1. Len(p) \in Nat
  BY DEF Text
<1>2. ~isValidPathSegmentChar("/")
  BY DEF isValidPathSegmentChar
<1>3. b > 0
  OBVIOUS
<1>4. SUFFICES ASSUME IsPath(p) PROVE FALSE
  OBVIOUS
<1>5. a + 1 \in 1 .. Len(p)
  BY <1>1, <1>3
<1>6. PICK d \in (a + 1) + 1 .. Len(p) : EndsAt(p, a + 1, d)
  BY <1>3, <1>4, <1>5, PathByPosition
<1>7. \A k \in (a + 1) + 1 .. d : isValidPathSegmentChar(p[k])
  BY <1>6 DEF EndsAt, SegmentAt, SegmentChars
<1>8. \A k \in (a + 1) + 1 .. b : isValidPathSegmentChar(p[k])
  BY DEF SegmentChars
<1>9. d = Len(p) \/ p[d + 1] = "/"
  BY <1>6 DEF EndsAt
<1>10. CASE d <= b
  <2>1. d # Len(p) /\ (d = b \/ d + 1 \in (a + 1) + 1 .. b)
    BY <1>1, <1>6, <1>10
  <2>2. QED
    BY <1>2, <1>8, <1>9, <2>1
<1>11. CASE b < d
  <2>1. b + 1 \in (a + 1) + 1 .. d
    BY <1>1, <1>3, <1>6, <1>11
  <2>2. QED
    BY <1>7, <2>1
<1>12. QED
  BY <1>1, <1>6, <1>10, <1>11

-----------------------------------------------------------------------------
(* The build, and with it the grammar, never changes. *)

(* What the grammar says of the arguments of a call after a step. *)
LEMMA GrammarKept ==
    ASSUME NEW c, call' = c, backcompat' = backcompat
    PROVE  /\ IsID(call.text)' <=> IsID(c.text)
           /\ IsTrustDomainName(call.text)' <=> IsTrustDomainName(c.text)
           /\ IsPath(call.text)' <=> IsPath(c.text)
           /\ (\A s \in Range(call.segments) : IsSegment(s))'
                 <=> \A s \in Range(c.segments) : IsSegment(s)
<1>1. IsID(call.text)' <=> IsID(c.text)
  BY DEF IsID, IsIDWithPathAt, HasScheme, IsTrustDomainName, IsPath, IsSegment,
     isValidTrustDomainChar, isValidPathSegmentChar
<1>2. IsTrustDomainName(call.text)' <=> IsTrustDomainName(c.text)
  BY DEF IsTrustDomainName, isValidTrustDomainChar
<1>3. IsPath(call.text)' <=> IsPath(c.text)
  BY DEF IsPath, IsSegment, isValidPathSegmentChar
<1>4. (\A s \in Range(call.segments) : IsSegment(s))' <=> \A s \in Range(c.segments) : IsSegment(s)
  BY DEF IsSegment, isValidPathSegmentChar
<1>5. QED
  BY <1>1, <1>2, <1>3, <1>4

(* A well-formed ID that a program has after a step. *)
LEMMA IDKept ==
    ASSUME NEW x, id' = x, backcompat' = backcompat
    PROVE  WellFormed(id)' <=> WellFormed(x)
BY DEF WellFormed, IsIDWithPathAt, HasScheme, IsTrustDomainName, IsPath, IsSegment,
   isValidTrustDomainChar, isValidPathSegmentChar

(* The path of a call after a step. *)
LEMMA PathKept ==
    ASSUME NEW p, path' = p, backcompat' = backcompat
    PROVE  IsPath(path)' <=> IsPath(p)
BY DEF IsPath, IsSegment, isValidPathSegmentChar

(* A parser that refuses a text that is not in the grammar has the right   *)
(* outcome.                                                                *)
LEMMA RefusedText ==
    ASSUME NEW c, call' = c, backcompat' = backcompat, ok' = FALSE,
           c.fn \in ParseCalls, ~IsID(c.text),
           c.fn = "TrustDomainFromString" => ~IsTrustDomainName(c.text),
           c.fn = "UnmarshalText" => c.text # <<>>
    PROVE  Outcome'
<1>1. ~IsID(call.text)' /\ (IsTrustDomainName(call.text)' <=> IsTrustDomainName(c.text))
  BY GrammarKept
<1>2. AcceptsTheGrammar'
  <2>1. CASE c.fn = "FromString"
    BY <1>1, <2>1 DEF AcceptsTheGrammar, PathCalls
  <2>2. CASE c.fn = "UnmarshalText"
    BY <1>1, <2>2 DEF AcceptsTheGrammar, PathCalls
  <2>3. CASE c.fn = "TrustDomainFromString"
    BY <1>1, <2>3 DEF AcceptsTheGrammar, PathCalls
  <2>4. QED
    BY <2>1, <2>2, <2>3 DEF ParseCalls
<1>3. QED
  BY <1>2 DEF Outcome

(* And so has a function that refuses a path, or an ID that is zero. *)
LEMMA RefusedPath ==
    ASSUME NEW c, call' = c, backcompat' = backcompat, ok' = FALSE,
           c.fn \in PathCalls, IsZero(id') \/ ~IsPath(c.text)
    PROVE  Outcome'
<1>1. IsPath(call.text)' <=> IsPath(c.text)
  BY GrammarKept
<1>2. AcceptsTheGrammar'
  BY <1>1 DEF AcceptsTheGrammar, PathCalls, IsZero
<1>3. QED
  BY <1>2 DEF Outcome

(* And one that refuses a segment. *)
LEMMA RefusedSegments ==
    ASSUME NEW c, call' = c, backcompat' = backcompat, ok' = FALSE,
           c.fn \in SegmentCalls, IsZero(id') \/ \E s \in Range(c.segments) : ~IsSegment(s)
    PROVE  Outcome'
<1>1. (\A s \in Range(call.segments) : IsSegment(s))' <=> \A s \in Range(c.segments) : IsSegment(s)
  BY GrammarKept
<1>2. c.fn \notin PathCalls \cup ParseCalls
  BY DEF SegmentCalls, PathCalls, ParseCalls
<1>3. AcceptsTheGrammar'
  BY <1>1, <1>2 DEF AcceptsTheGrammar, ParseCalls, IsZero
<1>4. QED
  BY <1>3 DEF Outcome

(* The types after a step that changes some of the variables. *)
LEMMA TypesKept ==
    ASSUME IDTypes, backcompat' = backcompat, ok' = ok \/ ok' \in BOOLEAN,
           id' = id \/ id' \in IDs,
           call' = call \/ call' \in [fn : CallNames, text : Text, segments : Seq(Text)],
           path' = path \/ path' \in Text, pathidx' = pathidx \/ pathidx' \in Nat,
           i' = i \/ i' \in Nat, start' = start \/ start' \in Nat
    PROVE  IDTypes'
<1>1. backcompat' \in BOOLEAN /\ ok' \in BOOLEAN
  BY DEF IDTypes
<1>2. id' \in IDs /\ call' \in [fn : CallNames, text : Text, segments : Seq(Text)]
  BY DEF IDTypes
<1>3. path' \in Text /\ pathidx' \in Nat /\ i' \in Nat /\ start' \in Nat
  BY DEF IDTypes
<1>4. QED
  BY <1>1, <1>2, <1>3 DEF IDTypes

(* A call that ends keeps the invariant if its outcome is right. *)
LEMMA ReturnStep ==
    ASSUME IDInv, IDTypes', id' = ZeroID \/ WellFormed(id)', pc' = "returned", Outcome'
    PROVE  IDInv'
BY DEF IDInv

(* A refusal, which leaves everything but the outcome alone. *)
LEMMA RefusalStep ==
    ASSUME IDInv, Return(FALSE), UNCHANGED <<backcompat, id, call, scanVars>>,
           \/ /\ call.fn \in ParseCalls /\ ~IsID(call.text)
              /\ call.fn = "TrustDomainFromString" => ~IsTrustDomainName(call.text)
              /\ call.fn = "UnmarshalText" => call.text # <<>>
           \/ call.fn \in PathCalls /\ (IsZero(id) \/ ~IsPath(call.text))
           \/ /\ call.fn \in SegmentCalls
              /\ IsZero(id) \/ \E s \in Range(call.segments) : ~IsSegment(s)
    PROVE  IDInv'
<1>1. /\ pc' = "returned" /\ ok' = FALSE /\ backcompat' = backcompat /\ id' = id /\ call' = call
      /\ UNCHANGED <<path, pathidx, i, start>>
  BY DEF Return, scanVars
<1>2. IDTypes'
  BY <1>1 DEF IDInv, IDTypes
<1>3. id' = ZeroID \/ WellFormed(id)'
  BY <1>1, IDKept DEF IDInv
<1>4. Outcome'
  <2>1. CASE /\ call.fn \in ParseCalls /\ ~IsID(call.text)
             /\ call.fn = "TrustDomainFromString" => ~IsTrustDomainName(call.text)
             /\ call.fn = "UnmarshalText" => call.text # <<>>
    BY <1>1, <2>1, RefusedText
  <2>2. CASE call.fn \in PathCalls /\ (IsZero(id) \/ ~IsPath(call.text))
    BY <1>1, <2>2, RefusedPath
  <2>3. CASE /\ call.fn \in SegmentCalls
             /\ IsZero(id) \/ \E s \in Range(call.segments) : ~IsSegment(s)
    BY <1>1, <2>3, RefusedSegments
  <2>4. QED
    BY <2>1, <2>2, <2>3
<1>5. QED
  BY <1>1, <1>2, <1>3, <1>4, ReturnStep

-----------------------------------------------------------------------------
(* Every step of a scanner keeps the invariant. *)

(* The checks before the loop of FromString. *)
LEMMA FromStringBeginsStep ==
    ASSUME IDInv, pc = "idle",
           NEW c \in [fn : CallNames, text : Text, segments : Seq(Text)], c.fn \in ParseCalls,
           c.fn = "TrustDomainFromString" => LooksLikeID(c.text),
           c.fn = "UnmarshalText" => c.text # <<>>,
           FromStringBegins(c)
    PROVE  IDInv'
<1>1. /\ call' = c /\ UNCHANGED <<backcompat, id, path, pathidx, start>>
      /\ \/ HasScheme(c.text) /\ pc' = "trust domain" /\ i' = 4 /\ UNCHANGED ok
         \/ ~HasScheme(c.text) /\ pc' = "returned" /\ ok' = FALSE /\ UNCHANGED i
  BY DEF FromStringBegins, Return, schemePrefixLen
<1>2. IDTypes'
  <2>1. ok' = ok \/ ok' \in BOOLEAN
    BY <1>1
  <2>2. i' = i \/ i' \in Nat
    <3>1. i' = 4 \/ i' = i
      BY <1>1
    <3>2. QED
      BY <3>1
  <2>3. IDTypes
    BY DEF IDInv
  <2>4. QED
    BY <1>1, <2>1, <2>2, <2>3, TypesKept
<1>3. id' = ZeroID \/ WellFormed(id)'
  BY <1>1, IDKept DEF IDInv
<1>4. CASE HasScheme(c.text)
  <2>1. pc' = "trust domain" /\ i' = 4
    BY <1>1, <1>4
  <2>2. 4 <= Len(c.text) /\ c.text = call'.text
    <3>1. c.text \in Text
      OBVIOUS
    <3>2. Len(c.text) >= 4 /\ Len(c.text) \in Nat
      BY <1>4, <3>1, SchemeByPosition DEF Text
    <3>3. QED
      BY <1>1, <3>2
  <2>3. 4 + 1 .. 4 = {}
    OBVIOUS
  <2>4. ParsesID'
    BY <1>1, <1>4 DEF ParsesID, HasScheme, LooksLikeID
  <2>5. start' = 0
    BY <1>1 DEF IDInv
  <2>6. NameChars(call.text, i)'
    BY <2>1, <2>3 DEF NameChars, schemePrefixLen
  <2>7. 4 <= i' /\ i' <= Len(call'.text)
    <3>1. i' = 4
      BY <2>1
    <3>2. 4 <= Len(call'.text)
      BY <2>2
    <3>3. QED
      BY <3>1, <3>2
  <2>8. NameSoFar'
    BY <2>4, <2>5, <2>6, <2>7 DEF NameSoFar
  <2>9. QED
    BY <1>2, <1>3, <2>1, <2>8 DEF IDInv
<1>5. CASE ~HasScheme(c.text)
  <2>1. pc' = "returned" /\ ok' = FALSE
    BY <1>1, <1>5
  <2>2. ~IsID(c.text)
    BY <1>5 DEF IsID, IsIDWithPathAt
  <2>3. c.fn = "TrustDomainFromString" => ~IsTrustDomainName(c.text)
    BY IDIsNoName
  <2>4. Outcome'
    BY <1>1, <2>1, <2>2, <2>3, RefusedText
  <2>5. QED
    BY <1>2, <1>3, <2>1, <2>4, ReturnStep
<1>6. QED
  BY <1>4, <1>5

(* What the invariant says of a text that is parsed as an ID. *)
LEMMA ParsedText ==
    ASSUME IDTypes, ParsesID
    PROVE  /\ call.text \in Text /\ Len(call.text) \in Nat /\ Len(call.text) >= 4
           /\ call.text # <<>>
           /\ call.fn = "TrustDomainFromString" => ~IsTrustDomainName(call.text)
<1>1. call.text \in Text /\ Len(call.text) \in Nat
  BY DEF IDTypes, Text
<1>2. Len(call.text) >= 4
  BY <1>1, SchemeByPosition DEF ParsesID
<1>3. QED
  BY <1>1, <1>2, EmptyText, IDIsNoName DEF ParsesID

(* The loop over the trust domain. *)
LEMMA ScanTrustDomainCharStep ==
    ASSUME IDInv, ScanTrustDomainChar
    PROVE  IDInv'
<1>1. /\ pc = "trust domain" /\ i < Len(call.text) /\ call.text[i + 1] # "/"
      /\ UNCHANGED <<backcompat, id, call, path, pathidx, start>>
  BY DEF ScanTrustDomainChar
<1>2. NameSoFar /\ IDTypes
  BY <1>1 DEF IDInv
<1>3. /\ call.text \in Text /\ Len(call.text) \in Nat /\ call.text # <<>>
      /\ i \in Nat /\ 4 <= i /\ i <= Len(call.text) /\ ParsesID /\ NameChars(call.text, i)
      /\ call.fn = "TrustDomainFromString" => ~IsTrustDomainName(call.text)
  BY <1>2, ParsedText DEF NameSoFar, IDTypes
<1>4. CASE isValidTrustDomainChar(call.text[i + 1])
  <2>1. i' = i + 1 /\ UNCHANGED <<pc, ok>>
    BY <1>4 DEF ScanTrustDomainChar
  <2>2. IDTypes'
    <3>1. i' \in Nat
      BY <1>3, <2>1
    <3>2. QED
      BY <1>1, <1>2, <2>1, <3>1, TypesKept
  <2>3. id' = ZeroID \/ WellFormed(id)'
    BY <1>1, IDKept DEF IDInv
  <2>4. \A j \in 4 + 1 .. i + 1 : j \in 4 + 1 .. i \/ j = i + 1
    BY <1>3
  <2>5. NameChars(call.text, i + 1)
    BY <1>2, <1>4, <2>4 DEF NameSoFar, NameChars, schemePrefixLen
  <2>6. NameSoFar'
    <3>1. 4 <= i + 1 /\ i + 1 <= Len(call.text)
      <4>1. i < Len(call.text) /\ i \in Nat /\ Len(call.text) \in Nat /\ 4 <= i
        BY <1>1, <1>3
      <4>2. QED
        BY <4>1
    <3>2. QED
      BY <1>1, <1>2, <2>1, <2>5, <3>1
         DEF NameSoFar, ParsesID, NameChars, HasScheme, LooksLikeID, isValidTrustDomainChar
  <2>7. QED
    BY <1>1, <2>1, <2>2, <2>3, <2>6 DEF IDInv
<1>5. CASE ~isValidTrustDomainChar(call.text[i + 1])
  <2>1. Return(FALSE) /\ UNCHANGED <<backcompat, id, call, scanVars>>
    BY <1>1, <1>5 DEF ScanTrustDomainChar, scanVars
  <2>2. ~IsID(call.text)
    BY <1>1, <1>2, <1>3, <1>5, NameRefused DEF NameSoFar
  <2>3. QED
    BY <1>2, <1>3, <2>1, <2>2, RefusalStep DEF NameSoFar, ParsesID
<1>6. QED
  BY <1>4, <1>5

(* The end of the trust domain. *)
LEMMA ScanTrustDomainEndStep ==
    ASSUME IDInv, ScanTrustDomainEnd
    PROVE  IDInv'
<1>1. /\ pc = "trust domain" /\ (i < Len(call.text) => call.text[i + 1] = "/")
      /\ UNCHANGED <<backcompat, id, call, start>>
  BY DEF ScanTrustDomainEnd
<1>2. NameSoFar /\ IDTypes
  BY <1>1 DEF IDInv
<1>3. /\ call.text \in Text /\ Len(call.text) \in Nat /\ call.text # <<>>
      /\ i \in Nat /\ 4 <= i /\ i <= Len(call.text) /\ ParsesID /\ NameChars(call.text, i)
      /\ call.fn = "TrustDomainFromString" => ~IsTrustDomainName(call.text)
  BY <1>2, ParsedText DEF NameSoFar, IDTypes
<1>4. CASE i = 4
  <2>1. Return(FALSE) /\ UNCHANGED <<backcompat, id, call, scanVars>>
    BY <1>1, <1>4 DEF ScanTrustDomainEnd, scanVars, schemePrefixLen
  <2>2. ~IsID(call.text)
    BY <1>1, <1>2, <1>3, <1>4, NameRefused DEF NameSoFar
  <2>3. QED
    BY <1>2, <1>3, <2>1, <2>2, RefusalStep DEF NameSoFar, ParsesID
<1>5. CASE i # 4
  <2>1. /\ pathidx' = i /\ path' = Slice(call.text, i, Len(call.text))
        /\ pc' = "path" /\ i' = 0 /\ UNCHANGED ok
    BY <1>5 DEF ScanTrustDomainEnd, schemePrefixLen
  <2>2. Slice(call.text, i, Len(call.text)) \in Text
    <3>1. i <= Len(call.text) /\ Len(call.text) <= Len(call.text)
      BY <1>2, <1>3 DEF NameSoFar
    <3>2. QED
      BY <1>3, <3>1, SliceProperties
  <2>3. IDTypes'
    BY <1>1, <1>2, <1>3, <2>1, <2>2, TypesKept
  <2>4. id' = ZeroID \/ WellFormed(id)'
    BY <1>1, IDKept DEF IDInv
  <2>5. Split'
    <3>1. 4 < i /\ i <= Len(call.text)
      BY <1>2, <1>3, <1>5 DEF NameSoFar
    <3>2. QED
      BY <1>1, <1>2, <2>1, <3>1
         DEF Split, NameSoFar, ParsesID, NameChars, HasScheme, LooksLikeID, isValidTrustDomainChar
  <2>6. PathSoFar'
    <3>1. start' = 0 /\ i' = 0
      BY <1>1, <1>2, <2>1 DEF NameSoFar
    <3>4. Len(path') \in Nat
      BY <2>1, <2>2 DEF Text
    <3>2. 0 + 1 + 1 .. 0 = {} /\ 1 .. 0 = {}
      OBVIOUS
    <3>3. QED
      BY <3>1, <3>2, <3>4 DEF PathSoFar, SegmentChars
  <2>7. QED
    BY <2>1, <2>3, <2>4, <2>5, <2>6 DEF IDInv
<1>6. QED
  BY <1>4, <1>5

(* The trust domain of the call stays where it was found. *)
LEMMA SplitKept ==
    ASSUME UNCHANGED <<backcompat, id, call, path, pathidx>>
    PROVE  (Split' <=> Split) /\ (GivenPath' <=> GivenPath)
<1>1. Split' <=> Split
  BY DEF Split, ParsesID, HasScheme, LooksLikeID, NameChars, isValidTrustDomainChar
<1>2. GivenPath' <=> GivenPath
  BY DEF GivenPath, IsZero
<1>3. QED
  BY <1>1, <1>2

(* The path that is scanned decides over the call. *)
LEMMA PathDecides ==
    ASSUME IDTypes, Split
    PROVE  /\ call.text \in Text /\ path \in Text /\ pathidx \in Nat /\ 4 <= pathidx
           /\ IsID(call.text) <=> IsPath(path)
           /\ IsPath(path) => IsIDWithPathAt(call.text, pathidx)
<1>1. call.text \in Text /\ path \in Text /\ pathidx \in Nat
  BY DEF IDTypes
<1>2. /\ 4 < pathidx /\ pathidx <= Len(call.text) /\ HasScheme(call.text)
      /\ NameChars(call.text, pathidx)
      /\ pathidx < Len(call.text) => call.text[pathidx + 1] = "/"
      /\ path = Slice(call.text, pathidx, Len(call.text))
  BY DEF Split, ParsesID
<1>3. IsID(call.text) <=> IsPath(path)
  BY <1>1, <1>2, SplitDecides
<1>4. 4 <= pathidx /\ pathidx > 4
  <2>1. 4 < pathidx /\ pathidx \in Nat
    BY <1>1, <1>2
  <2>2. QED
    BY <2>1
<1>5. IsPath(path) => IsIDWithPathAt(call.text, pathidx)
  BY <1>1, <1>2, <1>4, IDByPosition
<1>6. QED
  BY <1>1, <1>3, <1>4, <1>5

(* Refusing a path that is none. *)
LEMMA PathRefusedStep ==
    ASSUME IDInv, pc = "path", ~IsPath(path), Return(FALSE),
           UNCHANGED <<backcompat, id, call, scanVars>>
    PROVE  IDInv'
<1>1. IDTypes /\ (Split \/ GivenPath)
  BY DEF IDInv
<1>2. CASE Split
  <2>1. ~IsID(call.text) /\ ParsesID
    BY <1>1, <1>2, PathDecides DEF Split
  <2>2. QED
    BY <1>1, <2>1, ParsedText, RefusalStep DEF ParsesID
<1>3. CASE GivenPath
  BY <1>3, RefusalStep DEF GivenPath
<1>4. QED
  BY <1>1, <1>2, <1>3

(* Going on with the scan of the path. *)
LEMMA PathGoesOnStep ==
    ASSUME IDInv, pc = "path", UNCHANGED <<backcompat, id, call, path, pathidx, pc, ok>>,
           i' \in Nat, start' \in Nat, PathSoFar'
    PROVE  IDInv'
<1>1. IDTypes /\ (Split \/ GivenPath)
  BY DEF IDInv
<1>2. IDTypes'
  BY <1>1, TypesKept
<1>3. id' = ZeroID \/ WellFormed(id)'
  BY IDKept DEF IDInv
<1>4. Split' \/ GivenPath'
  BY <1>1, SplitKept
<1>5. pc' = "path"
  OBVIOUS
<1>6. QED
  BY <1>2, <1>3, <1>4, <1>5 DEF IDInv

(* What the invariant says in the loop. *)
LEMMA InPathFacts ==
    ASSUME IDInv, pc = "path"
    PROVE  /\ path \in Text /\ Len(path) \in Nat /\ i \in Nat /\ start \in Nat
           /\ i <= Len(path) /\ start <= i
           /\ i = 0 => start = 0
           /\ i > 0 => start < i /\ path[1] = "/" /\ path[start + 1] = "/"
           /\ SegmentChars(path, start + 1, i)
           /\ \A a \in 1 .. start : path[a] = "/" =>
                 \E b \in a + 1 .. start : SegmentAt(path, a, b) /\ path[b + 1] = "/"
<1>1. path \in Text /\ i \in Nat /\ start \in Nat
  BY DEF IDInv, IDTypes
<1>2. Len(path) \in Nat
  BY <1>1 DEF Text
<1>3. PathSoFar
  BY DEF IDInv
<1>4. (i = 0 => start = 0) /\ (i > 0 => start < i)
  BY <1>3 DEF PathSoFar
<1>5. start <= i
  BY <1>1, <1>4
<1>6. QED
  BY <1>1, <1>2, <1>3, <1>5 DEF PathSoFar

(* ValidatePath refuses a path that does not begin with a slash. *)
LEMMA PathHasNoSlashStep ==
    ASSUME IDInv, PathHasNoSlash
    PROVE  IDInv'
<1>1. /\ pc = "path" /\ path # <<>> /\ path[1] # "/" /\ Return(FALSE)
      /\ UNCHANGED <<backcompat, id, call, scanVars>>
  BY DEF PathHasNoSlash
<1>2. ~IsPath(path)
  BY <1>1 DEF IsPath
<1>3. QED
  BY <1>1, <1>2, PathRefusedStep

(* A slash ends a segment and begins the next. *)
LEMMA ScanPathSlashStep ==
    ASSUME IDInv, ScanPathSlash
    PROVE  IDInv'
<1> DEFINE bad == Slice(path, start, i) \in {<<"/">>} \cup DotSegments
<1>1. /\ pc = "path" /\ i < Len(path) /\ path[1] = "/" /\ path[i + 1] = "/"
      /\ UNCHANGED <<backcompat, id, call, path, pathidx>>
  BY DEF ScanPathSlash, InPath
<1>2. /\ path \in Text /\ Len(path) \in Nat /\ i \in Nat /\ start \in Nat
      /\ i <= Len(path) /\ start <= i
      /\ i = 0 => start = 0
      /\ i > 0 => start < i /\ path[start + 1] = "/"
      /\ SegmentChars(path, start + 1, i)
      /\ \A a \in 1 .. start : path[a] = "/" =>
            \E b \in a + 1 .. start : SegmentAt(path, a, b) /\ path[b + 1] = "/"
  BY <1>1, InPathFacts
<1>3. CASE bad
  <2>1. Return(FALSE) /\ UNCHANGED <<backcompat, id, call, scanVars>>
    BY <1>1, <1>3 DEF ScanPathSlash, scanVars
  <2>2. i > 0
    <3>1. SUFFICES ASSUME i = 0 PROVE FALSE
      BY <1>2
    <3>2. Slice(path, start, i) = <<>>
      <4>1. start = 0
        BY <1>2, <3>1
      <4>2. Slice(path, 0, 0) \in Text /\ Len(Slice(path, 0, 0)) = 0
        BY <1>2, SliceFromStart
      <4>3. Slice(path, 0, 0) = <<>>
        BY <4>2, EmptyText
      <4>4. QED
        BY <3>1, <4>1, <4>3
    <3>3. QED
      BY <1>3, <3>2 DEF DotSegments
  <2>3. ~IsPath(path)
    BY <1>1, <1>2, <1>3, <2>2, SegmentEndRefused
  <2>4. QED
    BY <1>1, <2>1, <2>3, PathRefusedStep
<1>4. CASE ~bad
  <2>1. start' = i /\ i' = i + 1 /\ UNCHANGED <<pc, ok>>
    BY <1>4 DEF ScanPathSlash
  <2>2. i + 1 <= Len(path) /\ i + 1 > 0 /\ i < i + 1 /\ i + 1 # 0 /\ i + 1 \in Nat
    <3>1. i < Len(path) /\ i \in Nat /\ Len(path) \in Nat
      BY <1>1, <1>2
    <3>2. QED
      BY <3>1
  <2>3. SegmentChars(path, i + 1, i + 1)
    <3>1. (i + 1) + 1 .. i + 1 = {}
      BY <1>2
    <3>2. QED
      BY <3>1 DEF SegmentChars
  <2>4. ASSUME NEW a \in 1 .. i, path[a] = "/"
        PROVE  \E b \in a + 1 .. i : SegmentAt(path, a, b) /\ path[b + 1] = "/"
    <3>1. i > 0
      BY <1>2, <2>4
    <3>2. SegmentAt(path, start + 1, i)
      BY <1>1, <1>2, <1>4, <3>1, SegmentEndRefused
    <3>3. CASE a <= start
      <4>1. a \in 1 .. start
        BY <1>2, <2>4, <3>3
      <4>2. PICK b \in a + 1 .. start : SegmentAt(path, a, b) /\ path[b + 1] = "/"
        BY <1>2, <2>4, <4>1
      <4>3. b \in a + 1 .. i
        BY <1>2, <4>1, <4>2
      <4>4. QED
        BY <4>2, <4>3
    <3>4. CASE a = start + 1
      <4>1. i \in a + 1 .. i
        BY <1>2, <3>2, <3>4 DEF SegmentAt
      <4>2. QED
        BY <1>1, <3>2, <3>4, <4>1
    <3>5. CASE a > start + 1
      <4>1. a \in (start + 1) + 1 .. i
        BY <1>2, <2>4, <3>5
      <4>2. isValidPathSegmentChar("/")
        BY <1>2, <2>4, <4>1 DEF SegmentChars
      <4>3. QED
        BY <4>2 DEF isValidPathSegmentChar
    <3>6. QED
      BY <1>2, <2>4, <3>3, <3>4, <3>5
  <2>5. PathSoFar'
    BY <1>1, <2>1, <2>2, <2>3, <2>4
       DEF PathSoFar, SegmentChars, SegmentAt, Dots, isValidPathSegmentChar
  <2>6. QED
    BY <1>1, <1>2, <2>1, <2>2, <2>5, PathGoesOnStep
<1>5. QED
  BY <1>3, <1>4

(* A character of a segment. *)
LEMMA ScanPathCharStep ==
    ASSUME IDInv, ScanPathChar
    PROVE  IDInv'
<1>1. /\ pc = "path" /\ i < Len(path) /\ path[1] = "/" /\ path[i + 1] # "/"
      /\ UNCHANGED <<backcompat, id, call, path, pathidx, start>>
  BY DEF ScanPathChar, InPath
<1>2. /\ path \in Text /\ Len(path) \in Nat /\ i \in Nat /\ start \in Nat
      /\ i <= Len(path) /\ start <= i
      /\ i = 0 => start = 0
      /\ i > 0 => start < i /\ path[start + 1] = "/"
      /\ SegmentChars(path, start + 1, i)
      /\ \A a \in 1 .. start : path[a] = "/" =>
            \E b \in a + 1 .. start : SegmentAt(path, a, b) /\ path[b + 1] = "/"
  BY <1>1, InPathFacts
<1>3. CASE ~isValidPathSegmentChar(path[i + 1])
  <2>1. Return(FALSE) /\ UNCHANGED <<backcompat, id, call, scanVars>>
    BY <1>1, <1>3 DEF ScanPathChar, scanVars
  <2>2. ~IsPath(path)
    BY <1>1, <1>2, <1>3, SegmentCharRefused
  <2>3. QED
    BY <1>1, <2>1, <2>2, PathRefusedStep
<1>4. CASE isValidPathSegmentChar(path[i + 1])
  <2>1. i' = i + 1 /\ UNCHANGED <<pc, ok>>
    BY <1>4 DEF ScanPathChar
  <2>2. i + 1 <= Len(path) /\ i + 1 # 0 /\ i + 1 \in Nat
    <3>1. i < Len(path) /\ i \in Nat /\ Len(path) \in Nat
      BY <1>1, <1>2
    <3>2. QED
      BY <3>1
  <2>3. i > 0
    <3>1. i # 0
      BY <1>1
    <3>2. QED
      BY <1>2, <3>1
  <2>4. start < i + 1 /\ path[start + 1] = "/"
    BY <1>2, <2>3
  <2>5. SegmentChars(path, start + 1, i + 1)
    <3>1. \A k \in (start + 1) + 1 .. i + 1 : k \in (start + 1) + 1 .. i \/ k = i + 1
      BY <1>2
    <3>2. QED
      BY <1>2, <1>4, <3>1 DEF SegmentChars
  <2>6. PathSoFar'
    BY <1>1, <1>2, <2>1, <2>2, <2>4, <2>5
       DEF PathSoFar, SegmentChars, SegmentAt, Dots, isValidPathSegmentChar
  <2>7. QED
    BY <1>1, <1>2, <2>1, <2>2, <2>6, PathGoesOnStep
<1>5. QED
  BY <1>3, <1>4

(* The end of the path. *)
LEMMA ScanPathEndStep ==
    ASSUME IDInv, ScanPathEnd
    PROVE  IDInv'
<1> DEFINE bad == Slice(path, start, i) \in {<<"/">>} \cup DotSegments
<1>1. /\ pc = "path" /\ i = Len(path)
      /\ UNCHANGED <<backcompat, id, call, scanVars>>
  BY DEF ScanPathEnd
<1>2. /\ path \in Text /\ Len(path) \in Nat /\ i \in Nat /\ start \in Nat
      /\ i <= Len(path) /\ start <= i
      /\ i = 0 => start = 0
      /\ i > 0 => start < i /\ path[1] = "/" /\ path[start + 1] = "/"
      /\ SegmentChars(path, start + 1, i)
      /\ \A a \in 1 .. start : path[a] = "/" =>
            \E b \in a + 1 .. start : SegmentAt(path, a, b) /\ path[b + 1] = "/"
  BY <1>1, InPathFacts
<1>3. CASE bad
  <2>1. Return(FALSE)
    BY <1>3 DEF ScanPathEnd
  <2>2. i > 0
    <3>1. SUFFICES ASSUME i = 0 PROVE FALSE
      BY <1>2
    <3>2. start = 0
      BY <1>2, <3>1
    <3>3. Slice(path, 0, 0) \in Text /\ Len(Slice(path, 0, 0)) = 0
      BY <1>2, SliceFromStart
    <3>4. Slice(path, 0, 0) = <<>>
      BY <3>3, EmptyText
    <3>5. QED
      BY <1>3, <3>1, <3>2, <3>4 DEF DotSegments
  <2>3. ~IsPath(path)
    BY <1>1, <1>2, <1>3, <2>2, SegmentEndRefused
  <2>4. QED
    BY <1>1, <2>1, <2>3, PathRefusedStep
<1>4. CASE ~bad
  <2>1. pc' = "build" /\ UNCHANGED <<ok, path, pathidx, i, start>>
    BY <1>1, <1>4 DEF ScanPathEnd, scanVars
  <2>2. IsPath(path)
    <3>1. CASE i = 0
      BY <1>1, <1>2, <3>1, EmptyText, EmptyPath
    <3>2. CASE i > 0
      <4>1. SegmentAt(path, start + 1, i)
        BY <1>1, <1>2, <1>4, <3>2, SegmentEndRefused
      <4>2. ASSUME NEW a \in 1 .. Len(path), path[a] = "/"
            PROVE  \E b \in a + 1 .. Len(path) : EndsAt(path, a, b)
        <5>1. CASE a <= start
          <6>1. a \in 1 .. start
            BY <1>2, <4>2, <5>1
          <6>2. PICK b \in a + 1 .. start : SegmentAt(path, a, b) /\ path[b + 1] = "/"
            BY <1>2, <4>2, <6>1
          <6>3. b \in a + 1 .. Len(path)
            BY <1>1, <1>2, <6>1, <6>2
          <6>4. QED
            BY <6>2, <6>3 DEF EndsAt
        <5>2. CASE a = start + 1
          <6>1. i \in a + 1 .. Len(path)
            BY <1>1, <1>2, <4>1, <5>2 DEF SegmentAt
          <6>2. QED
            BY <1>1, <4>1, <5>2, <6>1 DEF EndsAt
        <5>3. CASE a > start + 1
          <6>1. a \in (start + 1) + 1 .. i
            BY <1>1, <1>2, <4>2, <5>3
          <6>2. isValidPathSegmentChar("/")
            BY <1>2, <4>2, <6>1 DEF SegmentChars
          <6>3. QED
            BY <6>2 DEF isValidPathSegmentChar
        <5>4. QED
          BY <1>2, <4>2, <5>1, <5>2, <5>3
      <4>3. QED
        BY <1>2, <3>2, <4>2, PathByPosition
    <3>3. QED
      BY <1>2, <3>1, <3>2
  <2>3. IDTypes /\ (Split \/ GivenPath)
    BY <1>1 DEF IDInv
  <2>4. IDTypes'
    BY <1>1, <2>1, <2>3, TypesKept
  <2>5. id' = ZeroID \/ WellFormed(id)'
    BY <1>1, IDKept DEF IDInv
  <2>6. Accepted'
    <3>1. Split' \/ GivenPath'
      BY <1>1, <2>1, <2>3, SplitKept
    <3>2. IsPath(path)'
      BY <1>1, <2>1, <2>2, PathKept
    <3>3. QED
      BY <3>1, <3>2 DEF Accepted
  <2>7. QED
    BY <2>1, <2>4, <2>5, <2>6 DEF IDInv
<1>5. QED
  BY <1>3, <1>4

(* What the invariant says in the loop over the segments. *)
LEMMA InSegmentFacts ==
    ASSUME IDInv, pc = "segments"
    PROVE  /\ IDTypes /\ SegmentsSoFar
           /\ call.segments \in Seq(Text) /\ Len(call.segments) \in Nat /\ path \in Text
           /\ start \in Nat /\ i \in Nat /\ start <= Len(call.segments)
           /\ start < Len(call.segments) =>
                 /\ Segment \in Text /\ Segment \in Range(call.segments) /\ Len(Segment) \in Nat
                 /\ start + 1 \in 1 .. Len(call.segments)
<1>1. IDTypes /\ SegmentsSoFar
  BY DEF IDInv
<1>2. /\ call.segments \in Seq(Text) /\ Len(call.segments) \in Nat /\ path \in Text
      /\ start \in Nat /\ i \in Nat
  BY <1>1 DEF IDTypes
<1>3. start <= Len(call.segments)
  BY <1>1 DEF SegmentsSoFar
<1>4. ASSUME start < Len(call.segments)
      PROVE  /\ Segment \in Text /\ Segment \in Range(call.segments) /\ Len(Segment) \in Nat
             /\ start + 1 \in 1 .. Len(call.segments)
  <2>1. start + 1 \in 1 .. Len(call.segments)
    BY <1>2, <1>4
  <2>2. call.segments[start + 1] \in Text /\ call.segments[start + 1] \in Range(call.segments)
    BY <1>2, <2>1 DEF Range
  <2>3. QED
    BY <2>1, <2>2 DEF Segment, Text
<1>5. QED
  BY <1>1, <1>2, <1>3, <1>4

(* Refusing the current segment. *)
LEMMA SegmentRefusedStep ==
    ASSUME IDInv, InSegment, ~IsSegment(Segment), Return(FALSE),
           UNCHANGED <<backcompat, id, call, scanVars>>
    PROVE  IDInv'
<1>1. call.fn \in SegmentCalls /\ Segment \in Range(call.segments)
  BY InSegmentFacts DEF InSegment, SegmentsSoFar
<1>2. QED
  BY <1>1, RefusalStep

(* Going on with the segments. *)
LEMMA SegmentsGoOnStep ==
    ASSUME IDInv, pc = "segments", UNCHANGED <<backcompat, id, call, pc, pathidx, ok>>,
           path' \in Text, i' \in Nat, start' \in Nat, SegmentsSoFar'
    PROVE  IDInv'
<1>1. IDTypes
  BY DEF IDInv
<1>2. IDTypes'
  BY <1>1, TypesKept
<1>3. id' = ZeroID \/ WellFormed(id)'
  BY IDKept DEF IDInv
<1>4. pc' = "segments"
  OBVIOUS
<1>5. QED
  BY <1>2, <1>3, <1>4 DEF IDInv

(* ValidatePathSegment checks a segment as a whole first. *)
LEMMA SegmentRefusedActionStep ==
    ASSUME IDInv, SegmentRefused
    PROVE  IDInv'
<1>1. /\ InSegment /\ Segment \in {<<>>, <<".">>, <<".", ".">>} /\ Return(FALSE)
      /\ UNCHANGED <<backcompat, id, call, scanVars>>
  BY DEF SegmentRefused
<1>2. ~IsSegment(Segment)
  BY <1>1 DEF IsSegment
<1>3. QED
  BY <1>1, <1>2, SegmentRefusedStep

(* Then its characters. *)
LEMMA ScanSegmentCharStep ==
    ASSUME IDInv, ScanSegmentChar
    PROVE  IDInv'
<1>1. /\ InSegment /\ pc = "segments" /\ start < Len(call.segments) /\ i < Len(Segment)
      /\ Segment \notin {<<".">>, <<".", ".">>}
      /\ UNCHANGED <<backcompat, id, call, path, pathidx, start>>
  BY DEF ScanSegmentChar, InSegment
<1>2. /\ SegmentsSoFar /\ path \in Text /\ start \in Nat /\ i \in Nat
      /\ Segment \in Text /\ Len(Segment) \in Nat
  BY <1>1, InSegmentFacts
<1>3. CASE ~isValidPathSegmentChar(Segment[i + 1])
  <2>1. Return(FALSE) /\ UNCHANGED <<backcompat, id, call, scanVars>>
    BY <1>1, <1>3 DEF ScanSegmentChar, scanVars
  <2>2. i + 1 \in 1 .. Len(Segment)
    BY <1>1, <1>2
  <2>3. Segment[i + 1] \in Range(Segment)
    BY <1>2, <2>2, RangeOfText
  <2>4. ~IsSegment(Segment)
    BY <1>3, <2>3 DEF IsSegment
  <2>5. QED
    BY <1>1, <2>1, <2>4, SegmentRefusedStep
<1>4. CASE isValidPathSegmentChar(Segment[i + 1])
  <2>1. i' = i + 1 /\ UNCHANGED <<pc, ok>>
    BY <1>4 DEF ScanSegmentChar
  <2>2. i + 1 <= Len(Segment) /\ i + 1 \in Nat
    BY <1>1, <1>2
  <2>3. \A k \in 1 .. i + 1 : k \in 1 .. i \/ k = i + 1
    BY <1>2
  <2>4. \A k \in 1 .. i + 1 : isValidPathSegmentChar(Segment[k])
    BY <1>1, <1>2, <1>4, <2>3 DEF SegmentsSoFar
  <2>5. Segment' = Segment
    BY <1>1 DEF Segment
  <2>6. /\ call.fn \in SegmentCalls /\ (call.fn \in MethodCalls => ~IsZero(id))
        /\ start <= Len(call.segments) /\ IsPath(path)
        /\ \A n \in 1 .. start : IsSegment(call.segments[n])
    BY <1>2 DEF SegmentsSoFar
  <2>7. IsPath(path)'
    BY <1>1, <2>6, PathKept
  <2>8. (\A n \in 1 .. start : IsSegment(call.segments[n]))'
    BY <1>1, <2>6 DEF IsSegment, isValidPathSegmentChar
  <2>9. (\A k \in 1 .. i : isValidPathSegmentChar(Segment[k]))'
    BY <1>1, <2>1, <2>4, <2>5 DEF isValidPathSegmentChar
  <2>10. i' <= Len(Segment') /\ Segment' \notin {<<".">>, <<".", ".">>}
    BY <1>1, <2>1, <2>2, <2>5
  <2>11. SegmentsSoFar'
    BY <1>1, <2>6, <2>7, <2>8, <2>9, <2>10 DEF SegmentsSoFar, IsZero
  <2>12. QED
    BY <1>1, <1>2, <2>1, <2>2, <2>11, SegmentsGoOnStep
<1>5. QED
  BY <1>3, <1>4

(* A good segment is joined to the path. *)
LEMMA ScanSegmentEndStep ==
    ASSUME IDInv, ScanSegmentEnd
    PROVE  IDInv'
<1>1. /\ pc = "segments" /\ start < Len(call.segments) /\ i = Len(Segment) /\ i > 0
      /\ path' = path \o <<"/">> \o Segment /\ start' = start + 1 /\ i' = 0
      /\ UNCHANGED <<backcompat, id, call, pc, pathidx, ok>>
  BY DEF ScanSegmentEnd, InSegment
<1>2. /\ SegmentsSoFar /\ path \in Text /\ start \in Nat /\ i \in Nat
      /\ call.segments \in Seq(Text) /\ Len(call.segments) \in Nat
      /\ Segment \in Text /\ Len(Segment) \in Nat
  BY <1>1, InSegmentFacts
<1>3. /\ call.fn \in SegmentCalls /\ (call.fn \in MethodCalls => ~IsZero(id))
      /\ IsPath(path)
      /\ \A n \in 1 .. start : IsSegment(call.segments[n])
      /\ Segment \notin {<<".">>, <<".", ".">>}
      /\ \A k \in 1 .. i : isValidPathSegmentChar(Segment[k])
  BY <1>1, <1>2 DEF SegmentsSoFar
<1>4. IsSegment(Segment)
  <2>1. Segment # <<>>
    BY <1>1, <1>2, EmptyText
  <2>2. \A c \in Range(Segment) : isValidPathSegmentChar(c)
    BY <1>1, <1>2, <1>3, RangeOfText
  <2>3. QED
    BY <1>3, <2>1, <2>2 DEF IsSegment
<1>5. path' \in Text /\ IsPath(path \o <<"/">> \o Segment)
  BY <1>1, <1>2, <1>3, <1>4, ExtendedPath
<1>6. IsPath(path)'
  BY <1>1, <1>5, PathKept
<1>7. start + 1 <= Len(call.segments) /\ start + 1 \in Nat
  BY <1>1, <1>2
<1>8. (\A n \in 1 .. start : IsSegment(call.segments[n]))'
  <2>1. \A n \in 1 .. start + 1 : n \in 1 .. start \/ n = start + 1
    BY <1>2
  <2>2. \A n \in 1 .. start + 1 : IsSegment(call.segments[n])
    BY <1>3, <1>4, <2>1 DEF Segment
  <2>3. QED
    BY <1>1, <2>2 DEF IsSegment, isValidPathSegmentChar
<1>9. ASSUME start' < Len(call'.segments)
      PROVE  /\ i' <= Len(Segment') /\ ~(i' > 0)
             /\ (\A k \in 1 .. i : isValidPathSegmentChar(Segment[k]))'
  <2>1. (start + 1) + 1 \in 1 .. Len(call.segments)
    BY <1>1, <1>2, <1>9
  <2>2. Segment' = call.segments[(start + 1) + 1]
    BY <1>1 DEF Segment
  <2>3. Segment' \in Text
    BY <1>2, <2>1, <2>2
  <2>4. Len(Segment') \in Nat
    BY <2>3 DEF Text
  <2>5. 1 .. 0 = {}
    OBVIOUS
  <2>6. (\A k \in 1 .. i : isValidPathSegmentChar(Segment[k]))'
    BY <1>1, <2>5
  <2>7. i' = 0
    BY <1>1
  <2>8. i' <= Len(Segment') /\ ~(i' > 0)
    BY <2>4, <2>7
  <2>9. QED
    BY <2>6, <2>8
<1>10. SegmentsSoFar'
  BY <1>1, <1>3, <1>6, <1>7, <1>8, <1>9 DEF SegmentsSoFar, IsZero
<1>11. QED
  BY <1>1, <1>5, <1>7, <1>10, SegmentsGoOnStep

(* The segments are over. *)
LEMMA SegmentsEndStep ==
    ASSUME IDInv, SegmentsEnd
    PROVE  IDInv'
<1>1. /\ pc = "segments" /\ start = Len(call.segments) /\ pc' = "build"
      /\ UNCHANGED <<backcompat, id, call, path, pathidx, i, start, ok>>
  BY DEF SegmentsEnd, scanVars
<1>2. IDTypes /\ SegmentsSoFar
  BY <1>1, InSegmentFacts
<1>3. IDTypes'
  BY <1>1, <1>2, TypesKept
<1>4. id' = ZeroID \/ WellFormed(id)'
  BY <1>1, IDKept DEF IDInv
<1>5. Accepted'
  <2>1. IsPath(path)'
    BY <1>1, <1>2, PathKept DEF SegmentsSoFar
  <2>2. (\A n \in 1 .. Len(call.segments) : IsSegment(call.segments[n]))'
    BY <1>1, <1>2 DEF SegmentsSoFar, IsSegment, isValidPathSegmentChar
  <2>3. call'.fn \in SegmentCalls /\ (call.fn \in MethodCalls => ~IsZero(id))'
    BY <1>1, <1>2 DEF SegmentsSoFar, IsZero
  <2>4. QED
    BY <2>1, <2>2, <2>3 DEF Accepted
<1>6. QED
  BY <1>1, <1>3, <1>4, <1>5 DEF IDInv

(* A name that is no ID. *)
LEMMA ScanNameCharStep ==
    ASSUME IDInv, ScanNameChar
    PROVE  IDInv'
<1>1. /\ pc = "name" /\ i < Len(call.text)
      /\ UNCHANGED <<backcompat, id, call, path, pathidx, start>>
  BY DEF ScanNameChar
<1>2. BareNameSoFar /\ IDTypes
  BY <1>1 DEF IDInv
<1>3. call.text \in Text /\ Len(call.text) \in Nat /\ i \in Nat
  BY <1>2 DEF IDTypes, Text
<1>4. CASE isValidTrustDomainChar(call.text[i + 1])
  <2>1. i' = i + 1 /\ UNCHANGED <<pc, ok>>
    BY <1>4 DEF ScanNameChar
  <2>2. i + 1 <= Len(call.text) /\ i + 1 \in Nat
    BY <1>1, <1>3
  <2>3. \A k \in 1 .. i + 1 : k \in 1 .. i \/ k = i + 1
    BY <1>3
  <2>4. \A k \in 1 .. i + 1 : isValidTrustDomainChar(call.text[k])
    BY <1>2, <1>4, <2>3 DEF BareNameSoFar
  <2>5. BareNameSoFar'
    BY <1>1, <1>2, <2>1, <2>2, <2>4 DEF BareNameSoFar, LooksLikeID, isValidTrustDomainChar
  <2>6. IDTypes'
    BY <1>1, <1>2, <2>1, <2>2, TypesKept
  <2>7. id' = ZeroID \/ WellFormed(id)'
    BY <1>1, IDKept DEF IDInv
  <2>8. QED
    BY <1>1, <2>1, <2>5, <2>6, <2>7 DEF IDInv
<1>5. CASE ~isValidTrustDomainChar(call.text[i + 1])
  <2>1. Return(FALSE) /\ UNCHANGED <<backcompat, id, call, scanVars>>
    BY <1>1, <1>5 DEF ScanNameChar, scanVars
  <2>2. i + 1 \in 1 .. Len(call.text)
    BY <1>1, <1>3
  <2>3. call.text[i + 1] \in Range(call.text)
    BY <1>3, <2>2, RangeOfText
  <2>4. ~IsTrustDomainName(call.text)
    BY <1>5, <2>3 DEF IsTrustDomainName
  <2>5. ~IsID(call.text)
    BY <1>2, <1>3, SchemeLooksLikeID DEF BareNameSoFar, IsID, IsIDWithPathAt
  <2>6. call.fn = "TrustDomainFromString"
    BY <1>2 DEF BareNameSoFar
  <2>7. QED
    BY <2>1, <2>4, <2>5, <2>6, RefusalStep DEF ParseCalls
<1>6. QED
  BY <1>4, <1>5

(* Every step of the scanners. *)
LEMMA ScanStep ==
    ASSUME IDInv, Scan
    PROVE  IDInv'
BY ScanTrustDomainCharStep, ScanTrustDomainEndStep, PathHasNoSlashStep, ScanPathSlashStep,
   ScanPathCharStep, ScanPathEndStep, SegmentRefusedActionStep, ScanSegmentCharStep,
   ScanSegmentEndStep, SegmentsEndStep, ScanNameCharStep DEF Scan

-----------------------------------------------------------------------------
(* So does every call and every result. *)

(* The record of a call. *)
LEMMA CallRecord ==
    ASSUME NEW f \in CallNames, NEW t \in Text
    PROVE  /\ TextCall(f, t) \in [fn : CallNames, text : Text, segments : Seq(Text)]
           /\ TextCall(f, t).fn = f /\ TextCall(f, t).text = t
<1>1. <<>> \in Seq(Text)
  OBVIOUS
<1>2. QED
  BY <1>1 DEF TextCall

(* FromString, of the program or of a document. *)
LEMMA FromStringCallStep ==
    ASSUME IDInv, pc = "idle", NEW t \in Text, FromStringBegins(TextCall("FromString", t))
    PROVE  IDInv'
<1> DEFINE c == TextCall("FromString", t)
<1>1. /\ c \in [fn : CallNames, text : Text, segments : Seq(Text)]
      /\ c.fn = "FromString" /\ c.text = t
  BY CallRecord DEF CallNames, ParseCalls
<1> HIDE DEF c
<1>2. QED
  BY <1>1, FromStringBeginsStep DEF ParseCalls, c

(* UnmarshalText. *)
LEMMA CallUnmarshalTextStep ==
    ASSUME IDInv, NEW t \in Text, CallUnmarshalText(t)
    PROVE  IDInv'
<1> DEFINE c == TextCall("UnmarshalText", t)
<1>1. c \in [fn : CallNames, text : Text, segments : Seq(Text)]
  BY CallRecord DEF CallNames, ParseCalls
<1>2. c.fn = "UnmarshalText" /\ c.text = t
  BY CallRecord DEF CallNames, ParseCalls
<1> HIDE DEF c
<1>3. CASE t = <<>>
  <2>1. /\ call' = c /\ id' = ZeroID /\ pc' = "returned" /\ ok' = TRUE
        /\ UNCHANGED <<backcompat, path, pathidx, i, start>>
    BY <1>3 DEF CallUnmarshalText, Return, scanVars, c
  <2>2. ZeroID \in IDs
    BY DEF ZeroID, IDs
  <2>3. IDTypes'
    BY <1>1, <2>1, <2>2, TypesKept DEF IDInv
  <2>4. AcceptsTheGrammar'
    BY <1>2, <1>3, <2>1 DEF AcceptsTheGrammar, PathCalls
  <2>5. Outcome'
    BY <1>2, <2>1, <2>4 DEF Outcome, ParseCalls
  <2>6. QED
    BY <2>1, <2>3, <2>5, ReturnStep
<1>4. CASE t # <<>>
  <2>1. pc = "idle" /\ FromStringBegins(c)
    BY <1>4 DEF CallUnmarshalText, c
  <2>2. QED
    BY <1>1, <1>2, <1>4, <2>1, FromStringBeginsStep DEF ParseCalls
<1>5. QED
  BY <1>3, <1>4

(* TrustDomainFromString. *)
LEMMA CallTrustDomainFromStringStep ==
    ASSUME IDInv, NEW t \in Text, CallTrustDomainFromString(t)
    PROVE  IDInv'
<1> DEFINE c == TextCall("TrustDomainFromString", t)
<1>1. c \in [fn : CallNames, text : Text, segments : Seq(Text)]
  BY CallRecord DEF CallNames, ParseCalls
<1>2. c.fn = "TrustDomainFromString" /\ c.text = t
  BY CallRecord DEF CallNames, ParseCalls
<1> HIDE DEF c
<1>3. pc = "idle" /\ i = 0 /\ IDTypes
  BY DEF CallTrustDomainFromString, IDInv
<1>4. CASE LooksLikeID(t)
  <2>1. FromStringBegins(c)
    BY <1>4 DEF CallTrustDomainFromString, c
  <2>2. QED
    BY <1>1, <1>2, <1>3, <1>4, <2>1, FromStringBeginsStep DEF ParseCalls
<1>5. CASE ~LooksLikeID(t)
  <2>1. /\ call' = c /\ UNCHANGED <<backcompat, id, path, pathidx, i, start>>
        /\ IF t = <<>> THEN Return(FALSE) ELSE pc' = "name" /\ UNCHANGED ok
    BY <1>5 DEF CallTrustDomainFromString, scanVars, c
  <2>2. IDTypes'
    <3>1. ok' = ok \/ ok' \in BOOLEAN
      BY <2>1 DEF Return
    <3>2. QED
      BY <1>1, <1>3, <2>1, <3>1, TypesKept
  <2>3. id' = ZeroID \/ WellFormed(id)'
    BY <2>1, IDKept DEF IDInv
  <2>4. CASE t = <<>>
    <3>1. pc' = "returned" /\ ok' = FALSE
      BY <2>1, <2>4 DEF Return
    <3>2. ~IsTrustDomainName(t)
      BY <2>4 DEF IsTrustDomainName
    <3>3. ~IsID(t)
      BY <1>5, SchemeLooksLikeID DEF IsID, IsIDWithPathAt
    <3>4. Outcome'
      BY <1>2, <2>1, <3>1, <3>2, <3>3, RefusedText DEF ParseCalls
    <3>5. QED
      BY <2>2, <2>3, <3>1, <3>4, ReturnStep
  <2>5. CASE t # <<>>
    <3>1. pc' = "name"
      BY <2>1, <2>5
    <3>2. call'.fn = "TrustDomainFromString" /\ call'.text = t /\ i' = 0
      BY <1>2, <1>3, <2>1
    <3>3. Len(t) \in Nat
      BY DEF Text
    <3>4. 0 <= Len(t) /\ 1 .. 0 = {}
      BY <3>3
    <3>5. ~LooksLikeID(call.text)'
      BY <1>5, <3>2 DEF LooksLikeID
    <3>6. BareNameSoFar'
      BY <2>5, <3>2, <3>4, <3>5 DEF BareNameSoFar
    <3>7. QED
      BY <2>2, <2>3, <3>1, <3>6 DEF IDInv
  <2>6. QED
    BY <2>4, <2>5
<1>6. QED
  BY <1>4, <1>5

(* FromPath, AppendPath and ReplacePath. *)
LEMMA CallPathStep ==
    ASSUME IDInv, NEW fn \in PathCalls, NEW p \in Text, CallPath(fn, p)
    PROVE  IDInv'
<1> DEFINE c == TextCall(fn, p)
<1>1. c \in [fn : CallNames, text : Text, segments : Seq(Text)]
  BY CallRecord DEF CallNames
<1>2. c.fn = fn /\ c.text = p
  BY CallRecord DEF CallNames
<1> HIDE DEF c
<1>3. /\ pc = "idle" /\ call' = c /\ path' = p /\ UNCHANGED <<backcompat, id, pathidx, i, start>>
      /\ IF fn \in MethodCalls /\ IsZero(id) THEN Return(FALSE) ELSE pc' = "path" /\ UNCHANGED ok
  BY DEF CallPath, c
<1>4. IDTypes /\ i = 0 /\ start = 0
  BY <1>3 DEF IDInv
<1>5. IDTypes'
  <2>1. ok' = ok \/ ok' \in BOOLEAN
    BY <1>3 DEF Return
  <2>2. QED
    BY <1>1, <1>3, <1>4, <2>1, TypesKept
<1>6. id' = ZeroID \/ WellFormed(id)'
  BY <1>3, IDKept DEF IDInv
<1>7. CASE fn \in MethodCalls /\ IsZero(id)
  <2>1. pc' = "returned" /\ ok' = FALSE
    BY <1>3, <1>7 DEF Return
  <2>2. Outcome'
    BY <1>2, <1>3, <1>7, <2>1, RefusedPath
  <2>3. QED
    BY <1>5, <1>6, <2>1, <2>2, ReturnStep
<1>8. CASE ~(fn \in MethodCalls /\ IsZero(id))
  <2>1. pc' = "path"
    BY <1>3, <1>8
  <2>2. GivenPath'
    BY <1>2, <1>3, <1>8 DEF GivenPath, IsZero
  <2>3. i' = 0 /\ start' = 0 /\ path' = p
    BY <1>3, <1>4
  <2>4. Len(p) \in Nat
    BY DEF Text
  <2>5. 0 <= Len(p) /\ 1 .. 0 = {} /\ 0 + 1 + 1 .. 0 = {}
    BY <2>4
  <2>6. PathSoFar'
    BY <2>3, <2>5 DEF PathSoFar, SegmentChars
  <2>7. QED
    BY <1>5, <1>6, <2>1, <2>2, <2>6 DEF IDInv
<1>9. QED
  BY <1>7, <1>8

(* FromSegments, AppendSegments and ReplaceSegments. *)
LEMMA CallSegmentsStep ==
    ASSUME IDInv, NEW fn \in SegmentCalls, NEW ss \in Seq(Text), CallSegments(fn, ss)
    PROVE  IDInv'
<1> DEFINE c == [fn |-> fn, text |-> <<>>, segments |-> ss]
<1>1. c \in [fn : CallNames, text : Text, segments : Seq(Text)]
  BY EmptyPath DEF CallNames
<1>2. c.fn = fn /\ c.segments = ss
  OBVIOUS
<1> HIDE DEF c
<1>3. /\ pc = "idle" /\ call' = c /\ UNCHANGED <<backcompat, id, path, pathidx, i, start>>
      /\ IF fn \in MethodCalls /\ IsZero(id) THEN Return(FALSE)
         ELSE pc' = "segments" /\ UNCHANGED ok
  BY DEF CallSegments, scanVars, c
<1>4. IDTypes /\ i = 0 /\ start = 0 /\ path = <<>>
  BY <1>3 DEF IDInv
<1>5. IDTypes'
  <2>1. ok' = ok \/ ok' \in BOOLEAN
    BY <1>3 DEF Return
  <2>2. QED
    BY <1>1, <1>3, <1>4, <2>1, TypesKept
<1>6. id' = ZeroID \/ WellFormed(id)'
  BY <1>3, IDKept DEF IDInv
<1>7. CASE fn \in MethodCalls /\ IsZero(id)
  <2>1. pc' = "returned" /\ ok' = FALSE
    BY <1>3, <1>7 DEF Return
  <2>2. Outcome'
    BY <1>2, <1>3, <1>7, <2>1, RefusedSegments
  <2>3. QED
    BY <1>5, <1>6, <2>1, <2>2, ReturnStep
<1>8. CASE ~(fn \in MethodCalls /\ IsZero(id))
  <2>1. pc' = "segments"
    BY <1>3, <1>8
  <2>2. call'.fn \in SegmentCalls /\ (call.fn \in MethodCalls => ~IsZero(id))'
    BY <1>2, <1>3, <1>8 DEF IsZero
  <2>3. i' = 0 /\ start' = 0 /\ path' = <<>> /\ call'.segments = ss
    BY <1>2, <1>3, <1>4
  <2>4. 0 <= Len(ss) /\ 1 .. 0 = {}
    OBVIOUS
  <2>5. IsPath(path)'
    BY <1>3, <2>3, EmptyPath, PathKept
  <2>6. ASSUME start' < Len(call'.segments)
        PROVE  i' <= Len(Segment') /\ ~(i' > 0)
    <3>1. 1 \in 1 .. Len(ss)
      BY <2>3, <2>6
    <3>2. Segment' = ss[1] /\ ss[1] \in Text
      BY <2>3, <3>1 DEF Segment
    <3>3. Len(Segment') \in Nat
      BY <3>2 DEF Text
    <3>4. i' = 0
      BY <2>3
    <3>5. QED
      BY <3>3, <3>4
  <2>7. SegmentsSoFar'
    BY <2>2, <2>3, <2>4, <2>5, <2>6 DEF SegmentsSoFar
  <2>8. QED
    BY <1>5, <1>6, <2>1, <2>7 DEF IDInv
<1>9. QED
  BY <1>7, <1>8

(* Every call of a program. *)
LEMMA IDCallsStep ==
    ASSUME IDInv, IDCalls
    PROVE  IDInv'
<1>1. Texts \subseteq Text /\ Paths \subseteq Text /\ SegmentLists \subseteq Seq(Text)
  BY SpiffeIDAssumption DEF Text
<1>2. CASE \E t \in Texts :
            CallFromString(t) \/ CallUnmarshalText(t) \/ CallTrustDomainFromString(t)
  <2>1. PICK t \in Texts :
            CallFromString(t) \/ CallUnmarshalText(t) \/ CallTrustDomainFromString(t)
    BY <1>2
  <2>2. t \in Text
    BY <1>1
  <2>3. QED
    BY <2>1, <2>2, FromStringCallStep, CallUnmarshalTextStep, CallTrustDomainFromStringStep
       DEF CallFromString
<1>3. CASE \E fn \in PathCalls, p \in Paths : CallPath(fn, p)
  BY <1>1, <1>3, CallPathStep
<1>4. CASE \E fn \in SegmentCalls, ss \in SegmentLists : CallSegments(fn, ss)
  BY <1>1, <1>4, CallSegmentsStep
<1>5. QED
  BY <1>2, <1>3, <1>4 DEF IDCalls

(* What was accepted, by the kind of the call. *)
LEMMA AcceptedCases ==
    ASSUME IDInv, pc = "build"
    PROVE  /\ IDTypes /\ path \in Text /\ IsPath(path)
           /\ call.fn \in ParseCalls => Split
           /\ call.fn \in PathCalls => IsPath(call.text)
           /\ call.fn \in SegmentCalls => \A s \in Range(call.segments) : IsSegment(s)
           /\ call.fn \in AppendCalls => ~IsZero(id)
<1>1. IDTypes /\ Accepted
  BY DEF IDInv
<1>2. path \in Text /\ call.segments \in Seq(Text)
  BY <1>1 DEF IDTypes
<1>3. \/ Split
      \/ GivenPath
      \/ /\ call.fn \in SegmentCalls
         /\ call.fn \in MethodCalls => ~IsZero(id)
         /\ \A n \in 1 .. Len(call.segments) : IsSegment(call.segments[n])
  BY <1>1 DEF Accepted
<1>4. (Split => call.fn \in ParseCalls) /\ (GivenPath => call.fn \in PathCalls)
  BY DEF Split, ParsesID, GivenPath
<1>5. /\ call.fn \in ParseCalls => call.fn \notin PathCalls /\ call.fn \notin SegmentCalls
      /\ call.fn \in PathCalls => call.fn \notin SegmentCalls
  BY DEF ParseCalls, PathCalls, SegmentCalls
<1>6. call.fn \in ParseCalls => Split
  BY <1>3, <1>4, <1>5
<1>7. call.fn \in PathCalls => GivenPath
  BY <1>3, <1>4, <1>5
<1>8. call.fn \in SegmentCalls =>
         /\ call.fn \in MethodCalls => ~IsZero(id)
         /\ \A n \in 1 .. Len(call.segments) : IsSegment(call.segments[n])
  BY <1>3, <1>4, <1>5
<1>9. Range(call.segments) = {call.segments[n] : n \in 1 .. Len(call.segments)}
  BY <1>2 DEF Range
<1>10. call.fn \in AppendCalls =>
         call.fn \in MethodCalls /\ (call.fn \in PathCalls \/ call.fn \in SegmentCalls)
  BY DEF AppendCalls, MethodCalls, PathCalls, SegmentCalls
<1>11. call.fn \in AppendCalls => ~IsZero(id)
  BY <1>7, <1>8, <1>10 DEF GivenPath
<1>12. call.fn \in PathCalls => IsPath(call.text)
  BY <1>1, <1>7 DEF GivenPath, Accepted
<1>13. call.fn \in SegmentCalls => \A s \in Range(call.segments) : IsSegment(s)
  BY <1>8, <1>9
<1>14. QED
  BY <1>1, <1>2, <1>6, <1>11, <1>12, <1>13 DEF Accepted

(* A call that returns a well-formed ID. *)
LEMMA ResultStep ==
    ASSUME IDInv, NEW x, WellFormed(x), id' = x, Return(TRUE),
           UNCHANGED <<backcompat, call, scanVars>>,
           \/ call.fn \in ParseCalls /\ IsID(call.text)
           \/ call.fn = "TrustDomainFromString" /\ IsTrustDomainName(call.text)
           \/ call.fn \in PathCalls /\ IsPath(call.text)
           \/ call.fn \in SegmentCalls /\ \A s \in Range(call.segments) : IsSegment(s),
           call.fn = "FromString" => x.str = call.text
    PROVE  IDInv'
<1>1. /\ pc' = "returned" /\ ok' = TRUE /\ backcompat' = backcompat /\ call' = call
      /\ UNCHANGED <<path, pathidx, i, start>>
  BY DEF Return, scanVars
<1>2. x \in IDs /\ ~IsZero(x)
  BY WellFormedParts DEF WellFormed
<1>3. IDTypes'
  BY <1>1, <1>2, TypesKept DEF IDInv
<1>4. WellFormed(id)'
  BY <1>1, IDKept
<1>5. /\ IsID(call.text)' <=> IsID(call.text)
      /\ IsTrustDomainName(call.text)' <=> IsTrustDomainName(call.text)
      /\ IsPath(call.text)' <=> IsPath(call.text)
      /\ (\A s \in Range(call.segments) : IsSegment(s))'
            <=> \A s \in Range(call.segments) : IsSegment(s)
  BY <1>1, GrammarKept
<1>6. ~IsZero(id')
  BY <1>2
<1>7. AcceptsTheGrammar'
  <2>1. CASE call.fn \in ParseCalls /\ IsID(call.text)
    BY <1>1, <1>5, <2>1 DEF AcceptsTheGrammar, ParseCalls, PathCalls
  <2>2. CASE call.fn = "TrustDomainFromString" /\ IsTrustDomainName(call.text)
    BY <1>1, <1>5, <2>2 DEF AcceptsTheGrammar, PathCalls
  <2>3. CASE call.fn \in PathCalls /\ IsPath(call.text)
    BY <1>1, <1>5, <1>6, <2>3 DEF AcceptsTheGrammar, PathCalls, IsZero
  <2>4. CASE call.fn \in SegmentCalls /\ \A s \in Range(call.segments) : IsSegment(s)
    <3>1. call.fn \notin PathCalls \cup ParseCalls
      BY <2>4 DEF SegmentCalls, PathCalls, ParseCalls
    <3>2. QED
      BY <1>1, <1>5, <1>6, <2>4, <3>1 DEF AcceptsTheGrammar, ParseCalls, IsZero
  <2>5. QED
    BY <2>1, <2>2, <2>3, <2>4
<1>8. call.fn \in ParseCalls \cup PathCalls \cup SegmentCalls
  BY DEF ParseCalls
<1>9. Outcome'
  BY <1>1, <1>4, <1>7, <1>8 DEF Outcome
<1>10. QED
  BY <1>1, <1>3, <1>4, <1>9, ReturnStep

(* FromString and UnmarshalText give the text as an ID. *)
LEMMA BuildParsedStep ==
    ASSUME IDInv, BuildParsed
    PROVE  IDInv'
<1> DEFINE x == [str |-> call.text, pathidx |-> pathidx]
<1>1. /\ pc = "build" /\ call.fn \in {"FromString", "UnmarshalText"} /\ id' = x /\ Return(TRUE)
      /\ UNCHANGED <<backcompat, call, scanVars>>
  BY DEF BuildParsed
<1>2. call.fn \in ParseCalls
  BY <1>1 DEF ParseCalls
<1>3. IDTypes /\ Split /\ IsPath(path)
  BY <1>1, <1>2, AcceptedCases
<1>4. /\ call.text \in Text /\ pathidx \in Nat /\ 4 <= pathidx
      /\ IsID(call.text) /\ IsIDWithPathAt(call.text, pathidx)
  BY <1>3, PathDecides
<1>5. pathidx <= Len(call.text)
  BY <1>3 DEF Split
<1>6. x.str = call.text /\ x.pathidx = pathidx /\ x \in IDs
  BY <1>4 DEF IDs, Text
<1> HIDE DEF x
<1>7. WellFormed(x)
  BY <1>4, <1>5, <1>6 DEF WellFormed
<1>8. QED
  BY <1>1, <1>2, <1>4, <1>6, <1>7, ResultStep

(* TrustDomainFromString gives the trust domain. *)
LEMMA BuildTrustDomainStep ==
    ASSUME IDInv, BuildTrustDomain
    PROVE  IDInv'
<1>1. /\ call.fn = "TrustDomainFromString" /\ Return(TRUE)
      /\ UNCHANGED <<backcompat, call, scanVars>>
      /\ \/ pc = "build" /\ id' = makeID(Slice(call.text, 4, pathidx), <<>>)
         \/ pc = "name" /\ i = Len(call.text) /\ id' = makeID(call.text, <<>>)
  BY DEF BuildTrustDomain, schemePrefixLen
<1>2. call.fn \in ParseCalls /\ call.fn # "FromString"
  BY <1>1 DEF ParseCalls
<1>3. CASE pc = "build" /\ id' = makeID(Slice(call.text, 4, pathidx), <<>>)
  <2>1. IDTypes /\ Split /\ IsPath(path)
    BY <1>2, <1>3, AcceptedCases
  <2>2. /\ call.text \in Text /\ pathidx \in Nat /\ 4 <= pathidx
        /\ IsID(call.text) /\ IsIDWithPathAt(call.text, pathidx)
    BY <2>1, PathDecides
  <2>3. pathidx <= Len(call.text)
    BY <2>1 DEF Split
  <2>4. Slice(call.text, 4, pathidx) \in Text
    BY <2>2, <2>3, NameByPosition
  <2>5. IsTrustDomainName(Slice(call.text, 4, pathidx))
    BY <2>2 DEF IsIDWithPathAt, schemePrefixLen
  <2>6. WellFormed(makeID(Slice(call.text, 4, pathidx), <<>>))
    BY <2>4, <2>5, EmptyPath, MadeIDs
  <2>7. QED
    BY <1>1, <1>2, <1>3, <2>2, <2>6, ResultStep
<1>4. CASE pc = "name" /\ i = Len(call.text) /\ id' = makeID(call.text, <<>>)
  <2>1. IDTypes /\ BareNameSoFar
    BY <1>4 DEF IDInv
  <2>2. call.text \in Text
    BY <2>1 DEF IDTypes
  <2>3. IsTrustDomainName(call.text)
    BY <1>4, <2>1, <2>2, RangeOfText DEF IsTrustDomainName, BareNameSoFar
  <2>4. WellFormed(makeID(call.text, <<>>))
    BY <2>2, <2>3, EmptyPath, MadeIDs
  <2>5. QED
    BY <1>1, <1>2, <1>4, <2>3, <2>4, ResultStep
<1>5. QED
  BY <1>1, <1>3, <1>4

(* An ID is zero or has a trust domain. *)
LEMMA ZeroOrWellFormed ==
    ASSUME IDInv
    PROVE  IsZero(id) \/ WellFormed(id)
<1>1. ZeroID.str = <<>>
  BY DEF ZeroID
<1>2. id = ZeroID => IsZero(id)
  BY <1>1 DEF IsZero
<1>3. QED
  BY <1>2 DEF IDInv

(* FromPath, FromSegments, ReplacePath and ReplaceSegments. *)
LEMMA BuildMadeStep ==
    ASSUME IDInv, BuildMade
    PROVE  IDInv'
<1>1. /\ pc = "build" /\ call.fn \in PathCalls \cup SegmentCalls /\ Return(~IsZero(id))
      /\ id' = IF IsZero(id) THEN id ELSE makeID(TrustDomain(id), path)
      /\ UNCHANGED <<backcompat, call, scanVars>>
  BY DEF BuildMade
<1>2. call.fn # "FromString"
  BY <1>1 DEF PathCalls, SegmentCalls
<1>3. CASE IsZero(id)
  <2>1. Return(FALSE) /\ UNCHANGED <<backcompat, id, call, scanVars>>
    BY <1>1, <1>3 DEF Return
  <2>2. QED
    BY <1>1, <1>3, <2>1, RefusalStep, Zenon
<1>4. CASE ~IsZero(id)
  <2>1. WellFormed(id)
    BY <1>4, ZeroOrWellFormed
  <2>2. TrustDomain(id) \in Text /\ IsTrustDomainName(TrustDomain(id))
    BY <2>1, WellFormedParts
  <2>3. path \in Text /\ IsPath(path)
    BY <1>1, AcceptedCases
  <2>4. WellFormed(makeID(TrustDomain(id), path))
    BY <2>2, <2>3, MadeIDs
  <2>5. Return(TRUE) /\ id' = makeID(TrustDomain(id), path)
    BY <1>1, <1>4 DEF Return
  <2>6. \/ call.fn \in PathCalls /\ IsPath(call.text)
        \/ call.fn \in SegmentCalls /\ \A s \in Range(call.segments) : IsSegment(s)
    BY <1>1, AcceptedCases
  <2>7. QED
    BY <1>1, <1>2, <2>4, <2>5, <2>6, ResultStep
<1>5. QED
  BY <1>3, <1>4

(* AppendPath and AppendSegments. *)
LEMMA BuildAppendedStep ==
    ASSUME IDInv, BuildAppended
    PROVE  IDInv'
<1>1. /\ pc = "build" /\ call.fn \in AppendCalls /\ Return(TRUE)
      /\ id' = [id EXCEPT !.str = @ \o path]
      /\ UNCHANGED <<backcompat, call, scanVars>>
  BY DEF BuildAppended
<1>2. call.fn # "FromString" /\ (call.fn \in PathCalls \/ call.fn \in SegmentCalls)
  BY <1>1 DEF AppendCalls, PathCalls, SegmentCalls
<1>3. ~IsZero(id) /\ path \in Text /\ IsPath(path)
  BY <1>1, AcceptedCases
<1>4. WellFormed(id)
  BY <1>3, ZeroOrWellFormed
<1>5. WellFormed([id EXCEPT !.str = @ \o path])
  BY <1>3, <1>4, AppendedIDs
<1>6. \/ call.fn \in PathCalls /\ IsPath(call.text)
      \/ call.fn \in SegmentCalls /\ \A s \in Range(call.segments) : IsSegment(s)
  BY <1>1, <1>2, AcceptedCases
<1>7. QED
  BY <1>1, <1>2, <1>5, <1>6, ResultStep

(* Every result. *)
LEMMA BuildStep ==
    ASSUME IDInv, Build
    PROVE  IDInv'
BY BuildParsedStep, BuildTrustDomainStep, BuildMadeStep, BuildAppendedStep DEF Build

(* The end of a call, whatever ID the program keeps. *)
LEMMA ResetStep ==
    ASSUME IDInv, Reset, id' = id \/ id' = ZeroID
    PROVE  IDInv'
<1>1. /\ pc' = "idle" /\ call' = NoCall /\ path' = <<>> /\ pathidx' = 0 /\ i' = 0 /\ start' = 0
      /\ ok' = FALSE /\ backcompat' = backcompat
  BY DEF Reset
<1>2. ZeroID \in IDs
  BY DEF ZeroID, IDs
<1>3. NoCall \in [fn : CallNames, text : Text, segments : Seq(Text)]
  BY EmptyPath, CallRecord DEF NoCall, CallNames
<1>4. IDTypes'
  BY <1>1, <1>2, <1>3, EmptyPath, TypesKept DEF IDInv
<1>5. id' = ZeroID \/ WellFormed(id)'
  BY <1>1, IDKept DEF IDInv
<1>6. QED
  BY <1>1, <1>4, <1>5 DEF IDInv

(* The program begins without an ID. *)
LEMMA IDInitGivesIDInv ==
    ASSUME IDInit
    PROVE  IDInv
<1>1. ZeroID \in IDs
  BY DEF ZeroID, IDs
<1>2. NoCall \in [fn : CallNames, text : Text, segments : Seq(Text)]
  BY EmptyPath, CallRecord DEF NoCall, CallNames
<1>3. IDTypes
  BY <1>1, <1>2, EmptyPath DEF IDInit, IDTypes
<1>4. QED
  BY <1>3 DEF IDInit, IDInv

-----------------------------------------------------------------------------
(* PEM files *)

(* The positions of a file's blocks of a type. *)
At(file, type) == {k \in DOMAIN file : file[k].type = type}

(* They are finitely many. *)
LEMMA FiniteAt ==
    ASSUME NEW n \in Nat, NEW S \in SUBSET (1 .. n)
    PROVE  IsFiniteSet(S) /\ Cardinality(S) \in Nat
<1>1. IsFiniteSet(1 .. n)
  BY FS_Interval
<1>2. IsFiniteSet(S)
  BY <1>1, FS_Subset
<1>3. QED
  BY <1>2, FS_CardinalityType

(* If there is one, one of them is the first. *)
LEMMA FirstAt ==
    ASSUME NEW n \in Nat, NEW S \in SUBSET (1 .. n), S # {}
    PROVE  \E k \in S : Cardinality({j \in S : j <= k}) = 1
<1>1. S \subseteq Nat
  OBVIOUS
<1>2. PICK k \in S : \A j \in S : ~(<<j, k>> \in OpToRel(<, Nat))
  BY <1>1, NatLessThanWellFounded, WFMin
<1>3. \A j \in S : ~(j < k)
  BY <1>1, <1>2 DEF OpToRel
<1>4. \A j \in S : j <= k <=> j = k
  <2>1. ASSUME NEW j \in S PROVE j <= k <=> j = k
    <3>1. j \in Nat /\ k \in Nat /\ ~(j < k)
      BY <1>1, <1>2, <1>3
    <3>2. QED
      BY <3>1
  <2>2. QED
    BY <2>1
<1>5. {j \in S : j <= k} = {k}
  BY <1>2, <1>4
<1>6. QED
  BY <1>2, <1>5, FS_Singleton

(* The first block of a type is a block of the file. *)
LEMMA FirstBlock ==
    ASSUME NEW file \in Seq(Blocks), NEW type, parseBlocks(file, type) # <<>>
    PROVE  parseBlocks(file, type)[1] \in Blocks /\ 1 \in DOMAIN parseBlocks(file, type)
<1> DEFINE at == At(file, type)
           pick(n) == CHOOSE k \in at : Cardinality({j \in at : j <= k}) = n
<1>1. Len(file) \in Nat /\ DOMAIN file = 1 .. Len(file)
  OBVIOUS
<1>2. at \in SUBSET (1 .. Len(file))
  BY <1>1 DEF At
<1>3. parseBlocks(file, type) = [n \in 1 .. Cardinality(at) |-> file[pick(n)]]
  BY DEF parseBlocks, At
<1>4. IsFiniteSet(at) /\ Cardinality(at) \in Nat
  BY <1>1, <1>2, FiniteAt
<1>5. at # {}
  <2>1. SUFFICES ASSUME at = {} PROVE FALSE
    OBVIOUS
  <2>2. Cardinality(at) = 0
    BY <2>1, FS_EmptySet
  <2>3. 1 .. Cardinality(at) = {}
    BY <2>2
  <2>4. QED
    BY <1>3, <2>3
<1>6. Cardinality(at) # 0
  BY <1>4, <1>5, FS_EmptySet
<1>7. 1 \in 1 .. Cardinality(at)
  BY <1>4, <1>6
<1>8. \E k \in at : Cardinality({j \in at : j <= k}) = 1
  BY <1>1, <1>2, <1>5, FirstAt
<1>9. pick(1) \in at
  BY <1>8
<1> HIDE DEF at, pick
<1>10. parseBlocks(file, type)[1] = file[pick(1)]
  BY <1>3, <1>7
<1>11. file[pick(1)] \in Blocks
  <2>1. pick(1) \in 1 .. Len(file)
    BY <1>2, <1>9
  <2>2. QED
    BY <2>1
<1>12. QED
  BY <1>3, <1>7, <1>10, <1>11

(* The leaf of a file is a certificate. *)
LEMMA LeafIsCertificate ==
    ASSUME NEW file \in Seq(Blocks), ParseCertificates(file) # <<>>
    PROVE  ParseCertificates(file)[1] \in Certificates
<1> DEFINE blocks == parseBlocks(file, certType)
<1>1. ParseCertificates(file) = [k \in DOMAIN blocks |-> blocks[k].cert]
  BY DEF ParseCertificates
<1>2. blocks # <<>>
  <2>1. SUFFICES ASSUME blocks = <<>> PROVE FALSE
    OBVIOUS
  <2>2. DOMAIN blocks = {}
    BY <2>1
  <2>3. QED
    BY <1>1, <2>2
<1>3. blocks[1] \in Blocks /\ 1 \in DOMAIN blocks
  BY <1>2, FirstBlock
<1> HIDE DEF blocks
<1>4. QED
  BY <1>1, <1>3 DEF Blocks

(* A file of one type is read block by block. *)
LEMMA BlocksOfOneType ==
    ASSUME NEW n \in Nat, NEW file, NEW type, DOMAIN file = 1 .. n,
           \A k \in 1 .. n : file[k].type = type
    PROVE  parseBlocks(file, type) = [k \in 1 .. n |-> file[k]]
<1> DEFINE at == At(file, type)
           pick(m) == CHOOSE k \in at : Cardinality({j \in at : j <= k}) = m
<1>1. parseBlocks(file, type) = [m \in 1 .. Cardinality(at) |-> file[pick(m)]]
  BY DEF parseBlocks, At
<1>2. at = 1 .. n
  BY DEF At
<1> HIDE DEF at
<1>3. \A k \in 1 .. n : Cardinality(1 .. k) = k
  BY FS_Interval
<1>4. Cardinality(at) = n
  <2>1. Cardinality(1 .. n) = IF 1 > n THEN 0 ELSE n - 1 + 1
    BY FS_Interval
  <2>2. QED
    BY <1>2, <2>1
<1>5. ASSUME NEW m \in 1 .. n PROVE pick(m) = m
  <2>1. ASSUME NEW k \in at PROVE {j \in at : j <= k} = 1 .. k
    BY <1>2, <2>1
  <2>2. ASSUME NEW k \in at PROVE Cardinality({j \in at : j <= k}) = k
    BY <1>2, <1>3, <2>1, <2>2
  <2>3. m \in at
    BY <1>2
  <2>4. QED
    BY <2>2, <2>3
<1> HIDE DEF pick
<1>6. QED
  BY <1>1, <1>4, <1>5

(* The certificates of a file are a sequence. *)
LEMMA CertificatesOfFile ==
    ASSUME NEW file \in Seq(Blocks)
    PROVE  \E n \in Nat : /\ DOMAIN ParseCertificates(file) = 1 .. n
                          /\ ParseCertificates(file) = [k \in 1 .. n |-> ParseCertificates(file)[k]]
<1> DEFINE at == At(file, certType)
           blocks == parseBlocks(file, certType)
<1>1. Len(file) \in Nat /\ DOMAIN file = 1 .. Len(file)
  OBVIOUS
<1>2. at \in SUBSET (1 .. Len(file))
  BY <1>1 DEF At
<1>3. Cardinality(at) \in Nat
  BY <1>1, <1>2, FiniteAt
<1>4. DOMAIN blocks = 1 .. Cardinality(at)
  BY DEF parseBlocks, At
<1> HIDE DEF at, blocks
<1>5. ParseCertificates(file) = [k \in 1 .. Cardinality(at) |-> blocks[k].cert]
  BY <1>4 DEF ParseCertificates, blocks
<1>6. QED
  BY <1>3, <1>5

(* What Marshal writes, Parse reads: the certificates. *)
LEMMA CertificatesRoundTrip ==
    ASSUME NEW n \in Nat, NEW certs, certs = [k \in 1 .. n |-> certs[k]], certs # <<>>
    PROVE  /\ ParseCertificates(EncodeCertificates(certs)) = certs
           /\ BlocksParse(EncodeCertificates(certs), certType)
<1> DEFINE file == EncodeCertificates(certs)
<1>1. DOMAIN certs = 1 .. n
  OBVIOUS
<1>2. file = [k \in 1 .. n |->
                 [type |-> certType, good |-> TRUE, cert |-> certs[k], key |-> "none"]]
  BY <1>1 DEF EncodeCertificates
<1>3. n # 0
  <2>1. SUFFICES ASSUME n = 0 PROVE FALSE
    OBVIOUS
  <2>2. 1 .. n = {}
    BY <2>1
  <2>3. QED
    BY <2>2
<1> HIDE DEF file
<1>4. /\ DOMAIN file = 1 .. n
      /\ \A k \in 1 .. n : file[k].type = certType /\ file[k].good /\ file[k].cert = certs[k]
  BY <1>2
<1>5. parseBlocks(file, certType) = [k \in 1 .. n |-> file[k]]
  BY <1>4, BlocksOfOneType
<1>6. ParseCertificates(file) = [k \in 1 .. n |-> file[k].cert]
  BY <1>5 DEF ParseCertificates
<1>7. ParseCertificates(file) = certs
  BY <1>4, <1>6
<1>8. file # <<>>
  <2>1. 1 \in 1 .. n
    BY <1>3
  <2>2. QED
    BY <1>4, <2>1
<1>9. \A b \in Range(parseBlocks(file, certType)) : b.good
  BY <1>4, <1>5 DEF Range
<1>10. QED
  BY <1>7, <1>8, <1>9 DEF BlocksParse, file

(* And the key. *)
LEMMA KeyRoundTrip ==
    ASSUME NEW key
    PROVE  /\ ParsePrivateKey(EncodePKCS8PrivateKey(key)) = key
           /\ BlocksParse(EncodePKCS8PrivateKey(key), keyType)
<1> DEFINE file == EncodePKCS8PrivateKey(key)
           block == [type |-> keyType, good |-> TRUE, cert |-> NoCert, key |-> key]
<1>1. file = <<block>>
  BY DEF EncodePKCS8PrivateKey
<1>2. block.type = keyType /\ block.good /\ block.key = key
  OBVIOUS
<1> HIDE DEF file, block
<1>3. DOMAIN file = 1 .. 1 /\ file[1] = block /\ file # <<>> /\ 1 \in Nat
  BY <1>1
<1>4. \A k \in 1 .. 1 : file[k].type = keyType
  BY <1>2, <1>3
<1>5. parseBlocks(file, keyType) = [k \in 1 .. 1 |-> file[k]]
  BY <1>3, <1>4, BlocksOfOneType
<1>6. /\ DOMAIN parseBlocks(file, keyType) = 1 .. 1 /\ 1 \in 1 .. 1
      /\ parseBlocks(file, keyType)[1] = block
  BY <1>3, <1>5
<1>7. parseBlocks(file, keyType) # <<>>
  BY <1>6
<1>8. ParsePrivateKey(file) = key
  BY <1>2, <1>6, <1>7 DEF ParsePrivateKey
<1>9. \A b \in Range(parseBlocks(file, keyType)) : b.good
  BY <1>2, <1>3, <1>5 DEF Range
<1>10. QED
  BY <1>3, <1>8, <1>9 DEF BlocksParse, file

-----------------------------------------------------------------------------
(* The calls on a document, one after the other *)

X509Todos == {<<"Parse", "Reparse", "Verify">>, <<"Reparse", "Verify">>, <<"Verify">>, <<>>}

TokenTodos ==
    {<<"jwt.ParseInsecure", "jwt.ParseAndValidate", "wit.ParseInsecure", "wit.ParseAndValidate">>,
     <<"jwt.ParseAndValidate", "wit.ParseInsecure", "wit.ParseAndValidate">>,
     <<"wit.ParseInsecure", "wit.ParseAndValidate">>,
     <<"wit.ParseAndValidate">>,
     <<>>}

DocCalls == {"Parse", "Reparse", "Verify"} \cup JWTCalls \cup WITCalls

(* The calls that are listed. *)
LEMMA Listed ==
    /\ Range(<<>>) = {}
    /\ \A a : Range(<<a>>) = {a}
    /\ \A a, b : Range(<<a, b>>) = {a, b}
    /\ \A a, b, c : Range(<<a, b, c>>) = {a, b, c}
    /\ \A a, b, c, d : Range(<<a, b, c, d>>) = {a, b, c, d}
<1>1. Range(<<>>) = {}
  BY DEF Range
<1>2. \A a : Range(<<a>>) = {a}
  BY DEF Range
<1>3. \A a, b : Range(<<a, b>>) = {a, b}
  BY DEF Range
<1>4. \A a, b, c : Range(<<a, b, c>>) = {a, b, c}
  BY DEF Range
<1>5. \A a, b, c, d : Range(<<a, b, c, d>>) = {a, b, c, d}
  BY DEF Range
<1>6. QED
  BY <1>1, <1>2, <1>3, <1>4, <1>5

(* The calls on an X509-SVID. *)
LEMMA X509Order ==
    ASSUME NEW s \in X509Todos, s # <<>>
    PROVE  /\ Tail(s) \in X509Todos
           /\ \/ Head(s) = "Parse" /\ Range(s) = {"Parse", "Reparse", "Verify"}
                    /\ Range(Tail(s)) = {"Reparse", "Verify"}
              \/ Head(s) = "Reparse" /\ Range(s) = {"Reparse", "Verify"}
                    /\ Range(Tail(s)) = {"Verify"}
              \/ Head(s) = "Verify" /\ Range(s) = {"Verify"} /\ Range(Tail(s)) = {}
<1>1. CASE s = <<"Parse", "Reparse", "Verify">>
  <2>1. Head(s) = "Parse" /\ Tail(s) = <<"Reparse", "Verify">>
    BY <1>1
  <2>2. QED
    BY <1>1, <2>1, Listed DEF X509Todos
<1>2. CASE s = <<"Reparse", "Verify">>
  <2>1. Head(s) = "Reparse" /\ Tail(s) = <<"Verify">>
    BY <1>2
  <2>2. QED
    BY <1>2, <2>1, Listed DEF X509Todos
<1>3. CASE s = <<"Verify">>
  <2>1. Head(s) = "Verify" /\ Tail(s) = <<>>
    BY <1>3
  <2>2. QED
    BY <1>3, <2>1, Listed DEF X509Todos
<1>4. QED
  BY <1>1, <1>2, <1>3 DEF X509Todos

(* The calls on a token. *)
LEMMA TokenOrder ==
    ASSUME NEW s \in TokenTodos, s # <<>>
    PROVE  /\ Tail(s) \in TokenTodos
           /\ \/ Head(s) = "jwt.ParseInsecure"
                    /\ Range(Tail(s)) = {"jwt.ParseAndValidate"} \cup WITCalls
              \/ Head(s) = "jwt.ParseAndValidate" /\ Range(Tail(s)) = WITCalls
              \/ Head(s) = "wit.ParseInsecure" /\ Range(Tail(s)) = {"wit.ParseAndValidate"}
              \/ Head(s) = "wit.ParseAndValidate" /\ Range(Tail(s)) = {}
           /\ Range(s) = {Head(s)} \cup Range(Tail(s))
<1>1. CASE s = <<"jwt.ParseInsecure", "jwt.ParseAndValidate", "wit.ParseInsecure",
                 "wit.ParseAndValidate">>
  <2>1. /\ Head(s) = "jwt.ParseInsecure"
        /\ Tail(s) = <<"jwt.ParseAndValidate", "wit.ParseInsecure", "wit.ParseAndValidate">>
    BY <1>1
  <2>2. QED
    BY <1>1, <2>1, Listed DEF TokenTodos, WITCalls
<1>2. CASE s = <<"jwt.ParseAndValidate", "wit.ParseInsecure", "wit.ParseAndValidate">>
  <2>1. /\ Head(s) = "jwt.ParseAndValidate"
        /\ Tail(s) = <<"wit.ParseInsecure", "wit.ParseAndValidate">>
    BY <1>2
  <2>2. QED
    BY <1>2, <2>1, Listed DEF TokenTodos, WITCalls
<1>3. CASE s = <<"wit.ParseInsecure", "wit.ParseAndValidate">>
  <2>1. Head(s) = "wit.ParseInsecure" /\ Tail(s) = <<"wit.ParseAndValidate">>
    BY <1>3
  <2>2. QED
    BY <1>3, <2>1, Listed DEF TokenTodos, WITCalls
<1>4. CASE s = <<"wit.ParseAndValidate">>
  <2>1. Head(s) = "wit.ParseAndValidate" /\ Tail(s) = <<>>
    BY <1>4
  <2>2. QED
    BY <1>4, <2>1, Listed DEF TokenTodos, WITCalls
<1>5. QED
  BY <1>1, <1>2, <1>3, <1>4 DEF TokenTodos

-----------------------------------------------------------------------------
(* The invariant of the readers *)

Leaf == ParseCertificates(doc.certFile)[1]

(* The file has a leaf, and the leaf has one URI. *)
Readable ==
    /\ BlocksParse(doc.certFile, certType)
    /\ ParseCertificates(doc.certFile) # <<>>
    /\ Len(Leaf.uris) = 1

(* The SVID is the one of the document. *)
ParsedFrom(svid) ==
    /\ Readable /\ BlocksParse(doc.keyFile, keyType)
    /\ WellFormed(svid.id) /\ svid.id.str = Leaf.uris[1]
    /\ svid.certs = ParseCertificates(doc.certFile)
    /\ svid.key = ParsePrivateKey(doc.keyFile)
    /\ svid = [ok |-> TRUE, id |-> svid.id, certs |-> svid.certs, key |-> svid.key]
    /\ validateLeafCertificate(Leaf, svid.id)
    /\ validateSigningCertificates(Tail(svid.certs))
    /\ validatePrivateKey(svid.key, Leaf)

JWTHeaders(tok) == tok.compact /\ JWTTypeAllowed(tok) /\ tok.sub # <<>> /\ tok.exp # "absent"

WITHeaders(tok) ==
    /\ tok.compact /\ tok.typ = "wit+jwt" /\ tok.kid # ""
    /\ tok.sub # <<>> /\ tok.exp # "absent" /\ tok.aud = {}

(* The current call got as far as the ID of the document. *)
Reading ==
    /\ todo # <<>>
    /\ call.fn = "FromString"
    /\ doc \in X509Files =>
          /\ Readable /\ call.text = Leaf.uris[1]
          /\ Head(todo) = "Parse" => BlocksParse(doc.keyFile, keyType)
          /\ Head(todo) = "Reparse" => outcome["Parse"].ok
    /\ doc \in Tokens =>
          /\ call.text = doc.sub
          /\ Head(todo) \in JWTCalls => JWTHeaders(doc)
          /\ Head(todo) \in WITCalls => WITHeaders(doc)

ReadTypes ==
    /\ doc \in {NoDoc} \cup X509Files \cup Tokens
    /\ doc = NoDoc => todo = <<>>
    /\ doc \in X509Files => todo \in X509Todos
    /\ doc \in Tokens => todo \in TokenTodos
    /\ outcome = [c \in DocCalls |-> outcome[c]]

(* A function succeeds on documents of its kind only. *)
RightKind ==
    /\ \A c \in {"Parse", "Reparse", "Verify"} : outcome[c].ok => doc \in X509Files
    /\ \A c \in JWTCalls : outcome[c].ok => doc \in Tokens /\ JWTHeaders(doc)
    /\ \A c \in WITCalls : outcome[c].ok => doc \in Tokens /\ WITHeaders(doc)

ReadInv ==
    /\ IDInv
    /\ ReadTypes
    /\ doc # NoDoc /\ pc # "idle" => Reading
    /\ RightKind
    /\ outcome["Parse"].ok => ParsedFrom(outcome["Parse"])

(* What the calls on an X509-SVID returned. *)
X509Inv ==
    LET svid == outcome["Parse"]
        verified == outcome["Verify"]
    IN /\ svid.ok /\ "Reparse" \notin Range(todo) => outcome["Reparse"] = svid
       /\ svid.ok /\ "Verify" \notin Range(todo) =>
             LET td == TrustDomain(svid.id) IN
             /\ verified.ok <=> td \in Bundled /\ td \in doc.roots
             /\ verified.ok => verified.id = svid.id
       /\ verified.ok => TrustDomain(verified.id) \in doc.roots \cap Bundled

(* What makes a token an SVID of a kind, whoever signed it. *)
AcceptableToken(t) ==
    /\ IF t.use = "jwt-svid"
       THEN JWTHeaders(doc) /\ ClaimsValid(doc, doc.audience)
       ELSE WITHeaders(doc) /\ extractCnfJWK(doc) /\ ClaimsValid(doc, {})
    /\ IsID(doc.sub)

(* What the calls on a token returned, for one kind of SVIDs. *)
TokenKindInv(t) ==
    LET insecure == outcome[t.insecure]
        secure == outcome[t.secure]
    IN /\ t.insecure \notin Range(todo) =>
             /\ insecure.ok <=> AcceptableToken(t)
             /\ insecure.ok => WellFormed(insecure.id) /\ insecure.id.str = doc.sub
       /\ t.secure \notin Range(todo) =>
             /\ secure.ok <=>
                    /\ AcceptableToken(t)
                    /\ SignatureVerified(doc, TrustDomain(insecure.id), t.use)
             /\ secure.ok => secure.id = insecure.id

TokenInv == doc \in Tokens => \A t \in TokenKinds : TokenKindInv(t)


(* The kind of a document. *)
LEMMA Kinds ==
    ASSUME ReadTypes
    PROVE  /\ doc.kind = "x509" <=> doc \in X509Files
           /\ doc.kind = "token" <=> doc \in Tokens
           /\ doc # NoDoc <=> doc \in X509Files \cup Tokens
           /\ ~(doc \in X509Files /\ doc \in Tokens)
<1>1. NoDoc.kind = "none"
  BY DEF NoDoc
<1>2. doc = NoDoc \/ doc \in X509Files \/ doc \in Tokens
  BY DEF ReadTypes
<1>3. (doc \in X509Files => doc.kind = "x509") /\ (doc \in Tokens => doc.kind = "token")
  BY SVIDsAssumption
<1>4. QED
  BY <1>1, <1>2, <1>3

(* The texts of a document that are parsed. *)
LEMMA DocumentTexts ==
    ASSUME ReadTypes
    PROVE  /\ doc \in Tokens => doc.sub \in Text
           /\ doc \in X509Files =>
                 doc.certFile \in Seq(Blocks) /\ (Readable => Leaf.uris[1] \in Text)
<1>1. doc \in Tokens => doc.sub \in Text
  BY SVIDsAssumption DEF Text
<1>2. ASSUME doc \in X509Files
      PROVE  doc.certFile \in Seq(Blocks) /\ (Readable => Leaf.uris[1] \in Text)
  <2>1. doc.certFile \in Seq(Blocks)
    BY <1>2, SVIDsAssumption
  <2>2. ASSUME Readable PROVE Leaf.uris[1] \in Text
    <3>1. Leaf \in Certificates
      BY <2>1, <2>2, LeafIsCertificate DEF Readable, Leaf
    <3>2. Leaf.uris \in Seq(Text) /\ Len(Leaf.uris) = 1
      BY <2>2, <3>1 DEF Certificates, Readable, Text
    <3>3. 1 \in 1 .. Len(Leaf.uris)
      BY <3>2
    <3>4. QED
      BY <3>2, <3>3
  <2>3. QED
    BY <2>1, <2>2
<1>3. QED
  BY <1>1, <1>2

(* A document stays, and with it what makes an SVID of it. *)
LEMMA SVIDKept ==
    ASSUME NEW c, NEW v, outcome'[c] = v, UNCHANGED <<doc, backcompat>>
    PROVE  /\ WellFormed(outcome[c].id)' <=> WellFormed(v.id)
           /\ ParsedFrom(outcome[c])' <=> ParsedFrom(v)
<1>1. WellFormed(outcome[c].id)' <=> WellFormed(v.id)
  BY DEF WellFormed, IsIDWithPathAt, HasScheme, IsTrustDomainName, IsPath, IsSegment,
     isValidTrustDomainChar, isValidPathSegmentChar
<1>2. Readable' <=> Readable
  BY DEF Readable, Leaf
<1>3. Leaf' = Leaf
  BY DEF Leaf
<1>4. ParsedFrom(outcome[c])' <=> ParsedFrom(v)
  BY <1>1, <1>2, <1>3 DEF ParsedFrom
<1>5. QED
  BY <1>1, <1>4

(* And what makes a token acceptable. *)
LEMMA AcceptableKept ==
    ASSUME NEW t, UNCHANGED <<doc, backcompat>>
    PROVE  AcceptableToken(t)' <=> AcceptableToken(t)
<1>1. IsID(doc.sub)' <=> IsID(doc.sub)
  BY DEF IsID, IsIDWithPathAt, HasScheme, IsTrustDomainName, IsPath, IsSegment,
     isValidTrustDomainChar, isValidPathSegmentChar
<1>2. QED
  BY <1>1 DEF AcceptableToken

(* What was returned stays, too. *)
LEMMA TokenKindKept ==
    ASSUME NEW t, TokenKindInv(t), UNCHANGED <<doc, backcompat>>,
           outcome'[t.insecure] = outcome[t.insecure], outcome'[t.secure] = outcome[t.secure],
           t.insecure \in Range(todo) => t.insecure \in Range(todo'),
           t.secure \in Range(todo) => t.secure \in Range(todo')
    PROVE  TokenKindInv(t)'
<1>1. AcceptableToken(t)' <=> AcceptableToken(t)
  BY AcceptableKept
<1>2. WellFormed(outcome[t.insecure].id)' <=> WellFormed(outcome[t.insecure].id)
  BY SVIDKept
<1>3. QED
  BY <1>1, <1>2 DEF TokenKindInv

(* A step that leaves documents alone. *)
LEMMA QuietStep ==
    ASSUME ReadInv, X509Inv, TokenInv, UNCHANGED docVars, UNCHANGED backcompat,
           IDInv', doc # NoDoc /\ pc' # "idle" => Reading'
    PROVE  ReadInv' /\ X509Inv' /\ TokenInv'
<1>1. UNCHANGED <<doc, todo, outcome, backcompat>>
  BY DEF docVars
<1>2. ReadTypes'
  BY <1>1 DEF ReadInv, ReadTypes
<1>3. RightKind'
  BY <1>1 DEF ReadInv, RightKind
<1>4. (outcome["Parse"].ok => ParsedFrom(outcome["Parse"]))'
  BY <1>1, SVIDKept DEF ReadInv
<1>5. X509Inv'
  BY <1>1 DEF X509Inv
<1>6. TokenInv'
  BY <1>1, TokenKindKept DEF TokenInv
<1>7. (doc # NoDoc /\ pc # "idle" => Reading)'
  BY <1>1
<1>8. QED
  BY <1>2, <1>3, <1>4, <1>5, <1>6, <1>7 DEF ReadInv

(* A step of a scanner. *)
LEMMA ScanQuiet ==
    ASSUME ReadInv, Scan \/ Build
    PROVE  IDInv' /\ call' = call /\ backcompat' = backcompat /\ pc # "idle"
<1>1. IDInv'
  BY ScanStep, BuildStep DEF ReadInv
<1>2. ASSUME Scan PROVE call' = call /\ backcompat' = backcompat /\ pc # "idle"
  BY <1>2 DEF Scan, ScanTrustDomainChar, ScanTrustDomainEnd, PathHasNoSlash, ScanPathSlash,
     ScanPathChar, ScanPathEnd, InPath, SegmentRefused, ScanSegmentChar, ScanSegmentEnd,
     InSegment, SegmentsEnd, ScanNameChar
<1>3. ASSUME Build PROVE call' = call /\ backcompat' = backcompat /\ pc # "idle"
  BY <1>3 DEF Build, BuildParsed, BuildTrustDomain, BuildMade, BuildAppended
<1>4. QED
  BY <1>1, <1>2, <1>3

(* The calls of a program, and the scanners. *)
LEMMA ProgramStep ==
    ASSUME ReadInv, X509Inv, TokenInv, UNCHANGED docVars,
           (doc = NoDoc /\ (IDCalls \/ Continue)) \/ Scan \/ Build
    PROVE  ReadInv' /\ X509Inv' /\ TokenInv'
<1>1. CASE doc = NoDoc /\ (IDCalls \/ Continue)
  <2>1. IDInv'
    BY <1>1, IDCallsStep, ResetStep DEF ReadInv, Continue
  <2>2. backcompat' = backcompat
    BY <1>1 DEF IDCalls, CallFromString, CallUnmarshalText, CallTrustDomainFromString,
       CallPath, CallSegments, FromStringBegins, Continue, Reset
  <2>3. QED
    BY <1>1, <2>1, <2>2, QuietStep
<1>2. CASE Scan \/ Build
  <2>1. IDInv' /\ call' = call /\ backcompat' = backcompat /\ pc # "idle"
    BY <1>2, ScanQuiet
  <2>2. doc # NoDoc => Reading
    BY <2>1 DEF ReadInv
  <2>3. UNCHANGED <<doc, todo, outcome>>
    BY DEF docVars
  <2>4. doc # NoDoc => Reading'
    BY <2>1, <2>2, <2>3 DEF Reading, Readable, Leaf
  <2>5. QED
    BY <2>1, <2>4, QuietStep
<1>3. QED
  BY <1>1, <1>2

(* The current call is one of those on documents of the kind. *)
LEMMA CurrentCall ==
    ASSUME ReadTypes, todo # <<>>
    PROVE  /\ doc # NoDoc /\ Head(todo) \in DocCalls
           /\ doc \in X509Files => Head(todo) \in {"Parse", "Reparse", "Verify"}
           /\ doc \in Tokens => Head(todo) \in JWTCalls \cup WITCalls
<1>1. doc # NoDoc
  BY DEF ReadTypes
<1>2. doc \in X509Files \cup Tokens
  BY <1>1 DEF ReadTypes
<1>3. doc \in X509Files => Head(todo) \in {"Parse", "Reparse", "Verify"}
  BY X509Order DEF ReadTypes
<1>4. doc \in Tokens => Head(todo) \in JWTCalls \cup WITCalls
  BY TokenOrder DEF ReadTypes, JWTCalls, WITCalls
<1>5. QED
  BY <1>1, <1>2, <1>3, <1>4 DEF DocCalls

(* A call on a document ends. *)
LEMMA FinishFacts ==
    ASSUME ReadInv, todo # <<>>, NEW svid, Finish(svid)
    PROVE  /\ IDInv' /\ ReadTypes' /\ pc' = "idle" /\ UNCHANGED <<doc, backcompat>>
           /\ todo' = Tail(todo)
           /\ outcome'[Head(todo)] = svid
           /\ \A c \in DocCalls : c # Head(todo) => outcome'[c] = outcome[c]
<1>1. /\ outcome' = [outcome EXCEPT ![Head(todo)] = svid] /\ todo' = Tail(todo)
      /\ Reset /\ id' = ZeroID /\ doc' = doc
  BY DEF Finish
<1>2. IDInv' /\ pc' = "idle" /\ backcompat' = backcompat
  BY <1>1, ResetStep DEF ReadInv, Reset
<1>3. ReadTypes /\ outcome = [c \in DocCalls |-> outcome[c]]
  BY DEF ReadInv, ReadTypes
<1>4. Head(todo) \in DocCalls /\ doc # NoDoc
  BY <1>3, CurrentCall
<1>5. /\ outcome' = [c \in DocCalls |-> outcome'[c]]
      /\ outcome'[Head(todo)] = svid
      /\ \A c \in DocCalls : c # Head(todo) => outcome'[c] = outcome[c]
  BY <1>1, <1>3, <1>4
<1>6. doc \in X509Files => Tail(todo) \in X509Todos
  BY <1>3, X509Order DEF ReadTypes
<1>7. doc \in Tokens => Tail(todo) \in TokenTodos
  BY <1>3, TokenOrder DEF ReadTypes
<1>8. ReadTypes'
  BY <1>1, <1>3, <1>4, <1>5, <1>6, <1>7 DEF ReadTypes
<1>9. QED
  BY <1>1, <1>2, <1>5, <1>8

(* It leaves the invariant of the readers true if what it returns is right. *)
LEMMA FinishStep ==
    ASSUME ReadInv, todo # <<>>, NEW svid, Finish(svid),
           svid.ok =>
              /\ Head(todo) \in JWTCalls => JWTHeaders(doc)
              /\ Head(todo) \in WITCalls => WITHeaders(doc)
              /\ Head(todo) = "Parse" => ParsedFrom(svid)
    PROVE  ReadInv'
<1>1. /\ IDInv' /\ ReadTypes' /\ pc' = "idle" /\ UNCHANGED <<doc, backcompat>>
      /\ outcome'[Head(todo)] = svid
      /\ \A c \in DocCalls : c # Head(todo) => outcome'[c] = outcome[c]
  BY FinishFacts
<1>2. ReadTypes /\ RightKind /\ (outcome["Parse"].ok => ParsedFrom(outcome["Parse"]))
  BY DEF ReadInv
<1>3. /\ doc \in X509Files => Head(todo) \in {"Parse", "Reparse", "Verify"}
      /\ doc \in Tokens => Head(todo) \in JWTCalls \cup WITCalls
      /\ doc \in X509Files \cup Tokens
  BY <1>2, CurrentCall, Kinds
<1>4. /\ {"Parse", "Reparse", "Verify"} \subseteq DocCalls
      /\ JWTCalls \subseteq DocCalls /\ WITCalls \subseteq DocCalls
      /\ \A c \in JWTCalls \cup WITCalls : c \notin {"Parse", "Reparse", "Verify"}
      /\ \A c \in JWTCalls : c \notin WITCalls
  BY DEF DocCalls, JWTCalls, WITCalls
<1>5. ASSUME NEW c \in {"Parse", "Reparse", "Verify"}, outcome'[c].ok PROVE doc \in X509Files
  BY <1>1, <1>2, <1>3, <1>4, <1>5 DEF RightKind
<1>6. ASSUME NEW c \in JWTCalls, outcome'[c].ok PROVE doc \in Tokens /\ JWTHeaders(doc)
  BY <1>1, <1>2, <1>3, <1>4, <1>6 DEF RightKind
<1>7. ASSUME NEW c \in WITCalls, outcome'[c].ok PROVE doc \in Tokens /\ WITHeaders(doc)
  BY <1>1, <1>2, <1>3, <1>4, <1>7 DEF RightKind
<1>8. RightKind'
  BY <1>1, <1>5, <1>6, <1>7 DEF RightKind
<1>9. (outcome["Parse"].ok => ParsedFrom(outcome["Parse"]))'
  <2>1. CASE Head(todo) = "Parse"
    BY <1>1, <2>1, SVIDKept
  <2>2. CASE Head(todo) # "Parse"
    <3>1. outcome'["Parse"] = outcome["Parse"]
      BY <1>1, <1>4, <2>2
    <3>2. QED
      BY <1>1, <1>2, <3>1, SVIDKept
  <2>3. QED
    BY <2>1, <2>2
<1>10. QED
  BY <1>1, <1>8, <1>9 DEF ReadInv

(* A refusal returns no SVID. *)
LEMMA NoSVIDIsNone == NoSVID.ok = FALSE
BY DEF NoSVID

(* A call on a document comes to the ID in it. *)
LEMMA SubjectStep ==
    ASSUME ReadInv, X509Inv, TokenInv, pc = "idle", todo # <<>>, NEW t \in Text,
           FromStringBegins(TextCall("FromString", t)), UNCHANGED docVars,
           doc \in X509Files =>
              /\ Readable /\ t = Leaf.uris[1]
              /\ Head(todo) = "Parse" => BlocksParse(doc.keyFile, keyType)
              /\ Head(todo) = "Reparse" => outcome["Parse"].ok,
           doc \in Tokens =>
              /\ t = doc.sub
              /\ Head(todo) \in JWTCalls => JWTHeaders(doc)
              /\ Head(todo) \in WITCalls => WITHeaders(doc)
    PROVE  ReadInv' /\ X509Inv' /\ TokenInv'
<1>1. IDInv'
  BY FromStringCallStep DEF ReadInv
<1>2. call' = TextCall("FromString", t) /\ backcompat' = backcompat
  BY DEF FromStringBegins
<1>3. call'.fn = "FromString" /\ call'.text = t
  BY <1>2 DEF TextCall
<1>4. UNCHANGED <<doc, todo, outcome>>
  BY DEF docVars
<1>5. Reading'
  BY <1>3, <1>4 DEF Reading, Readable, Leaf
<1>6. QED
  BY <1>1, <1>2, <1>5, QuietStep

(* What Parse reads again is what it read. *)
LEMMA InputFacts ==
    ASSUME ReadInv, doc \in X509Files, Head(todo) = "Reparse" => outcome["Parse"].ok
    PROVE  /\ Certs = ParseCertificates(doc.certFile)
           /\ Key = ParsePrivateKey(doc.keyFile)
           /\ Head(todo) = "Reparse" =>
                 BlocksParse(Input.certFile, certType) /\ BlocksParse(Input.keyFile, keyType)
           /\ Head(todo) # "Reparse" =>
                 Input.certFile = doc.certFile /\ Input.keyFile = doc.keyFile
<1>1. CASE Head(todo) # "Reparse"
  <2>1. Input.certFile = doc.certFile /\ Input.keyFile = doc.keyFile
    BY <1>1 DEF Input
  <2>2. QED
    BY <1>1, <2>1 DEF Certs, Key
<1>2. CASE Head(todo) = "Reparse"
  <2> DEFINE certs == ParseCertificates(doc.certFile)
             key == ParsePrivateKey(doc.keyFile)
  <2>1. ParsedFrom(outcome["Parse"])
    BY <1>2 DEF ReadInv
  <2>2. outcome["Parse"].certs = certs /\ outcome["Parse"].key = key /\ certs # <<>>
    BY <2>1 DEF ParsedFrom, Readable
  <2>3. doc.certFile \in Seq(Blocks)
    BY DocumentTexts DEF ReadInv
  <2>4. PICK n \in Nat : certs = [k \in 1 .. n |-> certs[k]]
    BY <2>3, CertificatesOfFile
  <2> HIDE DEF certs, key
  <2>5. /\ ParseCertificates(EncodeCertificates(certs)) = certs
        /\ BlocksParse(EncodeCertificates(certs), certType)
    BY <2>2, <2>4, CertificatesRoundTrip
  <2>6. /\ ParsePrivateKey(EncodePKCS8PrivateKey(key)) = key
        /\ BlocksParse(EncodePKCS8PrivateKey(key), keyType)
    BY KeyRoundTrip
  <2>7. Input.certFile = EncodeCertificates(certs) /\ Input.keyFile = EncodePKCS8PrivateKey(key)
    BY <1>2, <2>2 DEF Input
  <2>8. QED
    BY <1>2, <2>5, <2>6, <2>7 DEF Certs, Key, certs, key
<1>3. QED
  BY <1>1, <1>2

(* Two well-formed IDs with the same text are the same. *)
LEMMA SameText ==
    ASSUME NEW x, NEW y, WellFormed(x), WellFormed(y), x.str = y.str
    PROVE  x = y
<1>1. /\ x.str \in Text /\ x.pathidx \in Nat /\ y.pathidx \in Nat
      /\ 4 <= x.pathidx /\ x.pathidx <= Len(x.str) /\ IsIDWithPathAt(x.str, x.pathidx)
      /\ 4 <= y.pathidx /\ y.pathidx <= Len(x.str) /\ IsIDWithPathAt(x.str, y.pathidx)
  BY DEF WellFormed, IDs, Text
<1>2. x.pathidx = y.pathidx
  BY <1>1, UniqueSplit
<1>3. QED
  BY <1>2 DEF WellFormed, IDs

(* What FromString has made of the ID in a document. *)
LEMMA ReturnedFacts ==
    ASSUME ReadInv, doc # NoDoc, pc = "returned"
    PROVE  /\ Reading
           /\ ok <=> IsID(call.text)
           /\ ok => WellFormed(id) /\ id.str = call.text
<1>1. Reading /\ Outcome /\ call.fn = "FromString"
  BY DEF ReadInv, IDInv, Reading
<1>2. ok <=> IsID(call.text)
  BY <1>1 DEF Outcome, AcceptsTheGrammar, PathCalls
<1>3. QED
  BY <1>1, <1>2 DEF Outcome

(* A call on an X509-SVID ends. *)
LEMMA X509FinishStep ==
    ASSUME ReadInv, X509Inv, doc \in X509Files, todo # <<>>, NEW svid, Finish(svid),
           Head(todo) = "Parse" => (svid.ok => ParsedFrom(svid)),
           Head(todo) = "Reparse" => (outcome["Parse"].ok => svid = outcome["Parse"]),
           Head(todo) = "Verify" =>
              /\ svid.ok => TrustDomain(svid.id) \in doc.roots \cap Bundled
              /\ outcome["Parse"].ok =>
                    /\ svid.ok <=> /\ TrustDomain(outcome["Parse"].id) \in Bundled
                                   /\ TrustDomain(outcome["Parse"].id) \in doc.roots
                    /\ svid.ok => svid.id = outcome["Parse"].id
    PROVE  ReadInv' /\ X509Inv' /\ TokenInv'
<1>1. ReadTypes /\ todo \in X509Todos /\ doc \notin Tokens
  BY Kinds DEF ReadInv, ReadTypes
<1>2. /\ UNCHANGED <<doc, backcompat>> /\ todo' = Tail(todo) /\ outcome'[Head(todo)] = svid
      /\ \A c \in {"Parse", "Reparse", "Verify"} : c # Head(todo) => outcome'[c] = outcome[c]
  BY FinishFacts DEF DocCalls
<1>3. ReadInv'
  <2>1. Head(todo) \notin JWTCalls /\ Head(todo) \notin WITCalls
    BY <1>1, X509Order DEF JWTCalls, WITCalls
  <2>2. QED
    BY <2>1, FinishStep
<1>4. TokenInv'
  BY <1>1, <1>2 DEF TokenInv
<1>5. X509Inv'
  <2>1. CASE Head(todo) = "Parse"
    <3>1. Range(todo') = {"Reparse", "Verify"}
      BY <1>1, <1>2, <2>1, X509Order
    <3>2. outcome'["Verify"] = outcome["Verify"]
      BY <1>2, <2>1
    <3>3. QED
      BY <1>2, <3>1, <3>2 DEF X509Inv
  <2>2. CASE Head(todo) = "Reparse"
    <3>1. Range(todo') = {"Verify"}
      BY <1>1, <1>2, <2>2, X509Order
    <3>2. /\ outcome'["Verify"] = outcome["Verify"] /\ outcome'["Parse"] = outcome["Parse"]
          /\ outcome'["Reparse"] = svid
      BY <1>2, <2>2
    <3>3. QED
      BY <1>2, <2>2, <3>1, <3>2 DEF X509Inv
  <2>3. CASE Head(todo) = "Verify"
    <3>1. "Reparse" \notin Range(todo)
      BY <1>1, <2>3, X509Order
    <3>2. /\ outcome'["Reparse"] = outcome["Reparse"] /\ outcome'["Parse"] = outcome["Parse"]
          /\ outcome'["Verify"] = svid
      BY <1>2, <2>3
    <3>3. QED
      BY <1>2, <2>3, <3>1, <3>2 DEF X509Inv
  <2>4. QED
    BY <1>1, <2>1, <2>2, <2>3, X509Order
<1>6. QED
  BY <1>3, <1>4, <1>5

(* Parse begins, of the document or of what Marshal made of its SVID. *)
LEMMA ParseX509BeginsStep ==
    ASSUME ReadInv, X509Inv, TokenInv, ParseX509Begins
    PROVE  ReadInv' /\ X509Inv' /\ TokenInv'
<1> DEFINE good == /\ Head(todo) = "Reparse" => outcome["Parse"].ok
                   /\ BlocksParse(Input.certFile, certType)
                   /\ BlocksParse(Input.keyFile, keyType)
                   /\ Certs # <<>>
<1>1. /\ doc.kind = "x509" /\ todo # <<>> /\ Head(todo) \in {"Parse", "Reparse"} /\ pc = "idle"
      /\ IF good THEN IDFromCertBegins(Certs[1]) ELSE Finish(NoSVID)
  BY DEF ParseX509Begins
<1>2. ReadTypes /\ doc \in X509Files /\ doc \notin Tokens
  BY <1>1, Kinds DEF ReadInv
<1>3. ASSUME outcome["Parse"].ok PROVE ParsedFrom(outcome["Parse"]) /\ Readable
  BY <1>3 DEF ReadInv, ParsedFrom
<1>4. CASE good
  <2>1. /\ Certs = ParseCertificates(doc.certFile)
        /\ Head(todo) # "Reparse" =>
              Input.certFile = doc.certFile /\ Input.keyFile = doc.keyFile
    BY <1>2, <1>4, InputFacts
  <2>2. Certs[1] = Leaf /\ Certs # <<>> /\ (Head(todo) = "Reparse" => outcome["Parse"].ok)
    BY <1>4, <2>1 DEF Leaf
  <2>3. CASE Len(Leaf.uris) = 1
    <3>1. FromStringBegins(TextCall("FromString", Leaf.uris[1])) /\ UNCHANGED docVars
      BY <1>1, <1>4, <2>2, <2>3 DEF IDFromCertBegins
    <3>2. Readable
      <4>1. CASE Head(todo) = "Reparse"
        BY <1>3, <2>2, <4>1
      <4>2. CASE Head(todo) # "Reparse"
        BY <1>4, <2>1, <2>2, <2>3, <4>2 DEF Readable
      <4>3. QED
        BY <4>1, <4>2
    <3>3. Head(todo) = "Parse" => BlocksParse(doc.keyFile, keyType)
      BY <1>4, <2>1
    <3>4. Leaf.uris[1] \in Text
      BY <1>2, <3>2, DocumentTexts
    <3>5. QED
      BY <1>1, <1>2, <2>2, <3>1, <3>2, <3>3, <3>4, SubjectStep
  <2>4. CASE Len(Leaf.uris) # 1
    <3>1. Finish(NoSVID)
      BY <1>1, <1>4, <2>2, <2>4 DEF IDFromCertBegins
    <3>2. ~(Head(todo) = "Reparse" /\ outcome["Parse"].ok)
      BY <1>3, <2>4 DEF Readable
    <3>3. QED
      BY <1>1, <1>2, <3>1, <3>2, NoSVIDIsNone, X509FinishStep
  <2>5. QED
    BY <2>3, <2>4
<1>5. CASE ~good
  <2>1. Finish(NoSVID)
    BY <1>1, <1>5
  <2>2. ~(Head(todo) = "Reparse" /\ outcome["Parse"].ok)
    <3>1. SUFFICES ASSUME Head(todo) = "Reparse", outcome["Parse"].ok PROVE FALSE
      OBVIOUS
    <3>2. /\ Certs = ParseCertificates(doc.certFile)
          /\ BlocksParse(Input.certFile, certType) /\ BlocksParse(Input.keyFile, keyType)
      BY <1>2, <3>1, InputFacts
    <3>3. QED
      BY <1>3, <1>5, <3>1, <3>2 DEF Readable
  <2>3. QED
    BY <1>1, <1>2, <2>1, <2>2, NoSVIDIsNone, X509FinishStep
<1>6. QED
  BY <1>4, <1>5

(* Parse ends. *)
LEMMA ParseX509EndsStep ==
    ASSUME ReadInv, X509Inv, TokenInv, ParseX509Ends
    PROVE  ReadInv' /\ X509Inv' /\ TokenInv'
<1> DEFINE certs == ParseCertificates(doc.certFile)
           key == ParsePrivateKey(doc.keyFile)
           good == /\ ok
                   /\ validateLeafCertificate(Leaf, id)
                   /\ validateSigningCertificates(Tail(certs))
                   /\ validatePrivateKey(key, Leaf)
           svid == [ok |-> TRUE, id |-> id, certs |-> certs, key |-> key]
<1>1. doc.kind = "x509" /\ todo # <<>> /\ Head(todo) \in {"Parse", "Reparse"} /\ pc = "returned"
  BY DEF ParseX509Ends
<1>2. ReadTypes /\ doc \in X509Files /\ doc \notin Tokens /\ doc # NoDoc
  BY <1>1, Kinds DEF ReadInv
<1>3. /\ Reading /\ (ok <=> IsID(call.text)) /\ (ok => WellFormed(id) /\ id.str = call.text)
  BY <1>1, <1>2, ReturnedFacts
<1>4. /\ Readable /\ call.text = Leaf.uris[1]
      /\ Head(todo) = "Parse" => BlocksParse(doc.keyFile, keyType)
      /\ Head(todo) = "Reparse" => outcome["Parse"].ok
  BY <1>2, <1>3 DEF Reading
<1>5. Certs = certs /\ Key = key /\ Certs[1] = Leaf
  BY <1>2, <1>4, InputFacts DEF Leaf
<1>6. IF good THEN Finish(svid) ELSE Finish(NoSVID)
  BY <1>5 DEF ParseX509Ends
<1>7. svid.ok = TRUE /\ svid.id = id /\ svid.certs = certs /\ svid.key = key
  OBVIOUS
<1>8. CASE Head(todo) = "Parse"
  <2>1. good => ParsedFrom(svid)
    BY <1>3, <1>4, <1>7, <1>8 DEF ParsedFrom
  <2> HIDE DEF svid, good
  <2>2. QED
    BY <1>1, <1>2, <1>6, <1>8, <2>1, NoSVIDIsNone, X509FinishStep
<1>9. CASE Head(todo) = "Reparse"
  <2> DEFINE parsed == outcome["Parse"]
  <2>1. ParsedFrom(parsed)
    BY <1>4, <1>9 DEF ReadInv
  <2>2. /\ WellFormed(parsed.id) /\ parsed.id.str = Leaf.uris[1]
        /\ parsed.certs = certs /\ parsed.key = key
        /\ parsed = [ok |-> TRUE, id |-> parsed.id, certs |-> parsed.certs, key |-> parsed.key]
        /\ validateLeafCertificate(Leaf, parsed.id)
        /\ validateSigningCertificates(Tail(parsed.certs))
        /\ validatePrivateKey(parsed.key, Leaf)
    BY <2>1 DEF ParsedFrom
  <2>3. ok
    BY <1>3, <1>4, <2>2, WellFormedParts
  <2>4. id = parsed.id
    BY <1>3, <1>4, <2>2, <2>3, SameText
  <2>5. good /\ svid = parsed
    BY <2>2, <2>3, <2>4
  <2> HIDE DEF svid, good, parsed
  <2>6. QED
    BY <1>1, <1>2, <1>6, <1>9, <2>5, X509FinishStep DEF parsed
<1>10. QED
  BY <1>1, <1>8, <1>9

(* ParseAndVerify begins. *)
LEMMA VerifyBeginsStep ==
    ASSUME ReadInv, X509Inv, TokenInv, VerifyBegins
    PROVE  ReadInv' /\ X509Inv' /\ TokenInv'
<1> DEFINE good == BlocksParse(doc.certFile, certType) /\ Certs # <<>>
<1>1. /\ doc.kind = "x509" /\ todo # <<>> /\ Head(todo) = "Verify" /\ pc = "idle"
      /\ IF good THEN IDFromCertBegins(Certs[1]) ELSE Finish(NoSVID)
  BY DEF VerifyBegins
<1>2. ReadTypes /\ doc \in X509Files /\ doc \notin Tokens
  BY <1>1, Kinds DEF ReadInv
<1>3. outcome["Parse"].ok => Readable
  BY DEF ReadInv, ParsedFrom
<1>4. Certs = ParseCertificates(doc.certFile) /\ Certs[1] = Leaf
  BY <1>1, <1>2, InputFacts DEF Leaf
<1>5. CASE good /\ Len(Leaf.uris) = 1
  <2>1. FromStringBegins(TextCall("FromString", Leaf.uris[1])) /\ UNCHANGED docVars
    BY <1>1, <1>4, <1>5 DEF IDFromCertBegins
  <2>2. Readable
    BY <1>4, <1>5 DEF Readable
  <2>3. Leaf.uris[1] \in Text
    BY <1>2, <2>2, DocumentTexts
  <2>4. QED
    BY <1>1, <1>2, <2>1, <2>2, <2>3, SubjectStep
<1>6. CASE ~(good /\ Len(Leaf.uris) = 1)
  <2>1. Finish(NoSVID)
    BY <1>1, <1>4, <1>6 DEF IDFromCertBegins
  <2>2. ~outcome["Parse"].ok
    BY <1>3, <1>4, <1>6 DEF Readable
  <2>3. QED
    BY <1>1, <1>2, <2>1, <2>2, NoSVIDIsNone, X509FinishStep
<1>7. QED
  BY <1>5, <1>6

(* ParseAndVerify ends. *)
LEMMA VerifyEndsStep ==
    ASSUME ReadInv, X509Inv, TokenInv, VerifyEnds
    PROVE  ReadInv' /\ X509Inv' /\ TokenInv'
<1> DEFINE good == /\ ok
                   /\ ~Leaf.isCA
                   /\ {"keyCertSign", "cRLSign"} \cap Leaf.keyUsage = {}
                   /\ HasBundle(TrustDomain(id))
                   /\ ChainsTo(doc, TrustDomain(id))
           svid == [NoSVID EXCEPT !.ok = TRUE, !.id = id]
           parsed == outcome["Parse"]
<1>1. doc.kind = "x509" /\ todo # <<>> /\ Head(todo) = "Verify" /\ pc = "returned"
  BY DEF VerifyEnds
<1>2. ReadTypes /\ doc \in X509Files /\ doc \notin Tokens /\ doc # NoDoc
  BY <1>1, Kinds DEF ReadInv
<1>3. /\ Reading /\ (ok <=> IsID(call.text)) /\ (ok => WellFormed(id) /\ id.str = call.text)
  BY <1>1, <1>2, ReturnedFacts
<1>4. Readable /\ call.text = Leaf.uris[1]
  BY <1>2, <1>3 DEF Reading
<1>5. Certs[1] = Leaf
  BY <1>1, <1>2, InputFacts DEF Leaf
<1>6. IF good THEN Finish(svid) ELSE Finish(NoSVID)
  BY <1>5 DEF VerifyEnds
<1>7. svid.ok = TRUE /\ svid.id = id
  BY DEF NoSVID
<1>8. good => TrustDomain(id) \in doc.roots \cap Bundled
  BY DEF HasBundle, ChainsTo
<1>9. ASSUME parsed.ok
      PROVE  /\ id = parsed.id
             /\ good <=> /\ TrustDomain(parsed.id) \in Bundled
                         /\ TrustDomain(parsed.id) \in doc.roots
  <2>1. ParsedFrom(parsed)
    BY <1>9 DEF ReadInv
  <2>2. /\ WellFormed(parsed.id) /\ parsed.id.str = Leaf.uris[1]
        /\ validateLeafCertificate(Leaf, parsed.id)
    BY <2>1 DEF ParsedFrom
  <2>3. ok
    BY <1>3, <1>4, <2>2, WellFormedParts
  <2>4. id = parsed.id
    BY <1>3, <1>4, <2>2, <2>3, SameText
  <2>5. ~Leaf.isCA /\ {"keyCertSign", "cRLSign"} \cap Leaf.keyUsage = {}
    BY <2>2 DEF validateLeafCertificate, validateKeyUsage
  <2>6. QED
    BY <2>3, <2>4, <2>5 DEF HasBundle, ChainsTo
<1> HIDE DEF svid, good, parsed
<1>10. CASE good
  BY <1>1, <1>2, <1>6, <1>7, <1>8, <1>9, <1>10, X509FinishStep DEF parsed
<1>11. CASE ~good
  BY <1>1, <1>2, <1>6, <1>9, <1>11, NoSVIDIsNone, X509FinishStep DEF parsed
<1>12. QED
  BY <1>10, <1>11

(* The kind of token that a call is about. *)
KindOf(c) ==
    IF c \in JWTCalls
    THEN [insecure |-> "jwt.ParseInsecure", secure |-> "jwt.ParseAndValidate", use |-> "jwt-svid"]
    ELSE [insecure |-> "wit.ParseInsecure", secure |-> "wit.ParseAndValidate", use |-> "wit-svid"]

(* What a call on a token must return. *)
RightSVID(c, svid) ==
    LET t == KindOf(c) IN
    /\ c = t.insecure =>
          /\ svid.ok <=> AcceptableToken(t)
          /\ svid.ok => WellFormed(svid.id) /\ svid.id.str = doc.sub
    /\ c = t.secure =>
          /\ svid.ok <=>
                /\ AcceptableToken(t)
                /\ SignatureVerified(doc, TrustDomain(outcome[t.insecure].id), t.use)
          /\ svid.ok => svid.id = outcome[t.insecure].id

(* A call on a token ends. *)
LEMMA TokenFinishStep ==
    ASSUME ReadInv, X509Inv, TokenInv, doc \in Tokens, todo # <<>>, NEW svid, Finish(svid),
           RightSVID(Head(todo), svid)
    PROVE  ReadInv' /\ X509Inv' /\ TokenInv'
<1> DEFINE jwt == [insecure |-> "jwt.ParseInsecure", secure |-> "jwt.ParseAndValidate",
                   use |-> "jwt-svid"]
           wit == [insecure |-> "wit.ParseInsecure", secure |-> "wit.ParseAndValidate",
                   use |-> "wit-svid"]
           h == Head(todo)
<1>1. ReadTypes /\ todo \in TokenTodos /\ doc \notin X509Files
  BY Kinds DEF ReadInv, ReadTypes
<1>2. /\ UNCHANGED <<doc, backcompat>> /\ todo' = Tail(todo) /\ outcome'[h] = svid
      /\ \A c \in DocCalls : c # h => outcome'[c] = outcome[c]
  BY FinishFacts
<1>3. TokenKinds = {jwt, wit}
  BY DEF TokenKinds
<1>4. /\ jwt.insecure = "jwt.ParseInsecure" /\ jwt.secure = "jwt.ParseAndValidate"
      /\ jwt.use = "jwt-svid"
      /\ wit.insecure = "wit.ParseInsecure" /\ wit.secure = "wit.ParseAndValidate"
      /\ wit.use = "wit-svid"
  OBVIOUS
<1>5. KindOf(h) = IF h \in JWTCalls THEN jwt ELSE wit
  BY DEF KindOf
<1> HIDE DEF jwt, wit
<1>6. TokenKindInv(jwt) /\ TokenKindInv(wit)
  BY <1>3 DEF TokenInv
<1>7. \/ h = "jwt.ParseInsecure" /\ Range(Tail(todo)) = {"jwt.ParseAndValidate"} \cup WITCalls
      \/ h = "jwt.ParseAndValidate" /\ Range(Tail(todo)) = WITCalls
      \/ h = "wit.ParseInsecure" /\ Range(Tail(todo)) = {"wit.ParseAndValidate"}
      \/ h = "wit.ParseAndValidate" /\ Range(Tail(todo)) = {}
  BY <1>1, TokenOrder
<1>8. Range(todo) = {h} \cup Range(Tail(todo))
  BY <1>1, TokenOrder
<1> HIDE DEF h
<1>9. svid.ok => AcceptableToken(KindOf(h))
  BY <1>4, <1>5, <1>7 DEF RightSVID, JWTCalls, h
<1>10. ReadInv'
  <2>1. svid.ok => (h \in JWTCalls => JWTHeaders(doc)) /\ (h \in WITCalls => WITHeaders(doc))
    BY <1>4, <1>5, <1>9 DEF AcceptableToken, JWTCalls, WITCalls
  <2>2. h # "Parse"
    BY <1>7
  <2>3. QED
    BY <2>1, <2>2, FinishStep DEF h
<1>11. \A c \in {"Parse", "Reparse", "Verify"} : outcome'[c] = outcome[c]
  BY <1>2, <1>7 DEF DocCalls
<1>12. X509Inv'
  <2>1. ~outcome["Parse"].ok /\ ~outcome["Verify"].ok
    BY <1>1 DEF ReadInv, RightKind
  <2>2. QED
    BY <1>11, <2>1 DEF X509Inv
<1>13. (AcceptableToken(jwt)' <=> AcceptableToken(jwt))
         /\ (AcceptableToken(wit)' <=> AcceptableToken(wit))
  BY <1>2, AcceptableKept
<1>14. TokenKindInv(jwt)'
  <2>1. CASE h = "jwt.ParseInsecure"
    <3>1. jwt.secure \in Range(todo')
      BY <1>2, <1>4, <1>7, <2>1
    <3>2. outcome'[jwt.insecure] = svid
      BY <1>2, <1>4, <2>1
    <3>3. /\ svid.ok <=> AcceptableToken(jwt)
          /\ svid.ok => WellFormed(svid.id) /\ svid.id.str = doc.sub
      BY <1>4, <1>5, <2>1 DEF RightSVID, h, JWTCalls
    <3>4. WellFormed(outcome[jwt.insecure].id)' <=> WellFormed(svid.id)
      BY <1>2, <3>2, SVIDKept
    <3>5. QED
      BY <1>2, <1>13, <3>1, <3>2, <3>3, <3>4 DEF TokenKindInv
  <2>2. CASE h = "jwt.ParseAndValidate"
    <3>1. jwt.insecure \notin Range(todo)
      BY <1>4, <1>7, <1>8, <2>2 DEF WITCalls
    <3>2. outcome'[jwt.secure] = svid /\ outcome'[jwt.insecure] = outcome[jwt.insecure]
      BY <1>2, <1>4, <2>2 DEF DocCalls, JWTCalls
    <3>3. /\ svid.ok <=> /\ AcceptableToken(jwt)
                         /\ SignatureVerified(doc, TrustDomain(outcome[jwt.insecure].id), jwt.use)
          /\ svid.ok => svid.id = outcome[jwt.insecure].id
      BY <1>4, <1>5, <2>2 DEF RightSVID, h, JWTCalls
    <3>4. WellFormed(outcome[jwt.insecure].id)' <=> WellFormed(outcome[jwt.insecure].id)
      BY <1>2, <3>2, SVIDKept
    <3>5. SignatureVerified(doc, TrustDomain(outcome[jwt.insecure].id), jwt.use)'
            <=> SignatureVerified(doc, TrustDomain(outcome[jwt.insecure].id), jwt.use)
      BY <1>2, <3>2 DEF SignatureVerified
    <3>6. QED
      BY <1>2, <1>6, <1>13, <3>1, <3>2, <3>3, <3>4, <3>5 DEF TokenKindInv
  <2>3. CASE h \in WITCalls
    <3>1. /\ outcome'[jwt.insecure] = outcome[jwt.insecure]
          /\ outcome'[jwt.secure] = outcome[jwt.secure]
      BY <1>2, <1>4, <2>3 DEF DocCalls, JWTCalls, WITCalls
    <3>2. jwt.insecure \notin Range(todo) /\ jwt.secure \notin Range(todo)
      BY <1>4, <1>7, <1>8, <2>3 DEF WITCalls
    <3>3. QED
      BY <1>2, <1>6, <3>1, <3>2, TokenKindKept
  <2>4. QED
    BY <1>7, <2>1, <2>2, <2>3 DEF WITCalls
<1>15. TokenKindInv(wit)'
  <2>1. CASE h = "wit.ParseInsecure"
    <3>1. wit.secure \in Range(todo')
      BY <1>2, <1>4, <1>7, <2>1
    <3>2. outcome'[wit.insecure] = svid
      BY <1>2, <1>4, <2>1
    <3>3. /\ svid.ok <=> AcceptableToken(wit)
          /\ svid.ok => WellFormed(svid.id) /\ svid.id.str = doc.sub
      BY <1>4, <1>5, <2>1 DEF RightSVID, h, JWTCalls
    <3>4. WellFormed(outcome[wit.insecure].id)' <=> WellFormed(svid.id)
      BY <1>2, <3>2, SVIDKept
    <3>5. QED
      BY <1>2, <1>13, <3>1, <3>2, <3>3, <3>4 DEF TokenKindInv
  <2>2. CASE h = "wit.ParseAndValidate"
    <3>1. wit.insecure \notin Range(todo)
      BY <1>4, <1>7, <1>8, <2>2
    <3>2. outcome'[wit.secure] = svid /\ outcome'[wit.insecure] = outcome[wit.insecure]
      BY <1>2, <1>4, <2>2 DEF DocCalls, WITCalls
    <3>3. /\ svid.ok <=> /\ AcceptableToken(wit)
                         /\ SignatureVerified(doc, TrustDomain(outcome[wit.insecure].id), wit.use)
          /\ svid.ok => svid.id = outcome[wit.insecure].id
      BY <1>4, <1>5, <2>2 DEF RightSVID, h, JWTCalls
    <3>4. WellFormed(outcome[wit.insecure].id)' <=> WellFormed(outcome[wit.insecure].id)
      BY <1>2, <3>2, SVIDKept
    <3>5. SignatureVerified(doc, TrustDomain(outcome[wit.insecure].id), wit.use)'
            <=> SignatureVerified(doc, TrustDomain(outcome[wit.insecure].id), wit.use)
      BY <1>2, <3>2 DEF SignatureVerified
    <3>6. QED
      BY <1>2, <1>6, <1>13, <3>1, <3>2, <3>3, <3>4, <3>5 DEF TokenKindInv
  <2>3. CASE h \in JWTCalls
    <3>1. /\ outcome'[wit.insecure] = outcome[wit.insecure]
          /\ outcome'[wit.secure] = outcome[wit.secure]
      BY <1>2, <1>4, <2>3 DEF DocCalls, JWTCalls, WITCalls
    <3>2. wit.insecure \in Range(todo') /\ wit.secure \in Range(todo')
      BY <1>2, <1>4, <1>7, <2>3 DEF WITCalls, JWTCalls
    <3>3. QED
      BY <1>2, <1>6, <3>1, <3>2, TokenKindKept
  <2>4. QED
    BY <1>7, <2>1, <2>2, <2>3 DEF JWTCalls
<1>16. TokenInv'
  BY <1>3, <1>14, <1>15 DEF TokenInv
<1>17. QED
  BY <1>10, <1>12, <1>16

(* What is known of the kind of the current call on a token. *)
LEMMA CurrentKind ==
    ASSUME ReadInv, TokenInv, doc \in Tokens, todo # <<>>, NEW t, t = KindOf(Head(todo))
    PROVE  /\ t \in TokenKinds
           /\ Head(todo) \in {t.insecure, t.secure} /\ t.insecure # t.secure
           /\ Head(todo) \in JWTCalls =>
                 t.use = "jwt-svid" /\ t.secure = "jwt.ParseAndValidate"
           /\ Head(todo) \in WITCalls =>
                 t.use = "wit-svid" /\ t.secure = "wit.ParseAndValidate"
           /\ Head(todo) = t.secure /\ AcceptableToken(t) =>
                 WellFormed(outcome[t.insecure].id) /\ outcome[t.insecure].id.str = doc.sub
<1> DEFINE h == Head(todo)
<1>1. ReadTypes /\ todo \in TokenTodos
  BY DEF ReadInv, ReadTypes
<1>2. \/ h = "jwt.ParseInsecure" /\ Range(Tail(todo)) = {"jwt.ParseAndValidate"} \cup WITCalls
      \/ h = "jwt.ParseAndValidate" /\ Range(Tail(todo)) = WITCalls
      \/ h = "wit.ParseInsecure" /\ Range(Tail(todo)) = {"wit.ParseAndValidate"}
      \/ h = "wit.ParseAndValidate" /\ Range(Tail(todo)) = {}
  BY <1>1, TokenOrder
<1>3. Range(todo) = {h} \cup Range(Tail(todo))
  BY <1>1, TokenOrder
<1> HIDE DEF h
<1>4. t \in TokenKinds
  BY DEF KindOf, TokenKinds
<1>5. /\ h \in JWTCalls => /\ t.insecure = "jwt.ParseInsecure"
                           /\ t.secure = "jwt.ParseAndValidate" /\ t.use = "jwt-svid"
      /\ h \notin JWTCalls => /\ t.insecure = "wit.ParseInsecure"
                              /\ t.secure = "wit.ParseAndValidate" /\ t.use = "wit-svid"
  BY DEF KindOf, h
<1>6. h \in JWTCalls <=> h \in {"jwt.ParseInsecure", "jwt.ParseAndValidate"}
  BY DEF JWTCalls
<1>7. h \in WITCalls <=> h \in {"wit.ParseInsecure", "wit.ParseAndValidate"}
  BY DEF WITCalls
<1>8. h = t.secure => t.insecure \notin Range(todo)
  BY <1>2, <1>3, <1>5, <1>6 DEF WITCalls
<1>9. TokenKindInv(t)
  BY <1>4 DEF TokenInv
<1>10. h = t.secure /\ AcceptableToken(t) =>
          WellFormed(outcome[t.insecure].id) /\ outcome[t.insecure].id.str = doc.sub
  BY <1>8, <1>9 DEF TokenKindInv
<1>11. h \in {t.insecure, t.secure} /\ t.insecure # t.secure
  BY <1>2, <1>5, <1>6
<1>12. QED
  BY <1>2, <1>4, <1>5, <1>6, <1>7, <1>10, <1>11 DEF h

(* A refusal of a token that is not acceptable is right. *)
LEMMA TokenRefusedStep ==
    ASSUME ReadInv, X509Inv, TokenInv, doc \in Tokens, todo # <<>>, Finish(NoSVID),
           ~AcceptableToken(KindOf(Head(todo)))
    PROVE  ReadInv' /\ X509Inv' /\ TokenInv'
<1>1. RightSVID(Head(todo), NoSVID)
  BY NoSVIDIsNone DEF RightSVID
<1>2. QED
  BY <1>1, TokenFinishStep

(* The answer to a token whose ID was parsed is right. *)
LEMMA TokenAnsweredStep ==
    ASSUME ReadInv, X509Inv, TokenInv, doc \in Tokens, todo # <<>>, pc = "returned",
           NEW t, t = KindOf(Head(todo)), NEW svid, Finish(svid),
           svid.ok <=> /\ AcceptableToken(t)
                       /\ Head(todo) = t.secure =>
                             SignatureVerified(doc, TrustDomain(id), t.use),
           svid.ok => svid.id = id, AcceptableToken(t) => ok
    PROVE  ReadInv' /\ X509Inv' /\ TokenInv'
<1>1. doc # NoDoc
  BY Kinds DEF ReadInv
<1>2. Reading /\ (ok => WellFormed(id) /\ id.str = call.text)
  BY <1>1, ReturnedFacts
<1>3. ok => WellFormed(id) /\ id.str = doc.sub
  BY <1>2 DEF Reading
<1>4. /\ t.insecure # t.secure
      /\ Head(todo) = t.secure /\ AcceptableToken(t) =>
            WellFormed(outcome[t.insecure].id) /\ outcome[t.insecure].id.str = doc.sub
  BY CurrentKind
<1>5. Head(todo) = t.secure /\ AcceptableToken(t) => id = outcome[t.insecure].id
  BY <1>3, <1>4, SameText
<1>6. Head(todo) = t.insecure =>
         /\ svid.ok <=> AcceptableToken(t)
         /\ svid.ok => WellFormed(svid.id) /\ svid.id.str = doc.sub
  BY <1>3, <1>4
<1>7. Head(todo) = t.secure =>
         /\ svid.ok <=> /\ AcceptableToken(t)
                        /\ SignatureVerified(doc, TrustDomain(outcome[t.insecure].id), t.use)
         /\ svid.ok => svid.id = outcome[t.insecure].id
  BY <1>5
<1>8. RightSVID(Head(todo), svid)
  BY <1>6, <1>7 DEF RightSVID
<1>9. QED
  BY <1>8, TokenFinishStep

(* parse of jwtsvid begins. *)
LEMMA ParseJWTBeginsStep ==
    ASSUME ReadInv, X509Inv, TokenInv, ParseJWTBegins
    PROVE  ReadInv' /\ X509Inv' /\ TokenInv'
<1>1. /\ doc.kind = "token" /\ todo # <<>> /\ Head(todo) \in JWTCalls /\ pc = "idle"
      /\ IF JWTHeaders(doc) THEN Subject(doc) /\ UNCHANGED docVars ELSE Finish(NoSVID)
  BY DEF ParseJWTBegins, JWTHeaders
<1>2. doc \in Tokens /\ doc \notin X509Files /\ doc.sub \in Text /\ Head(todo) \notin WITCalls
  BY <1>1, Kinds, DocumentTexts DEF ReadInv, JWTCalls, WITCalls
<1>3. CASE JWTHeaders(doc)
  <2>1. FromStringBegins(TextCall("FromString", doc.sub)) /\ UNCHANGED docVars
    BY <1>1, <1>3 DEF Subject
  <2>2. QED
    BY <1>1, <1>2, <1>3, <2>1, SubjectStep
<1>4. CASE ~JWTHeaders(doc)
  <2>1. KindOf(Head(todo)).use = "jwt-svid"
    BY <1>1, <1>2, CurrentKind
  <2>2. ~AcceptableToken(KindOf(Head(todo)))
    BY <1>4, <2>1 DEF AcceptableToken
  <2>3. QED
    BY <1>1, <1>2, <1>4, <2>2, TokenRefusedStep
<1>5. QED
  BY <1>3, <1>4

(* parse of jwtsvid ends. *)
LEMMA ParseJWTEndsStep ==
    ASSUME ReadInv, X509Inv, TokenInv, ParseJWTEnds
    PROVE  ReadInv' /\ X509Inv' /\ TokenInv'
<1> DEFINE t == KindOf(Head(todo))
           good == /\ ok
                   /\ Head(todo) = "jwt.ParseAndValidate" =>
                         SignatureVerified(doc, TrustDomain(id), "jwt-svid")
                   /\ ClaimsValid(doc, doc.audience)
           svid == [NoSVID EXCEPT !.ok = TRUE, !.id = id]
<1>1. /\ doc.kind = "token" /\ todo # <<>> /\ Head(todo) \in JWTCalls /\ pc = "returned"
      /\ IF good THEN Finish(svid) ELSE Finish(NoSVID)
  BY DEF ParseJWTEnds
<1>2. doc \in Tokens /\ doc # NoDoc
  BY <1>1, Kinds DEF ReadInv
<1>3. t.use = "jwt-svid" /\ t.secure = "jwt.ParseAndValidate"
  BY <1>1, <1>2, CurrentKind
<1>4. Reading /\ (ok <=> IsID(call.text))
  BY <1>1, <1>2, ReturnedFacts
<1>5. JWTHeaders(doc) /\ (ok <=> IsID(doc.sub))
  BY <1>1, <1>2, <1>4 DEF Reading
<1>6. AcceptableToken(t) <=> ok /\ ClaimsValid(doc, doc.audience)
  BY <1>3, <1>5 DEF AcceptableToken
<1>7. svid.ok = TRUE /\ svid.id = id
  BY DEF NoSVID
<1>8. good <=> /\ AcceptableToken(t)
               /\ Head(todo) = t.secure => SignatureVerified(doc, TrustDomain(id), t.use)
  BY <1>3, <1>6
<1> HIDE DEF t, good, svid
<1>9. CASE good
  BY <1>1, <1>2, <1>6, <1>7, <1>8, <1>9, TokenAnsweredStep DEF t
<1>10. CASE ~good
  BY <1>1, <1>2, <1>6, <1>8, <1>10, NoSVIDIsNone, TokenAnsweredStep DEF t
<1>11. QED
  BY <1>9, <1>10

(* parse of witsvid begins. *)
LEMMA ParseWITBeginsStep ==
    ASSUME ReadInv, X509Inv, TokenInv, ParseWITBegins
    PROVE  ReadInv' /\ X509Inv' /\ TokenInv'
<1>1. /\ doc.kind = "token" /\ todo # <<>> /\ Head(todo) \in WITCalls /\ pc = "idle"
      /\ IF WITHeaders(doc) THEN Subject(doc) /\ UNCHANGED docVars ELSE Finish(NoSVID)
  BY DEF ParseWITBegins, WITHeaders
<1>2. doc \in Tokens /\ doc \notin X509Files /\ doc.sub \in Text /\ Head(todo) \notin JWTCalls
  BY <1>1, Kinds, DocumentTexts DEF ReadInv, JWTCalls, WITCalls
<1>3. CASE WITHeaders(doc)
  <2>1. FromStringBegins(TextCall("FromString", doc.sub)) /\ UNCHANGED docVars
    BY <1>1, <1>3 DEF Subject
  <2>2. QED
    BY <1>1, <1>2, <1>3, <2>1, SubjectStep
<1>4. CASE ~WITHeaders(doc)
  <2>1. KindOf(Head(todo)).use = "wit-svid"
    BY <1>1, <1>2, CurrentKind
  <2>2. ~AcceptableToken(KindOf(Head(todo)))
    BY <1>4, <2>1 DEF AcceptableToken
  <2>3. QED
    BY <1>1, <1>2, <1>4, <2>2, TokenRefusedStep
<1>5. QED
  BY <1>3, <1>4

(* parse of witsvid ends. *)
LEMMA ParseWITEndsStep ==
    ASSUME ReadInv, X509Inv, TokenInv, ParseWITEnds
    PROVE  ReadInv' /\ X509Inv' /\ TokenInv'
<1> DEFINE t == KindOf(Head(todo))
           good == /\ ok
                   /\ extractCnfJWK(doc)
                   /\ ClaimsValid(doc, {})
                   /\ Head(todo) = "wit.ParseAndValidate" =>
                         SignatureVerified(doc, TrustDomain(id), "wit-svid")
           svid == [NoSVID EXCEPT !.ok = TRUE, !.id = id, !.key = doc.cnf]
<1>1. /\ doc.kind = "token" /\ todo # <<>> /\ Head(todo) \in WITCalls /\ pc = "returned"
      /\ IF good THEN Finish(svid) ELSE Finish(NoSVID)
  BY DEF ParseWITEnds
<1>2. doc \in Tokens /\ doc # NoDoc
  BY <1>1, Kinds DEF ReadInv
<1>3. t.use = "wit-svid" /\ t.secure = "wit.ParseAndValidate"
  BY <1>1, <1>2, CurrentKind
<1>4. Reading /\ (ok <=> IsID(call.text))
  BY <1>1, <1>2, ReturnedFacts
<1>5. WITHeaders(doc) /\ (ok <=> IsID(doc.sub))
  BY <1>1, <1>2, <1>4 DEF Reading
<1>6. AcceptableToken(t) <=> ok /\ extractCnfJWK(doc) /\ ClaimsValid(doc, {})
  BY <1>3, <1>5 DEF AcceptableToken
<1>7. svid.ok = TRUE /\ svid.id = id
  BY DEF NoSVID
<1>8. good <=> /\ AcceptableToken(t)
               /\ Head(todo) = t.secure => SignatureVerified(doc, TrustDomain(id), t.use)
  BY <1>3, <1>6
<1> HIDE DEF t, good, svid
<1>9. CASE good
  BY <1>1, <1>2, <1>6, <1>7, <1>8, <1>9, TokenAnsweredStep DEF t
<1>10. CASE ~good
  BY <1>1, <1>2, <1>6, <1>8, <1>10, NoSVIDIsNone, TokenAnsweredStep DEF t
<1>11. QED
  BY <1>9, <1>10

-----------------------------------------------------------------------------
(* The theorems *)

(* The invariants hold at the beginning. *)
LEMMA InitGivesInvs ==
    ASSUME Init
    PROVE  ReadInv /\ X509Inv /\ TokenInv
<1>1. IDInv /\ pc = "idle"
  BY IDInitGivesIDInv DEF Init, IDInit
<1>2. Range(X509Calls) = {"Parse", "Reparse", "Verify"}
  BY Listed DEF X509Calls
<1>3. Range(TokenCalls) = JWTCalls \cup WITCalls
  <2>1. Range(TokenCalls) = {"jwt.ParseInsecure", "jwt.ParseAndValidate",
                             "wit.ParseInsecure", "wit.ParseAndValidate"}
    BY Listed DEF TokenCalls
  <2>2. QED
    BY <2>1 DEF JWTCalls, WITCalls
<1>4. outcome = [c \in DocCalls |-> NoSVID]
  BY <1>2, <1>3 DEF Init, DocCalls
<1>5. outcome = [c \in DocCalls |-> outcome[c]]
  BY <1>4
<1>6. \A c \in DocCalls : ~outcome[c].ok
  BY <1>4, NoSVIDIsNone
<1>7. /\ doc \in {NoDoc} \cup X509Files \cup Tokens
      /\ doc = NoDoc => doc.kind = "none"
      /\ doc \in X509Files => doc.kind = "x509"
      /\ doc \in Tokens => doc.kind = "token"
  BY SVIDsAssumption DEF Init, NoDoc
<1>8. /\ doc = NoDoc => todo = <<>>
      /\ doc \in X509Files => todo = X509Calls
      /\ doc \in Tokens => todo = TokenCalls
  BY <1>7 DEF Init
<1>9. ReadTypes
  BY <1>5, <1>7, <1>8 DEF ReadTypes, X509Calls, X509Todos, TokenCalls, TokenTodos
<1>10. /\ {"Parse", "Reparse", "Verify"} \subseteq DocCalls
       /\ JWTCalls \cup WITCalls \subseteq DocCalls
  BY DEF DocCalls
<1>11. RightKind
  BY <1>6, <1>10 DEF RightKind
<1>12. ReadInv
  BY <1>1, <1>6, <1>9, <1>10, <1>11 DEF ReadInv
<1>13. X509Inv
  BY <1>6, <1>10 DEF X509Inv
<1>14. TokenInv
  <2>1. SUFFICES ASSUME doc \in Tokens, NEW t \in TokenKinds PROVE TokenKindInv(t)
    BY DEF TokenInv
  <2>2. t.insecure \in JWTCalls \cup WITCalls /\ t.secure \in JWTCalls \cup WITCalls
    BY DEF TokenKinds, JWTCalls, WITCalls
  <2>3. t.insecure \in Range(todo) /\ t.secure \in Range(todo)
    BY <1>3, <1>8, <2>1, <2>2
  <2>4. QED
    BY <2>3 DEF TokenKindInv
<1>15. QED
  BY <1>12, <1>13, <1>14

(* A step that changes nothing. *)
LEMMA StutteringStep ==
    ASSUME IDInv, UNCHANGED <<backcompat, id, call, pc, path, pathidx, i, start, ok>>
    PROVE  IDInv'
<1>1. IDTypes'
  BY TypesKept DEF IDInv
<1>2. WellFormed(id)' <=> WellFormed(id)
  BY IDKept
<1>3. NameSoFar' <=> NameSoFar
  BY DEF NameSoFar, ParsesID, HasScheme, LooksLikeID, NameChars, isValidTrustDomainChar
<1>4. (Split' <=> Split) /\ (GivenPath' <=> GivenPath)
  BY SplitKept
<1>5. PathSoFar' <=> PathSoFar
  BY DEF PathSoFar, SegmentAt, SegmentChars, Dots, isValidPathSegmentChar
<1>6. IsPath(path)' <=> IsPath(path)
  BY PathKept
<1>7. SegmentsSoFar' <=> SegmentsSoFar
  <2>1. (\A n \in 1 .. start : IsSegment(call.segments[n]))'
          <=> \A n \in 1 .. start : IsSegment(call.segments[n])
    BY DEF IsSegment, isValidPathSegmentChar
  <2>2. (\A k \in 1 .. i : isValidPathSegmentChar(Segment[k]))'
          <=> \A k \in 1 .. i : isValidPathSegmentChar(Segment[k])
    BY DEF Segment, isValidPathSegmentChar
  <2>3. Segment' = Segment
    BY DEF Segment
  <2>4. QED
    BY <1>6, <2>1, <2>2, <2>3 DEF SegmentsSoFar, IsZero
<1>8. BareNameSoFar' <=> BareNameSoFar
  BY DEF BareNameSoFar, LooksLikeID, isValidTrustDomainChar
<1>9. Accepted' <=> Accepted
  <2>1. (\A n \in 1 .. Len(call.segments) : IsSegment(call.segments[n]))'
          <=> \A n \in 1 .. Len(call.segments) : IsSegment(call.segments[n])
    BY DEF IsSegment, isValidPathSegmentChar
  <2>2. QED
    BY <1>4, <1>6, <2>1 DEF Accepted, IsZero
<1>10. AcceptsTheGrammar' <=> AcceptsTheGrammar
  BY GrammarKept DEF AcceptsTheGrammar, IsZero
<1>11. Outcome' <=> Outcome
  BY <1>2, <1>10 DEF Outcome
<1>12. QED
  BY <1>1, <1>2, <1>3, <1>4, <1>5, <1>7, <1>8, <1>9, <1>11 DEF IDInv

(* Every step keeps them. *)
LEMMA NextKeepsInvs ==
    ASSUME ReadInv, X509Inv, TokenInv, [Next]_vars
    PROVE  ReadInv' /\ X509Inv' /\ TokenInv'
<1>1. CASE UNCHANGED vars
  <2>1. UNCHANGED <<backcompat, id, call, pc, path, pathidx, i, start, ok, doc, todo, outcome>>
    BY <1>1 DEF vars, idVars, scanVars, docVars
  <2>2. IDInv'
    BY <2>1, StutteringStep DEF ReadInv
  <2>3. Reading => Reading'
    BY <2>1 DEF Reading, Readable, Leaf
  <2>4. QED
    BY <2>1, <2>2, <2>3, QuietStep DEF docVars, ReadInv
<1>2. CASE ((doc = NoDoc /\ (IDCalls \/ Continue)) \/ Scan \/ Build) /\ UNCHANGED docVars
  BY <1>2, ProgramStep
<1>3. CASE Read
  BY <1>3, ParseX509BeginsStep, ParseX509EndsStep, VerifyBeginsStep, VerifyEndsStep,
     ParseJWTBeginsStep, ParseJWTEndsStep, ParseWITBeginsStep, ParseWITEndsStep DEF Read
<1>4. QED
  BY <1>1, <1>2, <1>3 DEF Next, Done

(* So they always hold. *)
LEMMA InvsHold == Spec => [](ReadInv /\ X509Inv /\ TokenInv)
<1>1. Init => ReadInv /\ X509Inv /\ TokenInv
  BY InitGivesInvs
<1>2. (ReadInv /\ X509Inv /\ TokenInv) /\ [Next]_vars => (ReadInv /\ X509Inv /\ TokenInv)'
  BY NextKeepsInvs
<1>3. QED
  BY <1>1, <1>2, PTL DEF Spec

(* For texts, paths and segments of any length and in both builds, every   *)
(* function of spiffeid accepts its argument exactly when it is in the     *)
(* grammar.                                                                *)
THEOREM ScannersAcceptTheGrammar == Spec => []AcceptsTheGrammar
<1>1. ReadInv => AcceptsTheGrammar
  BY DEF ReadInv, IDInv, Outcome, AcceptsTheGrammar
<1>2. QED
  BY <1>1, InvsHold, PTL

(* Every ID that FromString, FromPath, FromSegments, AppendPath,           *)
(* AppendSegments, ReplacePath, ReplaceSegments and TrustDomain.ID give,   *)
(* in whatever order they are called, is zero or well formed.              *)
THEOREM EveryIDIsWellFormed == Spec => []IDsAreWellFormed
<1>1. ReadInv => IDsAreWellFormed
  BY DEF ReadInv, IDInv, WellFormed, IDsAreWellFormed
<1>2. QED
  BY <1>1, InvsHold, PTL

(* An X509-SVID that Parse accepts survives Marshal and Parse, and         *)
(* ParseAndVerify refuses it only for want of a bundle or of a chain,      *)
(* whatever blocks the files have and however long the chain is.           *)
THEOREM ParsedSVIDsAreUsable == Spec => []ParsedIsUsable
<1>1. X509Inv => ParsedIsUsable
  BY DEF X509Inv, ParsedIsUsable, Tried
<1>2. QED
  BY <1>1, InvsHold, PTL

(* Whatever the document, an SVID is validated only by an authority of the *)
(* trust domain of its own ID, and leaving out the check of the signature  *)
(* changes nothing else.                                                   *)
THEOREM OwnTrustDomainValidates == Spec => []ValidatedByOwnTrustDomain
<1>1. ASSUME ReadInv, X509Inv, TokenInv PROVE ValidatedByOwnTrustDomain
  <2>1. outcome["Verify"].ok => TrustDomain(outcome["Verify"].id) \in doc.roots \cap Bundled
    BY <1>1 DEF X509Inv
  <2>2. ASSUME NEW t \in TokenKinds, Tried(t.secure), doc.kind = "token"
        PROVE  /\ outcome[t.secure].ok <=>
                     /\ outcome[t.insecure].ok
                     /\ doc.kid # ""
                     /\ doc.signer = TrustDomain(outcome[t.insecure].id)
                     /\ doc.signer \in Bundled
                     /\ doc.use = t.use
               /\ outcome[t.secure].ok => outcome[t.secure].id = outcome[t.insecure].id
    <3>1. doc \in Tokens /\ TokenKindInv(t) /\ t.secure \notin Range(todo)
      BY <1>1, <2>2, Kinds DEF ReadInv, TokenInv, Tried
    <3>2. todo \in TokenTodos
      BY <1>1, <3>1 DEF ReadInv, ReadTypes
    <3>3. t.insecure \notin Range(todo)
      <4>1. CASE todo = <<>>
        BY <4>1, Listed
      <4>2. CASE todo # <<>>
        BY <3>1, <3>2, <4>2, TokenOrder DEF TokenKinds, WITCalls
      <4>3. QED
        BY <4>1, <4>2
    <3>4. QED
      BY <3>1, <3>3 DEF TokenKindInv, SignatureVerified, HasBundle
  <2>3. QED
    BY <2>1, <2>2 DEF ValidatedByOwnTrustDomain
<1>2. ReadInv /\ X509Inv /\ TokenInv => ValidatedByOwnTrustDomain
  BY <1>1
<1>3. QED
  BY <1>2, InvsHold, PTL

(* No token is taken both for a JWT-SVID and for a WIT-SVID. *)
THEOREM TokensAreNotConfused == Spec => []NoTokenConfusion
<1>1. ASSUME ReadInv PROVE NoTokenConfusion
  <2>1. SUFFICES ASSUME NEW j \in JWTCalls, NEW w \in WITCalls, outcome[j].ok, outcome[w].ok
                 PROVE  FALSE
    BY DEF NoTokenConfusion
  <2>2. JWTHeaders(doc) /\ WITHeaders(doc)
    BY <1>1, <2>1 DEF ReadInv, RightKind
  <2>3. QED
    BY <2>2 DEF JWTHeaders, WITHeaders, JWTTypeAllowed
<1>2. ReadInv => NoTokenConfusion
  BY <1>1
<1>3. QED
  BY <1>2, InvsHold, PTL
=============================================================================
