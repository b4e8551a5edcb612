--------------------------- MODULE SegmenterProofs ---------------------------
(***************************************************************************)
(* What TLAPS proves of Segmenter for every alphabet, every set of tags,   *)
(* every length limit and texts of any length.                             *)
(***************************************************************************)
EXTENDS Segmenter, SequenceTheorems, WellFoundedInduction, TLAPS

-----------------------------------------------------------------------------
(* Least and greatest elements stand in for induction: what fails somewhere    *)
(* fails at a least place.                                                     *)

\* A nonempty set of naturals has a least element.
LEMMA LeastNatural ==
    ASSUME NEW T \in SUBSET Nat, T # {}
    PROVE  \E m \in T : \A k \in T : m <= k
<1> DEFINE R == OpToRel(<, Nat)
<1>1. IsWellFoundedOn(R, Nat)
  BY NatLessThanWellFounded
<1>2. PICK m \in T : \A k \in T : ~(<<k, m>> \in R)
  BY <1>1, WFMin
<1>3. ASSUME NEW k \in T PROVE m <= k
  <2>1. ~(<<k, m>> \in R) /\ k \in Nat /\ m \in Nat
    BY <1>2
  <2> QED
    BY <2>1 DEF OpToRel
<1> QED
  BY <1>3

\* A nonempty set of naturals that has an upper bound has a greatest element.
LEMMA GreatestNatural ==
    ASSUME NEW n \in Nat, NEW T \in SUBSET (0..n), T # {}
    PROVE  \E m \in T : \A k \in T : k <= m
<1> DEFINE D == {n - k : k \in T}
<1>1. D \in SUBSET Nat /\ D # {}
  <2>1. \A k \in T : n - k \in Nat
    OBVIOUS
  <2> QED
    BY <2>1
<1>2. PICK d \in D : \A k \in D : d <= k
  BY <1>1, LeastNatural
<1>3. PICK m \in T : d = n - m
  OBVIOUS
<1>4. ASSUME NEW k \in T PROVE k <= m
  <2>1. n - k \in D /\ k \in Int /\ m \in Int
    OBVIOUS
  <2> QED
    BY <1>2, <1>3, <2>1
<1> QED
  BY <1>4

\* Min and Max of such a set are its least and greatest elements.
LEMMA MinMax ==
    ASSUME NEW n \in Nat, NEW T \in SUBSET (0..n), T # {}
    PROVE  /\ Min(T) \in T /\ \A k \in T : Min(T) <= k
           /\ Max(T) \in T /\ \A k \in T : k <= Max(T)
<1>1. \E m \in T : \A k \in T : m <= k
  BY LeastNatural
<1>2. \E m \in T : \A k \in T : k <= m
  BY GreatestNatural
<1>3. \E m \in T : \A k \in T : m >= k
  <2>1. T \subseteq Int
    OBVIOUS
  <2> QED
    BY <1>2, <2>1
<1>4. Max(T) \in T /\ \A k \in T : Max(T) >= k
  BY <1>3 DEF Max
<1>5. Min(T) \in T /\ \A k \in T : Min(T) <= k
  BY <1>1 DEF Min
<1> QED
  BY <1>4, <1>5

-----------------------------------------------------------------------------
(* A recursion from each place to a later one defines a function. *)

\* f goes from i to next[i] while that lies further on.
Follows(f, n, next, op, base) ==
    \A i \in 0..n : f[i] = IF next[i] > i THEN op[<<i, f[next[i]]>>] ELSE base

\* There is such a function.
LEMMA Recursion ==
    ASSUME NEW n \in Nat, NEW V, NEW base \in V,
           NEW next \in [0..n -> 0..n], NEW op \in [(0..n) \X V -> V]
    PROVE  \E f \in [0..n -> V] : Follows(f, n, next, op, base)
<1> USE DEF Follows
<1> DEFINE Step(f, i) == IF next[i] > i THEN op[<<i, f[next[i]]>>] ELSE base
           Good(m, f) == f \in [m..n -> V] /\ \A i \in m..n : f[i] = Step(f, i)
           T == {m \in 0..n : \E f : Good(m, f)}
<1>1. n \in T
  <2> DEFINE f == [i \in n..n |-> base]
  <2>1. f \in [n..n -> V]
    OBVIOUS
  <2>2. \A i \in n..n : ~(next[i] > i) /\ f[i] = base
    OBVIOUS
  <2>3. \A i \in n..n : f[i] = Step(f, i)
    BY <2>2
  <2>4. Good(n, f)
    <3> HIDE DEF Step, f
    <3> QED
      BY <2>1, <2>3
  <2> HIDE DEF Good, f
  <2> QED
    BY <2>4
<1>2. T \in SUBSET Nat /\ T # {}
  <2> HIDE DEF Good
  <2> QED
    BY <1>1
<1>3. PICK m \in T : \A k \in T : m <= k
  <2> HIDE DEF T
  <2> QED
    BY <1>2, LeastNatural
<1>4. PICK f : Good(m, f)
  OBVIOUS
<1>5. m \in 0..n
  OBVIOUS
<1>6. CASE m = 0
  BY <1>4, <1>6
<1>7. CASE m # 0
  <2> DEFINE l == m - 1
             g == [i \in l..n |-> IF i = l THEN Step(f, i) ELSE f[i]]
  <2>1. l \in 0..n /\ l < m /\ \A i \in l..n : i \in 0..n /\ (i = l \/ i \in m..n)
    BY <1>5, <1>7
  <2>2. \A i \in l..n : next[i] \in 0..n /\ (next[i] > i => next[i] \in m..n)
    BY <1>5, <1>7
  <2>3. \A i \in m..n : f[i] \in V /\ g[i] = f[i]
    BY <1>4, <2>1
  <2>4. \A i \in l..n : Step(f, i) \in V
    <3> SUFFICES ASSUME NEW i \in l..n PROVE Step(f, i) \in V
      OBVIOUS
    <3>1. CASE next[i] > i
      <4>1. f[next[i]] \in V
        BY <2>2, <2>3, <3>1
      <4>2. <<i, f[next[i]]>> \in (0..n) \X V
        BY <2>1, <4>1
      <4> QED
        BY <3>1, <4>2
    <3>2. CASE ~(next[i] > i)
      BY <3>2
    <3> QED
      BY <3>1, <3>2
  <2>5. \A i \in l..n : Step(g, i) = Step(f, i)
    <3> SUFFICES ASSUME NEW i \in l..n PROVE Step(g, i) = Step(f, i)
      OBVIOUS
    <3>1. CASE next[i] > i
      <4>1. g[next[i]] = f[next[i]]
        BY <2>2, <2>3, <3>1
      <4> HIDE DEF g
      <4> QED
        BY <3>1, <4>1
    <3>2. CASE ~(next[i] > i)
      BY <3>2
    <3> QED
      BY <3>1, <3>2
  <2>6. g \in [l..n -> V]
    <3> HIDE DEF Step, l
    <3> QED
      BY <2>1, <2>3, <2>4
  <2>7. \A i \in l..n : g[i] = Step(g, i)
    <3>1. \A i \in m..n : g[i] = Step(f, i)
      <4>1. \A i \in m..n : f[i] = Step(f, i)
        BY <1>4
      <4> HIDE DEF Step, g
      <4> QED
        BY <2>3, <4>1
    <3>2. g[l] = Step(f, l)
      BY <2>1
    <3> HIDE DEF Step, l, g
    <3> QED
      BY <2>1, <2>5, <3>1, <3>2
  <2>8. l \in T
    <3> HIDE DEF g
    <3> QED
      BY <2>1, <2>6, <2>7
  <2>9. m <= l
    <3> HIDE DEF T, l
    <3> QED
      BY <1>3, <2>8
  <2> QED
    BY <1>5, <2>9
<1> QED
  BY <1>6, <1>7

-----------------------------------------------------------------------------
(* Texts, their ends and their tags. *)

Texts == Seq(Characters)

\* What is left of a text behind its first k characters.
LEMMA RestIs ==
    ASSUME NEW b \in Texts, NEW k \in 0..Len(b)
    PROVE  /\ Rest(b, k) \in Texts /\ Len(Rest(b, k)) = Len(b) - k
           /\ \A i \in 1..(Len(b) - k) : Rest(b, k)[i] = b[k + i]
<1>1. Len(b) \in Nat /\ \A i \in 1..Len(b) : b[i] \in Characters
  BY DEF Texts
<1>2. k + 1 \in Int /\ Len(b) \in Int /\ k \in Int
  BY <1>1
<1>3. \A i \in (k + 1)..Len(b) : b[i] \in Characters
  BY <1>1
<1>4. /\ SubSeq(b, k + 1, Len(b)) \in Seq(Characters)
      /\ Len(SubSeq(b, k + 1, Len(b))) =
            IF k + 1 <= Len(b) THEN Len(b) - (k + 1) + 1 ELSE 0
      /\ \A i \in 1..(Len(b) - (k + 1) + 1) :
            SubSeq(b, k + 1, Len(b))[i] = b[k + 1 + i - 1]
  BY <1>2, <1>3, SubSeqProperties
<1>5. Len(SubSeq(b, k + 1, Len(b))) = Len(b) - k
  BY <1>1, <1>4
<1>6. \A i \in 1..(Len(b) - k) : SubSeq(b, k + 1, Len(b))[i] = b[k + i]
  <2> SUFFICES ASSUME NEW i \in 1..(Len(b) - k)
               PROVE  SubSeq(b, k + 1, Len(b))[i] = b[k + i]
    OBVIOUS
  <2>1. i \in 1..(Len(b) - (k + 1) + 1) /\ k + 1 + i - 1 = k + i
    BY <1>1
  <2> QED
    BY <1>4, <2>1
<1> QED
  BY <1>4, <1>5, <1>6 DEF Rest, Texts

\* The piece of a text from behind character a up to character c.
LEMMA PieceIs ==
    ASSUME NEW b \in Texts, NEW a \in 0..Len(b), NEW c \in a..Len(b)
    PROVE  /\ SubSeq(b, a + 1, c) \in Texts /\ Len(SubSeq(b, a + 1, c)) = c - a
           /\ \A i \in 1..(c - a) : SubSeq(b, a + 1, c)[i] = b[a + i]
<1>1. Len(b) \in Nat /\ \A i \in 1..Len(b) : b[i] \in Characters
  BY DEF Texts
<1>2. a + 1 \in Int /\ c \in Int /\ a \in Int /\ a <= c /\ c <= Len(b) /\ 0 <= a
  BY <1>1
<1>3. \A i \in (a + 1)..c : b[i] \in Characters
  BY <1>1, <1>2
<1>4. /\ SubSeq(b, a + 1, c) \in Seq(Characters)
      /\ Len(SubSeq(b, a + 1, c)) = IF a + 1 <= c THEN c - (a + 1) + 1 ELSE 0
      /\ \A i \in 1..(c - (a + 1) + 1) : SubSeq(b, a + 1, c)[i] = b[a + 1 + i - 1]
  BY <1>2, <1>3, SubSeqProperties
<1>5. Len(SubSeq(b, a + 1, c)) = c - a
  BY <1>2, <1>4
<1>6. \A i \in 1..(c - a) : SubSeq(b, a + 1, c)[i] = b[a + i]
  <2> SUFFICES ASSUME NEW i \in 1..(c - a)
               PROVE  SubSeq(b, a + 1, c)[i] = b[a + i]
    OBVIOUS
  <2>1. i \in 1..(c - (a + 1) + 1) /\ a + 1 + i - 1 = a + i
    BY <1>2
  <2> QED
    BY <1>4, <2>1
<1> QED
  BY <1>4, <1>5, <1>6 DEF Texts

\* A text is a prefix of another iff it is no longer and agrees with it.
LEMMA PrefixIs ==
    ASSUME NEW s \in Texts, NEW t \in Texts
    PROVE  IsPrefix(s, t) <=> Len(s) <= Len(t) /\ \A j \in 1..Len(s) : s[j] = t[j]
<1>1. Len(s) \in Nat /\ Len(t) \in Nat
  BY DEF Texts
<1>2. SubSeq(s, 1, Len(s)) = s
  BY SubSeqFull DEF Texts
<1> SUFFICES ASSUME Len(s) <= Len(t)
             PROVE  s = SubSeq(t, 1, Len(s)) <=> \A j \in 1..Len(s) : s[j] = t[j]
  BY <1>2 DEF IsPrefix
<1> DEFINE h == SubSeq(t, 1, Len(s))
<1>3. h \in Texts /\ Len(h) = Len(s) /\ \A i \in 1..Len(s) : h[i] = t[i]
  <2>1. 0 \in 0..Len(t) /\ Len(s) \in 0..Len(t)
    BY <1>1
  <2>2. /\ SubSeq(t, 0 + 1, Len(s)) \in Texts
        /\ Len(SubSeq(t, 0 + 1, Len(s))) = Len(s) - 0
        /\ \A i \in 1..(Len(s) - 0) : SubSeq(t, 0 + 1, Len(s))[i] = t[0 + i]
    BY <2>1, PieceIs
  <2>3. 0 + 1 = 1 /\ Len(s) - 0 = Len(s) /\ \A i \in 1..Len(s) : 0 + i = i
    BY <1>1
  <2> QED
    BY <2>2, <2>3
<1> HIDE DEF h
<1>4. s = h => \A j \in 1..Len(s) : s[j] = t[j]
  BY <1>3
<1>5. ASSUME \A j \in 1..Len(s) : s[j] = t[j] PROVE s = h
  <2>1. s \in Seq(Characters) /\ h \in Seq(Characters) /\ Len(s) = Len(h)
    BY <1>3 DEF Texts
  <2>2. \A j \in 1..Len(s) : s[j] = h[j]
    BY <1>3, <1>5
  <2> QED
    BY <2>1, <2>2, SeqEqual
<1> QED
  BY <1>4, <1>5 DEF h

\* What the characters are to the tag ranges; the rest of a proof need not
\* look at the characters themselves.
Opens(b, i) == b[i] = "["
Closes(b, i) == b[i] = "]"
InTag(b, i) == b[i] \in {"[", "g", "]"}
Agree(b, i, tag, n) == \A j \in 1..n : b[i - 1 + j] = tag[j]

\* A tag opens with its first character only and closes with its last only.
LEMMA TagShape ==
    ASSUME NEW tag \in OfficialTags
    PROVE  /\ tag \in Texts /\ Len(tag) \in Nat /\ 2 <= Len(tag) /\ Len(tag) < Hard
           /\ Opens(tag, 1)
           /\ \A j \in 1..Len(tag) : InTag(tag, j)
           /\ \A j \in 2..Len(tag) : ~Opens(tag, j)
           /\ \A j \in 1..Len(tag) : Closes(tag, j) <=> j = Len(tag)
<1>1. tag \in Texts /\ 2 <= Len(tag) /\ Len(tag) < Hard
  BY TagsAssumption DEF Texts
<1>2. Len(tag) \in Nat
  BY <1>1 DEF Texts
<1>3. tag[1] = "["
  BY TagsAssumption
<1>4. ASSUME NEW j \in 2..Len(tag)
      PROVE  /\ InTag(tag, j) /\ ~Opens(tag, j)
             /\ Closes(tag, j) <=> j = Len(tag)
  <2>1. tag[j] = IF j = Len(tag) THEN "]" ELSE "g"
    BY TagsAssumption
  <2>2. CASE j = Len(tag)
    <3>1. tag[j] = "]"
      BY <2>1, <2>2
    <3> QED
      BY <2>2, <3>1 DEF InTag, Opens, Closes
  <2>3. CASE j # Len(tag)
    <3>1. tag[j] = "g"
      BY <2>1, <2>3
    <3> QED
      BY <2>3, <3>1 DEF InTag, Opens, Closes
  <2> QED
    BY <2>2, <2>3
<1>5. InTag(tag, 1) /\ Opens(tag, 1) /\ ~Closes(tag, 1)
  BY <1>3 DEF InTag, Opens, Closes
<1>6. \A j \in 1..Len(tag) : j = 1 \/ j \in 2..Len(tag)
  BY <1>2
<1>7. Len(tag) # 1
  <2>1. \A n \in Nat : 2 <= n => n # 1
    OBVIOUS
  <2> QED
    BY <1>1, <1>2, <2>1, Zenon
<1>8. \A j \in 1..Len(tag) : InTag(tag, j)
  BY <1>4, <1>5, <1>6
<1>9. \A j \in 1..Len(tag) : Closes(tag, j) <=> j = Len(tag)
  BY <1>4, <1>5, <1>6, <1>7
<1> QED
  BY <1>1, <1>2, <1>4, <1>5, <1>8, <1>9

\* A tag begins the rest of a text iff the text agrees with it from there; and
\* the rest begins a tag iff it agrees with that as far as it goes.
LEMMA TagPrefix ==
    ASSUME NEW b \in Texts, NEW i \in 1..Len(b), NEW tag \in OfficialTags
    PROVE  /\ IsPrefix(tag, SubSeq(b, i, Len(b)))
                 <=> i - 1 + Len(tag) <= Len(b) /\ Agree(b, i, tag, Len(tag))
           /\ IsPrefix(SubSeq(b, i, Len(b)), tag)
                 <=> Len(b) <= i - 1 + Len(tag) /\ Agree(b, i, tag, Len(b) - (i - 1))
<1> DEFINE r == SubSeq(b, i, Len(b))
<1>1. Len(b) \in Nat /\ tag \in Texts /\ Len(tag) \in Nat
  BY TagShape DEF Texts
<1>2. i - 1 \in 0..Len(b)
  BY <1>1
<1>3. r = Rest(b, i - 1)
  <2>1. i - 1 + 1 = i
    BY <1>1
  <2> QED
    BY <2>1 DEF Rest
<1>4. /\ r \in Texts /\ Len(r) = Len(b) - (i - 1)
      /\ \A j \in 1..(Len(b) - (i - 1)) : r[j] = b[i - 1 + j]
  BY <1>2, <1>3, RestIs
<1> HIDE DEF r
<1>5. IsPrefix(tag, r) <=> Len(tag) <= Len(r) /\ \A j \in 1..Len(tag) : tag[j] = r[j]
  BY <1>1, <1>4, PrefixIs
<1>6. IsPrefix(r, tag) <=> Len(r) <= Len(tag) /\ \A j \in 1..Len(r) : r[j] = tag[j]
  BY <1>1, <1>4, PrefixIs
<1>7. Len(tag) <= Len(r) <=> i - 1 + Len(tag) <= Len(b)
  BY <1>1, <1>4
<1>8. Len(r) <= Len(tag) <=> Len(b) <= i - 1 + Len(tag)
  BY <1>1, <1>4
<1>9. ASSUME Len(tag) <= Len(r)
      PROVE  (\A j \in 1..Len(tag) : tag[j] = r[j]) <=> Agree(b, i, tag, Len(tag))
  <2>1. \A j \in 1..Len(tag) : r[j] = b[i - 1 + j]
    BY <1>1, <1>4, <1>9
  <2> QED
    BY <2>1 DEF Agree
<1>10. (\A j \in 1..Len(r) : r[j] = tag[j]) <=> Agree(b, i, tag, Len(b) - (i - 1))
  BY <1>4 DEF Agree
<1> QED
  BY <1>5, <1>6, <1>7, <1>8, <1>9, <1>10 DEF r

\* The tags that stand complete at character i, and those it may still become.
CompleteAt(b, i) == {tag \in OfficialTags : IsPrefix(tag, SubSeq(b, i, Len(b)))}
BegunAt(b, i) == {tag \in OfficialTags : IsPrefix(SubSeq(b, i, Len(b)), tag)}

\* The ranges are those of the brackets that open a tag or may open one.
LEMMA TagRanges ==
    ASSUME NEW b, NEW r
    PROVE  r \in OfficialTagRanges(b) <=>
              \E i \in 1..Len(b) :
                 /\ Opens(b, i)
                 /\ \/ \E tag \in CompleteAt(b, i) :
                          r = Range_(i - 1, i - 1 + Len(tag), FALSE)
                    \/ /\ CompleteAt(b, i) = {} /\ BegunAt(b, i) # {}
                       /\ r = Range_(i - 1, Len(b), TRUE)
<1> DEFINE At(i) == IF CompleteAt(b, i) # {}
                    THEN {Range_(i - 1, i - 1 + Len(tag), FALSE) :
                             tag \in CompleteAt(b, i)}
                    ELSE {Range_(i - 1, Len(b), TRUE) : tag \in BegunAt(b, i)}
<1>1. OfficialTagRanges(b) = UNION {At(i) : i \in {j \in 1..Len(b) : b[j] = "["}}
  BY DEF OfficialTagRanges, CompleteAt, BegunAt
<1>2. \A i : r \in At(i) <=>
          \/ \E tag \in CompleteAt(b, i) : r = Range_(i - 1, i - 1 + Len(tag), FALSE)
          \/ /\ CompleteAt(b, i) = {} /\ BegunAt(b, i) # {}
             /\ r = Range_(i - 1, Len(b), TRUE)
  <2> SUFFICES ASSUME NEW i
               PROVE  r \in At(i) <=>
                  \/ \E tag \in CompleteAt(b, i) : r = Range_(i - 1, i - 1 + Len(tag), FALSE)
                  \/ /\ CompleteAt(b, i) = {} /\ BegunAt(b, i) # {}
                     /\ r = Range_(i - 1, Len(b), TRUE)
    OBVIOUS
  <2>1. CASE CompleteAt(b, i) # {}
    BY <2>1, Zenon
  <2>2. CASE CompleteAt(b, i) = {}
    BY <2>2, Zenon
  <2> QED
    BY <2>1, <2>2
<1> HIDE DEF At
<1>3. r \in OfficialTagRanges(b) <=> \E i \in 1..Len(b) : b[i] = "[" /\ r \in At(i)
  BY <1>1, Zenon
<1> QED
  BY <1>2, <1>3, Zenon DEF Opens

\* What a range of a tag looks like.
LEMMA TagRangeIs ==
    ASSUME NEW b \in Texts, NEW r \in OfficialTagRanges(b)
    PROVE  \E i \in 1..Len(b), tag \in OfficialTags :
              /\ Opens(b, i) /\ r.start = i - 1
              /\ \/ /\ r.end = i - 1 + Len(tag) /\ ~r.protectEnd /\ r.end <= Len(b)
                    /\ Agree(b, i, tag, Len(tag))
                 \/ /\ r.end = Len(b) /\ r.protectEnd /\ Len(b) <= i - 1 + Len(tag)
                    /\ Agree(b, i, tag, Len(b) - (i - 1))
<1>1. PICK i \in 1..Len(b) :
         /\ Opens(b, i)
         /\ \/ \E tag \in CompleteAt(b, i) : r = Range_(i - 1, i - 1 + Len(tag), FALSE)
            \/ /\ CompleteAt(b, i) = {} /\ BegunAt(b, i) # {}
               /\ r = Range_(i - 1, Len(b), TRUE)
  BY TagRanges
<1>2. CASE \E tag \in CompleteAt(b, i) : r = Range_(i - 1, i - 1 + Len(tag), FALSE)
  <2>1. PICK tag \in CompleteAt(b, i) : r = Range_(i - 1, i - 1 + Len(tag), FALSE)
    BY <1>2
  <2>2. tag \in OfficialTags /\ IsPrefix(tag, SubSeq(b, i, Len(b)))
    BY DEF CompleteAt
  <2>3. i - 1 + Len(tag) <= Len(b) /\ Agree(b, i, tag, Len(tag))
    BY <2>2, TagPrefix
  <2>4. r.start = i - 1 /\ r.end = i - 1 + Len(tag) /\ ~r.protectEnd
    BY <2>1 DEF Range_
  <2> QED
    BY <1>1, <2>2, <2>3, <2>4
<1>3. CASE BegunAt(b, i) # {} /\ r = Range_(i - 1, Len(b), TRUE)
  <2>1. PICK tag \in OfficialTags : IsPrefix(SubSeq(b, i, Len(b)), tag)
    BY <1>3 DEF BegunAt
  <2>2. Len(b) <= i - 1 + Len(tag) /\ Agree(b, i, tag, Len(b) - (i - 1))
    BY <2>1, TagPrefix
  <2>3. r.start = i - 1 /\ r.end = Len(b) /\ r.protectEnd
    BY <1>3 DEF Range_
  <2> QED
    BY <1>1, <2>2, <2>3
<1> QED
  BY <1>1, <1>2, <1>3

\* A range of a tag holds characters of a tag, the bracket first.
LEMMA TagRangeChars ==
    ASSUME NEW b \in Texts, NEW r \in OfficialTagRanges(b), NEW j \in Int,
           r.start < j, j <= r.end
    PROVE  /\ j \in 1..Len(b) /\ InTag(b, j)
           /\ Opens(b, j) => j = r.start + 1
           /\ r.start \in 0..Len(b) /\ Opens(b, r.start + 1)
<1>1. PICK i \in 1..Len(b), tag \in OfficialTags :
         /\ Opens(b, i) /\ r.start = i - 1
         /\ \/ /\ r.end = i - 1 + Len(tag) /\ ~r.protectEnd /\ r.end <= Len(b)
               /\ Agree(b, i, tag, Len(tag))
            \/ /\ r.end = Len(b) /\ r.protectEnd /\ Len(b) <= i - 1 + Len(tag)
               /\ Agree(b, i, tag, Len(b) - (i - 1))
  BY TagRangeIs
<1>2. Len(b) \in Nat /\ Len(tag) \in Nat
  BY TagShape DEF Texts
<1> DEFINE n == r.end - (i - 1)
           m == j - (i - 1)
<1>3. n \in Nat /\ n <= Len(tag) /\ Agree(b, i, tag, n) /\ r.end <= Len(b)
  <2>1. CASE r.end = i - 1 + Len(tag) /\ r.end <= Len(b) /\ Agree(b, i, tag, Len(tag))
    <3>1. n = Len(tag)
      BY <1>2, <2>1
    <3> QED
      BY <1>2, <2>1, <3>1
  <2>2. CASE r.end = Len(b) /\ Len(b) <= i - 1 + Len(tag)
             /\ Agree(b, i, tag, Len(b) - (i - 1))
    BY <1>2, <2>2
  <2> QED
    BY <1>1, <2>1, <2>2
<1>4. m \in 1..n /\ m \in 1..Len(tag) /\ i - 1 + m = j /\ j \in 1..Len(b)
  BY <1>1, <1>2, <1>3
<1> HIDE DEF n
<1>5. b[j] = tag[m]
  <2>1. b[i - 1 + m] = tag[m]
    BY <1>3, <1>4 DEF Agree
  <2> QED
    BY <1>4, <2>1
<1>6. InTag(b, j)
  BY <1>4, <1>5, TagShape DEF InTag
<1>7. ASSUME Opens(b, j) PROVE j = r.start + 1
  <2>1. Opens(tag, m)
    BY <1>5, <1>7 DEF Opens
  <2>2. m = 1
    <3>1. ~(m \in 2..Len(tag))
      BY <2>1, TagShape
    <3> QED
      BY <1>2, <1>4, <3>1
  <2> QED
    BY <1>1, <1>4, <2>2
<1>8. r.start + 1 = i /\ r.start \in 0..Len(b)
  BY <1>1, <1>2
<1> QED
  BY <1>1, <1>4, <1>6, <1>7, <1>8

\* A cut that the tag ranges allow leaves no tag, and no start of one that the
\* text does not yet rule out, across it.
LEMMA SafeForTags ==
    ASSUME NEW b \in Texts, NEW k \in 1..Len(b),
           IsSafeCut(k, OfficialTagRanges(b)),
           NEW i \in 1..k, NEW tag \in OfficialTags
    PROVE  /\ i - 1 + Len(tag) <= Len(b) /\ Agree(b, i, tag, Len(tag))
                 => i - 1 + Len(tag) <= k
           /\ ~(Len(b) < i - 1 + Len(tag) /\ Agree(b, i, tag, Len(b) - (i - 1)))
<1>1. Len(b) \in Nat /\ Len(tag) \in Nat /\ 2 <= Len(tag) /\ i \in 1..Len(b)
  BY TagShape DEF Texts
<1>2. ASSUME NEW n \in Nat, 1 <= n, Agree(b, i, tag, n) PROVE Opens(b, i)
  <2>1. 1 \in 1..n /\ i - 1 + 1 = i
    BY <1>2
  <2>2. b[i - 1 + 1] = tag[1]
    BY <1>2, <2>1 DEF Agree
  <2>3. b[i] = tag[1]
    BY <2>1, <2>2
  <2> QED
    BY <2>3, TagShape DEF Opens
<1>3. ASSUME i - 1 + Len(tag) <= Len(b), Agree(b, i, tag, Len(tag))
      PROVE  i - 1 + Len(tag) <= k
  <2> DEFINE r == Range_(i - 1, i - 1 + Len(tag), FALSE)
  <2>1. tag \in CompleteAt(b, i)
    BY <1>1, <1>3, TagPrefix DEF CompleteAt
  <2>2. Opens(b, i)
    BY <1>1, <1>2, <1>3
  <2>3. r \in OfficialTagRanges(b)
    <3> HIDE DEF r
    <3>1. \E t \in CompleteAt(b, i) : r = Range_(i - 1, i - 1 + Len(t), FALSE)
      BY <2>1 DEF r
    <3> QED
      BY <1>1, <2>2, <3>1, TagRanges
  <2>4. ~ContainsCut(r, k)
    BY <2>3 DEF IsSafeCut
  <2>5. r.start = i - 1 /\ r.end = i - 1 + Len(tag)
    BY DEF Range_
  <2> HIDE DEF r
  <2>6. ~(r.start < k /\ k < r.end)
    BY <2>4 DEF ContainsCut
  <2> QED
    BY <1>1, <2>5, <2>6
<1>4. ASSUME Len(b) < i - 1 + Len(tag), Agree(b, i, tag, Len(b) - (i - 1))
      PROVE  FALSE
  <2> DEFINE r == Range_(i - 1, Len(b), TRUE)
             n == Len(b) - (i - 1)
  <2>1. n \in Nat /\ 1 <= n /\ n < Len(tag)
    BY <1>1, <1>4
  <2>2. Opens(b, i)
    BY <1>2, <1>4, <2>1
  <2>3. tag \in BegunAt(b, i)
    BY <1>1, <1>4, TagPrefix DEF BegunAt
  <2>4. CompleteAt(b, i) = {}
    <3> SUFFICES ASSUME NEW t \in CompleteAt(b, i) PROVE FALSE
      OBVIOUS
    <3>1. t \in OfficialTags /\ IsPrefix(t, SubSeq(b, i, Len(b)))
      BY DEF CompleteAt
    <3>2. i - 1 + Len(t) <= Len(b) /\ Agree(b, i, t, Len(t))
      BY <1>1, <3>1, TagPrefix
    <3>3. Len(t) \in Nat /\ 2 <= Len(t) /\ Closes(t, Len(t))
      BY <3>1, TagShape
    <3>4. Len(t) \in 1..n /\ Len(t) \in 1..Len(t) /\ Len(t) \in 1..Len(tag)
          /\ Len(t) # Len(tag)
      BY <1>1, <2>1, <3>2, <3>3
    <3>5. b[i - 1 + Len(t)] = t[Len(t)] /\ b[i - 1 + Len(t)] = tag[Len(t)]
      BY <1>4, <3>2, <3>4 DEF Agree
    <3>6. Closes(tag, Len(t))
      BY <3>3, <3>5 DEF Closes
    <3> QED
      BY <3>4, <3>6, TagShape
  <2>5. r \in OfficialTagRanges(b)
    <3> HIDE DEF r
    <3>1. /\ CompleteAt(b, i) = {} /\ BegunAt(b, i) # {}
          /\ r = Range_(i - 1, Len(b), TRUE)
      BY <2>3, <2>4 DEF r
    <3> QED
      BY <1>1, <2>2, <3>1, TagRanges
  <2>6. ~ContainsCut(r, k)
    BY <2>5 DEF IsSafeCut
  <2>7. r.start = i - 1 /\ r.end = Len(b) /\ r.protectEnd
    BY DEF Range_
  <2> HIDE DEF r
  <2>8. ~(r.start < k /\ (k < r.end \/ k = r.end))
    BY <2>6, <2>7 DEF ContainsCut
  <2> QED
    BY <1>1, <2>7, <2>8
<1> QED
  BY <1>3, <1>4

\* The limits are in this order, and positive.
LEMMA Limits ==
    /\ Hard \in Nat /\ Target \in Nat /\ SoftMin \in Nat /\ DeadlineMin \in Nat
    /\ 1 <= DeadlineMin /\ 1 <= SoftMin /\ SoftMin <= Target /\ Target <= Hard
    /\ 1 <= Hard
<1>1. /\ Hard \in Nat /\ Target \in Nat /\ SoftMin \in Nat
      /\ DeadlineMin \in Nat \ {0}
      /\ DeadlineMin < SoftMin /\ SoftMin <= Target /\ Target <= Hard
  BY LimitsAssumption
<1> QED
  BY <1>1

\* A text as long as the hard limit can be cut within it outside of every tag.
LEMMA SomeCutSparesTags ==
    ASSUME NEW b \in Texts, Hard <= Len(b)
    PROVE  \E k \in 1..Hard : IsSafeCut(k, OfficialTagRanges(b))
<1>1. Len(b) \in Nat /\ Hard \in Nat /\ 1 <= Hard
  BY Limits DEF Texts
<1>2. ASSUME NEW k \in 1..Hard, NEW r \in OfficialTagRanges(b), ContainsCut(r, k)
      PROVE  \E i \in 1..k, tag \in OfficialTags :
                /\ Opens(b, i) /\ r.start = i - 1
                /\ \/ i - 1 + Len(tag) <= Len(b) /\ Agree(b, i, tag, Len(tag))
                   \/ i # 1
                /\ i = 1 => k < Len(tag)
  <2>1. PICK i \in 1..Len(b), tag \in OfficialTags :
           /\ Opens(b, i) /\ r.start = i - 1
           /\ \/ /\ r.end = i - 1 + Len(tag) /\ ~r.protectEnd /\ r.end <= Len(b)
                 /\ Agree(b, i, tag, Len(tag))
              \/ /\ r.end = Len(b) /\ r.protectEnd /\ Len(b) <= i - 1 + Len(tag)
                 /\ Agree(b, i, tag, Len(b) - (i - 1))
    BY TagRangeIs
  <2>2. Len(tag) \in Nat /\ Len(tag) < Hard
    BY TagShape
  <2>3. r.start < k /\ (r.protectEnd \/ k < r.end)
    BY <1>2 DEF ContainsCut
  <2>4. i \in 1..k
    BY <1>1, <2>1, <2>3
  <2>5. i = 1 => ~(Len(b) <= i - 1 + Len(tag))
    BY <1>1, <2>2
  <2>6. i = 1 => /\ r.end = i - 1 + Len(tag) /\ ~r.protectEnd /\ r.end <= Len(b)
                 /\ Agree(b, i, tag, Len(tag))
    BY <2>1, <2>5
  <2>7. i = 1 => k < Len(tag)
    BY <1>1, <2>2, <2>3, <2>6
  <2>8. (i - 1 + Len(tag) <= Len(b) /\ Agree(b, i, tag, Len(tag))) \/ i # 1
    BY <2>6
  <2> QED
    BY <2>1, <2>4, <2>7, <2>8
<1>3. CASE \E r \in OfficialTagRanges(b) : ContainsCut(r, 1)
  <2>1. PICK r \in OfficialTagRanges(b) : ContainsCut(r, 1)
    BY <1>3
  <2>2. 1 \in 1..Hard
    BY <1>1
  <2>3. PICK i \in 1..1, tag \in OfficialTags :
           /\ (i - 1 + Len(tag) <= Len(b) /\ Agree(b, i, tag, Len(tag))) \/ i # 1
    BY <1>2, <2>1, <2>2
  <2>4. i = 1
    OBVIOUS
  <2>5. /\ Len(tag) \in Nat /\ 2 <= Len(tag) /\ Len(tag) < Hard
        /\ Closes(tag, Len(tag)) /\ \A j \in 2..Len(tag) : ~Opens(tag, j)
    <3>1. Len(tag) \in Nat /\ 2 <= Len(tag) /\ Len(tag) < Hard
      BY TagShape
    <3>2. Len(tag) \in 1..Len(tag)
      BY <3>1
    <3> QED
      BY <3>1, <3>2, TagShape
  <2>6. Agree(b, 1, tag, Len(tag))
    BY <2>3, <2>4
  <2>7. \A j \in 1..Len(tag) : b[j] = tag[j]
    <3>1. \A j \in 1..Len(tag) : 1 - 1 + j = j
      BY <2>5
    <3> QED
      BY <2>6, <3>1 DEF Agree
  <2>8. Len(tag) \in 1..Hard
    BY <1>1, <2>5
  <2>9. ASSUME NEW s \in OfficialTagRanges(b), ContainsCut(s, Len(tag))
        PROVE  FALSE
    <3>1. PICK l \in 1..Len(tag), t \in OfficialTags :
             /\ Opens(b, l)
             /\ (l - 1 + Len(t) <= Len(b) /\ Agree(b, l, t, Len(t))) \/ l # 1
             /\ l = 1 => Len(tag) < Len(t)
      BY <1>2, <2>8, <2>9
    <3>2. l = 1
      <4>1. l \in 2..Len(tag) => FALSE
        <5> SUFFICES ASSUME l \in 2..Len(tag) PROVE FALSE
          OBVIOUS
        <5>1. Opens(tag, l)
          BY <2>7, <3>1 DEF Opens
        <5> QED
          BY <2>5, <5>1
      <4> QED
        BY <2>5, <4>1
    <3>3. Len(t) \in Nat /\ Len(tag) < Len(t) /\ Agree(b, 1, t, Len(t))
      BY <3>1, <3>2, TagShape
    <3>4. Len(tag) \in 1..Len(t) /\ 1 - 1 + Len(tag) = Len(tag) /\ Len(tag) \in 1..Len(tag)
      BY <2>5, <3>3
    <3>5. b[1 - 1 + Len(tag)] = t[Len(tag)]
      BY <3>3, <3>4 DEF Agree
    <3>6. t[Len(tag)] = tag[Len(tag)]
      BY <2>7, <3>4, <3>5
    <3>7. Closes(t, Len(tag))
      BY <2>5, <3>6 DEF Closes
    <3>8. Len(tag) = Len(t)
      BY <3>4, <3>7, TagShape
    <3> QED
      BY <2>5, <3>3, <3>8
  <2> QED
    BY <2>8, <2>9 DEF IsSafeCut
<1>4. CASE ~\E r \in OfficialTagRanges(b) : ContainsCut(r, 1)
  <2>1. 1 \in 1..Hard
    BY <1>1
  <2> QED
    BY <1>4, <2>1 DEF IsSafeCut
<1> QED
  BY <1>3, <1>4

-----------------------------------------------------------------------------
(* Numbers. *)

\* DigitsEnd is where the run of digits behind character i ends.
LEMMA DigitsEndIs ==
    ASSUME NEW b \in Texts, NEW i \in 0..Len(b)
    PROVE  /\ DigitsEnd(b, i) \in i..Len(b)
           /\ \A j \in (i + 1)..DigitsEnd(b, i) : DigitAt(b, j)
           /\ ~DigitAt(b, DigitsEnd(b, i) + 1)
<1> DEFINE T == {n \in i..Len(b) : ~DigitAt(b, n + 1)}
<1>1. Len(b) \in Nat
  BY DEF Texts
<1>2. Len(b) \in T
  <2>1. Len(b) \in i..Len(b) /\ ~(Len(b) + 1 \in 1..Len(b))
    BY <1>1
  <2> QED
    BY <2>1 DEF DigitAt
<1>3. T \in SUBSET Nat /\ T # {}
  BY <1>1, <1>2
<1>4. PICK n \in T : \A k \in T : n <= k
  <2> HIDE DEF T
  <2> QED
    BY <1>3, LeastNatural
<1>5. n \in i..Len(b) /\ ~DigitAt(b, n + 1)
  OBVIOUS
<1>6. ASSUME NEW j \in (i + 1)..n PROVE DigitAt(b, j)
  <2>1. j - 1 \in i..Len(b) /\ ~(n <= j - 1) /\ j - 1 + 1 = j
    BY <1>1, <1>5
  <2>2. ~(j - 1 \in T)
    <3> HIDE DEF T
    <3> QED
      BY <1>4, <2>1
  <2> QED
    BY <2>1, <2>2
<1>7. \E e \in i..Len(b) : /\ \A j \in (i + 1)..e : DigitAt(b, j)
                           /\ ~DigitAt(b, e + 1)
  BY <1>5, <1>6
<1> QED
  BY <1>7 DEF DigitsEnd

\* What the characters are to the ranges of numbers.
IsPoint(b, i) == b[i] = "."

\* A number with a point: its digits, the point, and digits again.
LEMMA DecimalIs ==
    ASSUME NEW b \in Texts, NEW from \in 0..Len(b), NEW i \in DecimalStarts(b, from)
    PROVE  \E p \in Int :
              /\ i \in from..(Len(b) - 1) /\ p = DigitsEnd(b, i) + 1
              /\ i + 1 < p /\ p < DecimalEnd(b, i) /\ DecimalEnd(b, i) \in 0..Len(b)
              /\ IsPoint(b, p)
              /\ \A j \in (i + 1)..(p - 1) : DigitAt(b, j)
              /\ \A j \in (p + 1)..DecimalEnd(b, i) : DigitAt(b, j)
<1> DEFINE p == DigitsEnd(b, i) + 1
           e == DecimalEnd(b, i)
<1>1. Len(b) \in Nat
  BY DEF Texts
<1>2. i \in from..(Len(b) - 1) /\ IsDecimal(b, i, DigitsEnd(b, i) + 1)
  BY DEF DecimalStarts
<1>3. i \in 0..Len(b)
  BY <1>1, <1>2
<1>4. DigitsEnd(b, i) \in i..Len(b) /\ \A j \in (i + 1)..DigitsEnd(b, i) : DigitAt(b, j)
  BY <1>3, DigitsEndIs
<1>5. p \in Int /\ p - 1 = DigitsEnd(b, i)
  BY <1>1, <1>3, <1>4
<1>6. i + 1 < p /\ p < Len(b) /\ IsPoint(b, p) /\ DigitAt(b, p + 1)
  BY <1>2 DEF IsDecimal, IsPoint
<1>7. p \in 0..Len(b)
  BY <1>1, <1>3, <1>5, <1>6
<1>8. e = DigitsEnd(b, p)
  BY DEF DecimalEnd
<1> HIDE DEF p, e
<1>9. e \in p..Len(b) /\ (\A j \in (p + 1)..e : DigitAt(b, j)) /\ ~DigitAt(b, e + 1)
  BY <1>7, <1>8, DigitsEndIs
<1>10. p # e
  BY <1>6, <1>9
<1>11. p < e /\ e \in 0..Len(b)
  BY <1>1, <1>5, <1>7, <1>9, <1>10
<1> QED
  BY <1>2, <1>4, <1>5, <1>6, <1>9, <1>11 DEF p, e

\* There is at most one first number, and there is one if there is any.
LEMMA FirstDecimalIs ==
    ASSUME NEW b \in Texts, NEW from \in 0..Len(b)
    PROVE  /\ \A i, j \in FirstDecimal(b, from) : i = j
           /\ FirstDecimal(b, from) \subseteq DecimalStarts(b, from)
           /\ DecimalStarts(b, from) \subseteq from..(Len(b) - 1)
           /\ \A j \in DecimalStarts(b, from) :
                 \E i \in FirstDecimal(b, from) : i <= j
<1>1. Len(b) \in Nat
  BY DEF Texts
<1> DEFINE T == DecimalStarts(b, from)
<1>2. T \subseteq from..(Len(b) - 1)
  BY DEF DecimalStarts
<1>3. FirstDecimal(b, from) \subseteq T
  BY DEF FirstDecimal
<1>4. ASSUME NEW i \in FirstDecimal(b, from), NEW j \in FirstDecimal(b, from)
      PROVE  i = j
  <2>1. i \in T /\ j \in T
    BY <1>3
  <2>2. /\ \A k \in from..(i - 1) : k \notin T
        /\ \A k \in from..(j - 1) : k \notin T
    BY DEF FirstDecimal
  <2>3. ~(j \in from..(i - 1)) /\ ~(i \in from..(j - 1))
    BY <2>1, <2>2
  <2>4. i \in from..(Len(b) - 1) /\ j \in from..(Len(b) - 1)
    BY <1>2, <2>1
  <2> QED
    BY <1>1, <2>3, <2>4
<1>5. ASSUME NEW j \in T PROVE \E i \in FirstDecimal(b, from) : i <= j
  <2> HIDE DEF T
  <2>1. T \in SUBSET Nat /\ T # {}
    BY <1>1, <1>2, <1>5
  <2>2. PICK i \in T : \A k \in T : i <= k
    BY <2>1, LeastNatural
  <2>3. \A k \in from..(i - 1) : k \notin T
    <3> SUFFICES ASSUME NEW k \in from..(i - 1), k \in T PROVE FALSE
      OBVIOUS
    <3>1. i <= k /\ i \in Nat /\ k \in Nat
      BY <2>1, <2>2
    <3> QED
      BY <3>1
  <2>4. i \in FirstDecimal(b, from)
    BY <2>2, <2>3 DEF FirstDecimal, T
  <2> QED
    BY <2>2, <2>4
<1> QED
  BY <1>2, <1>3, <1>4, <1>5

\* The ranges of numbers come from a scan that goes on from each number's end.
LEMMA DecimalScan ==
    ASSUME NEW b \in Texts
    PROVE  \E scan : /\ DecimalRanges(b) = scan[0]
                     /\ \A from \in 0..Len(b) : \A r :
                           r \in scan[from] <=>
                              \E i \in FirstDecimal(b, from) :
                                 \/ r = Range_(i, DecimalEnd(b, i), FALSE)
                                 \/ r \in scan[DecimalEnd(b, i)]
<1> DEFINE n == Len(b)
           Body(f, from) == UNION {{Range_(i, DecimalEnd(b, i), FALSE)}
                                      \cup f[DecimalEnd(b, i)] :
                                         i \in FirstDecimal(b, from)}
           First(from) == CHOOSE i \in FirstDecimal(b, from) : TRUE
           V == SUBSET [start : 0..n, end : 0..n, protectEnd : {FALSE}]
           next == [from \in 0..n |-> IF FirstDecimal(b, from) = {} THEN from
                                      ELSE DecimalEnd(b, First(from))]
           op == [x \in (0..n) \X V |->
                    IF FirstDecimal(b, x[1]) = {} THEN {}
                    ELSE {Range_(First(x[1]), DecimalEnd(b, First(x[1])), FALSE)}
                         \cup x[2]]
           scan == CHOOSE f : f = [from \in 0..n |-> Body(f, from)]
<1>1. n \in Nat /\ {} \in V
  BY DEF Texts
<1>2. ASSUME NEW from \in 0..n, FirstDecimal(b, from) # {}
      PROVE  /\ First(from) \in 0..n /\ DecimalEnd(b, First(from)) \in 0..n
             /\ DecimalEnd(b, First(from)) > from
             /\ FirstDecimal(b, from) = {First(from)}
  <2>1. First(from) \in FirstDecimal(b, from)
    BY <1>2
  <2> HIDE DEF First
  <2>2. First(from) \in DecimalStarts(b, from) /\ FirstDecimal(b, from) = {First(from)}
    BY <2>1, FirstDecimalIs
  <2>3. PICK p \in Int :
           /\ First(from) \in from..(Len(b) - 1)
           /\ First(from) + 1 < p /\ p < DecimalEnd(b, First(from))
           /\ DecimalEnd(b, First(from)) \in 0..Len(b)
    BY <2>2, DecimalIs
  <2> QED
    BY <1>1, <2>2, <2>3
<1>3. next \in [0..n -> 0..n]
  <2> HIDE DEF First
  <2> QED
    BY <1>2
<1>4. ASSUME NEW i \in 0..n, NEW e \in 0..n, NEW v \in V
      PROVE  {Range_(i, e, FALSE)} \cup v \in V
  <2>1. Range_(i, e, FALSE) \in [start : 0..n, end : 0..n, protectEnd : {FALSE}]
    BY DEF Range_
  <2> QED
    BY <2>1
<1> HIDE DEF V
<1>5. op \in [(0..n) \X V -> V]
  <2>1. ASSUME NEW i \in 0..n, NEW v \in V
        PROVE  (IF FirstDecimal(b, i) = {} THEN {}
                ELSE {Range_(First(i), DecimalEnd(b, First(i)), FALSE)} \cup v) \in V
    <3> HIDE DEF First, n
    <3>1. CASE FirstDecimal(b, i) = {}
      BY <1>1, <3>1
    <3>2. CASE FirstDecimal(b, i) # {}
      <4>1. First(i) \in 0..n /\ DecimalEnd(b, First(i)) \in 0..n
        BY <1>2, <3>2
      <4>2. {Range_(First(i), DecimalEnd(b, First(i)), FALSE)} \cup v \in V
        BY <1>4, <4>1
      <4> QED
        BY <3>2, <4>2
    <3> QED
      BY <3>1, <3>2
  <2> HIDE DEF First, n
  <2>2. ASSUME NEW x \in (0..n) \X V
        PROVE  (IF FirstDecimal(b, x[1]) = {} THEN {}
                ELSE {Range_(First(x[1]), DecimalEnd(b, First(x[1])), FALSE)}
                     \cup x[2]) \in V
    <3>1. x[1] \in 0..n /\ x[2] \in V
      OBVIOUS
    <3> QED
      BY <2>1, <3>1
  <2> QED
    BY <2>2
<1>6. PICK f \in [0..n -> V] : Follows(f, n, next, op, {})
  <2> HIDE DEF n, next, op
  <2> QED
    BY <1>1, <1>3, <1>5, Recursion
<1>7. ASSUME NEW i \in 0..n PROVE f[i] = Body(f, i)
  <2>0. i \in Nat
    BY <1>1
  <2>1. CASE FirstDecimal(b, i) = {}
    <3>1. next[i] = i
      BY <2>1
    <3>2. f[i] = {}
      <4> HIDE DEF n, next, op
      <4>1. ~(next[i] > i)
        BY <2>0, <3>1
      <4> QED
        BY <1>6, <4>1 DEF Follows
    <3> QED
      BY <2>1, <3>2
  <2>2. CASE FirstDecimal(b, i) # {}
    <3> DEFINE d == First(i)
    <3>1. /\ DecimalEnd(b, d) \in 0..n /\ DecimalEnd(b, d) > i
          /\ FirstDecimal(b, i) = {d}
      BY <1>2, <2>2
    <3>2. next[i] = DecimalEnd(b, d)
      BY <2>2
    <3>3. f[next[i]] \in V
      <4> HIDE DEF n, next
      <4> QED
        BY <1>3
    <3>4. op[<<i, f[next[i]]>>] = {Range_(d, DecimalEnd(b, d), FALSE)} \cup f[next[i]]
      <4> HIDE DEF n, next, First
      <4> DEFINE x == <<i, f[next[i]]>>
      <4>1. x \in (0..n) \X V /\ x[1] = i /\ x[2] = f[next[i]]
        BY <3>3
      <4> HIDE DEF x
      <4>2. op[x] = {Range_(First(x[1]), DecimalEnd(b, First(x[1])), FALSE)} \cup x[2]
        BY <2>2, <4>1
      <4> QED
        BY <4>1, <4>2 DEF x
    <3>5. f[i] = op[<<i, f[next[i]]>>]
      <4> HIDE DEF op, next, n
      <4> QED
        BY <1>6, <3>1, <3>2 DEF Follows
    <3> HIDE DEF d, op, next, n
    <3> QED
      BY <3>1, <3>2, <3>4, <3>5
  <2> QED
    BY <2>1, <2>2
<1>8. f = [from \in 0..n |-> Body(f, from)]
  <2> HIDE DEF Body, n
  <2> QED
    BY <1>7
<1>9. scan = [from \in 0..n |-> Body(scan, from)]
  <2>1. \E g : g = [from \in 0..n |-> Body(g, from)]
    <3> HIDE DEF Body, n
    <3> QED
      BY <1>8, Zenon
  <2> QED
    BY <2>1, Zenon
<1>10. DecimalRanges(b) = scan[0]
  BY DEF DecimalRanges
<1> HIDE DEF scan
<1>11. ASSUME NEW from \in 0..n PROVE scan[from] = Body(scan, from)
  <2> HIDE DEF Body, n
  <2>1. \A g : g = [x \in 0..n |-> Body(scan, x)] => g[from] = Body(scan, from)
    OBVIOUS
  <2> QED
    BY <1>9, <2>1
<1>12. ASSUME NEW from \in 0..n, NEW r
       PROVE  r \in scan[from] <=>
                 \E i \in FirstDecimal(b, from) :
                    \/ r = Range_(i, DecimalEnd(b, i), FALSE)
                    \/ r \in scan[DecimalEnd(b, i)]
  <2> DEFINE Sets(i) == {Range_(i, DecimalEnd(b, i), FALSE)} \cup scan[DecimalEnd(b, i)]
  <2>1. scan[from] = UNION {Sets(i) : i \in FirstDecimal(b, from)}
    BY <1>11, Zenon
  <2>2. \A i : r \in Sets(i) <=> \/ r = Range_(i, DecimalEnd(b, i), FALSE)
                                \/ r \in scan[DecimalEnd(b, i)]
    BY Zenon
  <2> HIDE DEF Sets
  <2>3. r \in scan[from] <=> \E i \in FirstDecimal(b, from) : r \in Sets(i)
    BY <2>1, Zenon
  <2> QED
    BY <2>2, <2>3, Zenon
<1> QED
  BY <1>10, <1>12, Zenon

\* r holds a number whose point is character p.
IsNumber(b, r, p) ==
    /\ r.start \in 0..Len(b) /\ p \in Int /\ r.end \in 0..Len(b)
    /\ r.start + 1 < p /\ p <= r.end
    /\ IsPoint(b, p)
    /\ \A j \in (r.start + 1)..(p - 1) : DigitAt(b, j)
    /\ \A j \in (p + 1)..r.end : DigitAt(b, j)
    /\ \/ p < r.end /\ ~r.protectEnd
       \/ p = r.end /\ r.protectEnd /\ p \in TrailingPoints(b)

\* What the scan finds are numbers with digits on both sides of the point.
LEMMA DecimalRangeIs ==
    ASSUME NEW b \in Texts, NEW r \in DecimalRanges(b)
    PROVE  \E p : IsNumber(b, r, p)
<1>1. PICK scan : /\ DecimalRanges(b) = scan[0]
                  /\ \A from \in 0..Len(b) : \A x :
                        x \in scan[from] <=>
                           \E y \in FirstDecimal(b, from) :
                              \/ x = Range_(y, DecimalEnd(b, y), FALSE)
                              \/ x \in scan[DecimalEnd(b, y)]
  BY DecimalScan, Zenon
<1> DEFINE Odd(s) == ~\E p : IsNumber(b, s, p)
           T == {from \in 0..Len(b) : \E s \in scan[from] : Odd(s)}
<1>2. Len(b) \in Nat
  BY DEF Texts
<1> SUFFICES ASSUME Odd(r) PROVE FALSE
  OBVIOUS
<1>3. 0 \in T
  <2> HIDE DEF Odd
  <2> QED
    BY <1>1, <1>2
<1>4. T \in SUBSET (0..Len(b)) /\ T # {}
  <2> HIDE DEF Odd
  <2> QED
    BY <1>3
<1>5. PICK from \in T : \A k \in T : k <= from
  <2> HIDE DEF T
  <2> QED
    BY <1>2, <1>4, GreatestNatural
<1>6. PICK s \in scan[from] : Odd(s)
  <2> HIDE DEF Odd
  <2> QED
    BY <1>5
<1>7. from \in 0..Len(b)
  BY <1>4
<1> HIDE DEF Odd
<1>8. PICK i \in FirstDecimal(b, from) :
         s = Range_(i, DecimalEnd(b, i), FALSE) \/ s \in scan[DecimalEnd(b, i)]
  BY <1>1, <1>6, <1>7
<1>9. i \in DecimalStarts(b, from)
  BY <1>7, FirstDecimalIs
<1>10. PICK p \in Int :
          /\ i \in from..(Len(b) - 1) /\ p = DigitsEnd(b, i) + 1
          /\ i + 1 < p /\ p < DecimalEnd(b, i) /\ DecimalEnd(b, i) \in 0..Len(b)
          /\ IsPoint(b, p)
          /\ \A j \in (i + 1)..(p - 1) : DigitAt(b, j)
          /\ \A j \in (p + 1)..DecimalEnd(b, i) : DigitAt(b, j)
  BY <1>7, <1>9, DecimalIs
<1>11. CASE s = Range_(i, DecimalEnd(b, i), FALSE)
  <2>1. s.start = i /\ s.end = DecimalEnd(b, i) /\ ~s.protectEnd
    BY <1>11 DEF Range_
  <2>2. i \in 0..Len(b)
    BY <1>2, <1>7, <1>10
  <2>3. IsNumber(b, s, p)
    BY <1>10, <2>1, <2>2 DEF IsNumber
  <2> QED
    BY <1>6, <2>3 DEF Odd
<1>12. CASE s \in scan[DecimalEnd(b, i)]
  <2>1. DecimalEnd(b, i) \in T
    BY <1>6, <1>10, <1>12
  <2>2. DecimalEnd(b, i) <= from
    <3> HIDE DEF T
    <3> QED
      BY <1>5, <2>1
  <2> QED
    BY <1>2, <1>7, <1>10, <2>2
<1> QED
  BY <1>8, <1>11, <1>12

\* The scan finds a number that no other number runs into.
LEMMA NumberFound ==
    ASSUME NEW b \in Texts, NEW i \in 0..Len(b), NEW p \in Int,
           i + 1 < p, p < Len(b), IsPoint(b, p), DigitAt(b, p + 1),
           \A j \in (i + 1)..(p - 1) : DigitAt(b, j),
           i = 0 \/ ~(DigitAt(b, i) \/ IsPoint(b, i))
    PROVE  \E r \in DecimalRanges(b) : ContainsCut(r, p)
<1>1. PICK scan : /\ DecimalRanges(b) = scan[0]
                  /\ \A from \in 0..Len(b) : \A x :
                        x \in scan[from] <=>
                           \E y \in FirstDecimal(b, from) :
                              \/ x = Range_(y, DecimalEnd(b, y), FALSE)
                              \/ x \in scan[DecimalEnd(b, y)]
  BY DecimalScan, Zenon
<1>2. Len(b) \in Nat
  BY DEF Texts
<1>3. ~DigitAt(b, p)
  BY DEF IsPoint, DigitAt, Digits
<1>4. DigitsEnd(b, i) = p - 1
  <2> DEFINE d == DigitsEnd(b, i)
  <2>1. d \in i..Len(b) /\ (\A j \in (i + 1)..d : DigitAt(b, j)) /\ ~DigitAt(b, d + 1)
    BY DigitsEndIs
  <2> HIDE DEF d
  <2>2. ~(p \in (i + 1)..d)
    BY <1>3, <2>1
  <2>3. ~(d + 1 \in (i + 1)..(p - 1))
    BY <2>1
  <2>4. d = p - 1
    BY <1>2, <2>1, <2>2, <2>3
  <2> QED
    BY <2>4 DEF d
<1>5. IsDecimal(b, i, DigitsEnd(b, i) + 1)
  <2>1. DigitsEnd(b, i) + 1 = p
    BY <1>4
  <2> QED
    BY <2>1 DEF IsDecimal, IsPoint
<1> DEFINE Has(from) == \E r \in scan[from] : ContainsCut(r, p)
           T == {from \in 0..i : ~Has(from)}
<1> SUFFICES ASSUME ~Has(0) PROVE FALSE
  BY <1>1
<1>6. T \in SUBSET (0..i) /\ T # {} /\ i \in Nat
  <2> HIDE DEF Has
  <2>1. 0 \in T
    BY <1>2
  <2> QED
    BY <1>2, <2>1
<1>7. PICK from \in T : \A k \in T : k <= from
  <2> HIDE DEF T
  <2> QED
    BY <1>6, GreatestNatural
<1> HIDE DEF Has
<1>8. from \in 0..i /\ ~Has(from) /\ from \in 0..Len(b)
  BY <1>2, <1>7
<1>9. i \in DecimalStarts(b, from)
  <2>1. i \in from..(Len(b) - 1)
    BY <1>2, <1>8
  <2> QED
    BY <1>5, <2>1 DEF DecimalStarts
<1>10. PICK k \in FirstDecimal(b, from) : k <= i
  BY <1>8, <1>9, FirstDecimalIs
<1>11. /\ Range_(k, DecimalEnd(b, k), FALSE) \in scan[from]
       /\ \A r \in scan[DecimalEnd(b, k)] : r \in scan[from]
  BY <1>1, <1>8, <1>10
<1>12. k \in DecimalStarts(b, from)
  BY <1>8, FirstDecimalIs
<1>13. PICK q \in Int :
          /\ k \in from..(Len(b) - 1) /\ q = DigitsEnd(b, k) + 1
          /\ k + 1 < q /\ q < DecimalEnd(b, k) /\ DecimalEnd(b, k) \in 0..Len(b)
          /\ \A j \in (k + 1)..(q - 1) : DigitAt(b, j)
          /\ IsPoint(b, q)
          /\ \A j \in (q + 1)..DecimalEnd(b, k) : DigitAt(b, j)
  BY <1>8, <1>12, DecimalIs
<1>14. CASE k = i
  <2> DEFINE r == Range_(k, DecimalEnd(b, k), FALSE)
  <2>1. q = p
    BY <1>4, <1>13, <1>14
  <2>2. r.start = k /\ r.end = DecimalEnd(b, k)
    BY DEF Range_
  <2>3. r \in scan[from]
    BY <1>11
  <2> HIDE DEF r
  <2>4. r.start < p /\ p < r.end
    BY <1>2, <1>8, <1>13, <2>1, <2>2
  <2>5. ContainsCut(r, p)
    BY <2>4 DEF ContainsCut
  <2> QED
    BY <1>8, <2>3, <2>5 DEF Has
<1>15. CASE k # i
  <2> DEFINE e == DecimalEnd(b, k)
  <2>1. e \in 0..Len(b) /\ k < i /\ from < e
    BY <1>2, <1>8, <1>10, <1>13, <1>15
  <2>2. ~(i \in (k + 1)..e)
    <3> SUFFICES ASSUME i \in (k + 1)..e PROVE FALSE
      OBVIOUS
    <3>1. i \in (k + 1)..(q - 1) \/ i = q \/ i \in (q + 1)..e
      BY <1>2, <1>13, <2>1
    <3>2. DigitAt(b, i) \/ IsPoint(b, i)
      BY <1>13, <3>1
    <3> QED
      BY <1>2, <1>8, <1>13, <2>1, <3>2
  <2> HIDE DEF e
  <2>3. e \in 0..i
    BY <1>2, <1>13, <2>1, <2>2
  <2>4. ~(e \in T)
    <3> HIDE DEF T
    <3> QED
      BY <1>6, <1>7, <1>8, <2>1
  <2>5. Has(e)
    BY <2>3, <2>4
  <2>6. Has(from)
    BY <1>11, <2>5 DEF Has, e
  <2> QED
    BY <1>8, <2>6
<1> QED
  BY <1>14, <1>15

\* A trailing range holds the digits and the point at the end of the text.
LEMMA TrailingRangeIs ==
    ASSUME NEW b \in Texts, NEW r \in TrailingDecimalRanges(b)
    PROVE  \E p : IsNumber(b, r, p)
<1> DEFINE S(p) == {i \in 0..(p - 2) : \A j \in (i + 1)..(p - 1) : DigitAt(b, j)}
<1>1. Len(b) \in Nat
  BY DEF Texts
<1>2. PICK p \in TrailingPoints(b) : r = Range_(Min(S(p)), p, TRUE)
  BY DEF TrailingDecimalRanges
<1>3. p \in 2..Len(b) /\ IsPoint(b, p) /\ DigitAt(b, p - 1)
  BY DEF TrailingPoints, IsPoint
<1>4. p - 2 \in Nat /\ p \in Int
  BY <1>1, <1>3
<1>5. p - 2 \in S(p)
  <2>1. p - 2 \in 0..(p - 2) /\ \A j \in (p - 2 + 1)..(p - 1) : j = p - 1
    BY <1>4
  <2> QED
    BY <1>3, <2>1
<1>6. S(p) \in SUBSET (0..(p - 2)) /\ S(p) # {}
  BY <1>5
<1>7. Min(S(p)) \in S(p)
  <2> HIDE DEF S
  <2> QED
    BY <1>4, <1>6, MinMax
<1> DEFINE m == Min(S(p))
<1>8. m \in 0..(p - 2) /\ \A j \in (m + 1)..(p - 1) : DigitAt(b, j)
  BY <1>7
<1>9. r.start = m /\ r.end = p /\ r.protectEnd
  BY <1>2 DEF Range_
<1> HIDE DEF m
<1>10. m \in 0..Len(b) /\ p \in 0..Len(b) /\ m + 1 < p
  BY <1>1, <1>3, <1>8
<1>11. \A j \in (p + 1)..r.end : FALSE
  BY <1>4, <1>9
<1>12. p <= r.end /\ r.start + 1 < p /\ r.start \in 0..Len(b) /\ r.end \in 0..Len(b)
  BY <1>4, <1>9, <1>10
<1>13. \A j \in (r.start + 1)..(p - 1) : DigitAt(b, j)
  BY <1>8, <1>9
<1>14. p = r.end /\ r.protectEnd /\ p \in TrailingPoints(b)
  BY <1>2, <1>9
<1> QED
  BY <1>3, <1>4, <1>11, <1>12, <1>13, <1>14 DEF IsNumber

\* What the characters are to the endings of sentences.
Stops(b, i) == b[i] \in StrongEndings

\* A protected range holds a tag or a number: no ending lies in it, and a point
\* only as the point of its number.
LEMMA ProtectedChars ==
    ASSUME NEW b \in Texts, NEW r \in ProtectedRanges(b), NEW j \in Int,
           r.start < j, j <= r.end
    PROVE  ~Stops(b, j) /\ (IsPoint(b, j) => IsNumber(b, r, j))
<1>1. \A i \in Int : /\ DigitAt(b, i) => ~Stops(b, i) /\ ~IsPoint(b, i)
                     /\ InTag(b, i) => ~Stops(b, i) /\ ~IsPoint(b, i)
                     /\ IsPoint(b, i) => ~Stops(b, i)
  BY DEF DigitAt, Stops, IsPoint, InTag, Digits, StrongEndings
<1>2. CASE r \in OfficialTagRanges(b)
  BY <1>1, <1>2, TagRangeChars
<1>3. CASE \E p : IsNumber(b, r, p)
  <2>1. PICK p : IsNumber(b, r, p)
    BY <1>3
  <2>2. /\ r.start \in 0..Len(b) /\ p \in Int /\ r.end \in 0..Len(b)
        /\ \A i \in (r.start + 1)..(p - 1) : DigitAt(b, i)
        /\ \A i \in (p + 1)..r.end : DigitAt(b, i)
        /\ IsPoint(b, p)
    BY <2>1 DEF IsNumber
  <2>3. Len(b) \in Nat
    BY DEF Texts
  <2>4. j \in (r.start + 1)..(p - 1) \/ j = p \/ j \in (p + 1)..r.end
    BY <2>2, <2>3
  <2>5. CASE j = p
    BY <1>1, <2>1, <2>2, <2>5
  <2>6. CASE j # p
    <3>1. DigitAt(b, j)
      BY <2>2, <2>4, <2>6
    <3> QED
      BY <1>1, <3>1
  <2> QED
    BY <2>5, <2>6
<1> QED
  BY <1>2, <1>3, DecimalRangeIs, TrailingRangeIs DEF ProtectedRanges

\* The point of a protected number has a digit before it, and one behind it
\* unless it may still get one.
LEMMA NumberPoint ==
    ASSUME NEW b \in Texts, NEW r, NEW p, IsNumber(b, r, p)
    PROVE  /\ r.start < p - 1 /\ p - 1 < r.end /\ p \in Int
           /\ DigitAt(b, p - 1)
           /\ DigitAt(b, p + 1) \/ p \in TrailingPoints(b)
<1>1. Len(b) \in Nat
  BY DEF Texts
<1>2. /\ r.start \in 0..Len(b) /\ p \in Int /\ r.end \in 0..Len(b)
      /\ r.start + 1 < p /\ p <= r.end
      /\ \A j \in (r.start + 1)..(p - 1) : DigitAt(b, j)
      /\ \A j \in (p + 1)..r.end : DigitAt(b, j)
      /\ p < r.end \/ p \in TrailingPoints(b)
  BY DEF IsNumber
<1>3. p - 1 \in (r.start + 1)..(p - 1) /\ (p < r.end => p + 1 \in (p + 1)..r.end)
  BY <1>1, <1>2
<1>4. r.start < p - 1 /\ p - 1 < r.end
  BY <1>1, <1>2
<1> QED
  BY <1>2, <1>3, <1>4

-----------------------------------------------------------------------------
(* Cuts. *)

\* LastCut is the greatest element, 0 when there is none.
LEMMA LastCutIs ==
    ASSUME NEW n \in Nat, NEW T \in SUBSET (1..n)
    PROVE  /\ T = {} => LastCut(T) = 0
           /\ T # {} => LastCut(T) \in T /\ \A k \in T : k <= LastCut(T)
<1>1. T \cup {0} \in SUBSET (0..n) /\ T \cup {0} # {}
  OBVIOUS
<1>2. /\ Max(T \cup {0}) \in T \cup {0}
      /\ \A k \in T \cup {0} : k <= Max(T \cup {0})
  BY <1>1, MinMax
<1>3. ASSUME T # {} PROVE Max(T \cup {0}) # 0
  <2>1. PICK k \in T : TRUE
    BY <1>3
  <2>2. k <= Max(T \cup {0}) /\ k \in 1..n
    BY <1>2
  <2> QED
    BY <2>2
<1> QED
  BY <1>2, <1>3 DEF LastCut

\* What is safe from every range is safe from those of the tags.
LEMMA SafeFromAll ==
    ASSUME NEW b, NEW k, IsSafeCut(k, ProtectedRanges(b))
    PROVE  IsSafeCut(k, OfficialTagRanges(b))
  BY DEF IsSafeCut, ProtectedRanges

\* How far regular cuts may go.
Reach(b) == Min({Len(b), Hard})

\* That is the end of the text or the hard limit.
LEMMA ReachIs ==
    ASSUME NEW b \in Texts
    PROVE  /\ Reach(b) \in Nat /\ Reach(b) <= Len(b) /\ Reach(b) <= Hard
           /\ Reach(b) = Len(b) \/ (Reach(b) = Hard /\ Hard <= Len(b))
<1>1. Len(b) \in Nat /\ Hard \in Nat
  BY Limits DEF Texts
<1> DEFINE n == Len(b) + Hard
           T == {Len(b), Hard}
<1>2. n \in Nat /\ T \in SUBSET (0..n) /\ T # {}
  BY <1>1
<1>3. Min(T) \in T /\ \A k \in T : Min(T) <= k
  <2> HIDE DEF n, T
  <2> QED
    BY <1>2, MinMax
<1> QED
  BY <1>1, <1>3 DEF Reach

\* A regular cut is a safe place within the limit, and only when there is none
\* it may cut a number; without one the text is short and no ending in it is
\* safe to cut at.
LEMMA RegularCutIs ==
    ASSUME NEW b \in Texts
    PROVE  LET k == RegularCut(b)
               safe == SafeCuts(Reach(b), ProtectedRanges(b))
           IN /\ k \in 0..Len(b) /\ k <= Hard
              /\ k = 0 => /\ Len(b) < Hard
                          /\ \A j \in safe : ~IsStrongCut(b, j)
              /\ k # 0 => \/ k \in safe
                          \/ /\ safe = {} /\ Hard <= Len(b)
                             /\ IsSafeCut(k, OfficialTagRanges(b))
                             /\ \A j \in (k + 1)..Hard :
                                   ~IsSafeCut(j, OfficialTagRanges(b))
<1> DEFINE safe == SafeCuts(Reach(b), ProtectedRanges(b))
           tagSafe == SafeCuts(Hard, OfficialTagRanges(b))
           strong == {k \in safe : IsStrongCut(b, k)}
           soft == {k \in safe \cap (SoftMin..Target) : IsSoftCut(b, k)}
           spaces == {k \in safe : k >= SoftMin /\ b[k] \in Spaces}
<1>1. Len(b) \in Nat /\ Hard \in Nat /\ 1 <= Hard
  BY Limits DEF Texts
<1>2. Reach(b) \in Nat /\ Reach(b) <= Len(b) /\ Reach(b) <= Hard
  BY ReachIs
<1>3. safe \in SUBSET (1..Reach(b)) /\ tagSafe \in SUBSET (1..Hard)
  BY DEF SafeCuts
<1>4. RegularCut(b) = FirstCut(b, safe, strong, soft)
  BY DEF RegularCut, CutAmong, Reach
<1>5. \A k \in safe : k \in 0..Len(b) /\ k <= Hard /\ k # 0
  <2> HIDE DEF safe
  <2> QED
    BY <1>1, <1>2, <1>3
<1>6. CASE strong # {}
  <2>1. strong \in SUBSET (0..Reach(b))
    BY <1>3
  <2>2. Min(strong) \in strong
    <3> HIDE DEF strong
    <3> QED
      BY <1>2, <1>6, <2>1, MinMax
  <2>3. RegularCut(b) = Min(strong)
    BY <1>4, <1>6 DEF FirstCut
  <2>4. RegularCut(b) \in safe
    BY <2>2, <2>3
  <2> HIDE DEF safe, strong
  <2> QED
    BY <1>5, <2>4 DEF safe
<1>7. CASE strong = {} /\ soft # {}
  <2>1. soft \in SUBSET (0..Reach(b))
    BY <1>3
  <2>2. Min(soft) \in soft /\ Max(soft) \in soft
    <3> HIDE DEF soft
    <3> QED
      BY <1>2, <1>7, <2>1, MinMax
  <2>3. RegularCut(b) = IF Len(b) >= Target THEN Max(soft) ELSE Min(soft)
    <3> HIDE DEF strong, soft, safe
    <3> QED
      BY <1>4, <1>7 DEF FirstCut
  <2>4. RegularCut(b) \in soft
    <3> HIDE DEF soft
    <3> QED
      BY <2>2, <2>3
  <2>5. RegularCut(b) \in safe
    BY <2>4
  <2> HIDE DEF safe, soft
  <2> QED
    BY <1>5, <2>5 DEF safe
<1>8. CASE strong = {} /\ soft = {} /\ Len(b) < Hard
  <2>1. RegularCut(b) = 0
    <3> HIDE DEF strong, soft, safe
    <3>1. ~(Len(b) >= Hard)
      BY <1>1, <1>8
    <3> QED
      BY <1>4, <1>8, <3>1 DEF FirstCut
  <2>2. \A j \in safe : ~IsStrongCut(b, j)
    BY <1>8
  <2> HIDE DEF safe
  <2> QED
    BY <1>1, <1>8, <2>1, <2>2 DEF safe
<1>9. CASE strong = {} /\ soft = {} /\ ~(Len(b) < Hard)
  <2>1. Hard <= Len(b) /\ Len(b) >= Hard
    BY <1>1, <1>9
  <2>2. RegularCut(b) = HardCut(b, safe)
    <3> HIDE DEF strong, soft, safe
    <3> QED
      BY <1>4, <1>9, <2>1 DEF FirstCut
  <2>3. CASE spaces # {}
    <3>1. RegularCut(b) = LastCut(spaces)
      BY <2>2, <2>3 DEF HardCut
    <3>2. spaces \in SUBSET (1..Reach(b))
      BY <1>3
    <3>3. LastCut(spaces) \in spaces
      <4> HIDE DEF spaces
      <4> QED
        BY <1>2, <2>3, <3>2, LastCutIs
    <3>4. RegularCut(b) \in safe
      BY <3>1, <3>3
    <3> HIDE DEF safe, spaces
    <3> QED
      BY <1>5, <3>4 DEF safe
  <2>4. CASE spaces = {} /\ safe # {}
    <3>1. RegularCut(b) = LastCut(safe)
      BY <2>2, <2>4 DEF HardCut
    <3>2. LastCut(safe) \in safe
      <4> HIDE DEF safe
      <4> QED
        BY <1>2, <1>3, <2>4, LastCutIs
    <3> HIDE DEF safe
    <3> QED
      BY <1>5, <3>1, <3>2 DEF safe
  <2>5. CASE spaces = {} /\ safe = {}
    <3>1. RegularCut(b) = LastCut(tagSafe)
      BY <2>2, <2>5 DEF HardCut
    <3>2. tagSafe # {}
      <4>1. PICK k \in 1..Hard : IsSafeCut(k, OfficialTagRanges(b))
        BY <2>1, SomeCutSparesTags
      <4> QED
        BY <4>1 DEF SafeCuts
    <3>3. LastCut(tagSafe) \in tagSafe /\ \A k \in tagSafe : k <= LastCut(tagSafe)
      <4> HIDE DEF tagSafe
      <4> QED
        BY <1>1, <1>3, <3>2, LastCutIs
    <3> DEFINE k == RegularCut(b)
    <3>4. k \in 1..Hard /\ IsSafeCut(k, OfficialTagRanges(b))
      BY <3>1, <3>3 DEF SafeCuts
    <3>5. ASSUME NEW j \in (k + 1)..Hard PROVE ~IsSafeCut(j, OfficialTagRanges(b))
      <4>1. j \in 1..Hard /\ ~(j <= k)
        BY <1>1, <3>4, <3>5
      <4>2. ~(j \in tagSafe)
        <5> HIDE DEF tagSafe, k
        <5> QED
          BY <3>1, <3>3, <4>1 DEF k
      <4> QED
        BY <4>1, <4>2 DEF SafeCuts
    <3>6. k \in 0..Len(b) /\ k <= Hard /\ k # 0
      BY <1>1, <2>1, <3>4
    <3> HIDE DEF k, safe
    <3> QED
      BY <2>1, <2>5, <3>4, <3>5, <3>6 DEF k, safe
  <2> QED
    BY <2>3, <2>4, <2>5
<1> QED
  BY <1>6, <1>7, <1>8, <1>9

\* An expired deadline cuts at a safe place: at the last soft ending, or as late
\* as possible.
LEMMA DeadlineCutIs ==
    ASSUME NEW b \in Texts
    PROVE  LET k == DeadlineCut(b)
               safe == SafeCuts(Len(b), ProtectedRanges(b))
           IN /\ k \in 0..Len(b)
              /\ k = 0 <=> safe = {}
              /\ k # 0 => k \in safe /\ (IsSoftCut(b, k) \/ \A j \in safe : j <= k)
<1> DEFINE safe == SafeCuts(Len(b), ProtectedRanges(b))
           soft == {k \in safe : IsSoftCut(b, k)}
<1>1. Len(b) \in Nat /\ safe \in SUBSET (1..Len(b)) /\ soft \in SUBSET (1..Len(b))
  BY DEF SafeCuts, Texts
<1>2. DeadlineCut(b) = LastCut(IF soft # {} THEN soft ELSE safe)
  BY DEF DeadlineCut, LastSoftCut
<1>3. CASE soft # {}
  <2>1. LastCut(soft) \in soft
    <3> HIDE DEF soft, safe
    <3> QED
      BY <1>1, <1>3, LastCutIs
  <2>2. DeadlineCut(b) = LastCut(soft)
    BY <1>2, <1>3
  <2>3. DeadlineCut(b) \in safe /\ IsSoftCut(b, DeadlineCut(b))
    BY <2>1, <2>2
  <2> HIDE DEF safe
  <2> QED
    BY <1>1, <2>3 DEF safe
<1>4. CASE soft = {} /\ safe # {}
  <2>1. LastCut(safe) \in safe /\ \A k \in safe : k <= LastCut(safe)
    <3> HIDE DEF safe
    <3> QED
      BY <1>1, <1>4, LastCutIs
  <2>2. DeadlineCut(b) = LastCut(safe)
    BY <1>2, <1>4
  <2> HIDE DEF safe
  <2> QED
    BY <1>1, <2>1, <2>2 DEF safe
<1>5. CASE safe = {}
  <2>1. soft = {} /\ DeadlineCut(b) = LastCut(safe)
    BY <1>2, <1>5
  <2>2. LastCut(safe) = 0
    <3> HIDE DEF safe
    <3> QED
      BY <1>1, <1>5, LastCutIs
  <2> HIDE DEF safe
  <2> QED
    BY <1>1, <1>5, <2>1, <2>2 DEF safe
<1> QED
  BY <1>3, <1>4, <1>5

\* The place behind which the i-th of the segments cut at places p begins, when
\* the first begins behind a.
Start(a, p, i) == IF i = 1 THEN a ELSE p[i - 1]

\* The places p are those of regular cuts one after the other from a on, until
\* there is none.
RegularFrom(text, a, p) ==
    /\ p \in Seq(Nat)
    /\ \A i \in 1..Len(p) :
          /\ Start(a, p, i) \in 0..Len(text) /\ p[i] \in 0..Len(text)
          /\ Start(a, p, i) < p[i]
          /\ p[i] = Start(a, p, i) + RegularCut(Rest(text, Start(a, p, i)))
    /\ Start(a, p, Len(p) + 1) \in 0..Len(text)
    /\ RegularCut(Rest(text, Start(a, p, Len(p) + 1))) = 0

\* One more place in front.
LEMMA OneMoreCut ==
    ASSUME NEW text \in Texts, NEW a \in 0..Len(text), NEW c \in 0..Len(text), a < c,
           c = a + RegularCut(Rest(text, a)),
           NEW q, RegularFrom(text, c, q)
    PROVE  RegularFrom(text, a, <<c>> \o q)
<1> DEFINE p == <<c>> \o q
<1>1. Len(text) \in Nat
  BY DEF Texts
<1>2. q \in Seq(Nat) /\ <<c>> \in Seq(Nat) /\ Len(<<c>>) = 1 /\ <<c>>[1] = c
  BY <1>1 DEF RegularFrom
<1>3. /\ p \in Seq(Nat) /\ Len(p) = 1 + Len(q)
      /\ \A i \in 1..(1 + Len(q)) : p[i] = IF i <= 1 THEN <<c>>[i] ELSE q[i - 1]
  BY <1>2, ConcatProperties
<1>4. Len(q) \in Nat
  BY <1>2
<1> HIDE DEF p
<1>5. p[1] = c /\ \A i \in 1..Len(q) : p[i + 1] = q[i]
  <2>1. 1 \in 1..(1 + Len(q)) /\ 1 <= 1
    BY <1>4
  <2>2. p[1] = c
    BY <1>2, <1>3, <2>1
  <2>3. ASSUME NEW i \in 1..Len(q) PROVE p[i + 1] = q[i]
    <3>1. i + 1 \in 1..(1 + Len(q)) /\ ~(i + 1 <= 1) /\ i + 1 - 1 = i
      BY <1>4
    <3> QED
      BY <1>3, <3>1
  <2> QED
    BY <2>2, <2>3
<1>6. Start(a, p, 1) = a
  BY DEF Start
<1>7. ASSUME NEW i \in 2..(Len(q) + 2) PROVE Start(a, p, i) = Start(c, q, i - 1)
  <2>1. i # 1 /\ i - 1 \in 1..(Len(q) + 1) /\ Start(a, p, i) = p[i - 1]
    BY <1>4 DEF Start
  <2>2. CASE i = 2
    <3>1. i - 1 = 1
      BY <2>2
    <3> QED
      BY <1>5, <2>1, <3>1 DEF Start
  <2>3. CASE i # 2
    <3>1. i - 2 \in 1..Len(q) /\ i - 2 + 1 = i - 1 /\ i - 1 - 1 = i - 2 /\ i - 1 # 1
      BY <1>4, <2>3
    <3>2. p[i - 1] = q[i - 2]
      BY <1>5, <3>1
    <3> QED
      BY <2>1, <3>1, <3>2 DEF Start
  <2> QED
    BY <2>2, <2>3
<1>8. ASSUME NEW i \in 1..Len(p)
      PROVE  /\ Start(a, p, i) \in 0..Len(text) /\ p[i] \in 0..Len(text)
             /\ Start(a, p, i) < p[i]
             /\ p[i] = Start(a, p, i) + RegularCut(Rest(text, Start(a, p, i)))
  <2>1. CASE i = 1
    BY <1>5, <1>6, <2>1
  <2>2. CASE i # 1
    <3>1. i \in 2..(Len(q) + 2) /\ i - 1 \in 1..Len(q) /\ i - 1 + 1 = i
      BY <1>3, <1>4, <2>2
    <3>2. p[i] = q[i - 1] /\ Start(a, p, i) = Start(c, q, i - 1)
      BY <1>5, <1>7, <3>1
    <3>3. /\ Start(c, q, i - 1) \in 0..Len(text) /\ q[i - 1] \in 0..Len(text)
          /\ Start(c, q, i - 1) < q[i - 1]
          /\ q[i - 1] = Start(c, q, i - 1) + RegularCut(Rest(text, Start(c, q, i - 1)))
      BY <3>1 DEF RegularFrom
    <3> QED
      BY <3>2, <3>3
  <2> QED
    BY <2>1, <2>2
<1>9. Start(a, p, Len(p) + 1) = Start(c, q, Len(q) + 1)
  <2>1. Len(p) + 1 \in 2..(Len(q) + 2) /\ Len(p) + 1 - 1 = Len(q) + 1
    BY <1>3, <1>4
  <2> QED
    BY <1>7, <2>1
<1>10. /\ Start(c, q, Len(q) + 1) \in 0..Len(text)
       /\ RegularCut(Rest(text, Start(c, q, Len(q) + 1))) = 0
  BY DEF RegularFrom
<1>11. RegularFrom(text, a, p)
  BY <1>3, <1>8, <1>9, <1>10 DEF RegularFrom
<1> QED
  BY <1>11 DEF p

\* CutPlaces goes from cut to cut.
LEMMA PlacesScan ==
    ASSUME NEW text \in Texts
    PROVE  \E places : /\ CutPlaces(text) = places[0]
                       /\ \A from \in 0..Len(text) :
                             places[from] =
                                IF RegularCut(Rest(text, from)) = 0 THEN <<>>
                                ELSE <<from + RegularCut(Rest(text, from))>>
                                     \o places[from + RegularCut(Rest(text, from))]
<1> DEFINE n == Len(text)
           cut(from) == RegularCut(Rest(text, from))
           Body(f, from) == IF cut(from) = 0 THEN <<>>
                            ELSE <<from + cut(from)>> \o f[from + cut(from)]
           V == Seq(Nat)
           next == [from \in 0..n |-> from + cut(from)]
           op == [x \in (0..n) \X V |-> <<x[1] + cut(x[1])>> \o x[2]]
           places == CHOOSE f : f = [from \in 0..n |-> Body(f, from)]
<1>1. n \in Nat /\ <<>> \in V
  BY DEF Texts
<1>2. ASSUME NEW from \in 0..n
      PROVE  cut(from) \in Nat /\ from + cut(from) \in 0..n
  <2>1. Rest(text, from) \in Texts /\ Len(Rest(text, from)) = n - from
    BY RestIs
  <2>2. cut(from) \in 0..Len(Rest(text, from))
    BY <2>1, RegularCutIs
  <2> HIDE DEF cut
  <2> QED
    BY <1>1, <2>1, <2>2
<1> HIDE DEF cut
<1>3. next \in [0..n -> 0..n]
  BY <1>2
<1>4. op \in [(0..n) \X V -> V]
  <2>1. ASSUME NEW i \in 0..n, NEW v \in V PROVE <<i + cut(i)>> \o v \in V
    <3>1. i + cut(i) \in Nat
      BY <1>1, <1>2
    <3>2. <<i + cut(i)>> \in Seq(Nat)
      BY <3>1
    <3> QED
      BY <3>2, ConcatProperties
  <2> HIDE DEF V, n
  <2>2. ASSUME NEW x \in (0..n) \X V PROVE <<x[1] + cut(x[1])>> \o x[2] \in V
    <3>1. x[1] \in 0..n /\ x[2] \in V
      OBVIOUS
    <3> QED
      BY <2>1, <3>1
  <2> QED
    BY <2>2
<1>5. PICK f \in [0..n -> V] : Follows(f, n, next, op, <<>>)
  <2> HIDE DEF n, next, op, V
  <2> QED
    BY <1>1, <1>3, <1>4, Recursion
<1>6. ASSUME NEW i \in 0..n PROVE f[i] = Body(f, i)
  <2>1. cut(i) \in Nat /\ i \in Nat /\ next[i] = i + cut(i)
    BY <1>1, <1>2
  <2>2. CASE cut(i) = 0
    <3>1. ~(next[i] > i)
      BY <2>1, <2>2
    <3>2. f[i] = <<>>
      <4> HIDE DEF n, next, op, V
      <4> QED
        BY <1>5, <3>1 DEF Follows
    <3> QED
      BY <2>2, <3>2
  <2>3. CASE cut(i) # 0
    <3>1. next[i] > i
      BY <2>1, <2>3
    <3>2. f[i] = op[<<i, f[next[i]]>>]
      <4> HIDE DEF n, next, op, V
      <4> QED
        BY <1>5, <3>1 DEF Follows
    <3>3. f[next[i]] \in V
      <4> HIDE DEF n, next, V
      <4> QED
        BY <1>3
    <3>4. op[<<i, f[next[i]]>>] = <<i + cut(i)>> \o f[next[i]]
      <4> HIDE DEF n, next, V
      <4> DEFINE x == <<i, f[next[i]]>>
      <4>1. x \in (0..n) \X V /\ x[1] = i /\ x[2] = f[next[i]]
        BY <3>3
      <4> HIDE DEF x
      <4>2. op[x] = <<x[1] + cut(x[1])>> \o x[2]
        BY <4>1
      <4> QED
        BY <4>1, <4>2 DEF x
    <3> HIDE DEF n, next, op, V
    <3> QED
      BY <2>1, <2>3, <3>2, <3>4
  <2> QED
    BY <2>2, <2>3
<1>7. f = [from \in 0..n |-> Body(f, from)]
  <2> HIDE DEF Body, n, V
  <2> QED
    BY <1>6
<1>8. places = [from \in 0..n |-> Body(places, from)]
  <2>1. \E g : g = [from \in 0..n |-> Body(g, from)]
    <3> HIDE DEF Body, n
    <3> QED
      BY <1>7, Zenon
  <2> QED
    BY <2>1, Zenon
<1>9. CutPlaces(text) = places[0]
  BY DEF CutPlaces, cut
<1> HIDE DEF places
<1>10. ASSUME NEW from \in 0..n PROVE places[from] = Body(places, from)
  <2> HIDE DEF Body, n
  <2>1. \A g : g = [x \in 0..n |-> Body(g, x)] => g[from] = Body(g, from)
    OBVIOUS
  <2> QED
    BY <1>8, <2>1
<1> QED
  BY <1>9, <1>10, Zenon DEF cut

\* The places are those of the regular cuts, one after the other.
LEMMA CutPlacesAre ==
    ASSUME NEW text \in Texts
    PROVE  RegularFrom(text, 0, CutPlaces(text))
<1>1. PICK places : /\ CutPlaces(text) = places[0]
                    /\ \A from \in 0..Len(text) :
                          places[from] =
                             IF RegularCut(Rest(text, from)) = 0 THEN <<>>
                             ELSE <<from + RegularCut(Rest(text, from))>>
                                  \o places[from + RegularCut(Rest(text, from))]
  BY PlacesScan
<1> DEFINE T == {from \in 0..Len(text) : ~RegularFrom(text, from, places[from])}
<1>2. Len(text) \in Nat
  BY DEF Texts
<1> SUFFICES ASSUME ~RegularFrom(text, 0, places[0]) PROVE FALSE
  BY <1>1
<1>3. T \in SUBSET (0..Len(text)) /\ T # {}
  <2>1. 0 \in T
    BY <1>2
  <2> QED
    BY <2>1
<1>4. PICK from \in T : \A k \in T : k <= from
  <2> HIDE DEF T
  <2> QED
    BY <1>2, <1>3, GreatestNatural
<1>5. from \in 0..Len(text) /\ ~RegularFrom(text, from, places[from])
  BY <1>4
<1> DEFINE cut == RegularCut(Rest(text, from))
<1>6. cut \in 0..(Len(text) - from)
  <2>1. Rest(text, from) \in Texts /\ Len(Rest(text, from)) = Len(text) - from
    BY <1>5, RestIs
  <2> QED
    BY <2>1, RegularCutIs
<1>7. CASE cut = 0
  <2>1. places[from] = <<>>
    BY <1>1, <1>5, <1>7
  <2>2. <<>> \in Seq(Nat) /\ Len(<<>>) = 0
    OBVIOUS
  <2>3. Start(from, <<>>, Len(<<>>) + 1) = from
    <3>1. Len(<<>>) + 1 = 1
      BY <2>2
    <3> QED
      BY <3>1 DEF Start
  <2>4. \A i \in 1..Len(<<>>) : FALSE
    BY <2>2
  <2>5. RegularFrom(text, from, <<>>)
    <3> HIDE DEF T
    <3> QED
      BY <1>5, <1>7, <2>2, <2>3, <2>4 DEF RegularFrom
  <2> QED
    BY <1>5, <2>1, <2>5
<1>8. CASE cut # 0
  <2> DEFINE c == from + cut
  <2> HIDE DEF cut
  <2>1. c \in 0..Len(text) /\ from < c
    BY <1>2, <1>5, <1>6, <1>8
  <2>2. ~(c \in T)
    <3> SUFFICES ASSUME c \in T PROVE FALSE
      OBVIOUS
    <3>1. c <= from
      <4> HIDE DEF T, c
      <4> QED
        BY <1>4
    <3> QED
      BY <1>2, <1>5, <2>1, <3>1
  <2>3. RegularFrom(text, c, places[c])
    BY <2>1, <2>2
  <2>4. places[from] = <<c>> \o places[c]
    BY <1>1, <1>5, <1>8 DEF cut
  <2>5. c = from + RegularCut(Rest(text, from))
    BY DEF cut
  <2> HIDE DEF c, T
  <2>6. RegularFrom(text, from, <<c>> \o places[c])
    BY <1>5, <2>1, <2>3, <2>5, OneMoreCut
  <2> QED
    BY <1>5, <2>4, <2>6
<1> QED
  BY <1>7, <1>8

\* k cuts text b: within the hard limit, outside of every tag, and through a
\* number only if nothing else is left.
Fits(b, k) ==
    /\ k \in 1..Len(b) /\ k <= Hard
    /\ IsSafeCut(k, OfficialTagRanges(b))
    /\ \/ IsSafeCut(k, ProtectedRanges(b))
       \/ /\ Hard <= Len(b)
          /\ \A j \in (k + 1)..Hard : ~IsSafeCut(j, OfficialTagRanges(b))

\* The places p cut text one after the other.
Divided(text, p) ==
    /\ p \in Seq(Nat)
    /\ \A i \in 1..Len(p) :
          /\ From(p, i) \in 0..Len(text) /\ p[i] \in 0..Len(text)
          /\ From(p, i) < p[i]
          /\ Fits(Rest(text, From(p, i)), p[i] - From(p, i))
    /\ From(p, Len(p) + 1) \in 0..Len(text)

\* Regular cuts do, and leave a text without one.
LEMMA RegularDivides ==
    ASSUME NEW text \in Texts
    PROVE  LET p == CutPlaces(text)
           IN Divided(text, p) /\ RegularCut(Rest(text, From(p, Len(p) + 1))) = 0
<1> DEFINE p == CutPlaces(text)
<1>1. RegularFrom(text, 0, p)
  BY CutPlacesAre
<1>2. \A i : Start(0, p, i) = From(p, i)
  BY DEF Start, From
<1>3. /\ p \in Seq(Nat)
      /\ From(p, Len(p) + 1) \in 0..Len(text)
      /\ RegularCut(Rest(text, From(p, Len(p) + 1))) = 0
  BY <1>1, <1>2 DEF RegularFrom
<1>4. ASSUME NEW i \in 1..Len(p)
      PROVE  /\ From(p, i) \in 0..Len(text) /\ p[i] \in 0..Len(text)
             /\ From(p, i) < p[i]
             /\ Fits(Rest(text, From(p, i)), p[i] - From(p, i))
  <2> DEFINE a == From(p, i)
             b == Rest(text, a)
             k == p[i] - a
             safe == SafeCuts(Reach(b), ProtectedRanges(b))
  <2>1. a \in 0..Len(text) /\ p[i] \in 0..Len(text) /\ a < p[i]
        /\ p[i] = a + RegularCut(b)
    BY <1>1, <1>2 DEF RegularFrom
  <2>2. b \in Texts
    BY <2>1, RestIs
  <2>3. Len(text) \in Nat /\ Len(b) \in Nat /\ Hard \in Nat
    BY <2>2, Limits DEF Texts
  <2> HIDE DEF a, b
  <2>4. RegularCut(b) \in 0..Len(b)
    BY <2>2, RegularCutIs
  <2>5. k = RegularCut(b) /\ k # 0
    BY <2>1, <2>3, <2>4
  <2> HIDE DEF k
  <2>6. k \in 1..Len(b) /\ k <= Hard
    <3>1. k <= Hard
      BY <2>2, <2>5, RegularCutIs
    <3> QED
      BY <2>3, <2>4, <2>5, <3>1
  <2>7. \/ k \in safe
        \/ /\ Hard <= Len(b) /\ IsSafeCut(k, OfficialTagRanges(b))
           /\ \A j \in (k + 1)..Hard : ~IsSafeCut(j, OfficialTagRanges(b))
    BY <2>2, <2>5, RegularCutIs
  <2>8. Fits(b, k)
    <3>1. k \in safe => IsSafeCut(k, ProtectedRanges(b))
      BY DEF SafeCuts
    <3> HIDE DEF safe
    <3> QED
      BY <2>6, <2>7, <3>1, SafeFromAll DEF Fits
  <2> QED
    BY <2>1, <2>8 DEF a, b, k
<1> QED
  BY <1>3, <1>4 DEF Divided

\* What is left behind no cut is the text itself.
LEMMA RestOfAll == ASSUME NEW b \in Texts PROVE Rest(b, 0) = b
<1>1. 0 + 1 = 1
  OBVIOUS
<1>2. SubSeq(b, 1, Len(b)) = b
  BY SubSeqFull DEF Texts
<1> QED
  BY <1>1, <1>2 DEF Rest

\* No place divides a text into nothing and itself.
LEMMA NoPlaceDivides ==
    ASSUME NEW b \in Texts
    PROVE  /\ Divided(b, <<>>)
           /\ Pieces(b, <<>>).segments = <<>> /\ Pieces(b, <<>>).rest = b
<1>1. <<>> \in Seq(Nat) /\ Len(<<>>) = 0
  OBVIOUS
<1>2. From(<<>>, Len(<<>>) + 1) = 0
  <2>1. Len(<<>>) + 1 = 1
    BY <1>1
  <2> QED
    BY <2>1 DEF From
<1>3. (\A i \in 1..Len(<<>>) : FALSE) /\ Len(b) \in Nat /\ 0 \in 0..Len(b)
  BY <1>1 DEF Texts
<1>4. Divided(b, <<>>)
  BY <1>1, <1>2, <1>3 DEF Divided
<1>5. Pieces(b, <<>>).segments = <<>>
  <2>1. Pieces(b, <<>>).segments =
           [i \in 1..Len(<<>>) |-> SubSeq(b, From(<<>>, i) + 1, <<>>[i])]
    BY DEF Pieces
  <2>2. 1..Len(<<>>) = {}
    BY <1>1
  <2>3. \A f : DOMAIN f = {} /\ f = [i \in {} |-> f[i]] => f = <<>>
    OBVIOUS
  <2> QED
    BY <2>1, <2>2, <2>3
<1>6. Pieces(b, <<>>).rest = b
  BY <1>2, RestOfAll DEF Pieces
<1> QED
  BY <1>4, <1>5, <1>6

\* The deadline's cut divides a text in two.
LEMMA DeadlineDivides ==
    ASSUME NEW b \in Texts, Len(b) < Hard, DeadlineCut(b) # 0
    PROVE  LET k == DeadlineCut(b)
           IN /\ Divided(b, <<k>>)
              /\ Pieces(b, <<k>>).segments = <<Head_(b, k)>>
              /\ Pieces(b, <<k>>).rest = Rest(b, k)
<1> DEFINE k == DeadlineCut(b)
           p == <<k>>
<1>1. Len(b) \in Nat /\ Hard \in Nat
  BY Limits DEF Texts
<1>2. k \in 1..Len(b) /\ IsSafeCut(k, ProtectedRanges(b))
  BY DeadlineCutIs DEF SafeCuts
<1> HIDE DEF k
<1>3. p \in Seq(Nat) /\ Len(p) = 1 /\ p[1] = k /\ k \in Nat /\ k # 0
  BY <1>1, <1>2
<1> HIDE DEF p
<1>4. From(p, 1) = 0 /\ From(p, Len(p) + 1) = k
  <2>1. Len(p) + 1 # 1 /\ Len(p) + 1 - 1 = 1
    BY <1>3
  <2> QED
    BY <1>3, <2>1 DEF From
<1>5. Fits(b, k)
  BY <1>1, <1>2, SafeFromAll DEF Fits
<1>6. Divided(b, p)
  <2>1. Rest(b, From(p, 1)) = b /\ p[1] - From(p, 1) = k
    BY <1>3, <1>4, RestOfAll
  <2>2. \A i \in 1..Len(p) : i = 1
    BY <1>3
  <2>3. From(p, 1) \in 0..Len(b) /\ p[1] \in 0..Len(b) /\ From(p, 1) < p[1]
        /\ From(p, Len(p) + 1) \in 0..Len(b)
    BY <1>1, <1>2, <1>3, <1>4
  <2> QED
    BY <1>3, <1>5, <2>1, <2>2, <2>3 DEF Divided
<1>7. Pieces(b, p).segments = <<Head_(b, k)>>
  <2>1. Pieces(b, p).segments =
           [i \in 1..Len(p) |-> SubSeq(b, From(p, i) + 1, p[i])]
    BY DEF Pieces
  <2>2. \A i \in 1..1 : SubSeq(b, From(p, i) + 1, p[i]) = Head_(b, k)
    <3>1. 0 + 1 = 1 /\ \A i \in 1..1 : i = 1
      OBVIOUS
    <3> QED
      BY <1>3, <1>4, <3>1 DEF Head_
  <2>3. [i \in 1..1 |-> Head_(b, k)] = <<Head_(b, k)>>
    OBVIOUS
  <2>4. [i \in 1..Len(p) |-> SubSeq(b, From(p, i) + 1, p[i])] =
           [i \in 1..1 |-> Head_(b, k)]
    BY <1>3, <2>2
  <2> QED
    BY <2>1, <2>3, <2>4
<1>8. Pieces(b, p).rest = Rest(b, k)
  BY <1>4 DEF Pieces
<1> QED
  BY <1>6, <1>7, <1>8 DEF p, k

\* The pieces of a divided text.
LEMMA PiecesAre ==
    ASSUME NEW text \in Texts, NEW p, Divided(text, p)
    PROVE  LET s == Pieces(text, p).segments
               r == Pieces(text, p).rest
               e == From(p, Len(p) + 1)
           IN /\ s \in Seq(Texts) /\ Len(s) = Len(p) /\ Len(p) \in Nat
              /\ \A i \in 1..Len(s) :
                    /\ s[i] = SubSeq(text, From(p, i) + 1, p[i])
                    /\ s[i] \in Texts /\ Len(s[i]) = p[i] - From(p, i)
                    /\ Len(s[i]) \in 1..Hard
                    /\ \A j \in 1..Len(s[i]) : s[i][j] = text[From(p, i) + j]
              /\ r = Rest(text, e) /\ r \in Texts /\ Len(r) = Len(text) - e
              /\ e \in 0..Len(text)
<1> DEFINE s == Pieces(text, p).segments
           e == From(p, Len(p) + 1)
           Seg(i) == SubSeq(text, From(p, i) + 1, p[i])
<1>1. Len(text) \in Nat /\ p \in Seq(Nat) /\ Len(p) \in Nat /\ Hard \in Nat
  BY Limits DEF Divided, Texts
<1>2. ASSUME NEW i \in 1..Len(p)
      PROVE  /\ Seg(i) \in Texts /\ Len(Seg(i)) = p[i] - From(p, i)
             /\ p[i] - From(p, i) \in 1..Hard
             /\ \A j \in 1..Len(Seg(i)) : Seg(i)[j] = text[From(p, i) + j]
  <2>1. /\ From(p, i) \in 0..Len(text) /\ p[i] \in 0..Len(text)
        /\ From(p, i) < p[i]
        /\ p[i] - From(p, i) <= Hard
    BY DEF Divided, Fits
  <2>2. p[i] \in From(p, i)..Len(text) /\ p[i] - From(p, i) \in 1..Hard
    BY <1>1, <2>1
  <2>3. /\ Seg(i) \in Texts /\ Len(Seg(i)) = p[i] - From(p, i)
        /\ \A j \in 1..(p[i] - From(p, i)) : Seg(i)[j] = text[From(p, i) + j]
    BY <2>1, <2>2, PieceIs
  <2> HIDE DEF Seg
  <2> QED
    BY <2>2, <2>3
<1>3. s = [i \in 1..Len(p) |-> Seg(i)]
  BY DEF Pieces
<1> HIDE DEF Seg
<1>4. s \in Seq(Texts) /\ Len(s) = Len(p) /\ \A i \in 1..Len(p) : s[i] = Seg(i)
  <2> HIDE DEF s
  <2> QED
    BY <1>1, <1>2, <1>3
<1>5. e \in 0..Len(text)
  BY DEF Divided
<1>6. Pieces(text, p).rest = Rest(text, e)
  BY DEF Pieces
<1>7. Rest(text, e) \in Texts /\ Len(Rest(text, e)) = Len(text) - e
  <2> HIDE DEF e
  <2> QED
    BY <1>5, RestIs
<1>8. \A i \in 1..Len(s) :
         /\ s[i] = Seg(i) /\ s[i] \in Texts /\ Len(s[i]) = p[i] - From(p, i)
         /\ Len(s[i]) \in 1..Hard
         /\ \A j \in 1..Len(s[i]) : s[i][j] = text[From(p, i) + j]
  <2> HIDE DEF s
  <2> QED
    BY <1>2, <1>4
<1> HIDE DEF s, e
<1> QED
  BY <1>1, <1>4, <1>5, <1>6, <1>7, <1>8 DEF s, e, Seg

-----------------------------------------------------------------------------
(* What waits in the buffer. *)

IsNewline(b, i) == b[i] = "newline"

\* EndingsCommitted of a text.
Ends(b) ==
    \A i \in 1..(Len(b) - 1) :
        /\ ~Stops(b, i)
        /\ IsPoint(b, i) => /\ DigitAt(b, i - 1)
                            /\ DigitAt(b, i + 1) \/ (i = Len(b) - 1 /\ IsNewline(b, i + 1))

\* ExpiredMeansStuck of a text.
Stuck(b) ==
    /\ b # <<>>
    /\ \/ Len(b) < DeadlineMin
       \/ \A k \in 1..Len(b) : ~IsSafeCut(k, ProtectedRanges(b))

\* A text without a regular cut holds no finished sentence: an ending that no
\* range protects would be one.
LEMMA UncutEnds ==
    ASSUME NEW b \in Texts, RegularCut(b) = 0
    PROVE  Len(b) < Hard /\ Ends(b)
<1>1. Len(b) \in Nat /\ Hard \in Nat
  BY Limits DEF Texts
<1>2. Len(b) < Hard
  BY RegularCutIs
<1>3. Reach(b) = Len(b)
  BY <1>1, <1>2, ReachIs
<1>4. \A j \in 1..Len(b) : IsSafeCut(j, ProtectedRanges(b)) => ~IsStrongCut(b, j)
  BY <1>3, RegularCutIs DEF SafeCuts
<1>5. ASSUME NEW i \in 1..(Len(b) - 1), Stops(b, i) \/ IsPoint(b, i)
      PROVE  \/ ~IsStrongCut(b, i)
             \/ \E r \in ProtectedRanges(b) : IsNumber(b, r, i)
  <2> SUFFICES ASSUME IsStrongCut(b, i)
               PROVE  \E r \in ProtectedRanges(b) : IsNumber(b, r, i)
    OBVIOUS
  <2>1. i \in 1..Len(b)
    BY <1>1
  <2>2. ~IsSafeCut(i, ProtectedRanges(b))
    BY <1>4, <2>1
  <2>3. PICK r \in ProtectedRanges(b) : ContainsCut(r, i)
    BY <2>2 DEF IsSafeCut
  <2>4. r.start < i /\ i <= r.end
    <3>1. r.start < i /\ (i < r.end \/ i = r.end)
      BY <2>3 DEF ContainsCut
    <3> QED
      <4>1. CASE i = r.end
        BY <1>1, <3>1, <4>1
      <4>2. CASE i < r.end
        <5>1. r \in OfficialTagRanges(b) \/ \E p : IsNumber(b, r, p)
          BY DecimalRangeIs, TrailingRangeIs DEF ProtectedRanges
        <5>2. r.end \in Int
          <6>1. CASE r \in OfficialTagRanges(b)
            <7>1. PICK k \in 1..Len(b), tag \in OfficialTags :
                     r.end = k - 1 + Len(tag) \/ r.end = Len(b)
              BY <6>1, TagRangeIs
            <7>2. Len(tag) \in Nat
              BY TagShape
            <7> QED
              BY <1>1, <7>1, <7>2
          <6>2. CASE \E p : IsNumber(b, r, p)
            BY <1>1, <6>2 DEF IsNumber
          <6> QED
            BY <5>1, <6>1, <6>2
        <5> QED
          BY <3>1, <4>2, <5>2
      <4> QED
        BY <3>1, <4>1, <4>2
  <2>5. i \in Int
    BY <1>1
  <2> QED
    BY <1>5, <2>3, <2>4, <2>5, ProtectedChars
<1>6. ASSUME NEW i \in 1..(Len(b) - 1) PROVE ~Stops(b, i)
  <2> SUFFICES ASSUME Stops(b, i) PROVE FALSE
    OBVIOUS
  <2>1. IsStrongCut(b, i)
    BY DEF Stops, IsStrongCut
  <2>2. ~IsPoint(b, i)
    BY DEF Stops, IsPoint, StrongEndings
  <2> QED
    BY <1>5, <2>1, <2>2 DEF IsNumber
<1>7. ASSUME NEW i \in 1..(Len(b) - 1), IsPoint(b, i)
      PROVE  /\ DigitAt(b, i - 1)
             /\ DigitAt(b, i + 1) \/ (i = Len(b) - 1 /\ IsNewline(b, i + 1))
  <2>1. i # Len(b)
    BY <1>1
  <2>2. CASE ~IsStrongCut(b, i)
    <3>1. DigitAt(b, i - 1) /\ DigitAt(b, i + 1)
      BY <1>7, <2>1, <2>2 DEF IsStrongCut, IsPoint
    <3> QED
      BY <3>1
  <2>3. CASE \E r \in ProtectedRanges(b) : IsNumber(b, r, i)
    <3>1. DigitAt(b, i - 1) /\ (DigitAt(b, i + 1) \/ i \in TrailingPoints(b))
      BY <2>3, NumberPoint
    <3>2. i \in TrailingPoints(b) => i = Len(b) - 1 /\ b[Len(b)] = "newline"
      BY <2>1 DEF TrailingPoints
    <3>3. i = Len(b) - 1 => i + 1 = Len(b)
      BY <1>1
    <3>4. i \in TrailingPoints(b) => i = Len(b) - 1 /\ IsNewline(b, i + 1)
      BY <3>2, <3>3 DEF IsNewline
    <3> QED
      BY <3>1, <3>4
  <2> QED
    BY <1>5, <1>7, <2>2, <2>3
<1> QED
  BY <1>2, <1>6, <1>7 DEF Ends

\* A deadline does not part a point from its digit: where the point would be
\* unsafe the digit before it is, and the last safe place is not a soft ending's.
LEMMA DeadlineEnds ==
    ASSUME NEW b \in Texts, Ends(b), DeadlineCut(b) # 0
    PROVE  Ends(Rest(b, DeadlineCut(b)))
<1> DEFINE k == DeadlineCut(b)
           r == Rest(b, k)
<1>1. Len(b) \in Nat
  BY DEF Texts
<1>2. /\ k \in 1..Len(b) /\ IsSafeCut(k, ProtectedRanges(b))
      /\ IsSoftCut(b, k) \/ \A j \in SafeCuts(Len(b), ProtectedRanges(b)) : j <= k
  BY DeadlineCutIs DEF SafeCuts
<1> HIDE DEF k
<1>3. r \in Texts /\ Len(r) = Len(b) - k /\ \A i \in 1..(Len(b) - k) : r[i] = b[k + i]
  <2>1. k \in 0..Len(b)
    BY <1>1, <1>2
  <2> QED
    BY <2>1, RestIs
<1> HIDE DEF r
<1>4. \A i \in 1..Len(r) : k + i \in 1..Len(b) /\ r[i] = b[k + i]
  BY <1>1, <1>2, <1>3
<1>5. \A i \in 1..Len(r) : /\ DigitAt(r, i) <=> DigitAt(b, k + i)
                           /\ IsPoint(r, i) <=> IsPoint(b, k + i)
                           /\ Stops(r, i) <=> Stops(b, k + i)
                           /\ IsNewline(r, i) <=> IsNewline(b, k + i)
  BY <1>4 DEF DigitAt, IsPoint, Stops, IsNewline
<1>6. ASSUME NEW i \in 1..(Len(r) - 1)
      PROVE  /\ i \in 1..Len(r) /\ i + 1 \in 1..Len(r)
             /\ k + i \in 1..(Len(b) - 1) /\ k + i - 1 = k + (i - 1)
             /\ k + i + 1 = k + (i + 1) /\ (k + i = Len(b) - 1 <=> i = Len(r) - 1)
             /\ i # 1 => i - 1 \in 1..Len(r)
  BY <1>1, <1>2, <1>3
<1>7. ~(Len(b) > k + 1 /\ IsPoint(b, k + 1))
  <2> SUFFICES ASSUME Len(b) > k + 1, IsPoint(b, k + 1) PROVE FALSE
    OBVIOUS
  <2>1. k + 1 \in 1..(Len(b) - 1) /\ k + 1 - 1 = k /\ k + 1 \in 1..Len(b)
        /\ ~(k + 1 <= k) /\ k + 1 \in Int
    BY <1>1, <1>2
  <2>2. DigitAt(b, k)
    <3>1. PICK l \in 1..(Len(b) - 1) : l = k + 1
      BY <2>1
    <3>4. l - 1 = k
      BY <1>1, <1>2, <3>1
    <3>2. IsPoint(b, l)
      BY <3>1
    <3>3. DigitAt(b, l - 1)
      BY <3>2 DEF Ends
    <3> QED
      BY <3>3, <3>4
  <2>3. ~IsSoftCut(b, k)
    BY <2>2 DEF IsSoftCut, DigitAt, Digits, SoftEndings, Spaces
  <2>4. ~(k + 1 \in SafeCuts(Len(b), ProtectedRanges(b)))
    BY <1>2, <2>1, <2>3
  <2>5. ~IsSafeCut(k + 1, ProtectedRanges(b))
    BY <2>1, <2>4 DEF SafeCuts
  <2>6. PICK s \in ProtectedRanges(b) : ContainsCut(s, k + 1)
    BY <2>5 DEF IsSafeCut
  <2>7. s.start < k + 1 /\ (k + 1 < s.end \/ k + 1 = s.end)
    BY <2>6 DEF ContainsCut
  <2>8. s.end \in Int
    <3>1. r \in Texts
      BY <1>3
    <3>2. CASE s \in OfficialTagRanges(b)
      <4>1. PICK i \in 1..Len(b), tag \in OfficialTags :
               s.end = i - 1 + Len(tag) \/ s.end = Len(b)
        BY <3>2, TagRangeIs
      <4>2. Len(tag) \in Nat
        BY TagShape
      <4> QED
        BY <1>1, <4>1, <4>2
    <3>3. CASE \E p : IsNumber(b, s, p)
      BY <1>1, <3>3 DEF IsNumber
    <3> QED
      BY <3>2, <3>3, DecimalRangeIs, TrailingRangeIs DEF ProtectedRanges
  <2>9. k + 1 <= s.end
    BY <2>1, <2>7, <2>8
  <2>10. IsNumber(b, s, k + 1)
    BY <2>1, <2>7, <2>9, ProtectedChars
  <2>11. s.start < k /\ k < s.end
    <3>1. PICK p \in Int : p = k + 1
      BY <2>1
    <3>2. s.start < p - 1 /\ p - 1 < s.end
      BY <2>10, <3>1, NumberPoint
    <3>3. p - 1 = k
      BY <1>1, <1>2, <3>1
    <3> QED
      BY <3>2, <3>3
  <2>12. ContainsCut(s, k)
    BY <2>11 DEF ContainsCut
  <2> QED
    BY <1>2, <2>12 DEF IsSafeCut
<1>8. ASSUME NEW i \in 1..(Len(r) - 1) PROVE ~Stops(r, i)
  BY <1>5, <1>6 DEF Ends
<1>9. ASSUME NEW i \in 1..(Len(r) - 1), IsPoint(r, i)
      PROVE  /\ DigitAt(r, i - 1)
             /\ DigitAt(r, i + 1) \/ (i = Len(r) - 1 /\ IsNewline(r, i + 1))
  <2>1. IsPoint(b, k + i)
    BY <1>5, <1>6, <1>9
  <2>2. i # 1
    <3> SUFFICES ASSUME i = 1 PROVE FALSE
      OBVIOUS
    <3>1. k + 1 \in 1..(Len(b) - 1) /\ IsPoint(b, k + 1)
      BY <1>6, <2>1
    <3>2. Len(b) > k + 1
      BY <1>1, <3>1
    <3> QED
      BY <1>7, <3>1, <3>2
  <2>3. /\ DigitAt(b, k + (i - 1))
        /\ \/ DigitAt(b, k + (i + 1))
           \/ k + i = Len(b) - 1 /\ IsNewline(b, k + (i + 1))
    <3>1. PICK l \in 1..(Len(b) - 1) : l = k + i
      BY <1>6
    <3>2. /\ DigitAt(b, l - 1)
          /\ DigitAt(b, l + 1) \/ (l = Len(b) - 1 /\ IsNewline(b, l + 1))
      BY <2>1, <3>1 DEF Ends
    <3>3. l - 1 = k + (i - 1) /\ l + 1 = k + (i + 1)
      BY <1>1, <1>2, <1>3, <3>1
    <3> QED
      BY <3>1, <3>2, <3>3
  <2> QED
    BY <1>5, <1>6, <2>2, <2>3
<1>10. Ends(r)
  BY <1>8, <1>9 DEF Ends
<1> QED
  BY <1>10 DEF r, k

\* What a deadline that does not cut leaves is stuck.
LEMMA DeadlineStuck ==
    ASSUME NEW b \in Texts, b # <<>>,
           Len(b) < DeadlineMin \/ DeadlineCut(b) = 0
    PROVE  Stuck(b)
<1>1. DeadlineCut(b) = 0 => SafeCuts(Len(b), ProtectedRanges(b)) = {}
  BY DeadlineCutIs
<1> QED
  BY <1>1 DEF Stuck, SafeCuts

\* What is left behind a cut of a short text is short.
LEMMA RestIsShort ==
    ASSUME NEW b \in Texts, Len(b) < Hard, NEW k \in 0..Len(b)
    PROVE  Rest(b, k) \in Texts /\ Len(Rest(b, k)) < Hard
<1>1. Len(b) \in Nat /\ Hard \in Nat
  BY Limits DEF Texts
<1>2. Rest(b, k) \in Texts /\ Len(Rest(b, k)) = Len(b) - k
  BY RestIs
<1> QED
  BY <1>1, <1>2

\* The text that waits is short, holds no finished sentence, and an expired
\* deadline has to wait.
Waiting ==
    /\ buffer \in Texts /\ Len(buffer) < Hard /\ Ends(buffer)
    /\ expired \in BOOLEAN /\ (expired => Stuck(buffer))

\* A call that returned segments and left a text: the segments are the pieces
\* of text at places that divide it.
Returned(text, p) ==
    /\ Divided(text, p)
    /\ out' = Pieces(text, p).segments /\ buffer' = Pieces(text, p).rest
    /\ before' = Committed
    /\ openPoint' = (~flushed /\ IF out = <<>> THEN openPoint
                                              ELSE EndsInPoint(Last(out)))

\* An append divides what waited and what came.
LEMMA AppendReturns ==
    ASSUME NEW chunk \in Texts, chunk # <<>>, Append_(chunk), Waiting
    PROVE  /\ \E p : Returned(buffer \o chunk, p)
           /\ Waiting' /\ flushed' = FALSE
<1> DEFINE text == buffer \o chunk
           places == CutPlaces(text)
           segments == Pieces(text, places).segments
           rest == Pieces(text, places).rest
           waiting == expired /\ segments = <<>>
           cut == IF waiting /\ Len(rest) >= DeadlineMin THEN DeadlineCut(rest) ELSE 0
<1>1. text \in Texts /\ text # <<>>
  <2>1. buffer \in Seq(Characters) /\ chunk \in Seq(Characters)
    BY DEF Waiting, Texts
  <2> QED
    BY <2>1, ConcatProperties, ConcatEqualIffEmpty DEF Texts
<1>2. flushed' = FALSE /\ AfterRegular(segments, rest)
  BY DEF Append_, Extract
<1> HIDE DEF text
<1>3. Divided(text, places) /\ RegularCut(rest) = 0 /\ rest \in Texts
  <2>1. /\ Divided(text, places)
        /\ RegularCut(Rest(text, From(places, Len(places) + 1))) = 0
    BY <1>1, RegularDivides
  <2> HIDE DEF places
  <2> QED
    BY <1>1, <2>1, PiecesAre
<1>4. Len(rest) < Hard /\ Ends(rest)
  <2> HIDE DEF rest
  <2> QED
    BY <1>3, UncutEnds
<1>5. IF cut = 0 THEN Return(segments, rest, waiting)
      ELSE Return(Append(segments, Head_(rest, cut)), Rest(rest, cut), FALSE)
  <2> HIDE DEF segments, rest
  <2> QED
    BY <1>2 DEF AfterRegular
<1>6. segments = <<>> => rest = text /\ places = <<>>
  <2> HIDE DEF places
  <2>1. ASSUME segments = <<>> PROVE places = <<>> /\ rest = text
    <3>1. Len(segments) = Len(places) /\ places \in Seq(Nat)
      BY <1>1, <1>3, PiecesAre DEF Divided
    <3>2. Len(places) = 0
      BY <2>1, <3>1
    <3>3. places = <<>>
      BY <3>1, <3>2, EmptySeq
    <3> QED
      BY <1>1, <3>3, NoPlaceDivides
  <2> QED
    BY <2>1
<1>7. expired \in BOOLEAN /\ DeadlineMin \in Nat /\ Len(rest) \in Nat
  BY <1>3, Limits DEF Waiting, Texts
<1>8. CASE cut = 0
  <2>1. Return(segments, rest, waiting)
    BY <1>5, <1>8
  <2>2. Returned(text, places)
    BY <1>3, <2>1 DEF Return, Returned
  <2>3. waiting => Stuck(rest)
    <3> SUFFICES ASSUME waiting PROVE Stuck(rest)
      OBVIOUS
    <3>1. rest # <<>>
      BY <1>1, <1>6
    <3>2. Len(rest) < DeadlineMin \/ DeadlineCut(rest) = 0
      <4> HIDE DEF rest, segments
      <4> QED
        BY <1>7, <1>8
    <3> HIDE DEF rest
    <3> QED
      BY <1>3, <3>1, <3>2, DeadlineStuck
  <2>4. buffer' = rest /\ expired' = waiting
    BY <2>1 DEF Return
  <2>5. waiting \in BOOLEAN
    OBVIOUS
  <2>6. Waiting'
    <3> HIDE DEF rest, waiting
    <3> QED
      BY <1>3, <1>4, <2>3, <2>4, <2>5 DEF Waiting, Ends, Stuck
  <2> QED
    BY <1>2, <2>2, <2>6 DEF text
<1>9. CASE cut # 0
  <2>1. Return(Append(segments, Head_(rest, cut)), Rest(rest, cut), FALSE)
    BY <1>5, <1>9
  <2>2. segments = <<>> /\ cut = DeadlineCut(rest) /\ rest = text
    BY <1>6, <1>9
  <2>3. cut = DeadlineCut(text) /\ cut # 0 /\ Len(text) < Hard /\ Ends(text)
    BY <1>4, <1>9, <2>2
  <2>4. Return(Append(<<>>, Head_(text, cut)), Rest(text, cut), FALSE)
    BY <2>1, <2>2
  <2> HIDE DEF cut, segments, rest, places
  <2>5. Append(<<>>, Head_(text, cut)) = <<Head_(text, cut)>>
    OBVIOUS
  <2>6. /\ Divided(text, <<cut>>)
        /\ Pieces(text, <<cut>>).segments = <<Head_(text, cut)>>
        /\ Pieces(text, <<cut>>).rest = Rest(text, cut)
    BY <1>1, <2>3, DeadlineDivides
  <2>7. Returned(text, <<cut>>)
    BY <2>4, <2>5, <2>6 DEF Return, Returned
  <2>8. Ends(Rest(text, cut))
    BY <1>1, <2>3, DeadlineEnds
  <2>9. Rest(text, cut) \in Texts /\ Len(Rest(text, cut)) < Hard
    <3>1. cut \in 0..Len(text)
      BY <1>1, <2>3, DeadlineCutIs
    <3> QED
      BY <1>1, <2>3, <3>1, RestIsShort
  <2>10. buffer' = Rest(text, cut) /\ expired' = FALSE
    BY <2>4 DEF Return
  <2>11. Waiting'
    BY <2>8, <2>9, <2>10 DEF Waiting, Ends
  <2> QED
    BY <1>2, <2>7, <2>11 DEF text
<1> QED
  BY <1>8, <1>9

\* An expired deadline divides what waits.
LEMMA DeadlineReturns ==
    ASSUME ExpireDeadline, Waiting
    PROVE  /\ \E p : Returned(buffer, p)
           /\ Waiting' /\ flushed' = FALSE
<1> DEFINE cut == IF Len(buffer) >= DeadlineMin THEN DeadlineCut(buffer) ELSE 0
<1>1. /\ IF cut = 0 THEN Return(<<>>, buffer, buffer # <<>>)
         ELSE Return(<<Head_(buffer, cut)>>, Rest(buffer, cut), FALSE)
      /\ flushed' = FALSE
  BY DEF ExpireDeadline
<1>2. buffer \in Texts /\ Len(buffer) < Hard /\ Ends(buffer)
  BY DEF Waiting
<1>3. Len(buffer) \in Nat /\ DeadlineMin \in Nat
  BY <1>2, Limits DEF Texts
<1>4. CASE cut = 0
  <2>1. Return(<<>>, buffer, buffer # <<>>)
    BY <1>1, <1>4
  <2>2. Returned(buffer, <<>>)
    BY <1>2, <2>1, NoPlaceDivides DEF Return, Returned
  <2>3. Len(buffer) < DeadlineMin \/ DeadlineCut(buffer) = 0
    BY <1>3, <1>4
  <2>4. buffer # <<>> => Stuck(buffer)
    BY <1>2, <2>3, DeadlineStuck
  <2>5. buffer' = buffer /\ expired' = (buffer # <<>>)
    BY <2>1 DEF Return
  <2>6. Waiting'
    BY <1>2, <2>4, <2>5 DEF Waiting, Ends, Stuck
  <2> QED
    BY <1>1, <2>2, <2>6
<1>5. CASE cut # 0
  <2>1. Return(<<Head_(buffer, cut)>>, Rest(buffer, cut), FALSE)
    BY <1>1, <1>5
  <2>2. cut = DeadlineCut(buffer) /\ cut # 0
    BY <1>5
  <2> HIDE DEF cut
  <2>3. /\ Divided(buffer, <<cut>>)
        /\ Pieces(buffer, <<cut>>).segments = <<Head_(buffer, cut)>>
        /\ Pieces(buffer, <<cut>>).rest = Rest(buffer, cut)
    BY <1>2, <2>2, DeadlineDivides
  <2>4. Returned(buffer, <<cut>>)
    BY <2>1, <2>3 DEF Return, Returned
  <2>5. Ends(Rest(buffer, cut))
    BY <1>2, <2>2, DeadlineEnds
  <2>6. Rest(buffer, cut) \in Texts /\ Len(Rest(buffer, cut)) < Hard
    <3>1. cut \in 0..Len(buffer)
      BY <1>2, <2>2, DeadlineCutIs
    <3> QED
      BY <1>2, <3>1, RestIsShort
  <2>7. buffer' = Rest(buffer, cut) /\ expired' = FALSE
    BY <2>1 DEF Return
  <2>8. Waiting'
    BY <2>5, <2>6, <2>7 DEF Waiting, Ends
  <2> QED
    BY <1>1, <2>4, <2>8
<1> QED
  BY <1>4, <1>5

\* A chunk is a text with something in it.
LEMMA ChunkIsText ==
    ASSUME NEW chunk \in Chunks PROVE chunk \in Texts /\ chunk # <<>>
<1>1. PICK n \in 1..MaxChunk : chunk \in [1..n -> Alphabet]
  BY DEF Chunks
<1>2. n \in Nat /\ n # 0 /\ Alphabet \subseteq Characters
  BY LimitsAssumption
<1>3. chunk \in Seq(Alphabet) /\ Len(chunk) = n
  BY <1>1, <1>2
<1>4. chunk \in Texts
  BY <1>2, <1>3, SeqMonotonic DEF Texts
<1> QED
  BY <1>2, <1>3, <1>4

\* The segments of the last call are neither empty nor too long.
Sized == out \in Seq(Texts) /\ \A i \in 1..Len(out) : Len(out[i]) \in 1..Hard

\* Pieces are.
LEMMA ReturnedSized ==
    ASSUME NEW text \in Texts, NEW p, Returned(text, p)
    PROVE  Sized'
  BY PiecesAre DEF Returned, Sized

\* A flush returns what waited and leaves nothing.
LEMMA FlushReturns ==
    ASSUME Flush, Waiting
    PROVE  Waiting' /\ Sized' /\ flushed' = TRUE
<1>1. /\ out' = IF buffer = <<>> THEN <<>> ELSE <<buffer>>
      /\ buffer' = <<>> /\ expired' = FALSE /\ flushed' = TRUE
  BY DEF Flush, Return
<1>2. Hard \in Nat /\ 1 <= Hard /\ buffer \in Texts /\ Len(buffer) < Hard
  BY Limits DEF Waiting
<1>3. <<>> \in Texts /\ Len(<<>>) = 0
  BY DEF Texts
<1>4. Ends(<<>>)
  <2>1. \A i \in 1..(Len(<<>>) - 1) : FALSE
    BY <1>3
  <2> QED
    BY <2>1 DEF Ends
<1>5. Waiting'
  <2>1. buffer' \in Texts /\ Len(buffer') < Hard /\ Ends(buffer')
    BY <1>1, <1>2, <1>3, <1>4
  <2> QED
    BY <1>1, <2>1 DEF Waiting, Ends
<1>6. CASE buffer = <<>>
  <2>1. out' = <<>>
    BY <1>1, <1>6
  <2>2. <<>> \in Seq(Texts) /\ Len(<<>>) = 0
    OBVIOUS
  <2>3. \A i \in 1..Len(<<>>) : FALSE
    BY <2>2
  <2> QED
    BY <1>1, <1>5, <2>1, <2>2, <2>3 DEF Sized
<1>7. CASE buffer # <<>>
  <2>1. out' = <<buffer>>
    BY <1>1, <1>7
  <2>2. <<buffer>> \in Seq(Texts) /\ Len(<<buffer>>) = 1 /\ <<buffer>>[1] = buffer
    BY <1>2
  <2>3. Len(buffer) \in 1..Hard
    BY <1>2, <1>7, EmptySeq DEF Texts
  <2>4. \A i \in 1..Len(<<buffer>>) : i = 1
    BY <2>2
  <2>5. Sized'
    BY <2>1, <2>2, <2>3, <2>4 DEF Sized
  <2> QED
    BY <1>1, <1>5, <2>5
<1> QED
  BY <1>6, <1>7

\* What waits and what was returned, on every step.
LEMMA SizedStep ==
    ASSUME Waiting, Sized, [Next]_vars
    PROVE  Waiting' /\ Sized'
<1>1. ASSUME NEW chunk \in Chunks, Append_(chunk) PROVE Waiting' /\ Sized'
  <2>1. chunk \in Texts /\ chunk # <<>>
    BY ChunkIsText
  <2>2. PICK p : Returned(buffer \o chunk, p)
    BY <1>1, <2>1, AppendReturns
  <2>3. Waiting'
    BY <1>1, <2>1, AppendReturns
  <2>4. buffer \o chunk \in Texts
    BY <2>1, ConcatProperties DEF Waiting, Texts
  <2> QED
    BY <2>2, <2>3, <2>4, ReturnedSized
<1>2. CASE ExpireDeadline
  <2>1. buffer \in Texts
    BY DEF Waiting
  <2> QED
    BY <1>2, <2>1, DeadlineReturns, ReturnedSized
<1>3. CASE Flush
  BY <1>3, FlushReturns
<1>4. CASE UNCHANGED vars
  BY <1>4 DEF vars, Waiting, Sized, Ends, Stuck
<1> QED
  BY <1>1, <1>2, <1>3, <1>4 DEF Next

\* Initially nothing waits and nothing was returned.
LEMMA SizedInit == ASSUME Init PROVE Waiting /\ Sized
<1>1. buffer = <<>> /\ out = <<>> /\ expired = FALSE
  BY DEF Init
<1>2. <<>> \in Texts /\ <<>> \in Seq(Texts) /\ Len(<<>>) = 0
  BY DEF Texts
<1>3. \A i \in 1..Len(<<>>) : FALSE
  BY <1>2
<1>4. \A i \in 1..(Len(<<>>) - 1) : FALSE
  BY <1>2
<1>5. Ends(<<>>)
  BY <1>3, <1>4 DEF Ends
<1>6. 0 < Hard
  BY Limits
<1>7. Waiting
  BY <1>1, <1>2, <1>5, <1>6 DEF Waiting
<1>8. Sized
  BY <1>1, <1>2, <1>3 DEF Sized
<1> QED
  BY <1>7, <1>8

\* What waits is short and unfinished, and what was returned has a size, always.
LEMMA SizedAlways == Spec => [](Waiting /\ Sized)
<1>1. Init => Waiting /\ Sized
  BY SizedInit
<1>2. (Waiting /\ Sized) /\ [Next]_vars => (Waiting /\ Sized)'
  BY SizedStep
<1> QED
  BY <1>1, <1>2, PTL DEF Spec

\* WithinHardLimit: whatever arrives, every segment has between one and Hard
\* characters and less than Hard wait.
THEOREM WithinHardLimitHolds == Spec => []WithinHardLimit
<1>1. Waiting /\ Sized => WithinHardLimit
  BY DEF Waiting, Sized, WithinHardLimit
<1> QED
  BY <1>1, SizedAlways, PTL

\* ExpiredMeansStuck: a deadline stays expired only over a text that is too
\* short or protected from end to end.
THEOREM ExpiredMeansStuckHolds == Spec => []ExpiredMeansStuck
<1>1. Waiting /\ Sized => ExpiredMeansStuck
  BY DEF Waiting, Stuck, ExpiredMeansStuck
<1> QED
  BY <1>1, SizedAlways, PTL

\* EndingsCommitted: no ending but that of an unfinished number waits with more
\* text behind it.
THEOREM EndingsCommittedHolds == Spec => []EndingsCommitted
<1>1. Waiting /\ Sized => EndingsCommitted
  <2> SUFFICES ASSUME Waiting PROVE EndingsCommitted
    OBVIOUS
  <2>1. ASSUME NEW i \in 1..(Len(buffer) - 1) PROVE buffer[i] # "!"
    <3>1. ~Stops(buffer, i)
      BY DEF Waiting, Ends
    <3> QED
      BY <3>1 DEF Stops, StrongEndings
  <2>2. ASSUME NEW i \in 1..(Len(buffer) - 1), buffer[i] = "."
        PROVE  /\ DigitAt(buffer, i - 1)
               /\ \/ DigitAt(buffer, i + 1)
                  \/ i = Len(buffer) - 1 /\ buffer[i + 1] = "newline"
    <3>1. IsPoint(buffer, i)
      BY <2>2 DEF IsPoint
    <3>2. /\ DigitAt(buffer, i - 1)
          /\ \/ DigitAt(buffer, i + 1)
             \/ i = Len(buffer) - 1 /\ IsNewline(buffer, i + 1)
      BY <3>1 DEF Waiting, Ends
    <3> QED
      BY <3>2 DEF IsNewline
  <2> QED
    BY <2>1, <2>2 DEF EndingsCommitted
<1> QED
  BY <1>1, SizedAlways, PTL

-----------------------------------------------------------------------------
(* Segments joined again. *)

\* J joins the parts of s one by one.
Joins(s, J) == \A i \in 1..Len(s) : J[i] = IF i = 1 THEN s[i] ELSE J[i - 1] \o s[i]

\* FlattenSeq does.
LEMMA FlattenScan ==
    ASSUME NEW s \in Seq(Texts), Len(s) # 0
    PROVE  \E J : /\ FlattenSeq(s) = J[Len(s)] /\ Joins(s, J)
                  /\ \A i \in 1..Len(s) : J[i] \in Texts
<1> DEFINE n == Len(s)
           l == n - 1
           Body(f, i) == IF i = 1 THEN s[i] ELSE f[i - 1] \o s[i]
           next == [r \in 0..l |-> IF r < l THEN r + 1 ELSE r]
           op == [x \in (0..l) \X Texts |-> x[2] \o s[n - x[1]]]
           joined == CHOOSE f : f = [i \in 1..n |-> Body(f, i)]
<1>1. n \in Nat /\ l \in Nat /\ 1 \in 1..n /\ \A i \in 1..n : s[i] \in Texts
  OBVIOUS
<1>2. s[1] \in Texts
  BY <1>1
<1>3. next \in [0..l -> 0..l]
  <2> HIDE DEF l
  <2> QED
    BY <1>1
<1>4. op \in [(0..l) \X Texts -> Texts]
  <2> SUFFICES ASSUME NEW x \in (0..l) \X Texts PROVE x[2] \o s[n - x[1]] \in Texts
    OBVIOUS
  <2>1. x[1] \in 0..l /\ x[2] \in Texts
    <3> HIDE DEF l
    <3> QED
      OBVIOUS
  <2>2. n - x[1] \in 1..n
    BY <1>1, <2>1
  <2>3. s[n - x[1]] \in Texts
    BY <1>1, <2>2
  <2> QED
    BY <2>1, <2>3, ConcatProperties DEF Texts
<1>5. PICK f \in [0..l -> Texts] : Follows(f, l, next, op, s[1])
  <2> HIDE DEF l, next, op
  <2> QED
    BY <1>1, <1>2, <1>3, <1>4, Recursion
<1> DEFINE F == [i \in 1..n |-> f[n - i]]
<1>6. \A i \in 1..n : n - i \in 0..l
  BY <1>1
<1>7. \A i \in 1..n : F[i] \in Texts /\ F[i] = f[n - i]
  BY <1>6
<1>8. ASSUME NEW i \in 1..n PROVE F[i] = Body(F, i)
  <2> DEFINE r == n - i
  <2>1. r \in 0..l /\ n - r = i
    BY <1>1, <1>6
  <2>2. f[r] = IF next[r] > r THEN op[<<r, f[next[r]]>>] ELSE s[1]
    <3> HIDE DEF r, l, next, op
    <3> QED
      BY <1>5, <2>1 DEF Follows
  <2>3. CASE i = 1
    <3>1. ~(next[r] > r)
      BY <1>1, <2>3
    <3> QED
      BY <1>7, <2>2, <2>3, <3>1
  <2>4. CASE i # 1
    <3>1. next[r] = r + 1 /\ next[r] > r /\ r + 1 = n - (i - 1) /\ i - 1 \in 1..n
      BY <1>1, <2>1, <2>4
    <3>2. f[next[r]] = F[i - 1] /\ F[i - 1] \in Texts
      BY <1>7, <3>1
    <3>3. op[<<r, F[i - 1]>>] = F[i - 1] \o s[n - r]
      <4> DEFINE x == <<r, F[i - 1]>>
      <4> HIDE DEF F, l, r
      <4>1. x \in (0..l) \X Texts /\ x[1] = r /\ x[2] = F[i - 1]
        BY <2>1, <3>2
      <4> HIDE DEF x
      <4>2. op[x] = x[2] \o s[n - x[1]]
        BY <4>1
      <4> QED
        BY <4>1, <4>2 DEF x
    <3>4. F[i] = f[r]
      BY <1>7
    <3> HIDE DEF F, l, r, next, op, n
    <3> QED
      BY <2>1, <2>2, <2>4, <3>1, <3>2, <3>3, <3>4
  <2> QED
    BY <2>3, <2>4
<1>9. F = [i \in 1..n |-> Body(F, i)]
  <2>1. F = [i \in 1..n |-> F[i]]
    OBVIOUS
  <2> HIDE DEF Body, n, F
  <2> QED
    BY <1>8, <2>1
<1>10. joined = [i \in 1..n |-> Body(joined, i)]
  <2>1. \E g : g = [i \in 1..n |-> Body(g, i)]
    <3> HIDE DEF Body, n, F
    <3> QED
      BY <1>9, Zenon
  <2> QED
    BY <2>1, Zenon
<1>11. FlattenSeq(s) = joined[n]
  BY DEF FlattenSeq
<1> HIDE DEF joined
<1>12. ASSUME NEW i \in 1..n PROVE joined[i] = Body(joined, i)
  <2> HIDE DEF Body, n
  <2>1. \A g : g = [x \in 1..n |-> Body(g, x)] => g[i] = Body(g, i)
    OBVIOUS
  <2> QED
    BY <1>10, <2>1
<1>13. Joins(s, joined)
  BY <1>12 DEF Joins
<1>14. ASSUME NEW i \in 1..n, joined[i] \notin Texts PROVE FALSE
  <2> DEFINE T == {k \in 1..n : joined[k] \notin Texts}
  <2>1. PICK m \in T : \A k \in T : m <= k
    <3>1. T \in SUBSET Nat /\ i \in T
      BY <1>14
    <3> HIDE DEF T
    <3> QED
      BY <3>1, LeastNatural
  <2>2. m \in 1..n /\ joined[m] \notin Texts /\ s[m] \in Texts
    BY <1>1, <2>1
  <2>3. joined[m] = Body(joined, m)
    BY <1>12, <2>2
  <2>4. m # 1
    BY <2>2, <2>3
  <2>5. m - 1 \in 1..n /\ ~(m <= m - 1)
    BY <1>1, <2>2, <2>4
  <2>6. joined[m - 1] \in Texts
    BY <2>1, <2>5
  <2>7. joined[m] = joined[m - 1] \o s[m]
    BY <2>3, <2>4
  <2> QED
    BY <2>2, <2>6, <2>7, ConcatProperties DEF Texts
<1> QED
  BY <1>11, <1>13, <1>14

\* What is joined first does not depend on what follows.
LEMMA JoinsAgree ==
    ASSUME NEW s, NEW t, NEW J, NEW K, Joins(s, J), Joins(t, K),
           NEW n \in Nat, Len(s) \in Nat, Len(t) \in Nat, n <= Len(s), n <= Len(t),
           \A i \in 1..n : s[i] = t[i]
    PROVE  \A i \in 1..n : J[i] = K[i]
<1> SUFFICES ASSUME NEW i \in 1..n, J[i] # K[i] PROVE FALSE
  OBVIOUS
<1> DEFINE T == {k \in 1..n : J[k] # K[k]}
<1>1. PICK m \in T : \A k \in T : m <= k
  <2>1. T \in SUBSET Nat /\ i \in T
    OBVIOUS
  <2> HIDE DEF T
  <2> QED
    BY <2>1, LeastNatural
<1>2. m \in 1..n /\ m \in 1..Len(s) /\ m \in 1..Len(t) /\ s[m] = t[m] /\ J[m] # K[m]
  BY <1>1
<1>3. /\ J[m] = IF m = 1 THEN s[m] ELSE J[m - 1] \o s[m]
      /\ K[m] = IF m = 1 THEN t[m] ELSE K[m - 1] \o t[m]
  BY <1>2 DEF Joins
<1>4. m # 1
  BY <1>2, <1>3
<1>5. m - 1 \in 1..n /\ ~(m <= m - 1)
  BY <1>2, <1>4
<1>6. J[m - 1] = K[m - 1]
  BY <1>1, <1>5
<1> QED
  BY <1>2, <1>3, <1>4, <1>6

\* The first i segments joined, for every i.
Joined(s, i) == FlattenSeq(SubSeq(s, 1, i))

\* Nothing at first, then one segment more each time, and all of them at last.
LEMMA JoinedIs ==
    ASSUME NEW s \in Seq(Texts)
    PROVE  /\ Joined(s, 0) = <<>> /\ Joined(s, Len(s)) = FlattenSeq(s)
           /\ \A i \in 0..Len(s) : Joined(s, i) \in Texts
           /\ \A i \in 1..Len(s) : Joined(s, i) = Joined(s, i - 1) \o s[i]
<1>1. Len(s) \in Nat /\ \A i \in 1..Len(s) : s[i] \in Texts
  OBVIOUS
<1>2. SubSeq(s, 1, 0) = <<>> /\ SubSeq(s, 1, Len(s)) = s
  BY SubSeqEmpty, SubSeqFull
<1>3. FlattenSeq(<<>>) = <<>>
  BY DEF FlattenSeq
<1>4. Joined(s, 0) = <<>> /\ Joined(s, Len(s)) = FlattenSeq(s)
  BY <1>2, <1>3 DEF Joined
<1>5. ASSUME NEW i \in 1..Len(s)
      PROVE  \E J : /\ Joined(s, i) = J[i] /\ J[i] \in Texts
                    /\ Len(SubSeq(s, 1, i)) = i
                    /\ \A j \in 1..i : SubSeq(s, 1, i)[j] = s[j]
                    /\ Joins(SubSeq(s, 1, i), J)
  <2> DEFINE t == SubSeq(s, 1, i)
  <2>1. t \in Seq(Texts) /\ Len(t) = i /\ \A j \in 1..i : t[j] = s[j]
    <3>1. \A j \in 1..i : s[j] \in Texts
      BY <1>1
    <3>2. 1 <= i /\ i - 1 + 1 = i /\ \A j \in 1..i : 1 + j - 1 = j
      BY <1>1
    <3> QED
      BY <3>1, <3>2, SubSeqProperties
  <2> HIDE DEF t
  <2>2. Len(t) # 0 /\ i \in 1..Len(t)
    BY <2>1
  <2>3. PICK J : FlattenSeq(t) = J[Len(t)] /\ Joins(t, J) /\ \A j \in 1..Len(t) : J[j] \in Texts
    BY <2>1, <2>2, FlattenScan
  <2>4. Joined(s, i) = J[i] /\ J[i] \in Texts
    BY <2>1, <2>2, <2>3 DEF Joined, t
  <2> QED
    BY <2>1, <2>3, <2>4 DEF t
<1>6. ASSUME NEW i \in 1..Len(s) PROVE Joined(s, i) = Joined(s, i - 1) \o s[i]
  <2>1. PICK J : /\ Joined(s, i) = J[i]
                 /\ Len(SubSeq(s, 1, i)) = i
                 /\ \A j \in 1..i : SubSeq(s, 1, i)[j] = s[j]
                 /\ Joins(SubSeq(s, 1, i), J)
    BY <1>5
  <2>2. i \in 1..i /\ i \in Nat
    OBVIOUS
  <2>3. J[i] = IF i = 1 THEN s[i] ELSE J[i - 1] \o s[i]
    BY <2>1, <2>2 DEF Joins
  <2>4. CASE i = 1
    <3>1. Joined(s, i) = s[i] /\ i - 1 = 0 /\ s[i] \in Texts
      BY <1>1, <2>1, <2>3, <2>4
    <3> QED
      BY <1>4, <3>1, ConcatEmptySeq DEF Texts
  <2>5. CASE i # 1
    <3>1. i - 1 \in 1..Len(s) /\ i - 1 \in Nat /\ i - 1 <= i
      BY <1>1, <2>5
    <3> DEFINE h == i - 1
    <3>2. PICK K : /\ Joined(s, h) = K[h]
                   /\ Len(SubSeq(s, 1, h)) = h
                   /\ \A j \in 1..h : SubSeq(s, 1, h)[j] = s[j]
                   /\ Joins(SubSeq(s, 1, h), K)
      <4> HIDE DEF h
      <4> QED
        BY <1>5, <3>1 DEF h
    <3>3. \A j \in 1..h : SubSeq(s, 1, i)[j] = SubSeq(s, 1, h)[j]
      BY <2>1, <3>1, <3>2
    <3>4. \A j \in 1..h : J[j] = K[j]
      <4>1. h \in Nat /\ h <= i /\ h <= h
        BY <3>1
      <4> DEFINE u == SubSeq(s, 1, i)
                 v == SubSeq(s, 1, h)
      <4>2. /\ Joins(u, J) /\ Joins(v, K) /\ Len(u) \in Nat /\ Len(v) \in Nat
            /\ h <= Len(u) /\ h <= Len(v) /\ \A j \in 1..h : u[j] = v[j]
        BY <2>1, <2>2, <3>2, <3>3, <4>1
      <4> HIDE DEF h, u, v
      <4> QED
        BY <4>1, <4>2, JoinsAgree
    <3>5. J[h] = K[h]
      BY <3>1, <3>4
    <3> QED
      BY <2>1, <2>3, <2>5, <3>2, <3>5
  <2> QED
    BY <2>4, <2>5
<1>7. ASSUME NEW i \in 0..Len(s) PROVE Joined(s, i) \in Texts
  <2>1. CASE i = 0
    <3>1. <<>> \in Texts
      BY DEF Texts
    <3> QED
      BY <1>4, <2>1, <3>1
  <2>2. CASE i # 0
    <3>1. i \in 1..Len(s)
      BY <1>1, <2>2
    <3> QED
      BY <1>5, <3>1
  <2> QED
    BY <2>1, <2>2
<1> QED
  BY <1>4, <1>6, <1>7

\* The first i pieces of a divided text are the text up to the i-th place, and
\* all of them with the rest are the text.
LEMMA PiecesJoined ==
    ASSUME NEW text \in Texts, NEW p, Divided(text, p)
    PROVE  LET s == Pieces(text, p).segments
               r == Pieces(text, p).rest
           IN /\ \A i \in 0..Len(s) : Joined(s, i) = SubSeq(text, 1, From(p, i + 1))
              /\ FlattenSeq(s) \o r = text
<1> DEFINE s == Pieces(text, p).segments
           r == Pieces(text, p).rest
           e == From(p, Len(p) + 1)
           upTo(i) == SubSeq(text, 1, From(p, i + 1))
           T == {i \in 0..Len(s) : Joined(s, i) # upTo(i)}
<1>1. Len(text) \in Nat /\ 1 \in 1..(Len(text) + 1)
  BY DEF Texts
<1>2. /\ s \in Seq(Texts) /\ Len(s) = Len(p) /\ Len(p) \in Nat
      /\ \A i \in 1..Len(s) : s[i] = SubSeq(text, From(p, i) + 1, p[i])
      /\ r = Rest(text, e) /\ e \in 0..Len(text)
  BY PiecesAre
<1>3. \A i \in 1..Len(p) : From(p, i) \in 0..Len(text) /\ p[i] \in From(p, i)..Len(text)
  BY <1>1 DEF Divided
<1> HIDE DEF s, r
<1>4. /\ Joined(s, 0) = <<>> /\ Joined(s, Len(s)) = FlattenSeq(s)
      /\ \A i \in 1..Len(s) : Joined(s, i) = Joined(s, i - 1) \o s[i]
  BY <1>2, JoinedIs
<1>5. ASSUME T # {} PROVE FALSE
  <2>1. PICK m \in T : \A k \in T : m <= k
    <3>1. T \in SUBSET Nat
      BY <1>2
    <3> HIDE DEF T
    <3> QED
      BY <1>5, <3>1, LeastNatural
  <2>2. m \in 0..Len(s) /\ Joined(s, m) # upTo(m)
    BY <2>1
  <2>3. upTo(0) = <<>>
    <3>1. From(p, 0 + 1) = 0 /\ 0 < 1 /\ 0 \in Int /\ 1 \in Int
      BY DEF From
    <3> QED
      BY <3>1, SubSeqEmpty
  <2>4. m # 0
    BY <1>4, <2>2, <2>3
  <2>5. m \in 1..Len(s) /\ m - 1 \in 0..Len(s) /\ ~(m <= m - 1) /\ m - 1 + 1 = m
    BY <1>2, <2>2, <2>4
  <2>6. Joined(s, m - 1) = SubSeq(text, 1, From(p, m))
    <3>1. Joined(s, m - 1) = upTo(m - 1)
      BY <2>1, <2>5
    <3> QED
      BY <2>5, <3>1
  <2>7. upTo(m) = SubSeq(text, 1, p[m])
    <3>1. PICK l : l = m + 1
      OBVIOUS
    <3>2. l # 1 /\ l - 1 = m
      BY <2>5, <3>1
    <3>3. From(p, l) = p[m]
      BY <3>2 DEF From
    <3> QED
      BY <3>1, <3>3
  <2>8. SubSeq(text, 1, From(p, m)) \o SubSeq(text, From(p, m) + 1, p[m]) = SubSeq(text, 1, p[m])
    <3>1. From(p, m) \in (1 - 1)..Len(text) /\ p[m] \in From(p, m)..Len(text)
      BY <1>2, <1>3, <2>5
    <3>2. text \in Seq(Characters)
      BY DEF Texts
    <3> QED
      BY <1>1, <3>1, <3>2, ConcatAdjacentSubSeq
  <2>9. Joined(s, m) = Joined(s, m - 1) \o s[m] /\ s[m] = SubSeq(text, From(p, m) + 1, p[m])
    BY <1>2, <1>4, <2>5
  <2> QED
    BY <2>2, <2>6, <2>7, <2>8, <2>9
<1>6. \A i \in 0..Len(s) : Joined(s, i) = upTo(i)
  BY <1>5
<1>7. FlattenSeq(s) \o r = text
  <2>1. FlattenSeq(s) = SubSeq(text, 1, e)
    <3>1. Len(s) \in 0..Len(s) /\ upTo(Len(s)) = SubSeq(text, 1, e)
      BY <1>2
    <3> HIDE DEF upTo, e
    <3> QED
      BY <1>4, <1>6, <3>1
  <2>2. e \in (1 - 1)..Len(text) /\ Len(text) \in e..Len(text)
    BY <1>1, <1>2
  <2>3. text \in Seq(Characters) /\ SubSeq(text, 1, Len(text)) = text
    BY SubSeqFull DEF Texts
  <2> HIDE DEF e
  <2>4. SubSeq(text, 1, e) \o SubSeq(text, e + 1, Len(text)) = SubSeq(text, 1, Len(text))
    BY <1>1, <2>2, <2>3, ConcatAdjacentSubSeq
  <2> QED
    BY <1>2, <2>1, <2>3, <2>4 DEF Rest
<1> QED
  BY <1>6, <1>7 DEF s, r

\* What stays of the text before a call is an end of it.
LEMMA TornTagIs ==
    ASSUME NEW c \in Texts
    PROVE  \E m \in 0..Len(c) : TornTag(c) = Rest(c, m)
<1> DEFINE starts == {k \in 1..Len(c) : \E tag \in OfficialTags :
                        /\ Len(c) - k + 1 < Len(tag)
                        /\ IsPrefix(SubSeq(c, k, Len(c)), tag)}
<1>1. Len(c) \in Nat /\ Len(c) < Len(c) + 1
  BY DEF Texts
<1>2. TornTag(c) = IF starts = {} THEN <<>> ELSE SubSeq(c, Min(starts), Len(c))
  BY DEF TornTag
<1>3. starts \in SUBSET (1..Len(c))
  OBVIOUS
<1> HIDE DEF starts
<1>4. CASE starts = {}
  <2>1. Rest(c, Len(c)) = <<>>
    BY <1>1, SubSeqEmpty DEF Rest
  <2>2. Len(c) \in 0..Len(c)
    BY <1>1
  <2> QED
    BY <1>2, <1>4, <2>1, <2>2
<1>5. CASE starts # {}
  <2> DEFINE m == Min(starts) - 1
  <2>1. Min(starts) \in 1..Len(c)
    <3>1. starts \in SUBSET (0..Len(c))
      BY <1>1, <1>3
    <3>2. Min(starts) \in starts
      BY <1>1, <1>5, <3>1, MinMax
    <3> QED
      BY <1>3, <3>2
  <2>2. m \in 0..Len(c) /\ m + 1 = Min(starts)
    BY <1>1, <2>1
  <2>3. TornTag(c) = Rest(c, m)
    BY <1>2, <1>5, <2>2 DEF Rest
  <2> QED
    BY <2>2, <2>3
<1> QED
  BY <1>4, <1>5

-----------------------------------------------------------------------------
(* Tags and the places that texts are cut at. *)

\* Before: what was committed when the last call began, and what it returned.
Done == before \o FlattenSeq(out)

\* No tag lies across character c of w, nor does the end of w begin one before.
Whole(w, c) ==
    \A i \in 1..c, tag \in OfficialTags :
        /\ i - 1 + Len(tag) <= Len(w) /\ Agree(w, i, tag, Len(tag))
              => i - 1 + Len(tag) <= c
        /\ ~(Len(w) < i - 1 + Len(tag) /\ Agree(w, i, tag, Len(w) - (i - 1)))

\* More text leaves it so.
LEMMA WholeExtends ==
    ASSUME NEW a \in Texts, NEW b \in Texts, NEW t \in Texts, NEW u \in Texts,
           u = b \o t, Whole(a \o b, Len(a))
    PROVE  Whole(a \o u, Len(a))
<1> DEFINE w == a \o b
           v == a \o u
<1>1. /\ w \in Texts /\ v \in Texts
      /\ Len(a) \in Nat /\ Len(b) \in Nat /\ Len(t) \in Nat
      /\ Len(w) = Len(a) + Len(b) /\ Len(v) = Len(w) + Len(t)
  BY ConcatProperties DEF Texts
<1>2. \A j \in 1..Len(w) : v[j] = w[j]
  <2> SUFFICES ASSUME NEW j \in 1..Len(w) PROVE v[j] = w[j]
    OBVIOUS
  <2>1. /\ j \in 1..(Len(a) + Len(b)) /\ j \in 1..(Len(a) + Len(u))
        /\ Len(u) = Len(b) + Len(t)
    BY <1>1, ConcatProperties DEF Texts
  <2>2. /\ w[j] = IF j <= Len(a) THEN a[j] ELSE b[j - Len(a)]
        /\ v[j] = IF j <= Len(a) THEN a[j] ELSE u[j - Len(a)]
    BY <2>1, ConcatProperties DEF Texts
  <2>3. ASSUME ~(j <= Len(a)) PROVE u[j - Len(a)] = b[j - Len(a)]
    <3>1. j - Len(a) \in 1..(Len(b) + Len(t)) /\ j - Len(a) <= Len(b)
      BY <1>1, <2>1, <2>3
    <3> QED
      BY <3>1, ConcatProperties DEF Texts
  <2> QED
    BY <2>2, <2>3
<1> HIDE DEF w, v
<1>3. ASSUME NEW i \in 1..Len(a), NEW n \in Nat, NEW tag,
             i - 1 + n <= Len(w), Agree(v, i, tag, n)
      PROVE  Agree(w, i, tag, n)
  <2>1. \A j \in 1..n : i - 1 + j \in 1..Len(w)
    BY <1>1, <1>3
  <2> QED
    BY <1>2, <1>3, <2>1 DEF Agree
<1>4. ASSUME NEW i \in 1..Len(a), NEW n \in Nat, NEW m \in Nat, m <= n, NEW tag,
             Agree(v, i, tag, n)
      PROVE  Agree(v, i, tag, m)
  <2>1. \A j \in 1..m : j \in 1..n
    BY <1>4
  <2> QED
    BY <1>4, <2>1 DEF Agree
<1>5. Whole(w, Len(a))
  BY DEF w
<1>6. ASSUME NEW i \in 1..Len(a), NEW tag \in OfficialTags
      PROVE  /\ i - 1 + Len(tag) <= Len(v) /\ Agree(v, i, tag, Len(tag))
                   => i - 1 + Len(tag) <= Len(a)
             /\ ~(Len(v) < i - 1 + Len(tag) /\ Agree(v, i, tag, Len(v) - (i - 1)))
  <2>1. Len(tag) \in Nat /\ i \in Nat /\ i <= Len(a) /\ 1 <= i
    BY <1>1, TagShape
  <2>2. Len(w) - (i - 1) \in Nat /\ Len(v) - (i - 1) \in Nat
        /\ Len(w) - (i - 1) <= Len(v) - (i - 1)
        /\ i - 1 + (Len(w) - (i - 1)) = Len(w)
    BY <1>1, <2>1
  <2>3. /\ i - 1 + Len(tag) <= Len(w) /\ Agree(w, i, tag, Len(tag))
              => i - 1 + Len(tag) <= Len(a)
        /\ ~(Len(w) < i - 1 + Len(tag) /\ Agree(w, i, tag, Len(w) - (i - 1)))
    BY <1>5 DEF Whole
  <2>4. ASSUME Len(w) < i - 1 + Len(tag), NEW n \in Nat, Len(w) - (i - 1) <= n,
               Agree(v, i, tag, n)
        PROVE  FALSE
    <3>1. Agree(v, i, tag, Len(w) - (i - 1))
      BY <1>4, <2>2, <2>4
    <3>2. Agree(w, i, tag, Len(w) - (i - 1))
      BY <1>3, <2>2, <3>1, <1>1
    <3> QED
      BY <2>3, <2>4, <3>2
  <2>5. ASSUME i - 1 + Len(tag) <= Len(v), Agree(v, i, tag, Len(tag))
        PROVE  i - 1 + Len(tag) <= Len(a)
    <3>1. CASE i - 1 + Len(tag) <= Len(w)
      BY <1>3, <2>1, <2>3, <2>5, <3>1
    <3>2. CASE Len(w) < i - 1 + Len(tag)
      <4>1. Len(w) - (i - 1) <= Len(tag)
        BY <1>1, <2>1, <3>2
      <4> QED
        BY <2>1, <2>4, <2>5, <3>2, <4>1
    <3> QED
      BY <1>1, <2>1, <3>1, <3>2
  <2>6. ASSUME Len(v) < i - 1 + Len(tag), Agree(v, i, tag, Len(v) - (i - 1))
        PROVE  FALSE
    <3>1. Len(w) < i - 1 + Len(tag)
      BY <1>1, <2>1, <2>6
    <3> QED
      BY <2>2, <2>4, <2>6, <3>1
  <2> QED
    BY <2>5, <2>6
<1> QED
  BY <1>6 DEF Whole, v

\* The rest of a text that was put together.
LEMMA RestOfConcat ==
    ASSUME NEW a \in Texts, NEW u \in Texts
    PROVE  /\ \A m \in 0..Len(a) : Rest(a \o u, m) = Rest(a, m) \o u
           /\ \A f \in 0..Len(u) : Rest(a \o u, Len(a) + f) = Rest(u, f)
<1> DEFINE w == a \o u
<1>1. /\ w \in Texts /\ Len(a) \in Nat /\ Len(u) \in Nat /\ Len(w) = Len(a) + Len(u)
      /\ \A i \in 1..(Len(a) + Len(u)) : w[i] = IF i <= Len(a) THEN a[i] ELSE u[i - Len(a)]
  BY ConcatProperties DEF Texts
<1> HIDE DEF w
<1>2. ASSUME NEW m \in 0..Len(a) PROVE Rest(w, m) = Rest(a, m) \o u
  <2> DEFINE l == Rest(w, m)
             h == Rest(a, m)
             r == h \o u
  <2>1. m \in 0..Len(w) /\ m \in Nat /\ m <= Len(a)
    BY <1>1
  <2>2. l \in Texts /\ Len(l) = Len(w) - m /\ \A i \in 1..(Len(w) - m) : l[i] = w[m + i]
    BY <1>1, <2>1, RestIs
  <2>3. h \in Texts /\ Len(h) = Len(a) - m /\ \A i \in 1..(Len(a) - m) : h[i] = a[m + i]
    BY RestIs
  <2>4. /\ r \in Texts /\ Len(r) = Len(h) + Len(u)
        /\ \A i \in 1..(Len(h) + Len(u)) : r[i] = IF i <= Len(h) THEN h[i] ELSE u[i - Len(h)]
    <3> HIDE DEF h
    <3> QED
      BY <2>3, ConcatProperties DEF Texts
  <2> HIDE DEF l, h, r
  <2>5. Len(l) = Len(r)
    BY <1>1, <2>1, <2>2, <2>3, <2>4
  <2>6. ASSUME NEW i \in 1..Len(l) PROVE l[i] = r[i]
    <3>1. /\ i \in 1..(Len(w) - m) /\ m + i \in 1..(Len(a) + Len(u))
          /\ i \in 1..(Len(h) + Len(u)) /\ m + i - Len(a) = i - Len(h)
          /\ m + i <= Len(a) <=> i <= Len(h)
      BY <1>1, <2>1, <2>2, <2>3
    <3>2. l[i] = w[m + i]
      BY <2>2, <3>1
    <3>3. w[m + i] = IF m + i <= Len(a) THEN a[m + i] ELSE u[m + i - Len(a)]
      BY <1>1, <3>1
    <3>4. r[i] = IF i <= Len(h) THEN h[i] ELSE u[i - Len(h)]
      BY <2>4, <3>1
    <3>5. i <= Len(h) => h[i] = a[m + i]
      <4>1. i <= Len(h) => i \in 1..(Len(a) - m)
        BY <1>1, <2>1, <2>3
      <4> QED
        BY <2>3, <4>1
    <3> QED
      BY <3>1, <3>2, <3>3, <3>4, <3>5
  <2>7. l = r
    BY <2>2, <2>4, <2>5, <2>6, SeqEqual DEF Texts
  <2> QED
    BY <2>7 DEF l, h, r
<1>3. ASSUME NEW f \in 0..Len(u) PROVE Rest(w, Len(a) + f) = Rest(u, f)
  <2> DEFINE m == Len(a) + f
             l == Rest(w, m)
             r == Rest(u, f)
  <2>1. m \in 0..Len(w) /\ m \in Nat /\ f \in Nat
    BY <1>1
  <2>2. l \in Texts /\ Len(l) = Len(w) - m /\ \A i \in 1..(Len(w) - m) : l[i] = w[m + i]
    <3> HIDE DEF m
    <3> QED
      BY <1>1, <2>1, RestIs
  <2>3. r \in Texts /\ Len(r) = Len(u) - f /\ \A i \in 1..(Len(u) - f) : r[i] = u[f + i]
    BY RestIs
  <2> HIDE DEF l, r
  <2>4. Len(l) = Len(r)
    BY <1>1, <2>1, <2>2, <2>3
  <2>5. ASSUME NEW i \in 1..Len(l) PROVE l[i] = r[i]
    <3>1. /\ i \in 1..(Len(w) - m) /\ m + i \in 1..(Len(a) + Len(u))
          /\ i \in 1..(Len(u) - f) /\ ~(m + i <= Len(a)) /\ m + i - Len(a) = f + i
      BY <1>1, <2>1, <2>2
    <3>2. l[i] = w[m + i] /\ r[i] = u[f + i]
      BY <2>2, <2>3, <3>1
    <3>3. w[m + i] = u[m + i - Len(a)]
      BY <1>1, <3>1
    <3> QED
      BY <3>1, <3>2, <3>3
  <2>6. l = r
    BY <2>2, <2>3, <2>4, <2>5, SeqEqual DEF Texts
  <2> QED
    BY <2>6 DEF l, r
<1> QED
  BY <1>2, <1>3 DEF w

\* A tag that stands in the rest of a text stands in the text.
LEMMA AgreeRest ==
    ASSUME NEW w \in Texts, NEW c \in 0..Len(w), NEW j \in Nat, 1 <= j,
           NEW i \in Nat, i = c + j
    PROVE  \A n \in Nat : \A tag : i - 1 + n <= Len(w) =>
              (Agree(Rest(w, c), j, tag, n) <=> Agree(w, i, tag, n))
<1>1. Len(w) \in Nat /\ c \in Nat
  BY DEF Texts
<1> SUFFICES ASSUME NEW n \in Nat, NEW tag, i - 1 + n <= Len(w)
             PROVE  Agree(Rest(w, c), j, tag, n) <=> Agree(w, i, tag, n)
  OBVIOUS
<1>2. ASSUME NEW x \in 1..n PROVE Rest(w, c)[j - 1 + x] = w[i - 1 + x]
  <2>1. j - 1 + x \in 1..(Len(w) - c) /\ c + (j - 1 + x) = i - 1 + x
    BY <1>1
  <2>2. Rest(w, c)[j - 1 + x] = w[c + (j - 1 + x)]
    BY <2>1, RestIs
  <2> QED
    BY <2>1, <2>2
<1>3. \A x \in 1..n : Rest(w, c)[j - 1 + x] = tag[x] <=> w[i - 1 + x] = tag[x]
  BY <1>2
<1>4. Agree(Rest(w, c), j, tag, n) <=> \A x \in 1..n : Rest(w, c)[j - 1 + x] = tag[x]
  BY DEF Agree
<1>5. Agree(w, i, tag, n) <=> \A x \in 1..n : w[i - 1 + x] = tag[x]
  BY DEF Agree
<1> QED
  BY <1>3, <1>4, <1>5

\* A cut that fits leaves every tag whole.
LEMMA WholeStep ==
    ASSUME NEW w \in Texts, NEW c \in 0..Len(w), NEW k, Whole(w, c), Fits(Rest(w, c), k)
    PROVE  Whole(w, c + k)
<1> DEFINE r == Rest(w, c)
<1>1. Len(w) \in Nat /\ c \in Nat /\ r \in Texts /\ Len(r) = Len(w) - c
  BY RestIs DEF Texts
<1> HIDE DEF r
<1>2. k \in 1..Len(r) /\ IsSafeCut(k, OfficialTagRanges(r))
  BY DEF Fits, r
<1>3. ASSUME NEW i \in 1..(c + k), NEW tag \in OfficialTags
      PROVE  /\ i - 1 + Len(tag) <= Len(w) /\ Agree(w, i, tag, Len(tag))
                   => i - 1 + Len(tag) <= c + k
             /\ ~(Len(w) < i - 1 + Len(tag) /\ Agree(w, i, tag, Len(w) - (i - 1)))
  <2>1. Len(tag) \in Nat /\ i \in Nat /\ k \in Nat /\ 1 <= i
    BY <1>1, <1>2, TagShape
  <2>2. CASE i <= c
    <3>1. i \in 1..c
      BY <2>1, <2>2, <1>1
    <3>2. /\ i - 1 + Len(tag) <= Len(w) /\ Agree(w, i, tag, Len(tag))
                => i - 1 + Len(tag) <= c
          /\ ~(Len(w) < i - 1 + Len(tag) /\ Agree(w, i, tag, Len(w) - (i - 1)))
      BY <3>1 DEF Whole
    <3> QED
      BY <1>1, <2>1, <3>2
  <2>3. CASE c < i
    <3>1. PICK j \in Nat : j = i - c
      BY <1>1, <2>1, <2>3
    <3>2. j \in 1..k /\ c + j = i /\ 1 <= j
      BY <1>1, <1>2, <2>1, <2>3, <3>1
    <3>3. /\ j - 1 + Len(tag) <= Len(r) /\ Agree(r, j, tag, Len(tag))
                => j - 1 + Len(tag) <= k
          /\ ~(Len(r) < j - 1 + Len(tag) /\ Agree(r, j, tag, Len(r) - (j - 1)))
      BY <1>1, <1>2, <3>2, SafeForTags
    <3>5. \A n \in Nat : i - 1 + n <= Len(w) => (Agree(r, j, tag, n) <=> Agree(w, i, tag, n))
      BY <2>1, <3>2, AgreeRest DEF r
    <3>6. ASSUME i - 1 + Len(tag) <= Len(w), Agree(w, i, tag, Len(tag))
          PROVE  i - 1 + Len(tag) <= c + k
      <4>1. Agree(r, j, tag, Len(tag))
        BY <2>1, <3>5, <3>6
      <4>2. j - 1 + Len(tag) <= k
        BY <1>1, <2>1, <3>2, <3>3, <3>6, <4>1
      <4> QED
        BY <1>1, <2>1, <3>2, <4>2
    <3>7. ASSUME Len(w) < i - 1 + Len(tag), Agree(w, i, tag, Len(w) - (i - 1))
          PROVE  FALSE
      <4>0. Len(w) - (i - 1) \in Nat
        <5>1. i \in Nat /\ Len(w) \in Nat /\ i <= Len(w)
          BY <1>1, <1>2, <2>1
        <5> QED
          BY <5>1
      <4>1. PICK n \in Nat : n = Len(w) - (i - 1)
        BY <4>0
      <4>2. i - 1 + n <= Len(w) /\ n = Len(r) - (j - 1) /\ Len(r) < j - 1 + Len(tag)
        BY <1>1, <2>1, <3>2, <3>7, <4>1
      <4>3. Agree(r, j, tag, n)
        BY <3>5, <3>7, <4>1, <4>2
      <4> QED
        BY <3>3, <4>2, <4>3
    <3> QED
      BY <3>6, <3>7
  <2> QED
    BY <1>1, <2>1, <2>2, <2>3
<1> QED
  BY <1>3 DEF Whole

\* Text that is dropped from the front takes no part of a tag with it.
LEMMA WholeRest ==
    ASSUME NEW w \in Texts, NEW c \in 0..Len(w), NEW m \in 0..c, Whole(w, c)
    PROVE  Whole(Rest(w, m), c - m)
<1> DEFINE r == Rest(w, m)
<1>1. Len(w) \in Nat /\ c \in Nat /\ m \in Nat /\ m \in 0..Len(w) /\ c <= Len(w)
  BY DEF Texts
<1>2. r \in Texts /\ Len(r) = Len(w) - m
  BY <1>1, RestIs
<1> HIDE DEF r
<1>3. ASSUME NEW j \in 1..(c - m), NEW tag \in OfficialTags
      PROVE  /\ j - 1 + Len(tag) <= Len(r) /\ Agree(r, j, tag, Len(tag))
                   => j - 1 + Len(tag) <= c - m
             /\ ~(Len(r) < j - 1 + Len(tag) /\ Agree(r, j, tag, Len(r) - (j - 1)))
  <2>1. PICK i \in Nat : i = m + j
    BY <1>1
  <2>2. Len(tag) \in Nat /\ j \in Nat /\ 1 <= j /\ i \in 1..c
    BY <1>1, <2>1, TagShape
  <2>3. /\ i - 1 + Len(tag) <= Len(w) /\ Agree(w, i, tag, Len(tag))
              => i - 1 + Len(tag) <= c
        /\ ~(Len(w) < i - 1 + Len(tag) /\ Agree(w, i, tag, Len(w) - (i - 1)))
    BY <2>2 DEF Whole
  <2>5. \A n \in Nat : i - 1 + n <= Len(w) => (Agree(r, j, tag, n) <=> Agree(w, i, tag, n))
    BY <1>1, <2>1, <2>2, AgreeRest DEF r
  <2>6. ASSUME j - 1 + Len(tag) <= Len(r), Agree(r, j, tag, Len(tag))
        PROVE  j - 1 + Len(tag) <= c - m
    <3>1. i - 1 + Len(tag) <= Len(w)
      BY <1>1, <1>2, <2>1, <2>2, <2>6
    <3>2. i - 1 + Len(tag) <= c
      BY <2>2, <2>3, <2>5, <2>6, <3>1
    <3> QED
      BY <1>1, <2>1, <2>2, <3>2
  <2>7. ASSUME Len(r) < j - 1 + Len(tag), Agree(r, j, tag, Len(r) - (j - 1))
        PROVE  FALSE
    <3>1. PICK n \in Nat : n = Len(r) - (j - 1)
      <4>1. Len(w) - m - (j - 1) \in Nat
        BY <1>1, <2>1, <2>2
      <4> QED
        BY <1>2, <4>1
    <3>2. i - 1 + n <= Len(w) /\ n = Len(w) - (i - 1) /\ Len(w) < i - 1 + Len(tag)
      BY <1>1, <1>2, <2>1, <2>2, <2>7, <3>1
    <3>3. Agree(w, i, tag, n)
      BY <2>5, <2>7, <3>1, <3>2
    <3> QED
      BY <2>3, <3>2, <3>3
  <2> QED
    BY <2>6, <2>7
<1> QED
  BY <1>3 DEF Whole, r

\* Nothing lies across the front of a text.
LEMMA WholeAtFront == ASSUME NEW w PROVE Whole(w, 0)
<1>1. \A i \in 1..0 : FALSE
  OBVIOUS
<1> QED
  BY <1>1 DEF Whole

\* The places that divide a text leave every tag whole, also one that began
\* before the text.
LEMMA WholePieces ==
    ASSUME NEW a \in Texts, NEW text \in Texts, NEW p, Divided(text, p),
           Whole(a \o text, Len(a))
    PROVE  \A n \in 1..(Len(p) + 1) : Whole(a \o text, Len(a) + From(p, n))
<1> DEFINE w == a \o text
           T == {n \in 1..(Len(p) + 1) : ~Whole(w, Len(a) + From(p, n))}
<1>1. /\ w \in Texts /\ Len(a) \in Nat /\ Len(text) \in Nat /\ Len(w) = Len(a) + Len(text)
      /\ Len(p) \in Nat
  BY ConcatProperties DEF Texts, Divided
<1> SUFFICES ASSUME T # {} PROVE FALSE
  OBVIOUS
<1>2. PICK m \in T : \A k \in T : m <= k
  <2>1. T \in SUBSET Nat
    BY <1>1
  <2> HIDE DEF T
  <2> QED
    BY <2>1, LeastNatural
<1>3. m \in 1..(Len(p) + 1) /\ ~Whole(w, Len(a) + From(p, m))
  BY <1>2
<1>4. m # 1
  <2>1. From(p, 1) = 0 /\ Len(a) + 0 = Len(a)
    BY <1>1 DEF From
  <2> QED
    BY <1>3, <2>1
<1>5. PICK l : l = m - 1
  OBVIOUS
<1>6. l \in 1..Len(p) /\ l \in 1..(Len(p) + 1) /\ ~(m <= l)
  BY <1>1, <1>3, <1>4, <1>5
<1>7. From(p, m) = p[l]
  BY <1>4, <1>5 DEF From
<1> DEFINE f == From(p, l)
           k == p[l] - f
<1>8. f \in 0..Len(text) /\ p[l] \in 0..Len(text) /\ Fits(Rest(text, f), k)
  BY <1>6 DEF Divided
<1> HIDE DEF f
<1>9. Whole(w, Len(a) + f)
  BY <1>2, <1>6 DEF f
<1>10. Rest(w, Len(a) + f) = Rest(text, f)
  BY <1>8, RestOfConcat
<1>11. Len(a) + f \in 0..Len(w) /\ Len(a) + f + k = Len(a) + p[l]
  BY <1>1, <1>8
<1> HIDE DEF k, w
<1>12. Whole(w, Len(a) + f + k)
  BY <1>1, <1>8, <1>9, <1>10, <1>11, WholeStep
<1> QED
  BY <1>3, <1>7, <1>11, <1>12

-----------------------------------------------------------------------------
(* Points and the characters behind them. *)

\* A character follows the cut, and it is no digit.
Settled(w, c) == c < Len(w) /\ ~DigitAt(w, c + 1)

\* A segment that ends in the point of a number is not cut off before a digit:
\* while the next character is unknown or a digit the number is protected, and
\* the hard limit's last resort cuts a number only before a tag.
LEMMA PointSettled ==
    ASSUME NEW r \in Texts, NEW k, Fits(r, k),
           NEW seg \in Texts, Len(seg) = k, \A j \in 1..k : seg[j] = r[j],
           EndsInPoint(seg)
    PROVE  Settled(r, k)
<1>1. Len(r) \in Nat /\ Hard \in Nat /\ k \in 1..Len(r) /\ k < Hard
  BY Limits DEF Fits, EndsInPoint, Texts
<1>2. PICK j \in 1..(k - 1) :
         /\ \A d \in j..(k - 1) : seg[d] \in Digits
         /\ Last(seg) = "."
         /\ j > 1 => seg[j - 1] \notin Digits \cup {"."}
  BY DEF EndsInPoint
<1>3. PICK i \in Nat : i = j - 1
  BY <1>1, <1>2
<1>4. i + 1 = j /\ i \in 0..Len(r) /\ i + 1 < k /\ k \in Int /\ j \in Nat /\ j < k
  BY <1>1, <1>2, <1>3
<1>5. IsPoint(r, k)
  <2>1. Last(seg) = seg[k] /\ k \in 1..k
    BY <1>1 DEF Last
  <2>2. r[k] = "."
    BY <1>2, <2>1
  <2> QED
    BY <2>2 DEF IsPoint
<1>6. ASSUME NEW d \in (i + 1)..(k - 1) PROVE DigitAt(r, d)
  <2>1. d \in j..(k - 1) /\ d \in 1..k /\ d \in 1..Len(r)
    BY <1>1, <1>4, <1>6
  <2>2. seg[d] \in Digits /\ seg[d] = r[d]
    BY <1>2, <2>1
  <2> QED
    BY <2>1, <2>2 DEF DigitAt
<1>7. i = 0 \/ ~(DigitAt(r, i) \/ IsPoint(r, i))
  <2> SUFFICES ASSUME i # 0 PROVE ~(DigitAt(r, i) \/ IsPoint(r, i))
    OBVIOUS
  <2>1. j > 1 /\ i \in 1..k
    BY <1>1, <1>3, <1>4
  <2>2. seg[i] \notin Digits \cup {"."} /\ seg[i] = r[i]
    BY <1>2, <1>3, <2>1
  <2> QED
    BY <2>2 DEF DigitAt, IsPoint
<1>8. ASSUME NEW s \in ProtectedRanges(r), ContainsCut(s, k)
      PROVE  \A l \in (k + 1)..Hard : ~IsSafeCut(l, OfficialTagRanges(r))
  BY <1>8 DEF Fits, IsSafeCut
<1>9. k < Len(r)
  <2> SUFFICES ASSUME k = Len(r) PROVE FALSE
    BY <1>1
  <2>1. k - 1 \in (i + 1)..(k - 1)
    BY <1>1, <1>4
  <2>2. DigitAt(r, k - 1)
    BY <1>6, <2>1
  <2>3. k \in 2..Len(r)
    BY <1>1, <1>4
  <2>4. k \in TrailingPoints(r)
    BY <1>5, <2>2, <2>3 DEF TrailingPoints, IsPoint
  <2> DEFINE S == {x \in 0..(k - 2) : \A y \in (x + 1)..(k - 1) : DigitAt(r, y)}
             s == Range_(Min(S), k, TRUE)
  <2>5. s \in TrailingDecimalRanges(r)
    BY <2>4 DEF TrailingDecimalRanges
  <2>6. S \in SUBSET (0..(k - 2)) /\ k - 2 \in Nat /\ S # {}
    <3>1. k - 2 \in Nat /\ i \in 0..(k - 2)
      BY <1>1, <1>4, <2>3
    <3>2. i \in S
      BY <1>6, <3>1
    <3> QED
      BY <3>1, <3>2
  <2> HIDE DEF S
  <2>7. Min(S) \in 0..(k - 2)
    BY <2>6, MinMax
  <2>8. Min(S) < k
    BY <1>1, <2>7
  <2>9. ContainsCut(s, k)
    BY <2>8 DEF ContainsCut, Range_
  <2>10. s \in ProtectedRanges(r)
    BY <2>5 DEF ProtectedRanges
  <2> HIDE DEF s
  <2>11. ~IsSafeCut(k, ProtectedRanges(r))
    BY <2>9, <2>10 DEF IsSafeCut
  <2>12. Hard <= Len(r)
    BY <2>11 DEF Fits
  <2> QED
    BY <1>1, <2>12
<1>10. ASSUME DigitAt(r, k + 1) PROVE FALSE
  <2>1. PICK s \in DecimalRanges(r) : ContainsCut(s, k)
    BY <1>4, <1>5, <1>6, <1>7, <1>9, <1>10, NumberFound
  <2>2. s \in ProtectedRanges(r)
    BY DEF ProtectedRanges
  <2>3. PICK l : l = k + 1
    OBVIOUS
  <2>4. l \in (k + 1)..Hard /\ l \in Int
    BY <1>1, <2>3
  <2>5. ~IsSafeCut(l, OfficialTagRanges(r))
    BY <1>8, <2>1, <2>2, <2>4
  <2>6. PICK t \in OfficialTagRanges(r) : ContainsCut(t, l)
    BY <2>5 DEF IsSafeCut
  <2>7. ~ContainsCut(t, k)
    BY DEF Fits, IsSafeCut
  <2>8. t.start < l /\ (l < t.end \/ l = t.end) /\ ~(t.start < k /\ k < t.end)
    BY <2>6, <2>7 DEF ContainsCut
  <2>9. PICK x \in 1..Len(r), tag \in OfficialTags :
           /\ Opens(r, x) /\ t.start = x - 1
           /\ \/ t.end = x - 1 + Len(tag)
              \/ t.end = Len(r)
    BY TagRangeIs
  <2>10. t.start \in Int /\ t.end \in Int /\ x \in Int
    BY <1>1, <2>9, TagShape
  <2>11. x = l
    BY <1>1, <2>3, <2>8, <2>9, <2>10
  <2>12. r[l] = "[" /\ r[l] \in Digits
    BY <1>10, <2>3, <2>9, <2>11 DEF Opens, DigitAt
  <2> QED
    BY <2>12 DEF Digits
<1> QED
  BY <1>9, <1>10 DEF Settled

\* What is settled in the rest of a text is settled in the text, and back.
LEMMA SettledRest ==
    ASSUME NEW w \in Texts, NEW c \in 0..Len(w), NEW k \in Nat, NEW l, l = c + k
    PROVE  Settled(Rest(w, c), k) <=> Settled(w, l)
<1>1. Len(w) \in Nat /\ Rest(w, c) \in Texts /\ Len(Rest(w, c)) = Len(w) - c
  BY RestIs DEF Texts
<1>2. k < Len(Rest(w, c)) <=> l < Len(w)
  BY <1>1
<1>3. ASSUME l < Len(w) PROVE DigitAt(Rest(w, c), k + 1) <=> DigitAt(w, l + 1)
  <2>1. k + 1 \in 1..(Len(w) - c) /\ c + (k + 1) = l + 1 /\ l + 1 \in 1..Len(w)
    BY <1>1, <1>3
  <2>2. Rest(w, c)[k + 1] = w[l + 1]
    <3>1. Rest(w, c)[k + 1] = w[c + (k + 1)]
      BY <2>1, RestIs
    <3> QED
      BY <2>1, <3>1
  <2> QED
    BY <1>1, <2>1, <2>2 DEF DigitAt
<1> QED
  BY <1>2, <1>3 DEF Settled

\* Text put in front moves it.
LEMMA SettledBehind ==
    ASSUME NEW a \in Texts, NEW b \in Texts, NEW f \in 0..Len(b), NEW l, l = Len(a) + f
    PROVE  Settled(a \o b, l) <=> Settled(b, f)
<1>1. Len(a) \in Nat /\ Len(b) \in Nat /\ a \o b \in Texts /\ Len(a \o b) = Len(a) + Len(b)
  BY ConcatProperties DEF Texts
<1>2. Rest(a \o b, Len(a)) = b
  <2>1. 0 \in 0..Len(b) /\ Len(a) + 0 = Len(a)
    BY <1>1
  <2>2. Rest(a \o b, Len(a) + 0) = Rest(b, 0)
    BY <2>1, RestOfConcat
  <2> QED
    BY <2>1, <2>2, RestOfAll
<1>3. Len(a) \in 0..Len(a \o b) /\ f \in Nat
  BY <1>1
<1> DEFINE w == a \o b
           c == Len(a)
<1>4. w \in Texts /\ c \in 0..Len(w) /\ l = c + f /\ Rest(w, c) = b
  BY <1>1, <1>2, <1>3
<1> HIDE DEF w, c
<1>5. Settled(Rest(w, c), f) <=> Settled(w, l)
  BY <1>3, <1>4, SettledRest
<1> QED
  BY <1>4, <1>5 DEF w

\* Text put behind leaves it.
LEMMA SettledAhead ==
    ASSUME NEW b \in Texts, NEW t \in Texts, Settled(b, 0)
    PROVE  Settled(b \o t, 0)
<1>1. /\ Len(b) \in Nat /\ Len(t) \in Nat /\ Len(b \o t) = Len(b) + Len(t)
      /\ \A i \in 1..(Len(b) + Len(t)) : (b \o t)[i] = IF i <= Len(b) THEN b[i] ELSE t[i - Len(b)]
  BY ConcatProperties DEF Texts
<1>2. 0 < Len(b) /\ ~DigitAt(b, 1)
  <2>1. 0 + 1 = 1
    OBVIOUS
  <2> QED
    BY <2>1 DEF Settled
<1>3. 1 \in 1..Len(b) /\ 1 \in 1..(Len(b) + Len(t)) /\ 1 <= Len(b) /\ 0 < Len(b) + Len(t)
  BY <1>1, <1>2
<1>4. (b \o t)[1] = b[1]
  BY <1>1, <1>3
<1>5. ~DigitAt(b \o t, 0 + 1)
  BY <1>2, <1>3, <1>4 DEF DigitAt
<1> QED
  BY <1>1, <1>3, <1>5 DEF Settled

-----------------------------------------------------------------------------
(* The text around the cuts of a call. *)

\* The history is text.
History == before \in Texts /\ openPoint \in BOOLEAN /\ flushed \in BOOLEAN

\* What the next call remembers is an end of what was committed, and nothing
\* after a flush.
LEMMA CommittedIs ==
    ASSUME History, Sized
    PROVE  /\ Done \in Texts /\ Committed \in Texts
           /\ IF flushed THEN Committed = <<>>
              ELSE \E m \in 0..Len(Done) : Committed = Rest(Done, m)
<1>1. out \in Seq(Texts) /\ Len(out) \in 0..Len(out) /\ before \in Texts
  BY DEF Sized, History
<1>2. FlattenSeq(out) \in Texts
  BY <1>1, JoinedIs
<1>3. Done \in Texts
  BY <1>1, <1>2, ConcatProperties DEF Done, Texts
<1>4. PICK m \in 0..Len(Done) : TornTag(Done) = Rest(Done, m)
  BY <1>3, TornTagIs
<1>5. CASE flushed
  <2>1. Committed = <<>>
    BY <1>5 DEF Committed
  <2>2. <<>> \in Texts
    BY DEF Texts
  <2> QED
    BY <1>3, <1>5, <2>1, <2>2
<1>6. CASE ~flushed
  <2>1. Committed = Rest(Done, m)
    BY <1>4, <1>6 DEF Committed, Done
  <2>2. Rest(Done, m) \in Texts
    BY <1>3, RestIs
  <2> QED
    BY <1>3, <1>6, <2>1, <2>2
<1> QED
  BY <1>5, <1>6

\* The last place of a call lies behind all that it returned.
LEMMA LastPlace ==
    ASSUME History, Sized
    PROVE  /\ Window = Done \o buffer
           /\ CutBefore(1) = Len(before)
           /\ CutBefore(Len(out) + 1) = Len(Done)
<1>1. out \in Seq(Texts) /\ before \in Texts /\ Len(out) \in Nat
  BY DEF Sized, History
<1>2. /\ Joined(out, 0) = <<>> /\ Joined(out, Len(out)) = FlattenSeq(out)
      /\ FlattenSeq(out) \in Texts
  <2>1. Len(out) \in 0..Len(out)
    BY <1>1
  <2> QED
    BY <1>1, <2>1, JoinedIs
<1>3. Len(Done) = Len(before) + Len(FlattenSeq(out))
  BY <1>1, <1>2, ConcatProperties DEF Done, Texts
<1>4. CutBefore(1) = Len(before) + Len(Joined(out, 0))
  <2>1. 1 - 1 = 0
    OBVIOUS
  <2> QED
    BY <2>1 DEF CutBefore, Joined
<1>5. CutBefore(Len(out) + 1) = Len(before) + Len(Joined(out, Len(out)))
  <2>1. Len(out) + 1 - 1 = Len(out)
    BY <1>1
  <2> QED
    BY <2>1 DEF CutBefore, Joined
<1>6. Len(<<>>) = 0 /\ Len(before) \in Nat
  BY <1>1 DEF Texts
<1>7. CutBefore(1) = Len(before)
  BY <1>2, <1>4, <1>6
<1> QED
  BY <1>2, <1>3, <1>5, <1>7 DEF Window, Done

\* What a call shows when it divides a text: the text behind what is remembered,
\* cut at the places.
Shows(text, p) ==
    /\ Window' = Committed \o text /\ before' = Committed
    /\ Len(out') = Len(p) /\ Len(p) \in Nat
    /\ \A i \in 1..(Len(p) + 1) : CutBefore(i)' = Len(Committed) + From(p, i)

\* Every call that returns pieces shows that.
LEMMA WindowIs ==
    ASSUME History, Sized, NEW text \in Texts, NEW p, Returned(text, p)
    PROVE  Shows(text, p)
<1> DEFINE s == Pieces(text, p).segments
           r == Pieces(text, p).rest
<1>1. Committed \in Texts
  BY CommittedIs
<1>2. Divided(text, p) /\ out' = s /\ buffer' = r /\ before' = Committed
  BY DEF Returned
<1>3. s \in Seq(Texts) /\ Len(s) = Len(p) /\ Len(p) \in Nat /\ r \in Texts
  BY <1>2, PiecesAre
<1>4. /\ \A i \in 0..Len(s) : Joined(s, i) = SubSeq(text, 1, From(p, i + 1))
      /\ FlattenSeq(s) \o r = text
  BY <1>2, PiecesJoined
<1> HIDE DEF s, r
<1>5. FlattenSeq(s) \in Texts
  <2>1. Len(s) \in 0..Len(s)
    BY <1>3
  <2> QED
    BY <1>3, <2>1, JoinedIs
<1>6. Window' = Committed \o text
  <2>1. Window' = (Committed \o FlattenSeq(s)) \o r
    BY <1>2 DEF Window
  <2>2. (Committed \o FlattenSeq(s)) \o r = Committed \o (FlattenSeq(s) \o r)
    BY <1>1, <1>3, <1>5, ConcatAssociative DEF Texts
  <2> QED
    BY <1>4, <2>1, <2>2
<1>7. ASSUME NEW i \in 1..(Len(p) + 1)
      PROVE  CutBefore(i)' = Len(Committed) + From(p, i)
  <2>1. CutBefore(i)' = Len(before') + Len(Joined(s, i - 1))
    BY <1>2 DEF CutBefore, Joined
  <2>2. PICK l : l = i - 1
    OBVIOUS
  <2>3. l \in 0..Len(s) /\ l + 1 = i
    BY <1>3, <2>2
  <2>4. Joined(s, l) = SubSeq(text, 1, From(p, i))
    BY <1>4, <2>3
  <2>5. From(p, i) \in 0..Len(text)
    <3>1. i \in 1..Len(p) \/ i = Len(p) + 1
      BY <1>3
    <3> QED
      BY <1>2, <3>1 DEF Divided
  <2>6. Len(SubSeq(text, 1, From(p, i))) = From(p, i)
    <3>1. 0 \in 0..Len(text) /\ From(p, i) \in 0..Len(text)
          /\ 0 + 1 = 1 /\ From(p, i) - 0 = From(p, i)
      BY <2>5 DEF Texts
    <3>2. Len(SubSeq(text, 0 + 1, From(p, i))) = From(p, i) - 0
      BY <3>1, PieceIs
    <3> QED
      BY <3>1, <3>2
  <2> QED
    BY <1>2, <2>1, <2>2, <2>4, <2>6
<1> QED
  BY <1>2, <1>3, <1>6, <1>7 DEF Shows

\* OfficialTagsWhole at every place of the last call, its first and last too.
TagsKept == ~flushed => \A i \in 1..(Len(out) + 1) : Whole(Window, CutBefore(i))

\* DecimalPointKept, and more: behind a number's point there is a character.
PointsKept ==
    ~flushed =>
        /\ openPoint => Settled(Window, CutBefore(1))
        /\ \A i \in 1..Len(out) : EndsInPoint(out[i]) => Settled(Window, CutBefore(i + 1))

\* A call that divides what waited and what came leaves tags whole.
LEMMA TagsStep ==
    ASSUME History, Sized, Waiting, TagsKept,
           NEW chunk \in Texts, NEW text, text = buffer \o chunk,
           NEW p, Returned(text, p)
    PROVE  TagsKept'
<1>1. /\ Done \in Texts /\ Committed \in Texts
      /\ IF flushed THEN Committed = <<>>
         ELSE \E m \in 0..Len(Done) : Committed = Rest(Done, m)
  BY CommittedIs
<1>2. buffer \in Texts /\ text \in Texts /\ Len(Done) \in Nat /\ Divided(text, p)
  BY <1>1, ConcatProperties DEF Waiting, Texts, Returned
<1>3. /\ Window' = Committed \o text
      /\ Len(out') = Len(p) /\ Len(p) \in Nat
      /\ \A i \in 1..(Len(p) + 1) : CutBefore(i)' = Len(Committed) + From(p, i)
  <2>1. Shows(text, p)
    BY <1>2, WindowIs
  <2> QED
    BY <2>1 DEF Shows
<1>4. Whole(Committed \o text, Len(Committed))
  <2>1. CASE flushed
    <3>1. Len(Committed) = 0
      BY <1>1, <2>1
    <3> QED
      BY <3>1, WholeAtFront
  <2>2. CASE ~flushed
    <3>1. Whole(Done \o buffer, Len(Done))
      <4>1. Len(out) + 1 \in 1..(Len(out) + 1)
        BY DEF Sized
      <4>2. Whole(Window, CutBefore(Len(out) + 1))
        BY <2>2, <4>1 DEF TagsKept
      <4> QED
        BY <4>2, LastPlace
    <3>2. Whole(Done \o text, Len(Done))
      BY <1>1, <1>2, <3>1, WholeExtends
    <3>3. PICK m \in 0..Len(Done) : Committed = Rest(Done, m)
      BY <1>1, <2>2
    <3>4. Rest(Done \o text, m) = Committed \o text /\ Len(Committed) = Len(Done) - m
      BY <1>1, <1>2, <3>3, RestOfConcat, RestIs
    <3> DEFINE w == Done \o text
               c == Len(Done)
    <3>5. w \in Texts /\ c \in 0..Len(w) /\ m \in 0..c
      BY <1>1, <1>2, ConcatProperties DEF Texts
    <3> HIDE DEF w, c
    <3>6. Whole(Rest(w, m), c - m)
      BY <3>2, <3>5, WholeRest DEF w, c
    <3> QED
      BY <3>4, <3>6 DEF w, c
  <2> QED
    BY <2>1, <2>2
<1>5. \A n \in 1..(Len(p) + 1) : Whole(Committed \o text, Len(Committed) + From(p, n))
  BY <1>1, <1>2, <1>4, WholePieces
<1>6. \A n \in 1..(Len(out') + 1) : Whole(Window', CutBefore(n)')
  BY <1>3, <1>5
<1> QED
  BY <1>6 DEF TagsKept, Whole, Agree

\* And it leaves points settled: the points of its own segments, and the last
\* point that was committed before.
LEMMA PointsStep ==
    ASSUME History, Sized, Waiting, PointsKept,
           NEW chunk \in Texts, NEW text, text = buffer \o chunk,
           NEW p, Returned(text, p)
    PROVE  PointsKept'
<1>1. Done \in Texts /\ Committed \in Texts
  BY CommittedIs
<1>2. /\ buffer \in Texts /\ text \in Texts /\ Divided(text, p)
      /\ Len(text) \in Nat /\ Len(Committed) \in Nat
  BY <1>1, ConcatProperties DEF Waiting, Texts, Returned
<1>3. /\ Window' = Committed \o text
      /\ Len(out') = Len(p) /\ Len(p) \in Nat
      /\ \A i \in 1..(Len(p) + 1) : CutBefore(i)' = Len(Committed) + From(p, i)
  <2>1. Shows(text, p)
    BY <1>2, WindowIs
  <2> QED
    BY <2>1 DEF Shows
<1> DEFINE s == Pieces(text, p).segments
           lastPoint == IF out = <<>> THEN openPoint ELSE EndsInPoint(Last(out))
<1>4. out' = s /\ openPoint' = (~flushed /\ lastPoint)
  BY DEF Returned
<1>5. /\ s \in Seq(Texts) /\ Len(s) = Len(p)
      /\ \A i \in 1..Len(s) : /\ s[i] \in Texts /\ Len(s[i]) = p[i] - From(p, i)
                              /\ \A j \in 1..Len(s[i]) : s[i][j] = text[From(p, i) + j]
  <2>1. s \in Seq(Texts) /\ Len(s) = Len(p)
    BY <1>2, PiecesAre
  <2>2. ASSUME NEW i \in 1..Len(s)
        PROVE  /\ s[i] \in Texts /\ Len(s[i]) = p[i] - From(p, i)
               /\ \A j \in 1..Len(s[i]) : s[i][j] = text[From(p, i) + j]
    <3> DEFINE g == From(p, i)
    <3>1. i \in 1..Len(p) /\ s = [n \in 1..Len(p) |-> SubSeq(text, From(p, n) + 1, p[n])]
      BY <2>1 DEF Pieces
    <3> HIDE DEF s
    <3>2. s[i] = SubSeq(text, g + 1, p[i])
      BY <3>1
    <3>3. g \in 0..Len(text) /\ p[i] \in g..Len(text)
      BY <1>2, <3>1 DEF Divided
    <3> HIDE DEF g
    <3>4. /\ SubSeq(text, g + 1, p[i]) \in Texts /\ Len(SubSeq(text, g + 1, p[i])) = p[i] - g
          /\ \A j \in 1..(p[i] - g) : SubSeq(text, g + 1, p[i])[j] = text[g + j]
      BY <1>2, <3>3, PieceIs
    <3> QED
      BY <3>2, <3>4 DEF g
  <2> QED
    BY <2>1, <2>2
<1> HIDE DEF s
<1>6. ASSUME ~flushed, lastPoint PROVE Settled(Committed \o text, Len(Committed))
  <2>1. Settled(Window, CutBefore(Len(out) + 1))
    <3>1. out \in Seq(Texts) /\ Len(out) \in Nat
      BY DEF Sized
    <3>2. CASE out = <<>>
      <4>1. openPoint
        BY <1>6, <3>2
      <4>2. Len(out) = 0
        BY <3>2
      <4>3. Len(out) + 1 = 1
        BY <4>2
      <4>4. Settled(Window, CutBefore(1))
        BY <1>6, <4>1 DEF PointsKept
      <4> QED
        BY <4>3, <4>4
    <3>3. CASE out # <<>>
      <4>1. EndsInPoint(out[Len(out)])
        BY <1>6, <3>3 DEF Last
      <4>2. Len(out) \in 1..Len(out)
        BY <3>1, <3>3, EmptySeq
      <4> QED
        BY <1>6, <4>1, <4>2 DEF PointsKept
    <3> QED
      BY <3>2, <3>3
  <2>2. Settled(Done \o buffer, Len(Done))
    BY <2>1, LastPlace
  <2>3. Settled(buffer, 0)
    <3>1. 0 \in 0..Len(buffer) /\ Len(Done) = Len(Done) + 0
      BY <1>1, <1>2 DEF Texts
    <3> QED
      BY <1>1, <1>2, <2>2, <3>1, SettledBehind
  <2>4. Settled(text, 0)
    BY <1>2, <2>3, SettledAhead
  <2>5. 0 \in 0..Len(text) /\ Len(Committed) = Len(Committed) + 0
    BY <1>2
  <2> QED
    BY <1>1, <1>2, <2>4, <2>5, SettledBehind
<1>7. openPoint' => Settled(Window', CutBefore(1)')
  <2> SUFFICES ASSUME openPoint' PROVE Settled(Window', CutBefore(1)')
    OBVIOUS
  <2>1. ~flushed /\ lastPoint
    BY <1>4
  <2>2. From(p, 1) = 0 /\ 1 \in 1..(Len(p) + 1)
    BY <1>3 DEF From
  <2>3. CutBefore(1)' = Len(Committed)
    <3>1. CutBefore(1)' = Len(Committed) + 0
      BY <1>3, <2>2
    <3> QED
      BY <1>2, <3>1
  <2> HIDE DEF lastPoint
  <2> QED
    BY <1>3, <1>6, <2>1, <2>3
<1>8. ASSUME NEW i \in 1..Len(p), EndsInPoint(s[i])
      PROVE  Settled(Window', CutBefore(i + 1)')
  <2> DEFINE f == From(p, i)
             k == p[i] - f
             r == Rest(text, f)
  <2>1. f \in 0..Len(text) /\ p[i] \in 0..Len(text) /\ f < p[i] /\ Fits(r, k)
    BY <1>2 DEF Divided
  <2>2. r \in Texts /\ Len(r) = Len(text) - f /\ \A j \in 1..(Len(text) - f) : r[j] = text[f + j]
    BY <1>2, <2>1, RestIs
  <2>3. s[i] \in Texts /\ Len(s[i]) = k /\ \A j \in 1..Len(s[i]) : s[i][j] = text[f + j]
    BY <1>5
  <2> HIDE DEF f, r
  <2>4. k \in Nat /\ p[i] = f + k /\ k <= Len(text) - f
    BY <1>2, <2>1
  <2>5. \A j \in 1..k : s[i][j] = r[j]
    <3>1. \A j \in 1..k : j \in 1..(Len(text) - f) /\ j \in 1..Len(s[i])
      BY <1>2, <2>1, <2>3, <2>4
    <3> QED
      BY <2>2, <2>3, <3>1
  <2> HIDE DEF k
  <2>6. Settled(r, k)
    BY <1>8, <2>1, <2>2, <2>3, <2>5, PointSettled
  <2>7. Settled(text, p[i])
    BY <1>2, <2>1, <2>4, <2>6, SettledRest DEF r
  <2>8. PICK l : l = i + 1
    OBVIOUS
  <2>9. l \in 1..(Len(p) + 1) /\ l # 1 /\ l - 1 = i
    BY <1>3, <2>8
  <2>10. From(p, l) = p[i]
    BY <2>9 DEF From
  <2>11. CutBefore(l)' = Len(Committed) + p[i]
    BY <1>3, <2>9, <2>10
  <2>12. Settled(Committed \o text, CutBefore(l)')
    BY <1>1, <1>2, <2>1, <2>7, <2>11, SettledBehind
  <2> QED
    BY <1>3, <2>8, <2>12
<1>9. \A i \in 1..Len(out') : EndsInPoint(out'[i]) => Settled(Window', CutBefore(i + 1)')
  BY <1>3, <1>4, <1>8
<1> QED
  BY <1>7, <1>9 DEF PointsKept, Settled, EndsInPoint, DigitAt, Last

\* The whole invariant: what waits, what was returned, and the history of both.
Kept == Waiting /\ Sized /\ History /\ TagsKept /\ PointsKept

\* The history stays text.
LEMMA HistoryStep ==
    ASSUME Kept, before' = Committed, openPoint' \in BOOLEAN, flushed' \in BOOLEAN
    PROVE  History'
<1>1. Committed \in Texts
  BY CommittedIs DEF Kept
<1> QED
  BY <1>1 DEF History

\* Every step keeps the invariant.
LEMMA KeptStep == ASSUME Kept, [Next]_vars PROVE Kept'
<1>1. Waiting /\ Sized /\ History /\ TagsKept /\ PointsKept
  BY DEF Kept
<1>2. Waiting' /\ Sized'
  BY <1>1, SizedStep
<1>3. ASSUME NEW chunk \in Texts, NEW p, Returned(buffer \o chunk, p), flushed' = FALSE
      PROVE  History' /\ TagsKept' /\ PointsKept'
  <2>1. before' = Committed /\ openPoint' \in BOOLEAN
    BY <1>3 DEF Returned
  <2>2. History'
    BY <1>3, <2>1, HistoryStep
  <2> QED
    BY <1>1, <1>3, <2>2, TagsStep, PointsStep
<1>4. ASSUME NEW chunk \in Chunks, Append_(chunk)
      PROVE  History' /\ TagsKept' /\ PointsKept'
  <2>1. chunk \in Texts /\ chunk # <<>>
    BY <1>4, ChunkIsText
  <2>2. (\E p : Returned(buffer \o chunk, p)) /\ flushed' = FALSE
    BY <1>1, <1>4, <2>1, AppendReturns
  <2> QED
    BY <1>3, <2>1, <2>2
<1>5. ASSUME ExpireDeadline
      PROVE  History' /\ TagsKept' /\ PointsKept'
  <2>1. (\E p : Returned(buffer, p)) /\ flushed' = FALSE
    BY <1>1, <1>5, DeadlineReturns
  <2>2. <<>> \in Texts /\ buffer \o <<>> = buffer
    BY <1>1, ConcatEmptySeq DEF Waiting, Texts
  <2> QED
    BY <1>3, <2>1, <2>2
<1>6. ASSUME Flush
      PROVE  History' /\ TagsKept' /\ PointsKept'
  <2>1. flushed' = TRUE /\ before' = Committed /\ openPoint' \in BOOLEAN
    BY <1>6 DEF Flush, Return
  <2>2. History'
    BY <2>1, HistoryStep
  <2> QED
    BY <2>1, <2>2 DEF TagsKept, PointsKept
<1>7. ASSUME UNCHANGED vars
      PROVE  History' /\ TagsKept' /\ PointsKept'
  <2>1. /\ buffer' = buffer /\ out' = out /\ flushed' = flushed
        /\ before' = before /\ openPoint' = openPoint
    BY <1>7 DEF vars
  <2>2. Window' = Window /\ \A i : CutBefore(i)' = CutBefore(i)
    BY <2>1 DEF Window, CutBefore
  <2>3. History'
    BY <1>1, <2>1 DEF History
  <2>4. TagsKept'
    BY <1>1, <2>1, <2>2 DEF TagsKept, Whole, Agree
  <2>5. PointsKept'
    BY <1>1, <2>1, <2>2 DEF PointsKept, Settled, EndsInPoint, DigitAt, Last
  <2> QED
    BY <2>3, <2>4, <2>5
<1>8. History' /\ TagsKept' /\ PointsKept'
  BY <1>4, <1>5, <1>6, <1>7 DEF Next
<1> QED
  BY <1>2, <1>8 DEF Kept

\* Initially no call was made.
LEMMA KeptInit == ASSUME Init PROVE Kept
<1>1. buffer = <<>> /\ out = <<>> /\ flushed = FALSE /\ before = <<>> /\ openPoint = FALSE
  BY DEF Init
<1>2. Waiting /\ Sized
  BY SizedInit
<1>3. <<>> \in Texts /\ Len(<<>>) = 0 /\ \A i \in 1..Len(<<>>) : FALSE
  BY DEF Texts
<1>4. History
  BY <1>1, <1>3 DEF History
<1>5. CutBefore(1) = 0
  BY <1>1, <1>2, <1>3, <1>4, LastPlace
<1>6. TagsKept
  <2>1. \A i \in 1..(Len(out) + 1) : i = 1
    BY <1>1, <1>3
  <2>2. Whole(Window, CutBefore(1))
    BY <1>5, WholeAtFront
  <2> QED
    BY <2>1, <2>2 DEF TagsKept
<1>7. PointsKept
  BY <1>1, <1>3 DEF PointsKept
<1> QED
  BY <1>2, <1>4, <1>6, <1>7 DEF Kept

\* The invariant holds always.
LEMMA KeptAlways == Spec => []Kept
<1>1. Init => Kept
  BY KeptInit
<1>2. Kept /\ [Next]_vars => Kept'
  BY KeptStep
<1> QED
  BY <1>1, <1>2, PTL DEF Spec

\* OfficialTagsWhole: however a tag arrives, no call but flush cuts through it.
THEOREM OfficialTagsWholeHolds == Spec => []OfficialTagsWhole
<1>1. Kept => OfficialTagsWhole
  <2> SUFFICES ASSUME Kept, ~flushed, NEW i \in 1..Len(Window), NEW tag \in OfficialTags,
                      IsPrefix(tag, SubSeq(Window, i, Len(Window))),
                      NEW c \in Cuts, c \in i..(i + Len(tag) - 2)
               PROVE  FALSE
    BY DEF OfficialTagsWhole
  <2>1. Window \in Texts
    <3>1. Done \in Texts /\ buffer \in Texts /\ Window = Done \o buffer
      BY CommittedIs, LastPlace DEF Kept, Waiting
    <3> QED
      BY <3>1, ConcatProperties DEF Texts
  <2>2. i - 1 + Len(tag) <= Len(Window) /\ Agree(Window, i, tag, Len(tag))
    BY <2>1, TagPrefix
  <2>3. PICK n \in 1..(Len(out) + 1) : c = CutBefore(n)
    BY DEF Cuts
  <2>4. Whole(Window, c)
    BY <2>3 DEF Kept, TagsKept
  <2>5. Len(tag) \in Nat /\ i \in Nat /\ 1 <= i
    BY <2>1, TagShape DEF Texts
  <2>6. c \in Int /\ i <= c /\ c <= i + Len(tag) - 2
    BY <2>5
  <2>7. i \in 1..c
    BY <2>5, <2>6
  <2>8. i - 1 + Len(tag) <= c
    BY <2>2, <2>4, <2>7 DEF Whole
  <2> QED
    BY <2>5, <2>6, <2>8
<1> QED
  BY <1>1, KeptAlways, PTL

\* DecimalPointKept: no digit follows the point that a committed number ends in,
\* whether it was there or comes later.
THEOREM DecimalPointKeptHolds == Spec => []DecimalPointKept
<1>1. Kept => DecimalPointKept
  <2>1. Kept => CutBefore(1) = Len(before)
    BY LastPlace DEF Kept
  <2> QED
    BY <2>1 DEF Kept, PointsKept, Settled, DecimalPointKept
<1> QED
  BY <1>1, KeptAlways, PTL

-----------------------------------------------------------------------------
(* Nothing is lost: what StreamSession takes a cut for. *)

\* What a call returns and leaves is what waited and what came.
TextIsKept ==
    /\ \A chunk \in Chunks :
          Append_(chunk) => FlattenSeq(out') \o buffer' = buffer \o chunk
    /\ ExpireDeadline \/ Flush => FlattenSeq(out') \o buffer' = buffer

\* Pieces of a text are the text.
LEMMA ReturnedKeeps ==
    ASSUME NEW text \in Texts, NEW p, Returned(text, p)
    PROVE  FlattenSeq(out') \o buffer' = text
  BY PiecesJoined DEF Returned

\* A flush gives out what waited, as it is.
LEMMA FlushKeeps ==
    ASSUME Waiting, Flush
    PROVE  FlattenSeq(out') \o buffer' = buffer
<1>1. out' = (IF buffer = <<>> THEN <<>> ELSE <<buffer>>) /\ buffer' = <<>>
  BY DEF Flush, Return
<1>2. buffer \in Texts /\ buffer \o <<>> = buffer /\ <<>> \o <<>> = <<>>
  BY ConcatEmptySeq DEF Waiting, Texts
<1>3. CASE buffer = <<>>
  <2>1. FlattenSeq(<<>>) = <<>>
    BY DEF FlattenSeq
  <2> QED
    BY <1>1, <1>2, <1>3, <2>1
<1>4. CASE buffer # <<>>
  <2> DEFINE s == <<buffer>>
  <2>1. s \in Seq(Texts) /\ Len(s) = 1 /\ s[1] = buffer /\ out' = s
    BY <1>1, <1>2, <1>4
  <2> HIDE DEF s
  <2>2. /\ Joined(s, 0) = <<>> /\ Joined(s, 1) = FlattenSeq(s)
        /\ Joined(s, 1) = Joined(s, 0) \o s[1]
    <3>1. 1 \in 1..Len(s) /\ 1 - 1 = 0
      BY <2>1
    <3>2. Joined(s, 1) = Joined(s, 1 - 1) \o s[1]
      BY <2>1, <3>1, JoinedIs
    <3>3. Joined(s, 0) = <<>> /\ Joined(s, Len(s)) = FlattenSeq(s)
      BY <2>1, JoinedIs
    <3> QED
      BY <2>1, <3>1, <3>2, <3>3
  <2>3. <<>> \o buffer = buffer
    BY <1>2, ConcatEmptySeq DEF Texts
  <2> QED
    BY <1>1, <1>2, <2>1, <2>2, <2>3
<1> QED
  BY <1>3, <1>4

\* No call loses, repeats or reorders text: the segments it returns and what it
\* keeps are, put together, what it was given.
THEOREM TextIsKeptAlways == Spec => [][TextIsKept]_vars
<1>1. Kept /\ [Next]_vars => [TextIsKept]_vars
  <2> SUFFICES ASSUME Kept PROVE TextIsKept
    OBVIOUS
  <2>1. Waiting /\ buffer \in Texts
    BY DEF Kept, Waiting
  <2>2. ASSUME NEW chunk \in Chunks, Append_(chunk)
        PROVE  FlattenSeq(out') \o buffer' = buffer \o chunk
    <3>1. chunk \in Texts /\ chunk # <<>>
      BY ChunkIsText
    <3>2. PICK p : Returned(buffer \o chunk, p)
      BY <2>1, <2>2, <3>1, AppendReturns
    <3>3. buffer \o chunk \in Texts
      BY <2>1, <3>1, ConcatProperties DEF Texts
    <3> QED
      BY <3>2, <3>3, ReturnedKeeps
  <2>3. ASSUME ExpireDeadline PROVE FlattenSeq(out') \o buffer' = buffer
    <3>1. PICK p : Returned(buffer, p)
      BY <2>1, <2>3, DeadlineReturns
    <3> QED
      BY <2>1, <3>1, ReturnedKeeps
  <2>4. Flush => FlattenSeq(out') \o buffer' = buffer
    BY <2>1, FlushKeeps
  <2> QED
    BY <2>2, <2>3, <2>4 DEF TextIsKept
<1> QED
  BY <1>1, KeptAlways, PTL DEF Spec

=============================================================================
