-------------------------- MODULE PolicyHash_proofs --------------------------
(***************************************************************************)
(* Proofs about PolicyHash for any number of tasks, any routes and any     *)
(* sequence of restarts.  The cache is a matter of its invariant, whatever *)
(* the material looks like.  That equal hashes mean equal decisions rests  *)
(* on the material: it is read back field by field, so that routes with    *)
(* the same material have the same fields, and a field keeps the value it  *)
(* was written from.                                                       *)
(***************************************************************************)
EXTENDS PolicyHash, FiniteSetTheorems, TLAPS

(* Every step keeps the cache and the material under way consistent with   *)
(* the configured route.                                                   *)
THEOREM CacheInvariant == Spec => []CacheInv
<1>1. Init => CacheInv
  BY DEF Init, CacheInv, RecordedHashIsOwn, None
<1>2. CacheInv /\ [Next]_vars => CacheInv'
  <2> SUFFICES ASSUME CacheInv, [Next]_vars PROVE CacheInv'
    OBVIOUS
  <2>1. ASSUME NEW t \in Tasks, BuildMaterial(t) PROVE CacheInv'
    BY <2>1 DEF BuildMaterial, CacheInv, RecordedHashIsOwn
  <2>2. ASSUME NEW t \in Tasks, GetOrCompute(t) PROVE CacheInv'
    <3>1. PICK m \in material[t] :
            /\ cache' = Some(Entry(m))
            /\ records' = records \cup {[hash |-> Entry(m).hash, route |-> route]}
            /\ material' = [material EXCEPT ![t] = None]
            /\ route' = route
      BY <2>2 DEF GetOrCompute
    <3>2. m = Material(route)
      BY <3>1 DEF CacheInv, None, Some
    <3>3. Entry(m).material = m /\ Entry(m).hash = Sha256(m)
      <4>1. CASE \E c \in cache : c.material = m
        <5>1. PICK c \in cache : c.material = m
          BY <4>1
        <5>2. The(cache) \in cache
          BY <5>1 DEF The
        <5>3. \A d \in cache : d = c
          BY DEF CacheInv
        <5> QED BY <4>1, <5>1, <5>2, <5>3 DEF Entry, CacheInv
      <4>2. CASE ~\E c \in cache : c.material = m
        BY <4>2 DEF Entry, Computed
      <4> QED BY <4>1, <4>2
    <3>4. RecordedHashIsOwn'
      BY <3>1, <3>2, <3>3 DEF CacheInv, RecordedHashIsOwn
    <3>5. \A c, d \in cache' : c = d /\ c.hash = Sha256(c.material)
      BY <3>1, <3>3 DEF Some
    <3>6. material' \in [Tasks -> {None, Some(Material(route))}]
      BY <3>1 DEF CacheInv
    <3> QED BY <3>1, <3>4, <3>5, <3>6 DEF CacheInv
  <2>3. CASE Restart
    BY <2>3 DEF Restart, CacheInv, RecordedHashIsOwn, None
  <2>4. CASE UNCHANGED vars
    BY <2>4 DEF vars, CacheInv, RecordedHashIsOwn
  <2> QED BY <2>1, <2>2, <2>3, <2>4 DEF Next
<1> QED BY <1>1, <1>2, PTL DEF Spec

(* The cache never puts a hash of other material on record, whatever the   *)
(* order in which the tasks of a process reach its lock and however often  *)
(* the connector is restarted with an edited route.                        *)
THEOREM RecordedHashIsOwnHolds == Spec => []RecordedHashIsOwn
<1>1. CacheInv => RecordedHashIsOwn
  BY DEF CacheInv
<1> QED BY <1>1, CacheInvariant, PTL

-----------------------------------------------------------------------------
(* A set of naturals that holds 0 and every successor of its elements      *)
(* holds them all: the induction the lemmas below use.                     *)
LEMMA SetInduction ==
    ASSUME NEW S \in SUBSET Nat, 0 \in S, \A n \in S : n + 1 \in S
    PROVE  S = Nat
<1> SUFFICES ASSUME Nat \ S # {} PROVE FALSE
  BY Zenon
<1> DEFINE R == {ss \in Nat \X Nat : ss[1] < ss[2]}
<1>1. IsWellFoundedOn(R, Nat)
  BY NatLessThanWellFounded DEF OpToRel
<1>2. \A x, y \in Nat : y < x => <<y, x>> \in R
  OBVIOUS
<1> HIDE DEF R
<1>3. PICK x \in Nat \ S : \A y \in Nat \ S : <<y, x>> \notin R
  BY <1>1, WFMin, Zenon
<1>4. x # 0
  OBVIOUS
<1>5. x - 1 \in Nat /\ x - 1 < x
  BY <1>4
<1>6. x - 1 \in S
  BY <1>2, <1>3, <1>5, Zenon
<1>7. (x - 1) + 1 = x
  OBVIOUS
<1>8. QED
  BY <1>6, <1>7

(* A sequence is a function on the numbers up to its length.               *)
LEMMA SequenceShape ==
    ASSUME NEW S, NEW s \in Seq(S)
    PROVE  Len(s) \in Nat /\ s \in [1..Len(s) -> S] /\ DOMAIN s = 1..Len(s)
  OBVIOUS

(* Two sequences, one after the other.                                     *)
LEMMA Concatenation ==
    ASSUME NEW S, NEW s \in Seq(S), NEW t \in Seq(S)
    PROVE  /\ s \o t \in Seq(S) /\ Len(s \o t) = Len(s) + Len(t)
           /\ \A i \in 1..Len(s) + Len(t) :
                 (s \o t)[i] = IF i <= Len(s) THEN s[i] ELSE t[i - Len(s)]
  OBVIOUS

(* Sequences with the same elements are the same.                          *)
LEMMA SameSequence ==
    ASSUME NEW S, NEW s \in Seq(S), NEW t \in Seq(S),
           Len(s) = Len(t), \A i \in 1..Len(s) : s[i] = t[i]
    PROVE  s = t
  OBVIOUS

(* What two sequences hold together.                                       *)
LEMMA RangeOfBoth ==
    ASSUME NEW S, NEW s \in Seq(S), NEW t \in Seq(S)
    PROVE  Range(s \o t) = Range(s) \cup Range(t)
<1>1. /\ s \o t \in Seq(S) /\ Len(s \o t) = Len(s) + Len(t) /\ Len(s) \in Nat /\ Len(t) \in Nat
      /\ DOMAIN (s \o t) = 1..Len(s) + Len(t) /\ DOMAIN s = 1..Len(s) /\ DOMAIN t = 1..Len(t)
      /\ \A i \in 1..Len(s) + Len(t) : (s \o t)[i] = IF i <= Len(s) THEN s[i] ELSE t[i - Len(s)]
  OBVIOUS
<1> DEFINE both == s \o t
<1> HIDE DEF both
<1>2. ASSUME NEW i \in DOMAIN s PROVE i \in DOMAIN both /\ both[i] = s[i]
  BY <1>1 DEF both
<1>3. ASSUME NEW i \in DOMAIN t PROVE i + Len(s) \in DOMAIN both /\ both[i + Len(s)] = t[i]
  BY <1>1 DEF both
<1>4. ASSUME NEW i \in DOMAIN both
      PROVE  \/ i \in DOMAIN s /\ both[i] = s[i]
             \/ i - Len(s) \in DOMAIN t /\ both[i] = t[i - Len(s)]
  BY <1>1 DEF both
<1>5. \A x : x \in Range(both) <=> x \in Range(s) \/ x \in Range(t)
  <2>1. ASSUME NEW x \in Range(both) PROVE x \in Range(s) \/ x \in Range(t)
    BY <1>4, <2>1, Zenon DEF Range
  <2>2. ASSUME NEW x \in Range(s) PROVE x \in Range(both)
    <3>1. PICK i \in DOMAIN s : x = s[i]
      BY <2>2, Zenon DEF Range
    <3> QED BY <1>2, <3>1, Zenon DEF Range
  <2>3. ASSUME NEW x \in Range(t) PROVE x \in Range(both)
    <3>1. PICK i \in DOMAIN t : x = t[i]
      BY <2>3, Zenon DEF Range
    <3> QED BY <1>3, <3>1, Zenon DEF Range
  <2> QED BY <2>1, <2>2, <2>3, Zenon
<1> QED BY <1>5, Zenon DEF both

\* Sequences are glued together from the left: prefixes[i] is what the first i
\* of them make.
Glued(seqs, prefixes) ==
    /\ prefixes \in [0..Len(seqs) -> Seq(Characters)]
    /\ prefixes[0] = <<>>
    /\ \A i \in 1..Len(seqs) : prefixes[i] = prefixes[i - 1] \o seqs[i]

(* A sequence of sequences can be glued one after the other.               *)
LEMMA PrefixesExist ==
    ASSUME NEW seqs \in Seq(Seq(Characters))
    PROVE  \E prefixes : Glued(seqs, prefixes)
<1> DEFINE upTo(n, f) == /\ f \in [0..n -> Seq(Characters)]
                         /\ f[0] = <<>>
                         /\ \A i \in 1..n : f[i] = f[i - 1] \o seqs[i]
           S == {n \in Nat : n <= Len(seqs) => \E f : upTo(n, f)}
<1> HIDE DEF upTo
<1>1. 0 \in S
  <2> DEFINE f == [i \in 0..0 |-> <<>>]
  <2>1. upTo(0, f)
    BY DEF upTo
  <2> QED BY <2>1
<1>2. ASSUME NEW n \in S PROVE n + 1 \in S
  <2>0. n \in Nat /\ n + 1 \in Nat /\ Len(seqs) \in Nat
    OBVIOUS
  <2> SUFFICES ASSUME n + 1 <= Len(seqs) PROVE \E g : upTo(n + 1, g)
    BY <2>0
  <2>1. PICK f : upTo(n, f)
    BY <2>0
  <2>2. /\ f \in [0..n -> Seq(Characters)] /\ f[0] = <<>>
        /\ \A i \in 1..n : f[i] = f[i - 1] \o seqs[i]
    BY <2>1, Zenon DEF upTo
  <2>3. f[n] \o seqs[n + 1] \in Seq(Characters)
    BY <2>0, <2>2
  <2> DEFINE last == f[n] \o seqs[n + 1]
             g == [i \in 0..(n + 1) |-> IF i = n + 1 THEN last ELSE f[i]]
  <2> HIDE DEF last
  <2>4. g \in [0..(n + 1) -> Seq(Characters)]
    <3>1. ASSUME NEW i \in 0..(n + 1), i # n + 1 PROVE f[i] \in Seq(Characters)
      BY <2>0, <2>2, <3>1
    <3> QED BY <2>3, <3>1 DEF last
  <2>5. g[0] = <<>>
    BY <2>0, <2>2
  <2>6. ASSUME NEW i \in 1..(n + 1) PROVE g[i] = g[i - 1] \o seqs[i]
    <3>1. CASE i = n + 1
      <4>1. g[i] = last /\ g[i - 1] = f[n] /\ seqs[i] = seqs[n + 1]
        BY <2>0, <3>1
      <4> QED BY <4>1, Zenon DEF last
    <3>2. CASE i # n + 1
      <4>1. i \in 1..n /\ i - 1 \in 0..(n + 1) /\ i - 1 # n + 1 /\ i \in 0..(n + 1)
        BY <2>0, <3>2
      <4>2. g[i] = f[i] /\ g[i - 1] = f[i - 1]
        BY <3>2, <4>1
      <4> QED BY <2>2, <4>1, <4>2, Zenon
    <3> QED BY <3>1, <3>2, Zenon
  <2> HIDE DEF g
  <2> QED BY <2>4, <2>5, <2>6, Zenon DEF upTo
<1>3. S = Nat
  <2> HIDE DEF S
  <2>1. S \in SUBSET Nat
    BY DEF S
  <2> QED BY <1>1, <1>2, <2>1, SetInduction, Zenon
<1>4. \E f : upTo(Len(seqs), f)
  <2>1. Len(seqs) \in Nat /\ Len(seqs) <= Len(seqs)
    OBVIOUS
  <2> QED BY <1>3, <2>1
<1> QED BY <1>4, Zenon DEF upTo, Glued

\* b starts with a.
Begins(a, b) == Len(a) <= Len(b) /\ \A j \in 1..Len(a) : b[j] = a[j]

(* Appending keeps what a sequence begins with.                            *)
LEMMA BeginsConcat ==
    ASSUME NEW a \in Seq(Characters), NEW b \in Seq(Characters), NEW c \in Seq(Characters), Begins(a, b)
    PROVE  Begins(a, b \o c)
<1>1. Len(b \o c) = Len(b) + Len(c)
  OBVIOUS
<1>2. \A j \in 1..Len(b) : (b \o c)[j] = b[j]
  OBVIOUS
<1> QED BY <1>1, <1>2 DEF Begins

(* A longer prefix starts with a shorter one.                              *)
LEMMA PrefixesBegin ==
    ASSUME NEW seqs \in Seq(Seq(Characters)), NEW f, Glued(seqs, f),
           NEW n \in 0..Len(seqs), NEW i \in 0..n
    PROVE  Begins(f[i], f[n])
<1>1. /\ f \in [0..Len(seqs) -> Seq(Characters)]
      /\ \A k \in 1..Len(seqs) : f[k] = f[k - 1] \o seqs[k]
  BY Zenon DEF Glued
<1> DEFINE S == {k \in Nat : i + k <= Len(seqs) => Begins(f[i], f[i + k])}
<1>2. 0 \in S
  <2>0. i \in 0..Len(seqs)
    OBVIOUS
  <2>1. i + 0 = i /\ f[i] \in Seq(Characters)
    BY <1>1, <2>0
  <2>2. Begins(f[i], f[i])
    BY <2>1 DEF Begins
  <2> QED BY <2>1, <2>2
<1>3. ASSUME NEW k \in S PROVE k + 1 \in S
  <2> SUFFICES ASSUME i + (k + 1) <= Len(seqs) PROVE Begins(f[i], f[i + (k + 1)])
    OBVIOUS
  <2>1. /\ i + k <= Len(seqs) /\ i + k \in 0..Len(seqs) /\ i \in 0..Len(seqs)
        /\ i + (k + 1) \in 1..Len(seqs) /\ (i + (k + 1)) - 1 = i + k
    OBVIOUS
  <2>2. Begins(f[i], f[i + k])
    BY <2>1
  <2>3. f[i + (k + 1)] = f[i + k] \o seqs[i + (k + 1)]
    BY <1>1, <2>1, Zenon
  <2>4. f[i] \in Seq(Characters) /\ f[i + k] \in Seq(Characters)
    BY <1>1, <2>1, Zenon
  <2>5. seqs[i + (k + 1)] \in Seq(Characters)
    BY <2>1
  <2> QED BY <2>2, <2>3, <2>4, <2>5, BeginsConcat
<1>4. S = Nat
  <2> HIDE DEF S
  <2>1. S \in SUBSET Nat
    BY DEF S
  <2> QED BY <1>2, <1>3, <2>1, SetInduction
<1>5. n - i \in Nat /\ i + (n - i) = n /\ n <= Len(seqs)
  OBVIOUS
<1>6. n - i \in S
  <2> HIDE DEF S
  <2> QED BY <1>4, <1>5
<1> QED BY <1>5, <1>6

-----------------------------------------------------------------------------
CharacterSeqs == {c \in Seq(Characters) : Len(c) \in Numbers}
FieldSet == FieldNames \X CharacterSeqs

(* What push_hash_field writes: the name, the length of the value and its  *)
(* characters are found at fixed places after the beginning of the field.  *)
LEMMA FieldLayout ==
    ASSUME NEW f \in FieldSet
    PROVE  /\ PushCharacters(f[1], f[2]) \in Seq(Characters)
           /\ Len(PushCharacters(f[1], f[2])) = Len(f[2]) + 5
           /\ PushCharacters(f[1], f[2])[1] = f[1]
           /\ PushCharacters(f[1], f[2])[3] = ToString(Len(f[2]))
           /\ \A j \in 1..Len(f[2]) :
                 PushCharacters(f[1], f[2])[j + 4] = f[2][j]
<1> DEFINE value == f[2]
           len == ToString(Len(value))
           colon == ":"
           newline == "\n"
           head == <<f[1], colon, len, colon>>
           both == head \o value
           all == both \o <<newline>>
<1>1. /\ f[1] \in Characters /\ value \in Seq(Characters) /\ len \in Characters
      /\ colon \in Characters /\ newline \in Characters
  BY TextsAssumption, Zenon DEF FieldSet, CharacterSeqs
<1> HIDE DEF value, len, colon, newline
<1>2. /\ head \in Seq(Characters) /\ Len(head) = 4 /\ head[1] = f[1] /\ head[3] = len
  BY <1>1
<1> HIDE DEF head
<1>3. /\ both \in Seq(Characters) /\ Len(both) = Len(value) + 4
      /\ both[1] = f[1] /\ both[3] = len
      /\ \A j \in 1..Len(value) : both[j + 4] = value[j]
  <2>1. /\ both \in Seq(Characters) /\ Len(both) = Len(head) + Len(value)
        /\ \A i \in 1..Len(head) + Len(value) :
              both[i] = IF i <= Len(head) THEN head[i] ELSE value[i - Len(head)]
    BY <1>1, <1>2, Concatenation, Zenon
  <2>2. Len(value) \in Nat
    BY <1>1
  <2> HIDE DEF both
  <2> QED BY <1>2, <2>1, <2>2
<1> HIDE DEF both
<1>4. /\ all \in Seq(Characters) /\ Len(all) = Len(value) + 5
      /\ all[1] = f[1] /\ all[3] = len
      /\ \A j \in 1..Len(value) : all[j + 4] = value[j]
  <2>1. Len(value) \in Nat /\ <<newline>> \in Seq(Characters) /\ Len(<<newline>>) = 1
    BY <1>1
  <2>2. /\ all \in Seq(Characters) /\ Len(all) = Len(both) + 1
        /\ \A j \in 1..Len(both) : all[j] = both[j]
    BY <1>3, <2>1, Concatenation
  <2> HIDE DEF all
  <2> QED BY <1>3, <2>1, <2>2
<1>5. PushCharacters(f[1], f[2]) = all
  BY DEF PushCharacters, all, both, head, len, value, colon, newline
<1> HIDE DEF all
<1> QED BY <1>4, <1>5 DEF len, value

(* Two fields that start at the same place of the same material are equal: *)
(* the length says where the value ends.                                   *)
LEMMA FieldIsRead ==
    ASSUME NEW f \in FieldSet, NEW g \in FieldSet, NEW before \in Seq(Characters), NEW m,
           Begins(before \o PushCharacters(f[1], f[2]), m),
           Begins(before \o PushCharacters(g[1], g[2]), m)
    PROVE  f = g
<1> DEFINE wf == PushCharacters(f[1], f[2])
           wg == PushCharacters(g[1], g[2])
           L == Len(before)
<1>1. /\ wf \in Seq(Characters) /\ Len(wf) = Len(f[2]) + 5
      /\ wf[1] = f[1] /\ wf[3] = ToString(Len(f[2]))
      /\ \A j \in 1..Len(f[2]) : wf[j + 4] = f[2][j]
  BY FieldLayout
<1>2. /\ wg \in Seq(Characters) /\ Len(wg) = Len(g[2]) + 5
      /\ wg[1] = g[1] /\ wg[3] = ToString(Len(g[2]))
      /\ \A j \in 1..Len(g[2]) : wg[j + 4] = g[2][j]
  BY FieldLayout
<1>3. /\ f[1] \in FieldNames /\ f[2] \in Seq(Characters) /\ Len(f[2]) \in Numbers
      /\ g[1] \in FieldNames /\ g[2] \in Seq(Characters) /\ Len(g[2]) \in Numbers
  BY DEF FieldSet, CharacterSeqs
<1> HIDE DEF wf, wg
<1>4. L \in Nat /\ Len(f[2]) \in Nat /\ Len(g[2]) \in Nat
  BY <1>3
<1>5. \A j \in 1..Len(wf) : m[L + j] = wf[j]
  <2> TAKE j \in 1..Len(wf)
  <2>1. L + j \in 1..Len(before \o wf) /\ (before \o wf)[L + j] = wf[j]
    BY <1>1, <1>4
  <2>2. Begins(before \o wf, m)
    BY DEF wf
  <2> QED BY <2>1, <2>2 DEF Begins
<1>6. \A j \in 1..Len(wg) : m[L + j] = wg[j]
  <2> TAKE j \in 1..Len(wg)
  <2>1. L + j \in 1..Len(before \o wg) /\ (before \o wg)[L + j] = wg[j]
    BY <1>2, <1>4
  <2>2. Begins(before \o wg, m)
    BY DEF wg
  <2> QED BY <2>1, <2>2 DEF Begins
<1>7. f[1] = g[1]
  <2>1. 1 \in 1..Len(wf) /\ 1 \in 1..Len(wg)
    BY <1>1, <1>2, <1>4
  <2>2. m[L + 1] = wf[1] /\ m[L + 1] = wg[1]
    BY <1>5, <1>6, <2>1
  <2> QED BY <1>1, <1>2, <2>2
<1>8. Len(f[2]) = Len(g[2])
  <2>1. 3 \in 1..Len(wf) /\ 3 \in 1..Len(wg)
    BY <1>1, <1>2, <1>4
  <2>2. m[L + 3] = wf[3] /\ m[L + 3] = wg[3]
    BY <1>5, <1>6, <2>1
  <2>3. ToString(Len(f[2])) = ToString(Len(g[2]))
    BY <1>1, <1>2, <2>2
  <2> QED BY <1>3, <2>3, TextsAssumption, Zenon
<1>9. f[2] = g[2]
  <2>1. ASSUME NEW j \in 1..Len(f[2]) PROVE f[2][j] = g[2][j]
    <3>1. j + 4 \in 1..Len(wf) /\ j + 4 \in 1..Len(wg) /\ j \in 1..Len(g[2])
      BY <1>1, <1>2, <1>4, <1>8
    <3>2. m[L + (j + 4)] = wf[j + 4] /\ m[L + (j + 4)] = wg[j + 4]
      BY <1>5, <1>6, <3>1
    <3> QED BY <1>1, <1>2, <3>1, <3>2, Zenon
  <2> DEFINE a == f[2]
             b == g[2]
  <2>2. a \in Seq(Characters) /\ b \in Seq(Characters) /\ Len(a) = Len(b)
        /\ \A j \in 1..Len(a) : a[j] = b[j]
    BY <1>3, <1>8, <2>1
  <2> HIDE DEF a, b
  <2>3. a = b
    BY <2>2
  <2> QED BY <2>3 DEF a, b
<1> QED BY <1>7, <1>9 DEF FieldSet

(* How a list of fields is written: field after field.                     *)
LEMMA FieldsAreWritten ==
    ASSUME NEW fs \in Seq(FieldSet), fs # <<>>
    PROVE  \E ws, f :
              /\ ws \in Seq(Seq(Characters)) /\ Len(ws) = Len(fs)
              /\ \A i \in 1..Len(fs) : ws[i] = PushCharacters(fs[i][1], fs[i][2])
              /\ Glued(ws, f) /\ Written(fs) = f[Len(fs)]
<1> DEFINE w(i) == PushCharacters(fs[i][1], fs[i][2])
           ws == [i \in DOMAIN fs |-> w(i)]
           P(g) == g = [i \in 0..Len(fs) |-> IF i = 0 THEN <<>> ELSE g[i - 1] \o w(i)]
<1>1. \A i \in DOMAIN fs : w(i) \in Seq(Characters)
  BY FieldLayout
<1>2. Written(fs) = (CHOOSE g : P(g))[Len(fs)]
  BY DEF Written
<1>3. Len(fs) \in Nat \ {0} /\ DOMAIN fs = 1..Len(fs)
  OBVIOUS
<1>w. \A i \in 1..Len(fs) : w(i) = PushCharacters(fs[i][1], fs[i][2])
  OBVIOUS
<1> HIDE DEF w
<1>4. /\ ws \in Seq(Seq(Characters)) /\ Len(ws) = Len(fs)
      /\ \A i \in 1..Len(fs) : ws[i] = w(i)
  BY <1>1, <1>3
<1> HIDE DEF ws
<1>5. PICK f : Glued(ws, f)
  BY <1>4, PrefixesExist, Zenon
<1>6. /\ f \in [0..Len(fs) -> Seq(Characters)] /\ f[0] = <<>>
      /\ \A i \in 1..Len(fs) : f[i] = f[i - 1] \o w(i)
  BY <1>4, <1>5 DEF Glued
<1>7. P(f)
  <2>1. ASSUME NEW i \in 0..Len(fs) PROVE f[i] = IF i = 0 THEN <<>> ELSE f[i - 1] \o w(i)
    <3>1. i # 0 => i \in 1..Len(fs)
      BY <1>3
    <3> QED BY <1>6, <3>1, Zenon
  <2> QED BY <1>6, <2>1, Zenon
<1>8. PICK c : P(c) /\ Written(fs) = c[Len(fs)]
  <2>1. P(CHOOSE g : P(g))
    <3> HIDE DEF P
    <3> QED BY <1>7, Zenon
  <2> HIDE DEF P
  <2> QED BY <1>2, <2>1, Zenon
<1>9. \A i \in 0..Len(fs) : c[i] = IF i = 0 THEN <<>> ELSE c[i - 1] \o w(i)
  BY <1>8, Zenon
<1> HIDE DEF P
<1> DEFINE S == {n \in Nat : n <= Len(fs) => c[n] = f[n]}
<1>10. 0 \in S
  <2>1. 0 \in 0..Len(fs)
    BY <1>3
  <2> QED BY <1>6, <1>9, <2>1
<1>11. ASSUME NEW n \in S PROVE n + 1 \in S
  <2> SUFFICES ASSUME n + 1 <= Len(fs) PROVE c[n + 1] = f[n + 1]
    OBVIOUS
  <2>1. /\ n + 1 \in 1..Len(fs) /\ n + 1 \in 0..Len(fs) /\ n + 1 # 0
        /\ (n + 1) - 1 = n /\ n <= Len(fs)
    BY <1>3
  <2>2. c[n + 1] = c[n] \o w(n + 1) /\ f[n + 1] = f[n] \o w(n + 1)
    BY <1>6, <1>9, <2>1, Zenon
  <2>3. c[n] = f[n]
    BY <2>1
  <2> QED BY <2>2, <2>3
<1>12. S = Nat
  <2> HIDE DEF S
  <2>1. S \in SUBSET Nat
    BY DEF S
  <2> QED BY <1>10, <1>11, <2>1, SetInduction, Zenon
<1>13. c[Len(fs)] = f[Len(fs)]
  BY <1>3, <1>12
<1> HIDE DEF S
<1> QED BY <1>w, <1>4, <1>5, <1>8, <1>13, Zenon

(* Material can be read back: lists of fields that are written alike are   *)
(* the same list.                                                          *)
LEMMA FieldsAreRead ==
    ASSUME NEW fs \in Seq(FieldSet), NEW gs \in Seq(FieldSet),
           fs # <<>>, gs # <<>>, Len(fs) <= Len(gs), Written(fs) = Written(gs)
    PROVE  fs = gs
<1> DEFINE m == Written(fs)
<1>1. PICK ws, f :
        /\ ws \in Seq(Seq(Characters)) /\ Len(ws) = Len(fs)
        /\ \A i \in 1..Len(fs) : ws[i] = PushCharacters(fs[i][1], fs[i][2])
        /\ Glued(ws, f) /\ m = f[Len(fs)]
  BY FieldsAreWritten
<1>2. PICK vs, g :
        /\ vs \in Seq(Seq(Characters)) /\ Len(vs) = Len(gs)
        /\ \A i \in 1..Len(gs) : vs[i] = PushCharacters(gs[i][1], gs[i][2])
        /\ Glued(vs, g) /\ m = g[Len(gs)]
  BY FieldsAreWritten, Zenon
<1> HIDE DEF m
<1>5. /\ f \in [0..Len(fs) -> Seq(Characters)] /\ f[0] = <<>>
      /\ \A i \in 1..Len(fs) : f[i] = f[i - 1] \o ws[i]
  BY <1>1, Zenon DEF Glued
<1>6. /\ g \in [0..Len(gs) -> Seq(Characters)] /\ g[0] = <<>>
      /\ \A i \in 1..Len(gs) : g[i] = g[i - 1] \o vs[i]
  BY <1>2, Zenon DEF Glued
<1>7. Len(fs) \in Nat /\ Len(gs) \in Nat
  OBVIOUS
<1>8. ASSUME NEW k \in 1..Len(fs), f[k - 1] = g[k - 1]
      PROVE  fs[k] = gs[k] /\ f[k] = g[k]
  <2>1. k \in 0..Len(fs) /\ k \in 0..Len(gs) /\ k \in 1..Len(gs) /\ k - 1 \in 0..Len(fs)
    BY <1>7
  <2>2. Begins(f[k], m) /\ Begins(g[k], m)
    <3>1. Len(ws) \in 0..Len(ws) /\ k \in 0..Len(ws) /\ Len(vs) \in 0..Len(vs) /\ k \in 0..Len(vs)
      BY <1>1, <1>2, <1>7, <2>1
    <3>2. Begins(f[k], f[Len(ws)])
      BY <1>1, <3>1, PrefixesBegin, Zenon
    <3>3. Begins(g[k], g[Len(vs)])
      BY <1>2, <3>1, PrefixesBegin
    <3> QED BY <1>1, <1>2, <3>2, <3>3
  <2>3. /\ f[k] = f[k - 1] \o PushCharacters(fs[k][1], fs[k][2])
        /\ g[k] = f[k - 1] \o PushCharacters(gs[k][1], gs[k][2])
    BY <1>1, <1>2, <1>5, <1>6, <1>8, <2>1, Zenon
  <2>4. fs[k] \in FieldSet /\ gs[k] \in FieldSet
    BY <2>1
  <2>f. f[k - 1] \in Seq(Characters)
    BY <1>5, <2>1
  <2>5. fs[k] = gs[k]
    BY <2>2, <2>3, <2>4, <2>f, FieldIsRead, Zenon
  <2> QED BY <2>3, <2>5
<1> DEFINE S == {n \in Nat : n <= Len(fs) => f[n] = g[n]}
<1>9. 0 \in S
  BY <1>5, <1>6
<1>10. ASSUME NEW n \in S PROVE n + 1 \in S
  <2> SUFFICES ASSUME n + 1 <= Len(fs) PROVE f[n + 1] = g[n + 1]
    OBVIOUS
  <2>1. n + 1 \in 1..Len(fs) /\ (n + 1) - 1 = n /\ n <= Len(fs)
    BY <1>7
  <2> QED BY <1>8, <2>1
<1>11. \A n \in 0..Len(fs) : f[n] = g[n]
  <2>1. S = Nat
    <3> HIDE DEF S
    <3>1. S \in SUBSET Nat
      BY DEF S
    <3> QED BY <1>9, <1>10, <3>1, SetInduction
  <2>2. ASSUME NEW n \in 0..Len(fs) PROVE n \in S
    <3> HIDE DEF S
    <3> QED BY <1>7, <2>1
  <2> QED BY <1>7, <2>2
<1>12. \A k \in 1..Len(fs) : fs[k] = gs[k]
  <2> TAKE k \in 1..Len(fs)
  <2>1. k - 1 \in 0..Len(fs)
    BY <1>7
  <2> QED BY <1>8, <1>11, <2>1
<1>13. Len(fs) = Len(gs)
  <2> SUFFICES ASSUME Len(fs) < Len(gs) PROVE FALSE
    BY <1>7
  <2> DEFINE k == Len(fs) + 1
  <2>1. k \in 1..Len(gs) /\ k \in 0..Len(gs) /\ k - 1 = Len(fs) /\ Len(fs) \in 0..Len(fs)
    BY <1>7
  <2>2. Begins(g[k], m)
    <3>1. Len(vs) \in 0..Len(vs) /\ k \in 0..Len(vs)
      BY <1>2, <1>7, <2>1
    <3>2. Begins(g[k], g[Len(vs)])
      BY <1>2, <3>1, PrefixesBegin
    <3> QED BY <1>2, <3>2
  <2>3. g[k] = g[k - 1] \o vs[k] /\ g[k - 1] = m
    BY <1>1, <1>6, <1>11, <2>1, Zenon
  <2> HIDE DEF k
  <2>4. gs[k] \in FieldSet /\ vs[k] = PushCharacters(gs[k][1], gs[k][2])
    BY <1>2, <2>1
  <2>n. Len(gs[k][2]) \in Nat
    <3>1. gs[k][2] \in Seq(Characters)
      BY <2>4 DEF FieldSet, CharacterSeqs
    <3> QED BY <3>1, SequenceShape
  <2>5. vs[k] \in Seq(Characters) /\ Len(vs[k]) = Len(gs[k][2]) + 5
    BY <2>4, FieldLayout
  <2>6. m \in Seq(Characters)
    <3>1. Len(fs) \in 0..Len(fs)
      BY <1>7
    <3> QED BY <1>1, <1>5, <3>1
  <2>7. Len(g[k]) = Len(m) + Len(vs[k]) /\ Len(m) \in Nat
    <3>1. g[k] = m \o vs[k] /\ vs[k] \in Seq(Characters)
      BY <2>3, <2>5
    <3> QED BY <2>6, <3>1, Concatenation, SequenceShape
  <2> QED BY <2>2, <2>n, <2>5, <2>7 DEF Begins
<1> QED BY <1>12, <1>13, SameSequence

-----------------------------------------------------------------------------
\* A list of fields with the given fields, whatever their order.
Lists(fs, P) == fs \in Seq(FieldSet) /\ Range(fs) = P

Spelled(S) == {Spell(v) : v \in S}

(* Fields pushed later are added to the list.                              *)
LEMMA ListsConcat ==
    ASSUME NEW a, NEW b, NEW A, NEW B, Lists(a, A), Lists(b, B)
    PROVE  Lists(a \o b, A \cup B)
BY Concatenation, RangeOfBoth DEF Lists

(* Five pieces at a time.                                                  *)
LEMMA ListsFive ==
    ASSUME NEW a, NEW b, NEW c, NEW d, NEW e, NEW A, NEW B, NEW C, NEW D, NEW E,
           Lists(a, A), Lists(b, B), Lists(c, C), Lists(d, D), Lists(e, E)
    PROVE  Lists(a \o b \o c \o d \o e, A \cup B \cup C \cup D \cup E)
<1>1. Lists(a \o b, A \cup B)
  BY ListsConcat
<1>2. Lists(a \o b \o c, A \cup B \cup C)
  BY <1>1, ListsConcat
<1>3. Lists(a \o b \o c \o d, A \cup B \cup C \cup D)
  BY <1>2, ListsConcat
<1> QED BY <1>3, ListsConcat

(* The characters of a text make a field value.                            *)
LEMMA SpellType ==
    ASSUME NEW v \in Texts
    PROVE  Spell(v) \in CharacterSeqs
BY TextsAssumption, Zenon DEF CharacterSeqs

(* The pieces RouteFields and GovernedFields are made of: a single field.  *)
LEMMA FieldLists ==
    ASSUME NEW name \in FieldNames, NEW c \in CharacterSeqs
    PROVE  Lists(Field(name, c), {<<name, c>>})
<1> DEFINE f == <<name, c>>
<1>1. f \in FieldSet
  BY DEF FieldSet
<1>2. Field(name, c) = <<f>>
  BY DEF Field
<1> HIDE DEF f
<1>3. <<f>> \in Seq(FieldSet) /\ DOMAIN <<f>> = {1} /\ <<f>>[1] = f
  BY <1>1
<1>4. Range(<<f>>) = {f}
  BY <1>3 DEF Range
<1> QED BY <1>2, <1>3, <1>4 DEF Lists, f

(* push_hash_field (proxy.rs) of a text lists one field.                   *)
LEMMA HashFieldLists ==
    ASSUME NEW name \in FieldNames, NEW v \in Texts
    PROVE  Lists(HashField(name, v), {<<name, Spell(v)>>})
BY SpellType, FieldLists DEF HashField

(* The order of Sorted leaves no value of a set out.                     *)
LEMMA SortedRange ==
    ASSUME NEW S, IsFiniteSet(S)
    PROVE  /\ Sorted(S) \in [1..Cardinality(S) -> S] /\ Cardinality(S) \in Nat
           /\ \A v \in S : \E i \in 1..Cardinality(S) : Sorted(S)[i] = v
<1> DEFINE D == 1..Cardinality(S)
           f == Sorted(S)
<1>1. Cardinality(S) \in Nat /\ ExistsBijection(D, S)
  BY FS_CardinalityType
<1>2. f \in [D -> S] /\ IsInjective(f)
  <2>1. PICK b \in [D -> S] : \A x, y \in D : b[x] = b[y] => x = y
    BY <1>1 DEF ExistsBijection, Bijection, Injection, IsInjective
  <2>2. IsInjective(b)
    BY <2>1 DEF IsInjective
  <2> QED BY <2>1, <2>2 DEF Sorted
<1>3. f \in Injection(D, S)
  BY <1>2 DEF Injection, IsInjective
<1>4. Cardinality(D) = Cardinality(S)
  BY <1>1, FS_Interval
<1>5. f \in Surjection(D, S)
  BY <1>3, <1>4, FS_Injection
<1> QED BY <1>1, <1>2, <1>5 DEF Surjection

(* A set of texts makes one field for each of them.                        *)
LEMMA HashFieldsList ==
    ASSUME NEW name \in FieldNames, NEW S \in SUBSET Texts
    PROVE  Lists(HashFields(name, S), {name} \X Spelled(S))
<1> DEFINE sorted == Sorted(S)
           f(i) == <<name, Spell(sorted[i])>>
           fs == [i \in DOMAIN sorted |-> f(i)]
<1>1. IsFiniteSet(S)
  BY TextsAssumption, FS_Subset, Zenon
<1>2. /\ sorted \in [1..Cardinality(S) -> S] /\ Cardinality(S) \in Nat
      /\ \A v \in S : \E i \in 1..Cardinality(S) : sorted[i] = v
  BY <1>1, SortedRange
<1>3. HashFields(name, S) = fs
  BY DEF HashFields
<1> HIDE DEF sorted
<1>4. ASSUME NEW i \in 1..Cardinality(S) PROVE f(i) \in FieldSet
  BY <1>2, SpellType DEF FieldSet
<1>5. /\ \A i \in 1..Cardinality(S) : f(i) \in {name} \X Spelled(S)
      /\ \A x \in {name} \X Spelled(S) : \E i \in 1..Cardinality(S) : f(i) = x
  BY <1>2 DEF Spelled
<1> HIDE DEF f
<1>6. /\ fs \in Seq(FieldSet) /\ DOMAIN fs = 1..Cardinality(S)
      /\ \A i \in 1..Cardinality(S) : fs[i] = f(i)
  BY <1>2, <1>4
<1> HIDE DEF fs
<1>7. Range(fs) = {name} \X Spelled(S)
  BY <1>5, <1>6 DEF Range
<1> QED BY <1>3, <1>6, <1>7 DEF Lists

-----------------------------------------------------------------------------
\* The fields of a route, and those of a policy, as sets.
Identities(r) == {Trim(i) : i \in r.client_identities} \ {""}
PrefixOrEmpty(option) == IF option = None THEN <<>> ELSE The(option)

RouteList(r) ==
    {<<"schema", Spell("route-purpose-policy-v3")>>}
        \cup {<<"route_id", Spell(r.id)>>}
        \cup {<<"client_identity", Spell(Trim(OrEmpty(r.client_identity)))>>}
        \cup ({"client_identity"} \X Spelled(Identities(r)))
        \cup {<<"local_prefix", PrefixOrEmpty(r.local_prefix)>>}
        \cup {<<"upstream_prefix", PrefixOrEmpty(r.upstream_prefix)>>}
        \cup {<<"require_purpose", Spell(TrueOrFalse(r.require_purpose))>>}
        \cup ({"method"} \X Spelled(r.methods))
        \cup ({"purpose"} \X Spelled(r.purposes))

PolicyList(p) ==
    {<<"governed_policy", Spell("true")>>}
        \cup {<<"governed_minimum_assurance", Spell(OrEmpty(p.minimum_assurance))>>}
        \cup {<<"governed_max_source_age_seconds", Spell(NumberOrEmpty(p.max_source_age))>>}
        \cup {<<"governed_require_legal_basis", Spell(TrueOrFalse(p.require_legal_basis))>>}
        \cup {<<"governed_require_consent", Spell(TrueOrFalse(p.require_consent))>>}
        \cup ({"governed_permitted_purpose"} \X Spelled(p.permitted_purposes))
        \cup ({"governed_permitted_jurisdiction"} \X Spelled(p.permitted_jurisdictions))
        \cup ({"governed_allowed_assurance"} \X Spelled(p.allowed_assurance))
        \cup ({"governed_redaction_field"} \X Spelled(p.redaction_fields))
        \cup ({"governed_unsupported_odrl_term"} \X Spelled(p.unsupported_odrl_terms))
        \cup {<<"trusted_jurisdiction", Spell(OrEmpty(p.trusted_context.jurisdiction))>>}
        \cup {<<"trusted_asserted_assurance", Spell(OrEmpty(p.trusted_context.assurance))>>}
        \cup {<<"trusted_legal_basis_ref", Spell(OrEmpty(p.trusted_context.legal_basis))>>}
        \cup {<<"trusted_consent_ref", Spell(OrEmpty(p.trusted_context.consent))>>}
        \cup {<<"trusted_source_observed_age_seconds", Spell(NumberOrEmpty(p.trusted_context.age))>>}

(* What validation leaves of a route can be written.                       *)
LEMMA TextsOfRoute ==
    ASSUME NEW r, WellFormed(r)
    PROVE  /\ r.id \in Texts /\ Trim(OrEmpty(r.client_identity)) \in Texts
           /\ TrueOrFalse(r.require_purpose) \in Texts
           /\ Identities(r) \in SUBSET Texts /\ r.methods \in SUBSET Texts
           /\ r.purposes \in SUBSET Texts
           /\ PrefixOrEmpty(r.local_prefix) \in CharacterSeqs
           /\ PrefixOrEmpty(r.upstream_prefix) \in CharacterSeqs
<1>t. /\ "" \in Texts /\ "true" \in Texts /\ "false" \in Texts
      /\ \A v \in Texts : Trim(v) \in Texts
  BY TextsAssumption, Zenon
<1>1. OrEmpty(r.client_identity) \in Texts
  <2>1. CASE r.client_identity = None
    BY <1>t, <2>1, Zenon DEF OrEmpty
  <2>2. CASE r.client_identity # None
    <3>1. PICK v \in Texts : r.client_identity = {v}
      BY <2>2 DEF WellFormed, Options, Some
    <3> QED BY <2>2, <3>1 DEF OrEmpty, The
  <2> QED BY <2>1, <2>2
<1>2. <<>> \in CharacterSeqs
  <2>1. MaxNumber \in Nat
    BY TextsAssumption, Zenon
  <2>2. 0 \in Numbers
    BY <2>1 DEF Numbers
  <2>3. <<>> \in Seq(Characters) /\ Len(<<>>) = 0
    OBVIOUS
  <2> QED BY <2>2, <2>3 DEF CharacterSeqs
<1>3. ASSUME NEW o \in {r.local_prefix, r.upstream_prefix}
      PROVE  PrefixOrEmpty(o) \in CharacterSeqs
  <2>1. CASE o = None
    BY <1>2, <2>1 DEF PrefixOrEmpty
  <2>2. CASE o # None
    <3>1. The(o) \in o
      BY <2>2 DEF None, The
    <3>2. The(o) \in Seq(Characters) /\ Len(The(o)) \in Numbers
      BY <3>1 DEF WellFormed
    <3> QED BY <2>2, <3>2 DEF PrefixOrEmpty, CharacterSeqs
  <2> QED BY <2>1, <2>2
<1>4. Identities(r) \in SUBSET Texts
  <2>1. r.client_identities \in SUBSET Texts
    BY DEF WellFormed
  <2> QED BY <1>t, <2>1, Zenon DEF Identities
<1>5. r.id \in Texts /\ TrueOrFalse(r.require_purpose) \in Texts
  BY <1>t, Zenon DEF WellFormed, TrueOrFalse
<1>6. r.methods \in SUBSET Texts /\ r.purposes \in SUBSET Texts
  BY DEF WellFormed
<1> QED BY <1>t, <1>1, <1>3, <1>4, <1>5, <1>6, Zenon

(* The fields of a route.                                                  *)
LEMMA RouteFieldsList ==
    ASSUME NEW r, WellFormed(r)
    PROVE  Lists(RouteFields(r), RouteList(r))
<1> DEFINE p1 == HashField("schema", "route-purpose-policy-v3")
           p2 == HashField("route_id", r.id)
           p3 == HashField("client_identity", Trim(OrEmpty(r.client_identity)))
           p4 == HashFields("client_identity", Identities(r))
           p5 == Field("local_prefix", PrefixOrEmpty(r.local_prefix))
           p6 == Field("upstream_prefix", PrefixOrEmpty(r.upstream_prefix))
           p7 == HashField("require_purpose", TrueOrFalse(r.require_purpose))
           p8 == HashFields("method", r.methods)
           p9 == HashFields("purpose", r.purposes)
           P1 == {<<"schema", Spell("route-purpose-policy-v3")>>}
           P2 == {<<"route_id", Spell(r.id)>>}
           P3 == {<<"client_identity", Spell(Trim(OrEmpty(r.client_identity)))>>}
           P4 == ({"client_identity"} \X Spelled(Identities(r)))
           P5 == {<<"local_prefix", PrefixOrEmpty(r.local_prefix)>>}
           P6 == {<<"upstream_prefix", PrefixOrEmpty(r.upstream_prefix)>>}
           P7 == {<<"require_purpose", Spell(TrueOrFalse(r.require_purpose))>>}
           P8 == ({"method"} \X Spelled(r.methods))
           P9 == ({"purpose"} \X Spelled(r.purposes))
<1>1. "route-purpose-policy-v3" \in Texts
  BY TextsAssumption, Zenon
<1>p1. Lists(p1, P1)
  <2>1. "schema" \in FieldNames
    BY DEF FieldNames
  <2> QED BY <1>1, <2>1, HashFieldLists
<1>p2. Lists(p2, P2)
  <2>1. "route_id" \in FieldNames
    BY DEF FieldNames
  <2> QED BY TextsOfRoute, <2>1, HashFieldLists
<1>p3. Lists(p3, P3)
  <2>1. "client_identity" \in FieldNames
    BY DEF FieldNames
  <2> QED BY TextsOfRoute, <2>1, HashFieldLists
<1>p4. Lists(p4, P4)
  <2>1. "client_identity" \in FieldNames
    BY DEF FieldNames
  <2> QED BY TextsOfRoute, <2>1, HashFieldsList
<1>p5. Lists(p5, P5)
  <2>1. "local_prefix" \in FieldNames
    BY DEF FieldNames
  <2> QED BY TextsOfRoute, <2>1, FieldLists
<1>p6. Lists(p6, P6)
  <2>1. "upstream_prefix" \in FieldNames
    BY DEF FieldNames
  <2> QED BY TextsOfRoute, <2>1, FieldLists
<1>p7. Lists(p7, P7)
  <2>1. "require_purpose" \in FieldNames
    BY DEF FieldNames
  <2> QED BY TextsOfRoute, <2>1, HashFieldLists
<1>p8. Lists(p8, P8)
  <2>1. "method" \in FieldNames
    BY DEF FieldNames
  <2> QED BY TextsOfRoute, <2>1, HashFieldsList
<1>p9. Lists(p9, P9)
  <2>1. "purpose" \in FieldNames
    BY DEF FieldNames
  <2> QED BY TextsOfRoute, <2>1, HashFieldsList
<1> HIDE DEF p1, p2, p3, p4, p5, p6, p7, p8, p9,
            P1, P2, P3, P4, P5, P6, P7, P8, P9
<1>2. Lists(p1 \o p2 \o p3 \o p4 \o p5, P1 \cup P2 \cup P3 \cup P4 \cup P5)
  BY <1>p1, <1>p2, <1>p3, <1>p4, <1>p5, ListsFive
<1>3. Lists(p1 \o p2 \o p3 \o p4 \o p5 \o p6 \o p7 \o p8 \o p9,
            P1 \cup P2 \cup P3 \cup P4 \cup P5 \cup P6 \cup P7 \cup P8 \cup P9)
  BY <1>2, <1>p6, <1>p7, <1>p8, <1>p9, ListsFive
<1>4. RouteFields(r) = p1 \o p2 \o p3 \o p4 \o p5 \o p6 \o p7 \o p8 \o p9
  BY DEF RouteFields, Identities, PrefixOrEmpty, p1, p2, p3, p4, p5, p6, p7, p8, p9
<1>5. RouteList(r) = P1 \cup P2 \cup P3 \cup P4 \cup P5 \cup P6 \cup P7 \cup P8 \cup P9
  BY DEF RouteList, P1, P2, P3, P4, P5, P6, P7, P8, P9
<1> QED BY <1>3, <1>4, <1>5

(* The optional texts and numbers of a policy are written as texts.        *)
LEMMA TextOfOption ==
    ASSUME NEW option \in Options(Given)
    PROVE  OrEmpty(option) \in Texts
<1>1. CASE option = None
  BY <1>1, TextsAssumption, Zenon DEF OrEmpty
<1>2. CASE option # None
  <2>1. PICK v \in Texts : option = {v}
    BY <1>2, Zenon DEF Options, Some, Given
  <2> QED BY <1>2, <2>1 DEF OrEmpty, The
<1> QED BY <1>1, <1>2

(* A number of the policy is hashed as a text (proxy.rs:784).              *)
LEMMA TextOfNumber ==
    ASSUME NEW option \in Options(Numbers)
    PROVE  NumberOrEmpty(option) \in Texts
<1>1. CASE option = None
  BY <1>1, TextsAssumption, Zenon DEF NumberOrEmpty
<1>2. CASE option # None
  <2>1. PICK v \in Numbers : option = {v}
    BY <1>2 DEF Options, Some
  <2>2. ToString(v) \in Texts
    BY TextsAssumption, Zenon DEF Given
  <2> QED BY <1>2, <2>1, <2>2 DEF NumberOrEmpty, The
<1> QED BY <1>1, <1>2

(* The fields of a policy.                                                 *)
LEMMA PolicyFieldsList ==
    ASSUME NEW p \in Policies
    PROVE  Lists(GovernedFields(p), PolicyList(p))
<1> DEFINE p1 == HashField("governed_policy", "true")
           p2 == HashField("governed_minimum_assurance", OrEmpty(p.minimum_assurance))
           p3 == HashField("governed_max_source_age_seconds", NumberOrEmpty(p.max_source_age))
           p4 == HashField("governed_require_legal_basis", TrueOrFalse(p.require_legal_basis))
           p5 == HashField("governed_require_consent", TrueOrFalse(p.require_consent))
           p6 == HashFields("governed_permitted_purpose", p.permitted_purposes)
           p7 == HashFields("governed_permitted_jurisdiction", p.permitted_jurisdictions)
           p8 == HashFields("governed_allowed_assurance", p.allowed_assurance)
           p9 == HashFields("governed_redaction_field", p.redaction_fields)
           p10 == HashFields("governed_unsupported_odrl_term", p.unsupported_odrl_terms)
           p11 == HashField("trusted_jurisdiction", OrEmpty(p.trusted_context.jurisdiction))
           p12 == HashField("trusted_asserted_assurance", OrEmpty(p.trusted_context.assurance))
           p13 == HashField("trusted_legal_basis_ref", OrEmpty(p.trusted_context.legal_basis))
           p14 == HashField("trusted_consent_ref", OrEmpty(p.trusted_context.consent))
           p15 == HashField("trusted_source_observed_age_seconds", NumberOrEmpty(p.trusted_context.age))
           P1 == {<<"governed_policy", Spell("true")>>}
           P2 == {<<"governed_minimum_assurance", Spell(OrEmpty(p.minimum_assurance))>>}
           P3 == {<<"governed_max_source_age_seconds", Spell(NumberOrEmpty(p.max_source_age))>>}
           P4 == {<<"governed_require_legal_basis", Spell(TrueOrFalse(p.require_legal_basis))>>}
           P5 == {<<"governed_require_consent", Spell(TrueOrFalse(p.require_consent))>>}
           P6 == ({"governed_permitted_purpose"} \X Spelled(p.permitted_purposes))
           P7 == ({"governed_permitted_jurisdiction"} \X Spelled(p.permitted_jurisdictions))
           P8 == ({"governed_allowed_assurance"} \X Spelled(p.allowed_assurance))
           P9 == ({"governed_redaction_field"} \X Spelled(p.redaction_fields))
           P10 == ({"governed_unsupported_odrl_term"} \X Spelled(p.unsupported_odrl_terms))
           P11 == {<<"trusted_jurisdiction", Spell(OrEmpty(p.trusted_context.jurisdiction))>>}
           P12 == {<<"trusted_asserted_assurance", Spell(OrEmpty(p.trusted_context.assurance))>>}
           P13 == {<<"trusted_legal_basis_ref", Spell(OrEmpty(p.trusted_context.legal_basis))>>}
           P14 == {<<"trusted_consent_ref", Spell(OrEmpty(p.trusted_context.consent))>>}
           P15 == {<<"trusted_source_observed_age_seconds", Spell(NumberOrEmpty(p.trusted_context.age))>>}
<1>1. /\ "true" \in Texts /\ OrEmpty(p.minimum_assurance) \in Texts
      /\ NumberOrEmpty(p.max_source_age) \in Texts
      /\ TrueOrFalse(p.require_legal_basis) \in Texts /\ TrueOrFalse(p.require_consent) \in Texts
  BY TextsAssumption, TextOfOption, TextOfNumber, Zenon DEF Policies, TrueOrFalse
<1>2. /\ p.permitted_purposes \in SUBSET Texts /\ p.permitted_jurisdictions \in SUBSET Texts
      /\ p.allowed_assurance \in SUBSET Texts /\ p.redaction_fields \in SUBSET Texts
      /\ p.unsupported_odrl_terms \in SUBSET Texts /\ p.trusted_context \in Contexts
  BY DEF Policies
<1>3. /\ OrEmpty(p.trusted_context.jurisdiction) \in Texts
      /\ OrEmpty(p.trusted_context.assurance) \in Texts
      /\ OrEmpty(p.trusted_context.legal_basis) \in Texts
      /\ OrEmpty(p.trusted_context.consent) \in Texts
      /\ NumberOrEmpty(p.trusted_context.age) \in Texts
  BY <1>2, TextOfOption, TextOfNumber DEF Contexts
<1>p1. Lists(p1, P1)
  <2>1. "governed_policy" \in FieldNames
    BY DEF FieldNames
  <2> QED BY <1>1, <2>1, HashFieldLists
<1>p2. Lists(p2, P2)
  <2>1. "governed_minimum_assurance" \in FieldNames
    BY DEF FieldNames
  <2> QED BY <1>1, <2>1, HashFieldLists
<1>p3. Lists(p3, P3)
  <2>1. "governed_max_source_age_seconds" \in FieldNames
    BY DEF FieldNames
  <2> QED BY <1>1, <2>1, HashFieldLists
<1>p4. Lists(p4, P4)
  <2>1. "governed_require_legal_basis" \in FieldNames
    BY DEF FieldNames
  <2> QED BY <1>1, <2>1, HashFieldLists
<1>p5. Lists(p5, P5)
  <2>1. "governed_require_consent" \in FieldNames
    BY DEF FieldNames
  <2> QED BY <1>1, <2>1, HashFieldLists
<1>p6. Lists(p6, P6)
  <2>1. "governed_permitted_purpose" \in FieldNames
    BY DEF FieldNames
  <2> QED BY <1>2, <2>1, HashFieldsList
<1>p7. Lists(p7, P7)
  <2>1. "governed_permitted_jurisdiction" \in FieldNames
    BY DEF FieldNames
  <2> QED BY <1>2, <2>1, HashFieldsList
<1>p8. Lists(p8, P8)
  <2>1. "governed_allowed_assurance" \in FieldNames
    BY DEF FieldNames
  <2> QED BY <1>2, <2>1, HashFieldsList
<1>p9. Lists(p9, P9)
  <2>1. "governed_redaction_field" \in FieldNames
    BY DEF FieldNames
  <2> QED BY <1>2, <2>1, HashFieldsList
<1>p10. Lists(p10, P10)
  <2>1. "governed_unsupported_odrl_term" \in FieldNames
    BY DEF FieldNames
  <2> QED BY <1>2, <2>1, HashFieldsList
<1>p11. Lists(p11, P11)
  <2>1. "trusted_jurisdiction" \in FieldNames
    BY DEF FieldNames
  <2> QED BY <1>3, <2>1, HashFieldLists
<1>p12. Lists(p12, P12)
  <2>1. "trusted_asserted_assurance" \in FieldNames
    BY DEF FieldNames
  <2> QED BY <1>3, <2>1, HashFieldLists
<1>p13. Lists(p13, P13)
  <2>1. "trusted_legal_basis_ref" \in FieldNames
    BY DEF FieldNames
  <2> QED BY <1>3, <2>1, HashFieldLists
<1>p14. Lists(p14, P14)
  <2>1. "trusted_consent_ref" \in FieldNames
    BY DEF FieldNames
  <2> QED BY <1>3, <2>1, HashFieldLists
<1>p15. Lists(p15, P15)
  <2>1. "trusted_source_observed_age_seconds" \in FieldNames
    BY DEF FieldNames
  <2> QED BY <1>3, <2>1, HashFieldLists
<1> HIDE DEF p1, p2, p3, p4, p5, p6, p7, p8, p9, p10, p11, p12, p13, p14, p15,
            P1, P2, P3, P4, P5, P6, P7, P8, P9, P10, P11, P12, P13, P14, P15
<1>4. Lists(p1 \o p2 \o p3 \o p4 \o p5, P1 \cup P2 \cup P3 \cup P4 \cup P5)
  BY <1>p1, <1>p2, <1>p3, <1>p4, <1>p5, ListsFive
<1>5. Lists(p1 \o p2 \o p3 \o p4 \o p5 \o p6 \o p7 \o p8 \o p9,
            P1 \cup P2 \cup P3 \cup P4 \cup P5 \cup P6 \cup P7 \cup P8 \cup P9)
  BY <1>4, <1>p6, <1>p7, <1>p8, <1>p9, ListsFive
<1>6. Lists(p1 \o p2 \o p3 \o p4 \o p5 \o p6 \o p7 \o p8 \o p9
              \o p10 \o p11 \o p12 \o p13,
            P1 \cup P2 \cup P3 \cup P4 \cup P5 \cup P6 \cup P7 \cup P8 \cup P9
              \cup P10 \cup P11 \cup P12 \cup P13)
  BY <1>5, <1>p10, <1>p11, <1>p12, <1>p13, ListsFive
<1>7. Lists(p1 \o p2 \o p3 \o p4 \o p5 \o p6 \o p7 \o p8 \o p9
              \o p10 \o p11 \o p12 \o p13 \o p14,
            P1 \cup P2 \cup P3 \cup P4 \cup P5 \cup P6 \cup P7 \cup P8 \cup P9
              \cup P10 \cup P11 \cup P12 \cup P13 \cup P14)
  BY <1>6, <1>p14, ListsConcat
<1>8. Lists(p1 \o p2 \o p3 \o p4 \o p5 \o p6 \o p7 \o p8 \o p9
              \o p10 \o p11 \o p12 \o p13 \o p14 \o p15,
            P1 \cup P2 \cup P3 \cup P4 \cup P5 \cup P6 \cup P7 \cup P8 \cup P9
              \cup P10 \cup P11 \cup P12 \cup P13 \cup P14 \cup P15)
  BY <1>7, <1>p15, ListsConcat
<1>9. GovernedFields(p) = p1 \o p2 \o p3 \o p4 \o p5 \o p6 \o p7 \o p8 \o p9
              \o p10 \o p11 \o p12 \o p13 \o p14 \o p15
  BY DEF GovernedFields, p1, p2, p3, p4, p5, p6, p7, p8, p9, p10, p11, p12, p13, p14, p15
<1>10. PolicyList(p) = P1 \cup P2 \cup P3 \cup P4 \cup P5 \cup P6 \cup P7 \cup P8 \cup P9
              \cup P10 \cup P11 \cup P12 \cup P13 \cup P14 \cup P15
  BY DEF PolicyList, P1, P2, P3, P4, P5, P6, P7, P8, P9, P10, P11, P12, P13, P14, P15
<1> QED BY <1>8, <1>9, <1>10

-----------------------------------------------------------------------------
(* The fields of a route with those of its policy.                         *)
FieldList(r) ==
    RouteList(r) \cup IF r.governed = None THEN {} ELSE PolicyList(The(r.governed))

(* The fields of a route list its own and those of its policy.             *)
LEMMA FieldsList ==
    ASSUME NEW r, WellFormed(r)
    PROVE  Lists(Fields(r), FieldList(r)) /\ Fields(r) # <<>>
<1>1. Lists(RouteFields(r), RouteList(r))
  BY RouteFieldsList
<1>2. Lists(Fields(r), FieldList(r))
  <2>1. CASE r.governed = None
    <3>1. RouteFields(r) \in Seq(FieldSet)
      BY <1>1 DEF Lists
    <3>2. RouteFields(r) \o <<>> = RouteFields(r)
      BY <3>1
    <3>3. Fields(r) = RouteFields(r) /\ FieldList(r) = RouteList(r)
      BY <2>1, <3>2 DEF Fields, FieldList
    <3> QED BY <1>1, <3>3
  <2>2. CASE r.governed # None
    <3>1. The(r.governed) \in r.governed
      BY <2>2 DEF None, The
    <3>2. The(r.governed) \in Policies
      BY <3>1 DEF WellFormed
    <3>3. Lists(GovernedFields(The(r.governed)), PolicyList(The(r.governed)))
      BY <3>2, PolicyFieldsList
    <3>4. /\ Fields(r) = RouteFields(r) \o GovernedFields(The(r.governed))
          /\ FieldList(r) = RouteList(r) \cup PolicyList(The(r.governed))
      BY <2>2 DEF Fields, FieldList
    <3> QED BY <1>1, <3>3, <3>4, ListsConcat
  <2> QED BY <2>1, <2>2
<1>3. <<"schema", Spell("route-purpose-policy-v3")>> \in FieldList(r)
  BY DEF FieldList, RouteList
<1>4. Fields(r) # <<>>
  <2>1. Range(<<>>) = {}
    BY DEF Range
  <2> QED BY <1>2, <1>3, <2>1 DEF Lists
<1> QED BY <1>2, <1>4

(* Routes with the same material have the same fields.                     *)
LEMMA SameMaterialSameFields ==
    ASSUME NEW r, NEW s, WellFormed(r), WellFormed(s), Material(r) = Material(s)
    PROVE  FieldList(r) = FieldList(s)
<1>1. /\ Fields(r) \in Seq(FieldSet) /\ Fields(r) # <<>> /\ Range(Fields(r)) = FieldList(r)
      /\ Fields(s) \in Seq(FieldSet) /\ Fields(s) # <<>> /\ Range(Fields(s)) = FieldList(s)
  BY FieldsList DEF Lists
<1>2. Written(Fields(r)) = Written(Fields(s))
  BY DEF Material
<1>3. Len(Fields(r)) <= Len(Fields(s)) \/ Len(Fields(s)) <= Len(Fields(r))
  BY <1>1
<1>4. Fields(r) = Fields(s)
  BY <1>1, <1>2, <1>3, FieldsAreRead
<1> QED BY <1>1, <1>4

-----------------------------------------------------------------------------
\* In a list of fields, name has exactly the values of S.
Named(list, name, S) == \A c : <<name, c>> \in list <=> c \in S

(* A list has one set of values under a name.                              *)
LEMMA NamedSame ==
    ASSUME NEW list, NEW name, NEW S, NEW T, Named(list, name, S), Named(list, name, T)
    PROVE  S = T
BY Zenon DEF Named

(* The values under a name of two lists together.                          *)
LEMMA NamedUnion ==
    ASSUME NEW P, NEW Q, NEW name, NEW S, NEW T, Named(P, name, S), Named(Q, name, T)
    PROVE  Named(P \cup Q, name, S \cup T)
BY DEF Named

PolicyNames ==
    {"governed_policy", "governed_minimum_assurance", "governed_max_source_age_seconds",
     "governed_require_legal_basis", "governed_require_consent",
     "governed_permitted_purpose", "governed_permitted_jurisdiction",
     "governed_allowed_assurance", "governed_redaction_field",
     "governed_unsupported_odrl_term", "trusted_jurisdiction",
     "trusted_asserted_assurance", "trusted_legal_basis_ref", "trusted_consent_ref",
     "trusted_source_observed_age_seconds"}

(* What the fields of a route say under each name that decides.            *)
LEMMA RouteNamed ==
    ASSUME NEW r
    PROVE  /\ Named(RouteList(r), "client_identity",
                    {Spell(Trim(OrEmpty(r.client_identity)))} \cup Spelled(Identities(r)))
           /\ Named(RouteList(r), "upstream_prefix", {PrefixOrEmpty(r.upstream_prefix)})
           /\ Named(RouteList(r), "require_purpose", {Spell(TrueOrFalse(r.require_purpose))})
           /\ Named(RouteList(r), "method", Spelled(r.methods))
           /\ Named(RouteList(r), "purpose", Spelled(r.purposes))
           /\ \A name \in PolicyNames : Named(RouteList(r), name, {})
<1>1. ASSUME NEW n, NEW c
      PROVE  <<n, c>> \in RouteList(r) <=>
               \/ n = "schema" /\ c = Spell("route-purpose-policy-v3")
               \/ n = "route_id" /\ c = Spell(r.id)
               \/ n = "client_identity" /\ c = Spell(Trim(OrEmpty(r.client_identity)))
               \/ n = "client_identity" /\ c \in Spelled(Identities(r))
               \/ n = "local_prefix" /\ c = PrefixOrEmpty(r.local_prefix)
               \/ n = "upstream_prefix" /\ c = PrefixOrEmpty(r.upstream_prefix)
               \/ n = "require_purpose" /\ c = Spell(TrueOrFalse(r.require_purpose))
               \/ n = "method" /\ c \in Spelled(r.methods)
               \/ n = "purpose" /\ c \in Spelled(r.purposes)
  BY DEF RouteList
<1>2. Named(RouteList(r), "client_identity",
            {Spell(Trim(OrEmpty(r.client_identity)))} \cup Spelled(Identities(r)))
  BY <1>1 DEF Named
<1>3. Named(RouteList(r), "upstream_prefix", {PrefixOrEmpty(r.upstream_prefix)})
  BY <1>1 DEF Named
<1>4. Named(RouteList(r), "require_purpose", {Spell(TrueOrFalse(r.require_purpose))})
  BY <1>1 DEF Named
<1>5. Named(RouteList(r), "method", Spelled(r.methods))
  BY <1>1 DEF Named
<1>6. Named(RouteList(r), "purpose", Spelled(r.purposes))
  BY <1>1 DEF Named
<1>7. ASSUME NEW name \in PolicyNames PROVE Named(RouteList(r), name, {})
  <2>1. name \notin {"schema", "route_id", "client_identity", "local_prefix",
                     "upstream_prefix", "require_purpose", "method", "purpose"}
    BY DEF PolicyNames
  <2> QED BY <1>1, <2>1 DEF Named
<1> QED BY <1>2, <1>3, <1>4, <1>5, <1>6, <1>7

(* What the fields of a policy say under each name.                        *)
PolicySays(list, p) ==
    /\ Named(list, "governed_policy", {Spell("true")})
    /\ Named(list, "governed_minimum_assurance", {Spell(OrEmpty(p.minimum_assurance))})
    /\ Named(list, "governed_max_source_age_seconds", {Spell(NumberOrEmpty(p.max_source_age))})
    /\ Named(list, "governed_require_legal_basis", {Spell(TrueOrFalse(p.require_legal_basis))})
    /\ Named(list, "governed_require_consent", {Spell(TrueOrFalse(p.require_consent))})
    /\ Named(list, "governed_permitted_purpose", Spelled(p.permitted_purposes))
    /\ Named(list, "governed_permitted_jurisdiction", Spelled(p.permitted_jurisdictions))
    /\ Named(list, "governed_allowed_assurance", Spelled(p.allowed_assurance))
    /\ Named(list, "governed_redaction_field", Spelled(p.redaction_fields))
    /\ Named(list, "governed_unsupported_odrl_term", Spelled(p.unsupported_odrl_terms))
    /\ Named(list, "trusted_jurisdiction", {Spell(OrEmpty(p.trusted_context.jurisdiction))})
    /\ Named(list, "trusted_asserted_assurance", {Spell(OrEmpty(p.trusted_context.assurance))})
    /\ Named(list, "trusted_legal_basis_ref", {Spell(OrEmpty(p.trusted_context.legal_basis))})
    /\ Named(list, "trusted_consent_ref", {Spell(OrEmpty(p.trusted_context.consent))})
    /\ Named(list, "trusted_source_observed_age_seconds",
             {Spell(NumberOrEmpty(p.trusted_context.age))})

(* The fields of a governed policy say what the policy says, and nothing   *)
(* under the names of the route (proxy.rs:784).                            *)
LEMMA PolicyNamed ==
    ASSUME NEW p
    PROVE  /\ PolicySays(PolicyList(p), p)
           /\ \A name \in {"client_identity", "upstream_prefix", "require_purpose",
                           "method", "purpose"} : Named(PolicyList(p), name, {})
<1>1. ASSUME NEW n, NEW c
      PROVE  <<n, c>> \in PolicyList(p) <=>
               \/ n = "governed_policy"
                    /\ c = Spell("true")
               \/ n = "governed_minimum_assurance"
                    /\ c = Spell(OrEmpty(p.minimum_assurance))
               \/ n = "governed_max_source_age_seconds"
                    /\ c = Spell(NumberOrEmpty(p.max_source_age))
               \/ n = "governed_require_legal_basis"
                    /\ c = Spell(TrueOrFalse(p.require_legal_basis))
               \/ n = "governed_require_consent"
                    /\ c = Spell(TrueOrFalse(p.require_consent))
               \/ n = "governed_permitted_purpose"
                    /\ c \in Spelled(p.permitted_purposes)
               \/ n = "governed_permitted_jurisdiction"
                    /\ c \in Spelled(p.permitted_jurisdictions)
               \/ n = "governed_allowed_assurance"
                    /\ c \in Spelled(p.allowed_assurance)
               \/ n = "governed_redaction_field"
                    /\ c \in Spelled(p.redaction_fields)
               \/ n = "governed_unsupported_odrl_term"
                    /\ c \in Spelled(p.unsupported_odrl_terms)
               \/ n = "trusted_jurisdiction"
                    /\ c = Spell(OrEmpty(p.trusted_context.jurisdiction))
               \/ n = "trusted_asserted_assurance"
                    /\ c = Spell(OrEmpty(p.trusted_context.assurance))
               \/ n = "trusted_legal_basis_ref"
                    /\ c = Spell(OrEmpty(p.trusted_context.legal_basis))
               \/ n = "trusted_consent_ref"
                    /\ c = Spell(OrEmpty(p.trusted_context.consent))
               \/ n = "trusted_source_observed_age_seconds"
                    /\ c = Spell(NumberOrEmpty(p.trusted_context.age))
  BY DEF PolicyList
<1>p1. Named(PolicyList(p), "governed_policy", {Spell("true")})
  BY <1>1 DEF Named
<1>p2. Named(PolicyList(p), "governed_minimum_assurance",
            {Spell(OrEmpty(p.minimum_assurance))})
  BY <1>1 DEF Named
<1>p3. Named(PolicyList(p), "governed_max_source_age_seconds",
            {Spell(NumberOrEmpty(p.max_source_age))})
  BY <1>1 DEF Named
<1>p4. Named(PolicyList(p), "governed_require_legal_basis",
            {Spell(TrueOrFalse(p.require_legal_basis))})
  BY <1>1 DEF Named
<1>p5. Named(PolicyList(p), "governed_require_consent",
            {Spell(TrueOrFalse(p.require_consent))})
  BY <1>1 DEF Named
<1>p6. Named(PolicyList(p), "governed_permitted_purpose", Spelled(p.permitted_purposes))
  BY <1>1 DEF Named
<1>p7. Named(PolicyList(p), "governed_permitted_jurisdiction",
            Spelled(p.permitted_jurisdictions))
  BY <1>1 DEF Named
<1>p8. Named(PolicyList(p), "governed_allowed_assurance", Spelled(p.allowed_assurance))
  BY <1>1 DEF Named
<1>p9. Named(PolicyList(p), "governed_redaction_field", Spelled(p.redaction_fields))
  BY <1>1 DEF Named
<1>p10. Named(PolicyList(p), "governed_unsupported_odrl_term",
            Spelled(p.unsupported_odrl_terms))
  BY <1>1 DEF Named
<1>p11. Named(PolicyList(p), "trusted_jurisdiction",
            {Spell(OrEmpty(p.trusted_context.jurisdiction))})
  BY <1>1 DEF Named
<1>p12. Named(PolicyList(p), "trusted_asserted_assurance",
            {Spell(OrEmpty(p.trusted_context.assurance))})
  BY <1>1 DEF Named
<1>p13. Named(PolicyList(p), "trusted_legal_basis_ref",
            {Spell(OrEmpty(p.trusted_context.legal_basis))})
  BY <1>1 DEF Named
<1>p14. Named(PolicyList(p), "trusted_consent_ref",
            {Spell(OrEmpty(p.trusted_context.consent))})
  BY <1>1 DEF Named
<1>p15. Named(PolicyList(p), "trusted_source_observed_age_seconds",
            {Spell(NumberOrEmpty(p.trusted_context.age))})
  BY <1>1 DEF Named
<1>2. PolicySays(PolicyList(p), p)
  BY <1>p1, <1>p2, <1>p3, <1>p4, <1>p5, <1>p6, <1>p7, <1>p8,
     <1>p9, <1>p10, <1>p11, <1>p12, <1>p13, <1>p14, <1>p15 DEF PolicySays
<1>3. ASSUME NEW name \in {"client_identity", "upstream_prefix", "require_purpose",
                          "method", "purpose"}
      PROVE  Named(PolicyList(p), name, {})
  <2>1. name \notin PolicyNames
    BY DEF PolicyNames
  <2>2. \A c : <<name, c>> \notin PolicyList(p)
    BY <1>1, <2>1 DEF PolicyNames
  <2> QED BY <2>2 DEF Named
<1> QED BY <1>2, <1>3

(* What the fields of a route with its policy say.                         *)
LEMMA FieldsNamed ==
    ASSUME NEW r
    PROVE  /\ Named(FieldList(r), "client_identity",
                    {Spell(Trim(OrEmpty(r.client_identity)))} \cup Spelled(Identities(r)))
           /\ Named(FieldList(r), "upstream_prefix", {PrefixOrEmpty(r.upstream_prefix)})
           /\ Named(FieldList(r), "require_purpose", {Spell(TrueOrFalse(r.require_purpose))})
           /\ Named(FieldList(r), "method", Spelled(r.methods))
           /\ Named(FieldList(r), "purpose", Spelled(r.purposes))
           /\ r.governed = None => Named(FieldList(r), "governed_policy", {})
           /\ r.governed # None => PolicySays(FieldList(r), The(r.governed))
<1>1. CASE r.governed = None
  <2>1. FieldList(r) = RouteList(r)
    BY <1>1 DEF FieldList
  <2>2. "governed_policy" \in PolicyNames
    BY DEF PolicyNames
  <2> QED BY <1>1, <2>1, <2>2, RouteNamed, Zenon
<1>2. CASE r.governed # None
  <2> DEFINE p == The(r.governed)
  <2>1. FieldList(r) = RouteList(r) \cup PolicyList(p)
    BY <1>2 DEF FieldList
  <2> HIDE DEF p
  <2>2. ASSUME NEW name \in {"client_identity", "upstream_prefix", "require_purpose",
                            "method", "purpose"},
               NEW S, Named(RouteList(r), name, S)
        PROVE  Named(FieldList(r), name, S)
    <3>1. Named(PolicyList(p), name, {})
      BY PolicyNamed
    <3>2. S \cup {} = S
      OBVIOUS
    <3> QED BY <2>1, <2>2, <3>1, <3>2, NamedUnion
  <2>3. ASSUME NEW name \in PolicyNames, NEW S, Named(PolicyList(p), name, S)
        PROVE  Named(FieldList(r), name, S)
    <3>1. Named(RouteList(r), name, {})
      BY RouteNamed, Zenon
    <3>2. {} \cup S = S
      OBVIOUS
    <3> QED BY <2>1, <2>3, <3>1, <3>2, NamedUnion
  <2>4. PolicySays(PolicyList(p), p)
    BY PolicyNamed
  <2>5. PolicySays(FieldList(r), p)
    BY <2>3, <2>4, Zenon DEF PolicySays, PolicyNames
  <2>6. /\ Named(FieldList(r), "client_identity",
                  {Spell(Trim(OrEmpty(r.client_identity)))} \cup Spelled(Identities(r)))
        /\ Named(FieldList(r), "upstream_prefix", {PrefixOrEmpty(r.upstream_prefix)})
        /\ Named(FieldList(r), "require_purpose", {Spell(TrueOrFalse(r.require_purpose))})
        /\ Named(FieldList(r), "method", Spelled(r.methods))
        /\ Named(FieldList(r), "purpose", Spelled(r.purposes))
    BY <2>2, RouteNamed, Zenon
  <2> QED BY <1>2, <2>5, <2>6 DEF p
<1> QED BY <1>1, <1>2, Zenon

-----------------------------------------------------------------------------
(* A value is known by what is written of it.                              *)
LEMMA SpelledSame ==
    ASSUME NEW A \in SUBSET Texts, NEW B \in SUBSET Texts, Spelled(A) = Spelled(B)
    PROVE  A = B
<1>1. \A v, w \in Texts : Spell(v) = Spell(w) => v = w
  BY TextsAssumption, Zenon
<1> QED BY <1>1 DEF Spelled

(* A text is known by how it is spelled.                                   *)
LEMMA SpellSame ==
    ASSUME NEW v \in Texts, NEW w \in Texts, {Spell(v)} = {Spell(w)}
    PROVE  v = w
<1>1. \A x, y \in Texts : Spell(x) = Spell(y) => x = y
  BY TextsAssumption, Zenon
<1> QED BY <1>1

(* An absent text is hashed as the empty one, which no given text is.      *)
LEMMA OptionSame ==
    ASSUME NEW o \in Options(Given), NEW u \in Options(Given),
           {Spell(OrEmpty(o))} = {Spell(OrEmpty(u))}
    PROVE  o = u
<1>1. OrEmpty(o) = OrEmpty(u)
  BY TextOfOption, SpellSame
<1>2. ASSUME NEW x \in Options(Given)
      PROVE  x = IF OrEmpty(x) = "" THEN None ELSE {OrEmpty(x)}
  <2>1. CASE x = None
    BY <2>1, Zenon DEF OrEmpty
  <2>2. CASE x # None
    <3>1. PICK v \in Given : x = {v}
      BY <2>2 DEF Options, Some
    <3>2. OrEmpty(x) = v
      BY <2>2, <3>1, Zenon DEF OrEmpty, The
    <3> QED BY <3>1, <3>2, Zenon DEF Given
  <2> QED BY <2>1, <2>2, Zenon
<1> QED BY <1>1, <1>2, Zenon

(* An absent number is hashed as the empty text, which no number is.       *)
LEMMA NumberSame ==
    ASSUME NEW o \in Options(Numbers), NEW u \in Options(Numbers),
           {Spell(NumberOrEmpty(o))} = {Spell(NumberOrEmpty(u))}
    PROVE  o = u
<1>1. NumberOrEmpty(o) = NumberOrEmpty(u)
  BY TextOfNumber, SpellSame
<1>2. /\ \A n \in Numbers : ToString(n) # ""
      /\ \A m, n \in Numbers : ToString(m) = ToString(n) => m = n
  BY TextsAssumption, Zenon DEF Given
<1>3. ASSUME NEW x \in Options(Numbers), x # None
      PROVE  \E n \in Numbers : x = {n} /\ NumberOrEmpty(x) = ToString(n)
  <2>1. PICK n \in Numbers : x = {n}
    BY <1>3 DEF Options, Some
  <2>2. NumberOrEmpty(x) = ToString(n)
    BY <1>3, <2>1, Zenon DEF NumberOrEmpty, The
  <2> QED BY <2>1, <2>2
<1>4. NumberOrEmpty(None) = ""
  BY Zenon DEF NumberOrEmpty
<1>5. CASE o = None \/ u = None
  BY <1>1, <1>2, <1>3, <1>4, <1>5, Zenon
<1>6. CASE o # None /\ u # None
  <2>1. PICK m \in Numbers : o = {m} /\ NumberOrEmpty(o) = ToString(m)
    BY <1>3, <1>6
  <2>2. PICK n \in Numbers : u = {n} /\ NumberOrEmpty(u) = ToString(n)
    BY <1>3, <1>6
  <2> QED BY <1>1, <1>2, <2>1, <2>2, Zenon
<1> QED BY <1>5, <1>6

(* The two flags are hashed differently.                                   *)
LEMMA FlagSame ==
    ASSUME NEW b \in BOOLEAN, NEW c \in BOOLEAN,
           {Spell(TrueOrFalse(b))} = {Spell(TrueOrFalse(c))}
    PROVE  b = c
<1>1. TrueOrFalse(b) \in Texts /\ TrueOrFalse(c) \in Texts
  BY TextsAssumption, Zenon DEF TrueOrFalse
<1>2. TrueOrFalse(b) = TrueOrFalse(c)
  BY <1>1, SpellSame
<1>3. "true" # "false"
  OBVIOUS
<1> QED BY <1>2, <1>3 DEF TrueOrFalse

(* An absent prefix is hashed as the empty one, which validation refuses   *)
(* (config.rs).                                                            *)
LEMMA PrefixSame ==
    ASSUME NEW r, NEW s, WellFormed(r), WellFormed(s),
           {PrefixOrEmpty(r.upstream_prefix)} = {PrefixOrEmpty(s.upstream_prefix)}
    PROVE  r.upstream_prefix = s.upstream_prefix
<1>1. ASSUME NEW x, WellFormed(x)
      PROVE  x.upstream_prefix = IF PrefixOrEmpty(x.upstream_prefix) = <<>> THEN None
                                 ELSE {PrefixOrEmpty(x.upstream_prefix)}
  <2> DEFINE o == x.upstream_prefix
  <2>0. \A p \in o : o = {p} /\ p # <<>>
    BY <1>1 DEF WellFormed, Some
  <2> HIDE DEF o
  <2>1. CASE o = None
    BY <2>1 DEF PrefixOrEmpty, o
  <2>2. CASE o # None
    <3>1. The(o) \in o
      BY <2>2 DEF None, The
    <3>2. PrefixOrEmpty(o) = The(o)
      BY <2>2 DEF PrefixOrEmpty
    <3>3. o = {The(o)} /\ The(o) # <<>>
      BY <2>0, <3>1
    <3> QED BY <3>2, <3>3 DEF o
  <2> QED BY <2>1, <2>2
<1> QED BY <1>1, Zenon

(* Policies whose fields say the same are the same.                        *)
LEMMA PolicySame ==
    ASSUME NEW list, NEW p \in Policies, NEW q \in Policies,
           PolicySays(list, p), PolicySays(list, q)
    PROVE  p = q
<1>1. /\ p.minimum_assurance \in Options(Given) /\ q.minimum_assurance \in Options(Given)
      /\ p.max_source_age \in Options(Numbers) /\ q.max_source_age \in Options(Numbers)
      /\ p.require_legal_basis \in BOOLEAN /\ q.require_legal_basis \in BOOLEAN
      /\ p.require_consent \in BOOLEAN /\ q.require_consent \in BOOLEAN
      /\ p.trusted_context \in Contexts /\ q.trusted_context \in Contexts
  BY DEF Policies
<1>2. /\ p.permitted_purposes \in SUBSET Texts /\ q.permitted_purposes \in SUBSET Texts
      /\ p.permitted_jurisdictions \in SUBSET Texts /\ q.permitted_jurisdictions \in SUBSET Texts
      /\ p.allowed_assurance \in SUBSET Texts /\ q.allowed_assurance \in SUBSET Texts
      /\ p.redaction_fields \in SUBSET Texts /\ q.redaction_fields \in SUBSET Texts
      /\ p.unsupported_odrl_terms \in SUBSET Texts /\ q.unsupported_odrl_terms \in SUBSET Texts
  BY DEF Policies
<1>3. p.minimum_assurance = q.minimum_assurance
  <2>1. {Spell(OrEmpty(p.minimum_assurance))} = {Spell(OrEmpty(q.minimum_assurance))}
    <3>1. /\ Named(list, "governed_minimum_assurance", {Spell(OrEmpty(p.minimum_assurance))})
          /\ Named(list, "governed_minimum_assurance", {Spell(OrEmpty(q.minimum_assurance))})
      BY Zenon DEF PolicySays
    <3> QED BY <3>1, NamedSame
  <2> QED BY <1>1, <2>1, OptionSame
<1>4. p.max_source_age = q.max_source_age
  <2>1. {Spell(NumberOrEmpty(p.max_source_age))} = {Spell(NumberOrEmpty(q.max_source_age))}
    <3>1. /\ Named(list, "governed_max_source_age_seconds", {Spell(NumberOrEmpty(p.max_source_age))})
          /\ Named(list, "governed_max_source_age_seconds", {Spell(NumberOrEmpty(q.max_source_age))})
      BY Zenon DEF PolicySays
    <3> QED BY <3>1, NamedSame
  <2> QED BY <1>1, <2>1, NumberSame
<1>5. p.require_legal_basis = q.require_legal_basis
  <2>1. {Spell(TrueOrFalse(p.require_legal_basis))} = {Spell(TrueOrFalse(q.require_legal_basis))}
    <3>1. /\ Named(list, "governed_require_legal_basis", {Spell(TrueOrFalse(p.require_legal_basis))})
          /\ Named(list, "governed_require_legal_basis", {Spell(TrueOrFalse(q.require_legal_basis))})
      BY Zenon DEF PolicySays
    <3> QED BY <3>1, NamedSame
  <2> QED BY <1>1, <2>1, FlagSame
<1>6. p.require_consent = q.require_consent
  <2>1. {Spell(TrueOrFalse(p.require_consent))} = {Spell(TrueOrFalse(q.require_consent))}
    <3>1. /\ Named(list, "governed_require_consent", {Spell(TrueOrFalse(p.require_consent))})
          /\ Named(list, "governed_require_consent", {Spell(TrueOrFalse(q.require_consent))})
      BY Zenon DEF PolicySays
    <3> QED BY <3>1, NamedSame
  <2> QED BY <1>1, <2>1, FlagSame
<1>7. p.permitted_purposes = q.permitted_purposes
  <2>1. Spelled(p.permitted_purposes) = Spelled(q.permitted_purposes)
    <3>1. /\ Named(list, "governed_permitted_purpose", Spelled(p.permitted_purposes))
          /\ Named(list, "governed_permitted_purpose", Spelled(q.permitted_purposes))
      BY Zenon DEF PolicySays
    <3> QED BY <3>1, NamedSame
  <2> QED BY <1>2, <2>1, SpelledSame
<1>8. p.permitted_jurisdictions = q.permitted_jurisdictions
  <2>1. Spelled(p.permitted_jurisdictions) = Spelled(q.permitted_jurisdictions)
    <3>1. /\ Named(list, "governed_permitted_jurisdiction", Spelled(p.permitted_jurisdictions))
          /\ Named(list, "governed_permitted_jurisdiction", Spelled(q.permitted_jurisdictions))
      BY Zenon DEF PolicySays
    <3> QED BY <3>1, NamedSame
  <2> QED BY <1>2, <2>1, SpelledSame
<1>9. p.allowed_assurance = q.allowed_assurance
  <2>1. Spelled(p.allowed_assurance) = Spelled(q.allowed_assurance)
    <3>1. /\ Named(list, "governed_allowed_assurance", Spelled(p.allowed_assurance))
          /\ Named(list, "governed_allowed_assurance", Spelled(q.allowed_assurance))
      BY Zenon DEF PolicySays
    <3> QED BY <3>1, NamedSame
  <2> QED BY <1>2, <2>1, SpelledSame
<1>10. p.redaction_fields = q.redaction_fields
  <2>1. Spelled(p.redaction_fields) = Spelled(q.redaction_fields)
    <3>1. /\ Named(list, "governed_redaction_field", Spelled(p.redaction_fields))
          /\ Named(list, "governed_redaction_field", Spelled(q.redaction_fields))
      BY Zenon DEF PolicySays
    <3> QED BY <3>1, NamedSame
  <2> QED BY <1>2, <2>1, SpelledSame
<1>11. p.unsupported_odrl_terms = q.unsupported_odrl_terms
  <2>1. Spelled(p.unsupported_odrl_terms) = Spelled(q.unsupported_odrl_terms)
    <3>1. /\ Named(list, "governed_unsupported_odrl_term", Spelled(p.unsupported_odrl_terms))
          /\ Named(list, "governed_unsupported_odrl_term", Spelled(q.unsupported_odrl_terms))
      BY Zenon DEF PolicySays
    <3> QED BY <3>1, NamedSame
  <2> QED BY <1>2, <2>1, SpelledSame
<1>12. p.trusted_context = q.trusted_context
  <2> DEFINE x == p.trusted_context
             y == q.trusted_context
  <2>1. /\ {Spell(OrEmpty(x.jurisdiction))} = {Spell(OrEmpty(y.jurisdiction))}
        /\ {Spell(OrEmpty(x.assurance))} = {Spell(OrEmpty(y.assurance))}
        /\ {Spell(OrEmpty(x.legal_basis))} = {Spell(OrEmpty(y.legal_basis))}
        /\ {Spell(OrEmpty(x.consent))} = {Spell(OrEmpty(y.consent))}
        /\ {Spell(NumberOrEmpty(x.age))} = {Spell(NumberOrEmpty(y.age))}
    <3>1. {Spell(OrEmpty(x.jurisdiction))} = {Spell(OrEmpty(y.jurisdiction))}
      <4>1. /\ Named(list, "trusted_jurisdiction", {Spell(OrEmpty(x.jurisdiction))})
            /\ Named(list, "trusted_jurisdiction", {Spell(OrEmpty(y.jurisdiction))})
        BY Zenon DEF PolicySays
      <4> QED BY <4>1, NamedSame
    <3>2. {Spell(OrEmpty(x.assurance))} = {Spell(OrEmpty(y.assurance))}
      <4>1. /\ Named(list, "trusted_asserted_assurance", {Spell(OrEmpty(x.assurance))})
            /\ Named(list, "trusted_asserted_assurance", {Spell(OrEmpty(y.assurance))})
        BY Zenon DEF PolicySays
      <4> QED BY <4>1, NamedSame
    <3>3. {Spell(OrEmpty(x.legal_basis))} = {Spell(OrEmpty(y.legal_basis))}
      <4>1. /\ Named(list, "trusted_legal_basis_ref", {Spell(OrEmpty(x.legal_basis))})
            /\ Named(list, "trusted_legal_basis_ref", {Spell(OrEmpty(y.legal_basis))})
        BY Zenon DEF PolicySays
      <4> QED BY <4>1, NamedSame
    <3>4. {Spell(OrEmpty(x.consent))} = {Spell(OrEmpty(y.consent))}
      <4>1. /\ Named(list, "trusted_consent_ref", {Spell(OrEmpty(x.consent))})
            /\ Named(list, "trusted_consent_ref", {Spell(OrEmpty(y.consent))})
        BY Zenon DEF PolicySays
      <4> QED BY <4>1, NamedSame
    <3>5. {Spell(NumberOrEmpty(x.age))} = {Spell(NumberOrEmpty(y.age))}
      <4>1. /\ Named(list, "trusted_source_observed_age_seconds", {Spell(NumberOrEmpty(x.age))})
            /\ Named(list, "trusted_source_observed_age_seconds", {Spell(NumberOrEmpty(y.age))})
        BY Zenon DEF PolicySays
      <4> QED BY <4>1, NamedSame
    <3> QED BY <3>1, <3>2, <3>3, <3>4, <3>5
  <2>2. x \in Contexts /\ y \in Contexts
    BY <1>1
  <2> HIDE DEF x, y
  <2>3. /\ {x.jurisdiction, x.assurance, x.legal_basis, x.consent} \subseteq Options(Given)
        /\ {y.jurisdiction, y.assurance, y.legal_basis, y.consent} \subseteq Options(Given)
        /\ x.age \in Options(Numbers) /\ y.age \in Options(Numbers)
    BY <2>2 DEF Contexts
  <2>4. /\ x.jurisdiction = y.jurisdiction /\ x.assurance = y.assurance
        /\ x.legal_basis = y.legal_basis /\ x.consent = y.consent
    BY <2>1, <2>3, OptionSame
  <2>5. x.age = y.age
    BY <2>1, <2>3, NumberSame
  <2>6. x = y
    BY <2>2, <2>4, <2>5 DEF Contexts
  <2> QED BY <2>6 DEF x, y
<1> QED BY <1>3, <1>4, <1>5, <1>6, <1>7, <1>8, <1>9, <1>10, <1>11, <1>12 DEF Policies

(* The parts of a route that decide.                                       *)
SameDeciding(r, s) ==
    /\ r.methods = s.methods /\ r.upstream_prefix = s.upstream_prefix
    /\ r.require_purpose = s.require_purpose /\ r.purposes = s.purposes
    /\ r.governed = s.governed
    /\ {Trim(OrEmpty(r.client_identity))} \cup Identities(r)
          = {Trim(OrEmpty(s.client_identity))} \cup Identities(s)

(* Routes with the same fields agree on every part that decides.           *)
LEMMA SameFieldsSameDeciding ==
    ASSUME NEW r, NEW s, WellFormed(r), WellFormed(s), FieldList(r) = FieldList(s)
    PROVE  SameDeciding(r, s)
<1>0. /\ r.require_purpose \in BOOLEAN /\ s.require_purpose \in BOOLEAN
      /\ \A p \in r.governed : r.governed = {p} /\ p \in Policies
      /\ \A p \in s.governed : s.governed = {p} /\ p \in Policies
  BY DEF WellFormed, Some
<1>1. r.methods = s.methods /\ r.purposes = s.purposes
  <2>1. Spelled(r.methods) = Spelled(s.methods) /\ Spelled(r.purposes) = Spelled(s.purposes)
    BY FieldsNamed, NamedSame, ZenonT(20)
  <2> QED BY <2>1, TextsOfRoute, SpelledSame
<1>2. r.upstream_prefix = s.upstream_prefix
  <2>1. {PrefixOrEmpty(r.upstream_prefix)} = {PrefixOrEmpty(s.upstream_prefix)}
    BY FieldsNamed, NamedSame, ZenonT(20)
  <2> QED BY <2>1, PrefixSame
<1>3. r.require_purpose = s.require_purpose
  <2>1. {Spell(TrueOrFalse(r.require_purpose))} = {Spell(TrueOrFalse(s.require_purpose))}
    BY FieldsNamed, NamedSame, ZenonT(20)
  <2> QED BY <1>0, <2>1, FlagSame
<1>4. {Trim(OrEmpty(r.client_identity))} \cup Identities(r)
          = {Trim(OrEmpty(s.client_identity))} \cup Identities(s)
  <2> DEFINE A == {Trim(OrEmpty(r.client_identity))} \cup Identities(r)
             B == {Trim(OrEmpty(s.client_identity))} \cup Identities(s)
  <2>1. {Spell(Trim(OrEmpty(r.client_identity)))} \cup Spelled(Identities(r))
          = {Spell(Trim(OrEmpty(s.client_identity)))} \cup Spelled(Identities(s))
    BY FieldsNamed, NamedSame, ZenonT(20)
  <2>2. Spelled(A) = Spelled(B)
    BY <2>1 DEF Spelled
  <2>3. A \in SUBSET Texts /\ B \in SUBSET Texts
    BY TextsOfRoute
  <2> QED BY <2>2, <2>3, SpelledSame
<1>5. (r.governed = None) <=> (s.governed = None)
  <2>1. {} # {Spell("true")}
    OBVIOUS
  <2>2. ASSUME NEW x, x.governed # None
        PROVE  Named(FieldList(x), "governed_policy", {Spell("true")})
    BY <2>2, FieldsNamed, Zenon DEF PolicySays
  <2>3. ASSUME NEW x, x.governed = None
        PROVE  Named(FieldList(x), "governed_policy", {})
    BY <2>3, FieldsNamed, Zenon
  <2> QED BY <2>1, <2>2, <2>3, NamedSame
<1>6. r.governed = s.governed
  <2>1. CASE r.governed = None
    BY <1>5, <2>1
  <2>2. CASE r.governed # None
    <3>1. The(r.governed) \in r.governed /\ The(s.governed) \in s.governed
      BY <1>5, <2>2 DEF None, The
    <3>2. The(r.governed) \in Policies /\ The(s.governed) \in Policies
      BY <1>0, <3>1
    <3>3. PolicySays(FieldList(r), The(r.governed)) /\ PolicySays(FieldList(s), The(s.governed))
      BY <1>5, <2>2, FieldsNamed, Zenon
    <3>4. The(r.governed) = The(s.governed)
      BY <3>2, <3>3, PolicySame
    <3> QED BY <1>0, <3>1, <3>4
  <2> QED BY <2>1, <2>2
<1> QED BY <1>1, <1>2, <1>3, <1>4, <1>6 DEF SameDeciding

-----------------------------------------------------------------------------
(* A peer with an identity that is not blank is matched by what the        *)
(* material says of the identities.                                        *)
LEMMA MatchedByFields ==
    ASSUME NEW r, WellFormed(r), NEW identity, Trim(identity) # ""
    PROVE  Routing!RouteMatchesClientIdentity(r, identity)
             <=> Trim(identity) \in {Trim(OrEmpty(r.client_identity))} \cup Identities(r)
<1>1. Routing!RouteMatchesClientIdentity(r, identity)
        <=> \E allowed \in r.client_identity \cup r.client_identities :
               Trim(allowed) = Trim(identity)
  BY Zenon DEF Routing!RouteMatchesClientIdentity, Routing!Trim, Trim
<1>2. Trim("") = ""
  BY PaddedAssumption, Zenon DEF Trim
<1>3. CASE r.client_identity = None
  BY <1>1, <1>2, <1>3, Zenon DEF OrEmpty, Identities, None
<1>4. CASE r.client_identity # None
  <2>1. PICK v : r.client_identity = {v}
    BY <1>4, Zenon DEF WellFormed, Options, Some
  <2>2. OrEmpty(r.client_identity) = v
    BY <1>4, <2>1, Zenon DEF OrEmpty, The
  <2> QED BY <1>1, <2>1, <2>2, Zenon DEF Identities
<1> QED BY <1>3, <1>4, Zenon

(* The decision point sees a route through its policy and its purpose      *)
(* lists only.                                                             *)
LEMMA SamePdpDecisions ==
    ASSUME NEW r, NEW s, PolicyOf(r) = PolicyOf(s),
           PurposeConstraints(r) = PurposeConstraints(s), NEW context
    PROVE  PdpDecisions(r, context) = PdpDecisions(s, context)
<1> DEFINE holds(p, constraints, gate) ==
             CASE gate = "Purpose" ->
                    \A list \in constraints : context.purpose \in list
               [] gate = "Jurisdiction" ->
                    \/ p.permitted_jurisdictions = {}
                    \/ context.trust.jurisdiction \cap p.permitted_jurisdictions # {}
               [] gate = "AssuranceAllowedSet" ->
                    \/ p.allowed_assurance = {}
                    \/ context.trust.assurance \cap p.allowed_assurance # {}
               [] gate = "MinimumAssurance" ->
                    \A m \in p.minimum_assurance :
                       \E a \in context.trust.assurance : <<a, m>> \in AssuranceMeets
               [] gate = "SourceFreshness" ->
                    \A m \in p.max_source_age : \E a \in context.age : a <= m
               [] gate = "LegalBasisRequired" ->
                    p.require_legal_basis => context.trust.legal_basis # None
               [] gate = "ConsentRequired" ->
                    p.require_consent => context.trust.consent # None
               [] gate = "OdrlTerms" -> p.unsupported_odrl_terms = {}
<1>1. \A x, g : GateHolds(g, x, context) = holds(PolicyOf(x), PurposeConstraints(x), g)
  BY DEF GateHolds
<1> HIDE DEF holds
<1>2. \A g : GateHolds(g, r, context) = GateHolds(g, s, context)
  BY <1>1
<1>3. {g \in Gates : ~GateHolds(g, r, context)} = {g \in Gates : ~GateHolds(g, s, context)}
  BY <1>2
<1> DEFINE decide(redacted, failed) ==
             IF failed # {}
             THEN {[kind |-> "Deny", code |-> GateCode(g)] : g \in failed}
             ELSE IF redacted
                  THEN {[kind |-> "PermitWithRedaction", code |-> ""]}
                  ELSE {[kind |-> "Permit", code |-> ""]}
           undated == context.age = None /\ context.at # None
           decisions(redacted, failing) ==
             decide(redacted, failing)
               \cup (IF undated THEN decide(redacted, failing \ {"SourceFreshness"}) ELSE {})
<1>4. \A x : PdpDecisions(x, context)
               = decisions(PolicyOf(x).redaction_fields # {},
                           {g \in Gates : ~GateHolds(g, x, context)})
  BY DEF PdpDecisions
<1> HIDE DEF decisions
<1> QED BY <1>3, <1>4, Zenon

(* authorize_server_purpose sees a route through its purposes, whether one *)
(* is required, and its policy.                                            *)
LEMMA SameVerdicts ==
    ASSUME NEW r, NEW s, r.purposes = s.purposes, r.require_purpose = s.require_purpose,
           r.governed = s.governed,
           NEW headers, NEW entitlements, NEW identity, NEW now
    PROVE  AuthorizeServerPurpose(r, headers, entitlements, identity, now)
             = AuthorizeServerPurpose(s, headers, entitlements, identity, now)
<1>1. PolicyOf(r) = PolicyOf(s)
  BY DEF PolicyOf
<1>2. PurposeConstraints(r) = PurposeConstraints(s)
  BY <1>1 DEF PurposeConstraints
<1>3. TrustedScopes(r, entitlements, identity) = TrustedScopes(s, entitlements, identity)
  BY <1>1 DEF TrustedScopes
<1>4. \A context : PdpDecisions(r, context) = PdpDecisions(s, context)
  BY <1>1, <1>2, SamePdpDecisions
<1> DEFINE stated == DataPurposes(headers)
           purpose == The(stated)
           context(scopes) == PdpContext(purpose, headers, scopes, now)
           verdicts(purposes, required, governed, constraints, scopes, decisions) ==
             IF RepeatedPurpose(headers) THEN {Refused(Problem("PurposeDenied"))}
             ELSE IF purposes = {} /\ ~required /\ governed = None
             THEN {Granted(stated)}
             ELSE IF stated = None THEN {Refused(Problem("PurposeRequired"))}
             ELSE IF required /\ constraints = {}
             THEN {Refused(Problem("PurposeDenied"))}
             ELSE IF EvidenceMalformed(headers, scopes)
             THEN {Refused(PdpDenied("EVIDENCE_STALE"))}
             ELSE {PdpVerdict(d, purpose) : d \in decisions}
<1>5. \A x : AuthorizeServerPurpose(x, headers, entitlements, identity, now)
               = verdicts(x.purposes, x.require_purpose, x.governed, PurposeConstraints(x),
                          TrustedScopes(x, entitlements, identity),
                          PdpDecisions(x, context(TrustedScopes(x, entitlements, identity))))
  BY Zenon DEF AuthorizeServerPurpose
<1> HIDE DEF verdicts, context
<1> QED BY <1>2, <1>3, <1>4, <1>5

(* Routes that agree on what decides cannot be told apart by a request.    *)
LEMMA SameDecidingDecideAlike ==
    ASSUME NEW r \in Routes, NEW s \in Routes, SameDeciding(r, s)
    PROVE  DecideAlike(r, s)
<1>1. WellFormed(r) /\ WellFormed(s) /\ \A q \in Probes : Trim(q.identity) # ""
  BY RoutesAssumption, Zenon
<1>2. ASSUME NEW q \in Probes
      PROVE  Routing!RouteMatchesClientIdentity(r, q.identity)
               = Routing!RouteMatchesClientIdentity(s, q.identity)
  <2>1. Trim(q.identity) # ""
    BY <1>1, Zenon
  <2>2. Routing!RouteMatchesClientIdentity(r, q.identity)
          <=> Routing!RouteMatchesClientIdentity(s, q.identity)
    BY <1>1, <2>1, MatchedByFields, Zenon DEF SameDeciding
  <2> QED BY <2>2 DEF Routing!RouteMatchesClientIdentity
<1>3. ASSUME NEW q \in Probes
      PROVE  AuthorizeServerPurpose(r, q.headers, Entitlements, q.identity, q.now)
               = AuthorizeServerPurpose(s, q.headers, Entitlements, q.identity, q.now)
  BY SameVerdicts DEF SameDeciding
<1> QED BY <1>2, <1>3 DEF DecideAlike, SameDeciding

(* Equal material means routes that decide alike: the material of          *)
(* route_purpose_policy_hash leaves out nothing that decides, and no       *)
(* choice of texts makes two lists of fields read the same.                *)
THEOREM SameMaterialDecideAlike ==
    ASSUME NEW r \in Routes, NEW s \in Routes, Material(r) = Material(s)
    PROVE  DecideAlike(r, s)
<1>1. WellFormed(r) /\ WellFormed(s)
  BY RoutesAssumption, Zenon
<1> QED BY <1>1, SameMaterialSameFields, SameFieldsSameDeciding, SameDecidingDecideAlike

(* Decisions on record under the same hash were made by routes that decide *)
(* alike, in one process or across any sequence of edited configurations.  *)
THEOREM SameHashSameDecisionHolds == Spec => []SameHashSameDecision
<1>1. Init => RoutesInv
  BY DEF Init, RoutesInv
<1>2. RoutesInv /\ [Next]_vars => RoutesInv'
  <2> SUFFICES ASSUME RoutesInv, [Next]_vars PROVE RoutesInv'
    OBVIOUS
  <2>1. ASSUME NEW t \in Tasks, BuildMaterial(t) PROVE RoutesInv'
    BY <2>1 DEF BuildMaterial, RoutesInv
  <2>2. ASSUME NEW t \in Tasks, GetOrCompute(t) PROVE RoutesInv'
    <3>1. PICK m \in material[t] :
            /\ records' = records \cup {[hash |-> Entry(m).hash, route |-> route]}
            /\ route' = route
      BY <2>2 DEF GetOrCompute
    <3> QED BY <3>1 DEF RoutesInv
  <2>3. CASE Restart
    BY <2>3 DEF Restart, RoutesInv
  <2>4. CASE UNCHANGED vars
    BY <2>4 DEF vars, RoutesInv
  <2> QED BY <2>1, <2>2, <2>3, <2>4 DEF Next
<1>3. RecordedHashIsOwn /\ RoutesInv => SameHashSameDecision
  <2> SUFFICES ASSUME RecordedHashIsOwn, RoutesInv,
                      NEW a \in records, NEW b \in records, a.hash = b.hash
               PROVE  DecideAlike(a.route, b.route)
    BY DEF SameHashSameDecision
  <2>1. Material(a.route) = Material(b.route)
    BY DEF RecordedHashIsOwn, Sha256
  <2>2. a.route \in Routes /\ b.route \in Routes
    BY DEF RoutesInv
  <2> QED BY <2>1, <2>2, SameMaterialDecideAlike
<1> QED BY <1>1, <1>2, <1>3, RecordedHashIsOwnHolds, PTL DEF Spec

=============================================================================
