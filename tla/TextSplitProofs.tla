-------------------------- MODULE TextSplitProofs ---------------------------
(***************************************************************************)
(* Proofs about TextSplit: a text is cut at its first marks and nothing of *)
(* it is lost, whatever the texts, and any tag and frames that can be told *)
(* apart are read back.  What is true of every length is proved from a     *)
(* least counterexample.                                                   *)
(***************************************************************************)
EXTENDS TextSplit, TLAPS, FiniteSetTheorems, WellFoundedInduction,
        SequenceTheorems

-----------------------------------------------------------------------------
(***************************************************************************)
(* Natural numbers.                                                        *)
(***************************************************************************)

(* A set of natural numbers that is not empty has a least one.             *)
LEMMA LeastNat ==
  ASSUME NEW S, S \subseteq Nat, S # {}
  PROVE  \E x \in S : \A y \in S : x <= y
<1> DEFINE below == {0 .. x : x \in S}
           R == StrictSubsetOrdering(Nat)
<1>1. IsWellFoundedOn(R, FiniteSubsetsOf(Nat))
  BY FS_StrictSubsetOrderingWellFounded
<1>2. below \subseteq FiniteSubsetsOf(Nat)
  <2>1. \A x \in S : 0 .. x \in SUBSET Nat
    OBVIOUS
  <2>2. \A x \in S : IsFiniteSet(0 .. x)
    BY FS_Interval
  <2>3. \A x \in S : 0 .. x \in FiniteSubsetsOf(Nat)
    BY <2>1, <2>2 DEF FiniteSubsetsOf
  <2> QED  BY <2>3
<1>3. below # {}
  OBVIOUS
<1> HIDE DEF R
<1>4. PICK b \in below : \A a \in below : ~ (<<a, b>> \in R)
  <2> HIDE DEF below
  <2> QED  BY <1>1, <1>2, <1>3, WFMin
<1>5. PICK x \in S : b = 0 .. x
  OBVIOUS
<1>6. ASSUME NEW y \in S, y < x PROVE FALSE
  <2>1. 0 .. y \in below
    OBVIOUS
  <2>2. /\ 0 .. y \in SUBSET Nat /\ b \in SUBSET Nat
        /\ 0 .. y \subseteq b /\ 0 .. y # b
    BY <1>5, <1>6
  <2>3. <<0 .. y, b>> \in R
    BY <2>2 DEF R, StrictSubsetOrdering
  <2> QED  BY <1>4, <2>1, <2>3
<1>7. \A y \in S : x <= y
  BY <1>6
<1> QED  BY <1>7

(* What holds of zero, and of the next number if of one, holds of all:     *)
(* induction over a set.                                                   *)
LEMMA AllNat ==
  ASSUME NEW S, 0 \in S, \A n \in Nat : n \in S => n + 1 \in S
  PROVE  Nat \subseteq S
<1>1. SUFFICES ASSUME Nat \ S # {} PROVE FALSE
  OBVIOUS
<1>2. PICK x \in Nat \ S : \A y \in Nat \ S : x <= y
  BY <1>1, LeastNat
<1>3. x - 1 \in Nat /\ x - 1 \in S
  BY <1>2
<1> QED  BY <1>2, <1>3

(* Min and Max are what their names say, of a set that has one.            *)
LEMMA MinIs ==
  ASSUME NEW S, S \subseteq Nat, S # {}
  PROVE  Min(S) \in S /\ \A y \in S : Min(S) <= y
BY LeastNat DEF Min

LEMMA MaxIs ==
  ASSUME NEW S, NEW b \in Nat, S \subseteq 0 .. b, S # {}
  PROVE  Max(S) \in S /\ \A y \in S : y <= Max(S)
<1> DEFINE T == {b - x : x \in S}
<1>1. T \subseteq Nat /\ T # {}
  <2>1. \A x \in S : x \in Nat /\ x <= b
    OBVIOUS
  <2>2. T \subseteq Nat
    BY <2>1
  <2>3. PICK x \in S : TRUE
    OBVIOUS
  <2>4. b - x \in T
    OBVIOUS
  <2> QED  BY <2>2, <2>4
<1>2. PICK t \in T : \A y \in T : t <= y
  BY <1>1, LeastNat
<1>3. PICK x \in S : t = b - x
  OBVIOUS
<1>4. \A y \in S : y <= x
  BY <1>2, <1>3
<1> QED  BY <1>4 DEF Max

-----------------------------------------------------------------------------
(***************************************************************************)
(* FlattenSeq.                                                             *)
(***************************************************************************)

(* The function that FlattenSeq recurs over, up to n.                      *)
Joins(f, seqs, n) ==
  f = [k \in 1 .. n |-> IF k = 1 THEN seqs[k] ELSE f[k - 1] \o seqs[k]]

LEMMA JoinsAt ==
  ASSUME NEW seqs, NEW n \in Nat, NEW f, Joins(f, seqs, n), NEW k \in 1 .. n
  PROVE  f[k] = IF k = 1 THEN seqs[k] ELSE f[k - 1] \o seqs[k]
<1> DEFINE g == [j \in 1 .. n |-> IF j = 1 THEN seqs[j]
                                  ELSE f[j - 1] \o seqs[j]]
<1>1. f = g
  BY DEF Joins
<1>2. f[k] = g[k]
  BY <1>1
<1>3. g[k] = IF k = 1 THEN seqs[k] ELSE f[k - 1] \o seqs[k]
  OBVIOUS
<1> QED  BY <1>2, <1>3

LEMMA JoinsExist ==
  ASSUME NEW seqs, NEW n \in Nat
  PROVE  \E f : Joins(f, seqs, n)
<1> DEFINE S == {m \in Nat : \E f : Joins(f, seqs, m)}
<1>1. 0 \in S
  <2> DEFINE f == [k \in 1 .. 0 |-> k]
  <2>1. Joins(f, seqs, 0)
    BY DEF Joins
  <2> QED  BY <2>1
<1>2. ASSUME NEW m \in Nat, m \in S PROVE m + 1 \in S
  <2>1. PICK f : Joins(f, seqs, m)
    BY <1>2
  <2> DEFINE g == [k \in 1 .. m + 1 |-> IF k = 1 THEN seqs[k]
                                        ELSE f[k - 1] \o seqs[k]]
  <2>2. \A k \in 1 .. m : f[k] = g[k]
    BY <2>1, JoinsAt
  <2>3. \A k \in 1 .. m + 1 : k # 1 => k - 1 \in 1 .. m
    OBVIOUS
  <2>4. \A k \in 1 .. m + 1 : k # 1 => f[k - 1] = g[k - 1]
    BY <2>2, <2>3
  <2>5. g = [k \in 1 .. m + 1 |-> IF k = 1 THEN seqs[k]
                                  ELSE g[k - 1] \o seqs[k]]
    BY <2>4
  <2>6. Joins(g, seqs, m + 1)
    BY <2>5 DEF Joins
  <2> QED  BY <2>6
<1>3. Nat \subseteq S
  <2> HIDE DEF S
  <2> QED  BY <1>1, <1>2, AllNat
<1> QED  BY <1>3

(* It depends on nothing but the parts that it joins.                      *)
LEMMA JoinsAgree ==
  ASSUME NEW seqs, NEW more, NEW f, NEW g, NEW n \in Nat, NEW m \in Nat,
         n <= m, \A k \in 1 .. n : seqs[k] = more[k],
         Joins(f, seqs, n), Joins(g, more, m)
  PROVE  \A k \in 1 .. n : f[k] = g[k]
<1> DEFINE S == {k \in Nat : k \in 1 .. n => f[k] = g[k]}
<1>1. 0 \in S
  OBVIOUS
<1>2. ASSUME NEW k \in Nat, k \in S PROVE k + 1 \in S
  <2>1. SUFFICES ASSUME k + 1 \in 1 .. n PROVE f[k + 1] = g[k + 1]
    OBVIOUS
  <2>2. f[k + 1] = IF k + 1 = 1 THEN seqs[k + 1]
                   ELSE f[(k + 1) - 1] \o seqs[k + 1]
    BY <2>1, JoinsAt
  <2>3. g[k + 1] = IF k + 1 = 1 THEN more[k + 1]
                   ELSE g[(k + 1) - 1] \o more[k + 1]
    <3>1. k + 1 \in 1 .. m
      BY <2>1
    <3> QED  BY <3>1, JoinsAt
  <2>4. k # 0 => f[k] = g[k]
    BY <1>2, <2>1
  <2>5. (k + 1) - 1 = k
    OBVIOUS
  <2> QED  BY <2>1, <2>2, <2>3, <2>4, <2>5
<1>3. Nat \subseteq S
  <2> HIDE DEF S
  <2> QED  BY <1>1, <1>2, AllNat
<1> QED  BY <1>3

LEMMA JoinsTyped ==
  ASSUME NEW C, NEW n \in Nat, NEW seqs, \A k \in 1 .. n : seqs[k] \in Seq(C),
         NEW f, Joins(f, seqs, n)
  PROVE  \A k \in 1 .. n : f[k] \in Seq(C)
<1> DEFINE S == {k \in Nat : k \in 1 .. n => f[k] \in Seq(C)}
<1>1. 0 \in S
  OBVIOUS
<1>2. ASSUME NEW k \in Nat, k \in S PROVE k + 1 \in S
  <2>1. SUFFICES ASSUME k + 1 \in 1 .. n PROVE f[k + 1] \in Seq(C)
    OBVIOUS
  <2>2. f[k + 1] = IF k + 1 = 1 THEN seqs[k + 1]
                   ELSE f[(k + 1) - 1] \o seqs[k + 1]
    BY <2>1, JoinsAt
  <2>3. k # 0 => f[k] \in Seq(C)
    BY <1>2, <2>1
  <2>4. (k + 1) - 1 = k /\ seqs[k + 1] \in Seq(C)
    BY <2>1
  <2>5. CASE k = 0
    BY <2>2, <2>4, <2>5
  <2>6. CASE k # 0
    <3>1. f[k + 1] = f[(k + 1) - 1] \o seqs[k + 1]
      <4>1. k + 1 # 1
        BY <2>6
      <4> QED  BY <2>2, <4>1
    <3>2. f[k + 1] = f[k] \o seqs[k + 1]
      BY <3>1, <2>4
    <3> QED  BY <3>2, <2>3, <2>4, <2>6, ConcatProperties
  <2> QED  BY <2>5, <2>6
<1>3. Nat \subseteq S
  <2> HIDE DEF S
  <2> QED  BY <1>1, <1>2, AllNat
<1> QED  BY <1>3

LEMMA FlattenIs ==
  ASSUME NEW seqs, Len(seqs) \in Nat, Len(seqs) # 0
  PROVE  \E f : Joins(f, seqs, Len(seqs)) /\ FlattenSeq(seqs) = f[Len(seqs)]
<1>1. \E f : Joins(f, seqs, Len(seqs))
  BY JoinsExist
<1> QED  BY <1>1 DEF FlattenSeq, Joins

(* Nothing flattens to nothing, and one more part goes behind the others.  *)
LEMMA FlattenEmpty == FlattenSeq(<<>>) = <<>>
BY DEF FlattenSeq

LEMMA FlattenType ==
  ASSUME NEW C, NEW seqs \in Seq(Seq(C))
  PROVE  FlattenSeq(seqs) \in Seq(C)
<1>1. Len(seqs) \in Nat /\ \A k \in 1 .. Len(seqs) : seqs[k] \in Seq(C)
  OBVIOUS
<1>2. CASE Len(seqs) = 0
  <2>1. seqs = <<>>
    BY <1>2
  <2>2. FlattenSeq(seqs) = <<>>
    BY <2>1, FlattenEmpty
  <2> QED  BY <2>2
<1>3. CASE Len(seqs) # 0
  <2>1. PICK f : Joins(f, seqs, Len(seqs)) /\ FlattenSeq(seqs) = f[Len(seqs)]
    BY <1>1, <1>3, FlattenIs
  <2>2. \A k \in 1 .. Len(seqs) : f[k] \in Seq(C)
    BY <1>1, <2>1, JoinsTyped
  <2> QED  BY <1>1, <1>3, <2>1, <2>2
<1> QED  BY <1>2, <1>3

Follows(m, n) == m = n + 1

LEMMA FlattenMore ==
  ASSUME NEW seqs, NEW more, NEW n \in Nat, NEW m \in Nat, n # 0,
         Follows(m, n), \A k \in 1 .. n : seqs[k] = more[k],
         NEW f, Joins(f, seqs, n), FlattenSeq(seqs) = f[n],
         NEW g, Joins(g, more, m), FlattenSeq(more) = g[m]
  PROVE  FlattenSeq(more) = FlattenSeq(seqs) \o more[m]
<1>1. n <= m
  BY DEF Follows
<1>2. \A k \in 1 .. n : f[k] = g[k]
  BY <1>1, JoinsAgree
<1>3. \A k \in 1 .. m : g[k] = IF k = 1 THEN more[k] ELSE g[k - 1] \o more[k]
  BY JoinsAt
<1>4. m \in 1 .. m /\ n \in 1 .. n /\ m - 1 = n /\ m # 1
  BY DEF Follows
<1>5. f[n] = g[n]
  BY <1>2, <1>4
<1>6. g[m] = g[n] \o more[m]
  BY <1>3, <1>4
<1> QED  BY <1>5, <1>6

LEMMA FlattenOne ==
  ASSUME NEW more, Len(more) = 1
  PROVE  FlattenSeq(more) = more[1]
<1>1. Len(more) \in Nat /\ Len(more) # 0
  OBVIOUS
<1>2. PICK g : Joins(g, more, Len(more)) /\ FlattenSeq(more) = g[Len(more)]
  BY <1>1, FlattenIs
<1>3. 1 \in 1 .. Len(more)
  OBVIOUS
<1>4. g[1] = more[1]
  BY <1>1, <1>2, <1>3, JoinsAt
<1> QED  BY <1>2, <1>4

LEMMA FlattenAppend ==
  ASSUME NEW C, NEW seqs \in Seq(Seq(C)), NEW s \in Seq(C)
  PROVE  FlattenSeq(Append(seqs, s)) = FlattenSeq(seqs) \o s
<1> DEFINE more == Append(seqs, s)
           n == Len(seqs)
<1>1. /\ n \in Nat /\ Len(more) = n + 1 /\ more[n + 1] = s
      /\ \A k \in 1 .. n : seqs[k] = more[k]
  OBVIOUS
<1>2. CASE n = 0
  <2>1. seqs = <<>>
    BY <1>2
  <2>2. FlattenSeq(more) = s
    BY <1>1, <1>2, FlattenOne
  <2>3. FlattenSeq(seqs) = <<>>
    BY <2>1, FlattenEmpty
  <2>4. <<>> \o s = s
    BY ConcatEmptySeq
  <2> QED  BY <2>2, <2>3, <2>4
<1>3. CASE n # 0
  <2> DEFINE m == n + 1
  <2>1. m \in Nat /\ m # 0 /\ n \in Nat /\ Follows(m, n)
    BY <1>1 DEF Follows
  <2>2. PICK f : Joins(f, seqs, n) /\ FlattenSeq(seqs) = f[n]
    BY <1>1, <1>3, FlattenIs
  <2>3. PICK g : Joins(g, more, m) /\ FlattenSeq(more) = g[m]
    <3>1. Len(more) \in Nat /\ Len(more) # 0 /\ Len(more) = m
      BY <1>1
    <3> QED  BY <3>1, FlattenIs
  <2>4. more[m] = s /\ \A k \in 1 .. n : seqs[k] = more[k]
    BY <1>1
  <2> HIDE DEF more, m, n
  <2>5. FlattenSeq(more) = FlattenSeq(seqs) \o more[m]
    BY <1>3, <2>1, <2>2, <2>3, <2>4, FlattenMore
  <2> QED  BY <2>4, <2>5 DEF more
<1> QED  BY <1>2, <1>3

-----------------------------------------------------------------------------
(***************************************************************************)
(* Texts behind one another.                                               *)
(***************************************************************************)

LEMMA TextConcat ==
  ASSUME NEW s \in Seq(Char), NEW t \in Seq(Char)
  PROVE  /\ s \o t \in Seq(Char) /\ Len(s \o t) = Len(s) + Len(t)
         /\ \A i \in 1 .. Len(s) : (s \o t)[i] = s[i]
         /\ \A i \in 1 .. Len(t) : (s \o t)[Len(s) + i] = t[i]
OBVIOUS

(***************************************************************************)
(* Searching for a mark.                                                   *)
(***************************************************************************)

(* There is a mark at p.                                                   *)
MarkAt(s, p) == \A j \in 1 .. 7 : s[p + j] = Mark[j]

LEMMA MarkLength == Len(Mark) = 7 /\ Mark \in Seq(Char) /\ Mark # <<>>
BY SplitAssumption DEF Mark

LEMMA MarkAtIs ==
  ASSUME NEW s \in Seq(Char), NEW p \in Nat, p + 7 <= Len(s)
  PROVE  SubSeq(s, p + 1, p + Len(Mark)) = Mark <=> MarkAt(s, p)
<1> DEFINE sub == SubSeq(s, p + 1, p + 7)
<1>1. Len(s) \in Nat
  OBVIOUS
<1>2. \A i \in p + 1 .. p + 7 : s[i] \in Char
  BY <1>1
<1>3. /\ sub \in Seq(Char) /\ Len(sub) = 7
      /\ \A i \in 1 .. 7 : sub[i] = s[p + i]
  <2>1. /\ sub \in Seq(Char)
        /\ Len(sub) = IF p + 1 <= p + 7 THEN (p + 7) - (p + 1) + 1 ELSE 0
        /\ \A i \in 1 .. (p + 7) - (p + 1) + 1 : sub[i] = s[(p + 1) + i - 1]
    BY <1>2, SubSeqProperties
  <2> QED  BY <2>1
<1> HIDE DEF sub
<1>4. sub = Mark => MarkAt(s, p)
  <2>1. SUFFICES ASSUME sub = Mark, NEW j \in 1 .. 7 PROVE s[p + j] = Mark[j]
    BY DEF MarkAt
  <2> QED  BY <2>1, <1>3
<1>5. MarkAt(s, p) => sub = Mark
  <2>1. SUFFICES ASSUME MarkAt(s, p) PROVE sub = Mark
    OBVIOUS
  <2>2. \A i \in 1 .. Len(sub) : sub[i] = Mark[i]
    BY <2>1, <1>3 DEF MarkAt
  <2> QED  BY <2>2, <1>3, MarkLength, SeqEqual
<1>6. p + Len(Mark) = p + 7
  BY MarkLength
<1> QED  BY <1>4, <1>5, <1>6 DEF sub

(* A search ends at the first mark, or at the end if there is none.        *)
LEMMA SearchIs ==
  ASSUME NEW s \in Seq(Char), NEW from \in Nat
  PROVE  /\ search(s, from) \in 0 .. Len(s)
         /\ search(s, from) # Len(s) => /\ from <= search(s, from)
                                        /\ search(s, from) + 7 <= Len(s)
                                        /\ MarkAt(s, search(s, from))
         /\ \A p \in Nat :
              from <= p /\ p + 7 <= Len(s) /\ MarkAt(s, p) =>
                search(s, from) <= p
<1> DEFINE hits == {p \in from .. Len(s) - Len(Mark) :
                      SubSeq(s, p + 1, p + Len(Mark)) = Mark}
           all == hits \cup {Len(s)}
<1>1. Len(s) \in Nat
  OBVIOUS
<1>2. \A p : p \in hits <=> /\ p \in Nat /\ from <= p /\ p + 7 <= Len(s)
                            /\ MarkAt(s, p)
  <2>1. \A p : p \in from .. Len(s) - Len(Mark) <=>
                 p \in Nat /\ from <= p /\ p + 7 <= Len(s)
    BY <1>1, MarkLength
  <2> QED  BY <2>1, MarkAtIs
<1> HIDE DEF hits
<1>3. all \subseteq Nat /\ all # {}
  BY <1>1, <1>2
<1>4. Min(all) \in all /\ \A y \in all : Min(all) <= y
  <2> HIDE DEF all
  <2> QED  BY <1>3, MinIs
<1>5. search(s, from) = Min(all)
  BY DEF search, hits
<1>6. Min(all) <= Len(s)
  BY <1>4
<1> HIDE DEF all
<1>7. /\ Min(all) \in Nat
      /\ Min(all) # Len(s) => Min(all) \in hits
      /\ \A p \in hits : Min(all) <= p
  BY <1>3, <1>4 DEF all
<1> QED  BY <1>1, <1>2, <1>5, <1>6, <1>7

(* What is at a place that a mark or the end is at, and no mark before it. *)
LEMMA SearchEndsAt ==
  ASSUME NEW s \in Seq(Char), NEW from \in Nat, NEW q \in Nat, from <= q,
         q = Len(s) \/ (q + 7 <= Len(s) /\ MarkAt(s, q)),
         \A p \in Nat : from <= p /\ p < q /\ p + 7 <= Len(s) => ~ MarkAt(s, p)
  PROVE  search(s, from) = q
<1> DEFINE r == search(s, from)
<1>1. Len(s) \in Nat /\ r \in Nat /\ r <= Len(s)
  BY SearchIs
<1>2. r # Len(s) => from <= r /\ r + 7 <= Len(s) /\ MarkAt(s, r)
  BY SearchIs
<1>3. q # Len(s) => r <= q
  BY SearchIs
<1> HIDE DEF r
<1>4. r < q => FALSE
  <2>1. SUFFICES ASSUME r < q PROVE FALSE
    OBVIOUS
  <2>2. r # Len(s)
    BY <2>1, <1>1
  <2> QED  BY <2>1, <2>2, <1>1, <1>2
<1>5. r = q
  BY <1>1, <1>3, <1>4
<1> QED  BY <1>5 DEF r

(* Places inside of a mark that is inside of a part of a text.             *)
LEMMA InsideMark ==
  ASSUME NEW from \in Nat, NEW n \in Nat, NEW p \in Nat, p + 7 <= n
  PROVE  \A j \in 1 .. 7 : /\ p + j \in 1 .. n
                           /\ from + (p + j) = (from + p) + j
OBVIOUS

(* A search from inside of a text is one of the rest of it.                *)
LEMMA SearchRest ==
  ASSUME NEW s \in Seq(Char), NEW y \in Seq(Char), NEW from \in Nat,
         Len(s) = from + Len(y), \A i \in 1 .. Len(y) : s[from + i] = y[i]
  PROVE  search(s, from) = from + search(y, 0)
<1> DEFINE q == search(y, 0)
<1>1. /\ Len(y) \in Nat /\ q \in 0 .. Len(y)
      /\ q # Len(y) => q + 7 <= Len(y) /\ MarkAt(y, q)
      /\ \A p \in Nat : p + 7 <= Len(y) /\ MarkAt(y, p) => q <= p
  <2>1. /\ q \in 0 .. Len(y)
        /\ q # Len(y) => 0 <= q /\ q + 7 <= Len(y) /\ MarkAt(y, q)
        /\ \A p \in Nat :
             0 <= p /\ p + 7 <= Len(y) /\ MarkAt(y, p) => q <= p
    BY SearchIs, 0 \in Nat
  <2> QED  BY <2>1
<1> HIDE DEF q
<1>2. \A p \in Nat : p + 7 <= Len(y) => (MarkAt(s, from + p) <=> MarkAt(y, p))
  <2>1. TAKE p \in Nat
  <2>2. HAVE p + 7 <= Len(y)
  <2>3. \A j \in 1 .. 7 : s[(from + p) + j] = y[p + j]
    <3>1. \A j \in 1 .. 7 : /\ p + j \in 1 .. Len(y)
                            /\ from + (p + j) = (from + p) + j
      <4>1. Len(y) \in Nat
        BY <1>1
      <4> QED  BY <2>2, <4>1, InsideMark, Zenon
    <3>2. \A j \in 1 .. 7 : s[from + (p + j)] = y[p + j]
      BY <3>1
    <3> QED  BY <3>1, <3>2
  <2> QED  BY <2>3 DEF MarkAt
<1>3. \/ from + q = Len(s)
      \/ (from + q) + 7 <= Len(s) /\ MarkAt(s, from + q)
  BY <1>1, <1>2
<1>4. ASSUME NEW p \in Nat, from <= p, p < from + q, p + 7 <= Len(s),
             MarkAt(s, p)
      PROVE  FALSE
  <2>1. p - from \in Nat /\ (p - from) + 7 <= Len(y) /\ from + (p - from) = p
    BY <1>1, <1>4
  <2>2. MarkAt(y, p - from)
    BY <2>1, <1>2, <1>4
  <2> QED  BY <2>1, <2>2, <1>1, <1>4
<1>5. search(s, from) = from + q
  <2>1. from + q \in Nat /\ from <= from + q
    BY <1>1
  <2> QED  BY <1>3, <1>4, <2>1, SearchEndsAt
<1> QED  BY <1>5 DEF q

(* A piece that ends at the mark behind it does so whatever comes next.    *)
LEMMA SearchPast ==
  ASSUME NEW piece \in Seq(Char), NEW u \in Seq(Char), EndsAtMark(piece)
  PROVE  search(piece \o (Mark \o u), 0) = Len(piece)
<1> DEFINE short == piece \o Mark
           long == piece \o (Mark \o u)
           n == Len(piece)
<1>1. /\ short \in Seq(Char) /\ long \in Seq(Char) /\ n \in Nat
      /\ Len(short) = n + 7 /\ Len(long) = (n + 7) + Len(u)
      /\ \A i \in 1 .. n + 7 : long[i] = short[i]
      /\ \A j \in 1 .. 7 : long[n + j] = Mark[j]
      /\ Len(u) \in Nat
  <2>1. /\ Mark \in Seq(Char) /\ Len(Mark) = 7
        /\ n \in Nat /\ Len(u) \in Nat
    BY MarkLength
  <2>2. /\ short \in Seq(Char) /\ Len(short) = n + 7
        /\ \A i \in 1 .. n : short[i] = piece[i]
        /\ \A i \in 1 .. 7 : short[n + i] = Mark[i]
    <3>1. /\ short \in Seq(Char) /\ Len(short) = n + Len(Mark)
          /\ \A i \in 1 .. n : short[i] = piece[i]
          /\ \A i \in 1 .. Len(Mark) : short[n + i] = Mark[i]
      BY <2>1, TextConcat, Zenon
    <3> QED  BY <3>1, <2>1
  <2>3. /\ Mark \o u \in Seq(Char) /\ Len(Mark \o u) = 7 + Len(u)
        /\ \A i \in 1 .. 7 : (Mark \o u)[i] = Mark[i]
    <3>1. /\ Mark \o u \in Seq(Char) /\ Len(Mark \o u) = Len(Mark) + Len(u)
          /\ \A i \in 1 .. Len(Mark) : (Mark \o u)[i] = Mark[i]
      BY <2>1, TextConcat, Zenon
    <3> QED  BY <3>1, <2>1
  <2>4. /\ long \in Seq(Char) /\ Len(long) = n + (7 + Len(u))
        /\ \A i \in 1 .. n : long[i] = piece[i]
        /\ \A i \in 1 .. 7 + Len(u) : long[n + i] = (Mark \o u)[i]
    <3>1. /\ long \in Seq(Char) /\ Len(long) = n + Len(Mark \o u)
          /\ \A i \in 1 .. n : long[i] = piece[i]
          /\ \A i \in 1 .. Len(Mark \o u) : long[n + i] = (Mark \o u)[i]
      BY <2>3, TextConcat, Zenon
    <3> QED  BY <3>1, <2>3
  <2> HIDE DEF short, long, n
  <2>5. \A j \in 1 .. 7 : long[n + j] = Mark[j]
    <3>1. \A j \in 1 .. 7 : j \in 1 .. 7 + Len(u)
      BY <2>1
    <3> QED  BY <3>1, <2>3, <2>4
  <2>6. ASSUME NEW i \in 1 .. n + 7 PROVE long[i] = short[i]
    <3>1. CASE i <= n
      BY <3>1, <2>1, <2>2, <2>4
    <3>2. CASE ~ (i <= n)
      <4>1. i - n \in 1 .. 7 /\ n + (i - n) = i
        BY <3>2, <2>1
      <4>2. long[n + (i - n)] = Mark[i - n] /\ short[n + (i - n)] = Mark[i - n]
        BY <4>1, <2>2, <2>5
      <4> QED  BY <4>1, <4>2
    <3> QED  BY <3>1, <3>2
  <2> QED  BY <2>1, <2>2, <2>4, <2>5, <2>6
<1>2. search(short, 0) = n
  BY DEF EndsAtMark
<1> HIDE DEF short, long, n
<1>3. \A p \in Nat : p + 7 <= n + 7 /\ MarkAt(long, p) => MarkAt(short, p)
  <2>1. TAKE p \in Nat
  <2>2. HAVE p + 7 <= n + 7 /\ MarkAt(long, p)
  <2>3. \A j \in 1 .. 7 : p + j \in 1 .. n + 7
    BY <2>2, <1>1
  <2> QED  BY <2>2, <2>3, <1>1 DEF MarkAt
<1>4. \A p \in Nat : p + 7 <= n + 7 /\ MarkAt(short, p) => n <= p
  <2>1. \A p \in Nat : 0 <= p /\ p + 7 <= Len(short) /\ MarkAt(short, p) =>
                         search(short, 0) <= p
    BY <1>1, SearchIs, 0 \in Nat
  <2> QED  BY <2>1, <1>1, <1>2
<1>5. n + 7 <= Len(long) /\ MarkAt(long, n)
  <2>1. Len(long) = (n + 7) + Len(u) /\ n \in Nat /\ Len(u) \in Nat
    BY <1>1
  <2>2. MarkAt(long, n)
    BY <1>1 DEF MarkAt
  <2> QED  BY <2>1, <2>2
<1>6. \A p \in Nat : p < n => ~ MarkAt(long, p)
  <2>1. SUFFICES ASSUME NEW p \in Nat, p < n, MarkAt(long, p) PROVE FALSE
    OBVIOUS
  <2>2. n \in Nat
    BY <1>1
  <2>3. p + 7 <= n + 7 /\ ~ (n <= p)
    BY <2>1, <2>2
  <2> QED  BY <1>3, <1>4, <2>1, <2>3
<1>7. search(long, 0) = n
  BY <1>1, <1>5, <1>6, SearchEndsAt
<1> QED  BY <1>7 DEF long, n

-----------------------------------------------------------------------------
(***************************************************************************)
(* Types.                                                                  *)
(***************************************************************************)

(* A part of a text, from a zero-based position up to another.             *)
LEMMA PartOfText ==
  ASSUME NEW s \in Seq(Char), NEW from \in Nat, NEW to \in Nat,
         from <= to, to <= Len(s)
  PROVE  /\ SubSeq(s, from + 1, to) \in Seq(Char)
         /\ Len(SubSeq(s, from + 1, to)) = to - from
         /\ \A i \in 1 .. to - from :
              SubSeq(s, from + 1, to)[i] = s[from + i]
<1> DEFINE sub == SubSeq(s, from + 1, to)
<1>1. \A i \in from + 1 .. to : s[i] \in Char
  OBVIOUS
<1>2. /\ sub \in Seq(Char)
      /\ Len(sub) = IF from + 1 <= to THEN to - (from + 1) + 1 ELSE 0
      /\ \A i \in 1 .. to - (from + 1) + 1 : sub[i] = s[(from + 1) + i - 1]
  BY <1>1, SubSeqProperties
<1> HIDE DEF sub
<1>3. \A i \in 1 .. to - from : sub[i] = s[from + i]
  <2>1. TAKE i \in 1 .. to - from
  <2>2. i \in 1 .. to - (from + 1) + 1 /\ (from + 1) + i - 1 = from + i
    OBVIOUS
  <2> QED  BY <1>2, <2>2
<1> QED  BY <1>2, <1>3 DEF sub

LEMMA TextsAreTexts ==
  ASSUME NEW s \in Seq(Char), NEW t \in Seq(Char), Len(s) = Len(t),
         \A i \in 1 .. Len(s) : s[i] = t[i]
  PROVE  s = t
BY SeqEqual

LEMMA FunctionsAreSeqs ==
  ASSUME NEW T, NEW n \in Nat, NEW f \in [1 .. n -> T]
  PROVE  f \in Seq(T) /\ Len(f) = n
OBVIOUS

LEMMA JoinedType ==
  ASSUME NEW frames \in Seq(Seq(Char))
  PROVE  Joined(frames) \in Seq(Char)
<1> DEFINE marked == [i \in DOMAIN frames |-> Mark \o frames[i]]
<1>1. \A i \in DOMAIN frames : Mark \o frames[i] \in Seq(Char)
  <2>1. TAKE i \in DOMAIN frames
  <2>2. frames[i] \in Seq(Char)
    OBVIOUS
  <2> QED  BY <2>2, MarkLength, TextConcat, Zenon
<1>2. marked \in Seq(Seq(Char))
  <2>1. Len(frames) \in Nat /\ DOMAIN frames = 1 .. Len(frames)
    OBVIOUS
  <2>2. marked \in [1 .. Len(frames) -> Seq(Char)]
    BY <1>1, <2>1
  <2> HIDE DEF marked
  <2> QED  BY <2>1, <2>2, FunctionsAreSeqs
<1> QED  BY <1>2, FlattenType DEF Joined

LEMMA PrintedType ==
  ASSUME NEW p \in Printed
  PROVE  /\ p.tag \in Seq(Char) /\ p.frames \in Seq(Seq(Char))
         /\ Joined(p.frames) \in Seq(Char) /\ TextOf(p) \in Seq(Char)
         /\ Len(TextOf(p)) < npos
<1>1. p.tag \in Seq(Char) /\ p.frames \in Seq(Seq(Char))
  BY SplitAssumption
<1>2. Joined(p.frames) \in Seq(Char)
  BY <1>1, JoinedType
<1>3. TextOf(p) \in Seq(Char)
  BY <1>1, <1>2 DEF TextOf
<1> QED  BY <1>1, <1>2, <1>3, SplitAssumption

LEMMA TrimType ==
  ASSUME NEW s \in Seq(Char)
  PROVE  trim(s) \in Seq(Char)
<1> DEFINE kept == {i \in DOMAIN s : s[i] \notin White}
<1>1. CASE kept = {}
  BY <1>1 DEF trim
<1>2. CASE kept # {}
  <2>1. Len(s) \in Nat /\ kept \subseteq 1 .. Len(s)
    OBVIOUS
  <2>2. kept \subseteq Nat /\ kept \subseteq 0 .. Len(s)
    BY <2>1
  <2> HIDE DEF kept
  <2>3. Min(kept) \in kept
    BY <1>2, <2>2, MinIs
  <2>4. Max(kept) \in kept
    BY <1>2, <2>1, <2>2, MaxIs
  <2>5. \A i \in Min(kept) .. Max(kept) : s[i] \in Char
    <3>1. Min(kept) \in 1 .. Len(s) /\ Max(kept) \in 1 .. Len(s)
      BY <2>1, <2>3, <2>4
    <3> QED  BY <2>1, <3>1
  <2>6. Min(kept) \in Int /\ Max(kept) \in Int
    <3>1. Min(kept) \in 1 .. Len(s) /\ Max(kept) \in 1 .. Len(s)
      BY <2>1, <2>3, <2>4
    <3> QED  BY <3>1
  <2>7. SubSeq(s, Min(kept), Max(kept)) \in Seq(Char)
    BY <2>5, <2>6, SubSeqProperties
  <2>8. trim(s) = SubSeq(s, Min(kept), Max(kept))
    BY <1>2 DEF trim, kept
  <2> QED  BY <2>7, <2>8
<1> QED  BY <1>1, <1>2

(* What the place of the first mark is: inside of the text, or npos.       *)
LEMMA FindIs ==
  ASSUME NEW s \in Seq(Char)
  PROVE  find(s) \in Nat
BY SearchIs, SplitAssumption, 0 \in Nat DEF find

(* The first mark behind the piece that is cut next, and what is left.     *)
LEMMA FoundIs ==
  ASSUME NEW s \in Seq(Char), NEW from \in 0 .. Len(s)
  PROVE  /\ search(s, from) \in from .. Len(s)
         /\ search(s, from) # Len(s) =>
              /\ search(s, from) + 7 <= Len(s)
              /\ MarkAt(s, search(s, from))
         /\ \A p \in Nat :
              from <= p /\ p + 7 <= Len(s) /\ MarkAt(s, p) =>
                search(s, from) <= p
<1> DEFINE r == search(s, from)
<1>1. from \in Nat /\ from <= Len(s) /\ Len(s) \in Nat
  OBVIOUS
<1>2. /\ r \in 0 .. Len(s)
      /\ r # Len(s) => from <= r /\ r + 7 <= Len(s) /\ MarkAt(s, r)
      /\ \A p \in Nat : from <= p /\ p + 7 <= Len(s) /\ MarkAt(s, p) => r <= p
  BY <1>1, SearchIs
<1> HIDE DEF r
<1>3. r \in from .. Len(s)
  BY <1>1, <1>2
<1> QED  BY <1>2, <1>3 DEF r

-----------------------------------------------------------------------------
(***************************************************************************)
(* The call.                                                               *)
(***************************************************************************)

(* How each step leaves the types, and the iterators in their order.       *)
LEMMA TagTyped ==
  ASSUME TypeOK, TakeTag
  PROVE  TypeOK'
<1> DEFINE end == Min({find(text), Len(text)})
<1>1. text \in Seq(Char) /\ Len(text) \in Nat
  <2>1. text \in Seq(Char)
    BY PrintedType DEF TypeOK
  <2> QED  BY <2>1
<1>2. end \in Nat /\ end <= Len(text)
  <2>1. {find(text), Len(text)} \subseteq Nat
    BY <1>1, FindIs
  <2>2. \A y \in {find(text), Len(text)} : end <= y
    BY <2>1, MinIs
  <2>3. end \in {find(text), Len(text)}
    BY <2>1, MinIs
  <2> QED  BY <2>1, <2>2, <2>3
<1>3. SubSeq(text, 1, end) \in Seq(Char)
  <2> HIDE DEF end
  <2>1. SubSeq(text, 0 + 1, end) \in Seq(Char)
    BY <1>1, <1>2, PartOfText, 0 \in Nat
  <2> QED  BY <2>1
<1>4. trim(SubSeq(text, 1, end)) \in Seq(Char)
  BY <1>3, TrimType
<1>5. tag' \in Seq(Char)
  BY <1>4 DEF TakeTag, TypeOK
<1> QED  BY <1>5 DEF TakeTag, TypeOK

LEMMA BodyTyped ==
  ASSUME TypeOK, TakeBody
  PROVE  /\ TypeOK'
         /\ pc' = "loop" => next_pos' = search(content', prev_pos')
<1>1. text \in Seq(Char) /\ Len(text) \in Nat
  <2>1. text \in Seq(Char)
    BY PrintedType DEF TypeOK
  <2> QED  BY <2>1
<1>2. CASE BodyStart > Len(text)
  BY <1>2 DEF TakeBody, TypeOK
<1>3. CASE ~ (BodyStart > Len(text))
  <2>1. /\ content' = SubSeq(text, BodyStart + 1, Len(text))
        /\ prev_pos' = 0 /\ next_pos' = search(content', 0) /\ pc' = "loop"
        /\ UNCHANGED <<printed, text, calc_tag, tag, str_frames>>
    BY <1>3 DEF TakeBody
  <2>2. BodyStart \in Nat
    <3>1. find(text) \in Nat /\ npos \in Nat
      BY <1>1, FindIs, SplitAssumption
    <3> HIDE DEF npos
    <3> QED  BY <3>1 DEF BodyStart
  <2>3. content' \in Seq(Char)
    BY <1>1, <1>3, <2>1, <2>2, PartOfText
  <2>4. next_pos' \in 0 .. Len(content')
    BY <2>1, <2>3, SearchIs, 0 \in Nat
  <2>5. prev_pos' \in 0 .. next_pos'
    <3>1. Len(content') \in Nat
      BY <2>3
    <3> QED  BY <2>1, <2>4, <3>1
  <2> QED  BY <2>1, <2>3, <2>4, <2>5 DEF TypeOK
<1> QED  BY <1>2, <1>3

(* What a turn of the loop finds.                                          *)
LEMMA TurnIs ==
  ASSUME TypeOK, AtNextMark, pc = "loop"
  PROVE  /\ prev_pos \in Nat /\ next_pos \in Nat /\ Len(content) \in Nat
         /\ prev_pos <= next_pos /\ next_pos <= Len(content)
         /\ next_pos # Len(content) => /\ next_pos + 7 <= Len(content)
                                       /\ MarkAt(content, next_pos)
         /\ \A p \in Nat : prev_pos <= p /\ p + 7 <= Len(content)
                             /\ MarkAt(content, p) => next_pos <= p
<1>1. /\ content \in Seq(Char) /\ next_pos \in 0 .. Len(content)
      /\ prev_pos \in 0 .. next_pos
  BY DEF TypeOK
<1>2. /\ prev_pos \in Nat /\ next_pos \in Nat /\ Len(content) \in Nat
      /\ prev_pos <= next_pos /\ next_pos <= Len(content)
  BY <1>1
<1>3. next_pos = search(content, prev_pos)
  BY DEF AtNextMark
<1>4. /\ next_pos # Len(content) => /\ next_pos + 7 <= Len(content)
                                    /\ MarkAt(content, next_pos)
      /\ \A p \in Nat : prev_pos <= p /\ p + 7 <= Len(content)
                          /\ MarkAt(content, p) => next_pos <= p
  BY <1>1, <1>2, <1>3, SearchIs
<1> QED  BY <1>2, <1>4

LEMMA CutTyped ==
  ASSUME TypeOK, AtNextMark, Cut
  PROVE  /\ TypeOK'
         /\ prev_pos' \in 0 .. Len(content)
<1>1. /\ prev_pos \in Nat /\ next_pos \in Nat /\ Len(content) \in Nat
      /\ prev_pos <= next_pos /\ next_pos + 7 <= Len(content)
  BY TurnIs DEF Cut
<1>2. prev_pos' = next_pos + 7
  BY MarkLength DEF Cut, AfterMark
<1>3. prev_pos' \in 0 .. Len(content)
  BY <1>1, <1>2
<1>4. content \in Seq(Char) /\ next_pos <= Len(content)
  BY <1>1 DEF TypeOK
<1>5. search(content, prev_pos') \in prev_pos' .. Len(content)
  BY <1>3, <1>4, FoundIs
<1>6. next_pos' \in 0 .. Len(content) /\ prev_pos' \in 0 .. next_pos'
  <2>1. next_pos' = search(content, prev_pos')
    BY DEF Cut
  <2> QED  BY <1>1, <1>3, <1>5, <2>1
<1>7. SubSeq(content, prev_pos + 1, next_pos) \in Seq(Char)
  BY <1>1, <1>4, PartOfText
<1>8. str_frames' \in Seq(Seq(Char))
  BY <1>7 DEF Cut, TypeOK
<1> QED  BY <1>3, <1>6, <1>8 DEF Cut, TypeOK

LEMMA LastTyped ==
  ASSUME TypeOK, AtNextMark, LastPiece
  PROVE  TypeOK'
<1>1. /\ prev_pos \in Nat /\ Len(content) \in Nat /\ content \in Seq(Char)
      /\ prev_pos <= Len(content)
  BY TurnIs DEF LastPiece, TypeOK
<1>2. SubSeq(content, prev_pos + 1, Len(content)) \in Seq(Char)
  BY <1>1, PartOfText
<1>3. str_frames' \in Seq(Seq(Char))
  BY <1>2 DEF LastPiece, TypeOK
<1> QED  BY <1>3 DEF LastPiece, TypeOK

(* The two iterators, at any step.                                         *)
LEMMA TypeStep ==
  ASSUME TypeOK, AtNextMark, [Next]_vars
  PROVE  TypeOK' /\ AtNextMark'
<1>1. CASE TakeTag
  BY <1>1, TagTyped DEF TakeTag, AtNextMark
<1>2. CASE TakeBody
  <2>1. pc' \in {"loop", "out_of_range"}
    BY <1>2 DEF TakeBody
  <2> QED  BY <1>2, <2>1, BodyTyped DEF AtNextMark
<1>3. CASE Cut
  BY <1>3, CutTyped DEF Cut, AtNextMark
<1>4. CASE LastPiece
  BY <1>4, LastTyped DEF LastPiece, AtNextMark
<1>5. CASE FindRequest
  <2>1. pc' \in {"undefined", "done"}
    BY <1>5 DEF FindRequest
  <2> QED  BY <1>5, <2>1 DEF FindRequest, TypeOK, AtNextMark
<1>6. CASE UNCHANGED vars
  BY <1>6 DEF vars, TypeOK, AtNextMark
<1> QED  BY <1>1, <1>2, <1>3, <1>4, <1>5, <1>6 DEF Next

LEMMA TypeInit ==
  ASSUME Init
  PROVE  TypeOK /\ AtNextMark
<1>1. Len(content) = 0 /\ str_frames \in Seq(Seq(Char)) /\ tag \in Seq(Char)
  BY DEF Init
<1> QED  BY <1>1 DEF Init, TypeOK, AtNextMark

(* Texts stay texts and the iterators of splitString in their order,       *)
(* whatever the characters, the tags and the frames.                       *)
THEOREM TypeOKHolds == Spec => []TypeOK
<1>1. TypeOK /\ AtNextMark /\ [Next]_vars => TypeOK' /\ AtNextMark'
  BY TypeStep
<1>2. Init => TypeOK /\ AtNextMark
  BY TypeInit
<1> QED  BY <1>1, <1>2, PTL DEF Spec

(* The second iterator of splitString is at the first mark at or behind    *)
(* the first one, at every turn of its loop.                               *)
THEOREM AtNextMarkHolds == Spec => []AtNextMark
<1>1. TypeOK /\ AtNextMark /\ [Next]_vars => TypeOK' /\ AtNextMark'
  BY TypeStep
<1>2. Init => TypeOK /\ AtNextMark
  BY TypeInit
<1> QED  BY <1>1, <1>2, PTL DEF Spec

-----------------------------------------------------------------------------
(***************************************************************************)
(* Nothing is lost, and no mark is left.                                   *)
(***************************************************************************)

(* A part of a text is two parts of it behind one another.                 *)
LEMMA PartsOfText ==
  ASSUME NEW s \in Seq(Char), NEW a \in Nat, NEW b \in Nat, NEW c \in Nat,
         a <= b, b <= c, c <= Len(s)
  PROVE  SubSeq(s, a + 1, c) = SubSeq(s, a + 1, b) \o SubSeq(s, b + 1, c)
<1> DEFINE m == a + 1
<1>1. m \in 1 .. Len(s) + 1 /\ b \in m - 1 .. Len(s) /\ c \in b .. Len(s)
  OBVIOUS
<1> HIDE DEF m
<1>2. SubSeq(s, m, b) \o SubSeq(s, b + 1, c) = SubSeq(s, m, c)
  BY <1>1, ConcatAdjacentSubSeq
<1> QED  BY <1>2 DEF m

(* A sequence that goes on for one more.                                   *)
LEMMA AppendIs ==
  ASSUME NEW T, NEW n \in Nat, NEW F \in Seq(T), Len(F) = n, NEW t \in T,
         NEW G \in [1 .. n + 1 -> T],
         \A i \in 1 .. n : G[i] = F[i], G[n + 1] = t
  PROVE  G = Append(F, t)
<1>1. G \in Seq(T) /\ Len(G) = n + 1
  <2>1. n + 1 \in Nat
    OBVIOUS
  <2> QED  BY <2>1, FunctionsAreSeqs
<1>2. /\ Append(F, t) \in Seq(T) /\ Len(Append(F, t)) = n + 1
      /\ \A i \in 1 .. n : Append(F, t)[i] = F[i]
      /\ Append(F, t)[n + 1] = t
  OBVIOUS
<1>3. \A i \in 1 .. n + 1 : G[i] = Append(F, t)[i]
  BY <1>2
<1> QED  BY <1>1, <1>2, <1>3, SeqEqual

(* The pieces, each with a mark behind it.                                 *)
Marked(frames) == [i \in DOMAIN frames |-> frames[i] \o Mark]

LEMMA MarkedAppend ==
  ASSUME NEW frames \in Seq(Seq(Char)), NEW s \in Seq(Char)
  PROVE  /\ Marked(frames) \in Seq(Seq(Char)) /\ s \o Mark \in Seq(Char)
         /\ Marked(Append(frames, s)) = Append(Marked(frames), s \o Mark)
<1> DEFINE more == Append(frames, s)
           n == Len(frames)
<1>1. /\ n \in Nat /\ DOMAIN frames = 1 .. n
      /\ DOMAIN more = 1 .. n + 1 /\ more[n + 1] = s
      /\ \A i \in 1 .. n : more[i] = frames[i] /\ frames[i] \in Seq(Char)
  OBVIOUS
<1> HIDE DEF more, n
<1>2. \A i \in 1 .. n : frames[i] \o Mark \in Seq(Char)
  BY <1>1, MarkLength, TextConcat
<1>3. s \o Mark \in Seq(Char)
  BY MarkLength, TextConcat, Zenon
<1>4. Marked(frames) = [i \in 1 .. n |-> frames[i] \o Mark]
  BY <1>1 DEF Marked
<1>5. Marked(frames) \in [1 .. n -> Seq(Char)]
  BY <1>2, <1>4
<1>6. Marked(frames) \in Seq(Seq(Char)) /\ Len(Marked(frames)) = n
  BY <1>1, <1>5, FunctionsAreSeqs
<1>7. Marked(more) = [i \in 1 .. n + 1 |-> more[i] \o Mark]
  BY <1>1 DEF Marked
<1>8. \A i \in 1 .. n : more[i] \o Mark = Marked(frames)[i]
  BY <1>1, <1>4
<1>9. more[n + 1] \o Mark = s \o Mark
  BY <1>1
<1> DEFINE t == s \o Mark
           F == Marked(frames)
<1>10. /\ F \in Seq(Seq(Char)) /\ Len(F) = n /\ t \in Seq(Char)
       /\ \A i \in 1 .. n : Marked(more)[i] = F[i]
       /\ Marked(more)[n + 1] = t
       /\ Marked(more) \in [1 .. n + 1 -> Seq(Char)]
  <2>1. \A i \in 1 .. n + 1 : i \in 1 .. n \/ i = n + 1
    BY <1>1
  <2>2. \A i \in 1 .. n + 1 : more[i] \o Mark \in Seq(Char)
    BY <1>1, <1>2, <1>3, <2>1
  <2>3. Marked(more) \in [1 .. n + 1 -> Seq(Char)]
    BY <1>7, <2>2
  <2>4. n + 1 \in 1 .. n + 1 /\ \A i \in 1 .. n : i \in 1 .. n + 1
    BY <1>1
  <2> QED  BY <1>3, <1>6, <1>7, <1>8, <1>9, <2>3, <2>4
<1> HIDE DEF t, F
<1>11. Marked(more) = Append(F, t)
  BY <1>1, <1>10, AppendIs
<1> QED  BY <1>3, <1>6, <1>11 DEF t, F, more

LEMMA TextAssociative ==
  ASSUME NEW s \in Seq(Char), NEW t \in Seq(Char), NEW u \in Seq(Char)
  PROVE  (s \o t) \o u = s \o (t \o u)
BY ConcatAssociative

LEMMA Rebuild ==
  ASSUME NEW F \in Seq(Char), NEW piece \in Seq(Char), NEW u \in Seq(Char)
  PROVE  F \o (piece \o (Mark \o u)) = (F \o (piece \o Mark)) \o u
<1>1. Mark \in Seq(Char) /\ piece \o Mark \in Seq(Char)
  BY MarkLength, TextConcat
<1>2. (piece \o Mark) \o u = piece \o (Mark \o u)
  BY <1>1, TextAssociative, Zenon
<1>3. (F \o (piece \o Mark)) \o u = F \o ((piece \o Mark) \o u)
  BY <1>1, TextAssociative, Zenon
<1> QED  BY <1>2, <1>3, Zenon

(* What is left of a text, taken apart at the mark that is found.          *)
LEMMA RestAtMark ==
  ASSUME NEW s \in Seq(Char), NEW a \in Nat, NEW b \in Nat,
         a <= b, b + 7 <= Len(s), MarkAt(s, b)
  PROVE  SubSeq(s, a + 1, Len(s)) =
           SubSeq(s, a + 1, b) \o (Mark \o SubSeq(s, b + 7 + 1, Len(s)))
<1>1. /\ Len(s) \in Nat /\ b + 7 \in Nat /\ b <= b + 7 /\ b <= Len(s)
      /\ Len(s) <= Len(s)
  OBVIOUS
<1>2. SubSeq(s, a + 1, Len(s)) =
        SubSeq(s, a + 1, b) \o SubSeq(s, b + 1, Len(s))
  BY <1>1, PartsOfText, Zenon
<1>3. SubSeq(s, b + 1, Len(s)) =
        SubSeq(s, b + 1, b + 7) \o SubSeq(s, b + 7 + 1, Len(s))
  BY <1>1, PartsOfText, Zenon
<1>4. SubSeq(s, b + 1, b + 7) = Mark
  <2>1. SubSeq(s, b + 1, b + Len(Mark)) = Mark
    BY MarkAtIs
  <2> QED  BY <2>1, MarkLength
<1> QED  BY <1>2, <1>3, <1>4

(* Nothing of the text is lost, doubled or moved in a step.                *)
LEMMA PiecesStep ==
  ASSUME TypeOK, AtNextMark, PiecesRebuildContent, [Next]_vars
  PROVE  PiecesRebuildContent'
<1>1. CASE TakeTag
  BY <1>1 DEF TakeTag, PiecesRebuildContent
<1>2. CASE TakeBody
  <2>1. SUFFICES ASSUME pc' = "loop" PROVE PiecesRebuildContent'
    BY DEF PiecesRebuildContent
  <2>2. content' \in Seq(Char) /\ prev_pos' = 0 /\ str_frames' = <<>>
    BY <1>2, <2>1, BodyTyped DEF TakeBody, AtNextMark, TypeOK
  <2>3. FlattenSeq([i \in DOMAIN str_frames' |-> str_frames'[i] \o Mark]) = <<>>
    <3>1. [i \in DOMAIN str_frames' |-> str_frames'[i] \o Mark] = <<>>
      BY <2>2
    <3> QED  BY <3>1, FlattenEmpty
  <2>4. SubSeq(content', prev_pos' + 1, Len(content')) = content'
    <3>1. SubSeq(content', 1, Len(content')) = content'
      BY <2>2, SubSeqFull
    <3> QED  BY <2>2, <3>1
  <2>5. content' = <<>> \o content'
    BY <2>2, ConcatEmptySeq
  <2> QED  BY <2>3, <2>4, <2>5 DEF PiecesRebuildContent
<1>3. CASE Cut
  <2> DEFINE piece == SubSeq(content, prev_pos + 1, next_pos)
             u == SubSeq(content, next_pos + 7 + 1, Len(content))
             F == FlattenSeq(Marked(str_frames))
  <2>1. /\ prev_pos \in Nat /\ next_pos \in Nat /\ Len(content) \in Nat
        /\ prev_pos <= next_pos /\ next_pos + 7 <= Len(content)
        /\ MarkAt(content, next_pos)
    BY <1>3, TurnIs DEF Cut
  <2>2. content \in Seq(Char) /\ str_frames \in Seq(Seq(Char))
    BY DEF TypeOK
  <2>3. piece \in Seq(Char) /\ u \in Seq(Char)
    <3>1. next_pos + 7 \in Nat /\ next_pos <= Len(content)
      BY <2>1
    <3> QED  BY <2>1, <2>2, <3>1, PartOfText
  <2>4. SubSeq(content, prev_pos + 1, Len(content)) = piece \o (Mark \o u)
    BY <2>1, <2>2, RestAtMark
  <2>5. content = F \o SubSeq(content, prev_pos + 1, Len(content))
    BY <1>3 DEF Cut, PiecesRebuildContent, Marked
  <2>6. F \in Seq(Char)
    BY <2>2, <2>3, MarkedAppend, FlattenType
  <2>7. FlattenSeq(Marked(str_frames')) = F \o (piece \o Mark)
    <3>1. /\ Marked(str_frames) \in Seq(Seq(Char)) /\ piece \o Mark \in Seq(Char)
          /\ Marked(Append(str_frames, piece)) =
               Append(Marked(str_frames), piece \o Mark)
      BY <2>2, <2>3, MarkedAppend
    <3>2. FlattenSeq(Append(Marked(str_frames), piece \o Mark)) =
            F \o (piece \o Mark)
      BY <3>1, FlattenAppend
    <3>3. str_frames' = Append(str_frames, piece)
      BY <1>3 DEF Cut
    <3> QED  BY <3>1, <3>2, <3>3
  <2>8. content' = content /\ prev_pos' = next_pos + 7
    BY <1>3, MarkLength DEF Cut, AfterMark
  <2>9. SubSeq(content', prev_pos' + 1, Len(content')) = u
    BY <2>8
  <2> HIDE DEF piece, u, F
  <2>10. content = (F \o (piece \o Mark)) \o u
    <3>1. F \o (piece \o (Mark \o u)) = (F \o (piece \o Mark)) \o u
      BY <2>3, <2>6, Rebuild, Zenon
    <3> QED  BY <2>4, <2>5, <3>1
  <2> QED  BY <2>7, <2>8, <2>9, <2>10 DEF PiecesRebuildContent, Marked
<1>4. CASE LastPiece
  BY <1>4 DEF LastPiece, PiecesRebuildContent
<1>5. CASE FindRequest
  <2>1. pc' # "loop"
    BY <1>5 DEF FindRequest
  <2> QED  BY <2>1 DEF PiecesRebuildContent
<1>6. CASE UNCHANGED vars
  BY <1>6 DEF vars, PiecesRebuildContent
<1> QED  BY <1>1, <1>2, <1>3, <1>4, <1>5, <1>6 DEF Next

(* A mark in a part of a text is one in the text.                          *)
LEMMA MarkInPart ==
  ASSUME NEW s \in Seq(Char), NEW a \in Nat, NEW c \in Nat, a <= c, c <= Len(s),
         NEW p \in Nat, p + 7 <= c - a
  PROVE  MarkAt(SubSeq(s, a + 1, c), p) <=> MarkAt(s, a + p)
<1> DEFINE x == SubSeq(s, a + 1, c)
<1>1. \A i \in 1 .. c - a : x[i] = s[a + i]
  BY PartOfText
<1> HIDE DEF x
<1>2. \A j \in 1 .. 7 : x[p + j] = s[(a + p) + j]
  <2>1. TAKE j \in 1 .. 7
  <2>2. p + j \in 1 .. c - a /\ a + (p + j) = (a + p) + j
    OBVIOUS
  <2>3. x[p + j] = s[a + (p + j)]
    BY <1>1, <2>2
  <2> QED  BY <2>2, <2>3
<1>3. MarkAt(x, p) <=> MarkAt(s, a + p)
  BY <1>2 DEF MarkAt
<1> QED  BY <1>3 DEF x

(* A part that goes up to the first mark has none in it, and none that it  *)
(* makes with the mark behind it.                                          *)
LEMMA CutHere ==
  ASSUME NEW s \in Seq(Char), NEW a \in Nat, NEW b \in Nat,
         a <= b, b <= Len(s),
         \A p \in Nat : a <= p /\ p + 7 <= Len(s) /\ MarkAt(s, p) => b <= p
  PROVE  /\ Unmarked(SubSeq(s, a + 1, b))
         /\ b + 7 <= Len(s) /\ MarkAt(s, b) => EndsAtMark(SubSeq(s, a + 1, b))
<1> DEFINE piece == SubSeq(s, a + 1, b)
           n == b - a
<1>1. /\ Len(s) \in Nat /\ n \in Nat /\ a + n = b
      /\ piece \in Seq(Char) /\ Len(piece) = n
  <2>1. Len(s) \in Nat /\ n \in Nat /\ a + n = b
    OBVIOUS
  <2> QED  BY <2>1, PartOfText
<1>2. ASSUME NEW p \in Nat, p < n PROVE a + p \in Nat /\ a <= a + p /\ a + p < b
  BY <1>1, <1>2
<1>3. Unmarked(piece)
  <2>1. ASSUME NEW p \in Nat, p < n, p + 7 <= n, MarkAt(piece, p) PROVE FALSE
    <3>1. MarkAt(s, a + p)
      BY <2>1, MarkInPart
    <3>2. (a + p) + 7 <= Len(s)
      BY <1>1, <2>1
    <3> QED  BY <1>1, <1>2, <2>1, <3>1, <3>2
  <2> HIDE DEF piece, n
  <2>2. search(piece, 0) = n
    <3>1. 0 <= n /\ 0 \in Nat /\ n = Len(piece)
      BY <1>1
    <3> QED  BY <1>1, <2>1, <3>1, SearchEndsAt
  <2> QED  BY <1>1, <2>2 DEF Unmarked
<1>4. ASSUME b + 7 <= Len(s), MarkAt(s, b) PROVE EndsAtMark(piece)
  <2> DEFINE t == SubSeq(s, a + 1, b + 7)
  <2>1. b + 7 \in Nat /\ b <= b + 7 /\ a <= b + 7 /\ (b + 7) - a = n + 7
    OBVIOUS
  <2>2. t = piece \o Mark
    <3>1. t = piece \o SubSeq(s, b + 1, b + 7)
      BY <1>4, <2>1, PartsOfText, Zenon
    <3>2. SubSeq(s, b + 1, b + Len(Mark)) = Mark
      BY <1>4, MarkAtIs
    <3> QED  BY <3>1, <3>2, MarkLength
  <2>3. t \in Seq(Char) /\ Len(t) = n + 7
    BY <1>4, <2>1, PartOfText
  <2>4. MarkAt(t, n)
    BY <1>1, <1>4, <2>1, MarkInPart
  <2>5. ASSUME NEW p \in Nat, p < n, p + 7 <= n + 7, MarkAt(t, p) PROVE FALSE
    <3>1. MarkAt(s, a + p)
      BY <1>4, <2>1, <2>5, MarkInPart
    <3>2. (a + p) + 7 <= Len(s)
      BY <1>1, <1>4, <2>5
    <3> QED  BY <1>1, <1>2, <2>5, <3>1, <3>2
  <2> HIDE DEF piece, n, t
  <2>6. search(t, 0) = n
    <3>1. 0 <= n /\ 0 \in Nat /\ n + 7 <= Len(t)
      BY <1>1, <2>3
    <3> QED  BY <1>1, <2>3, <2>4, <2>5, <3>1, SearchEndsAt
  <2> QED  BY <1>1, <2>2, <2>6 DEF EndsAtMark
<1> QED  BY <1>3, <1>4

(* Each piece is cut at the first mark, and keeps none.                    *)
LEMMA MarksStep ==
  ASSUME TypeOK, AtNextMark, CutAtFirstMark, [Next]_vars
  PROVE  CutAtFirstMark'
<1>1. CASE TakeTag
  BY <1>1 DEF TakeTag, CutAtFirstMark, AtNextMark
<1>2. CASE TakeBody
  BY <1>2 DEF TakeBody, CutAtFirstMark, AtNextMark
<1>3. ASSUME Cut \/ LastPiece,
             NEW piece, piece = SubSeq(content, prev_pos + 1, next_pos),
             str_frames' = Append(str_frames, piece)
      PROVE  CutAtFirstMark'
  <2>1. /\ prev_pos \in Nat /\ next_pos \in Nat
        /\ prev_pos <= next_pos /\ next_pos <= Len(content)
        /\ content \in Seq(Char)
        /\ next_pos # Len(content) => /\ next_pos + 7 <= Len(content)
                                      /\ MarkAt(content, next_pos)
        /\ \A p \in Nat : prev_pos <= p /\ p + 7 <= Len(content)
                            /\ MarkAt(content, p) => next_pos <= p
    BY <1>3, TurnIs DEF Cut, LastPiece, TypeOK
  <2>2. /\ Unmarked(piece)
        /\ next_pos # Len(content) => EndsAtMark(piece)
    BY <1>3, <2>1, CutHere
  <2>3. pc' = "loop" => next_pos # Len(content)
    BY <1>3 DEF Cut, LastPiece
  <2>4. \A i \in DOMAIN str_frames :
          Unmarked(str_frames[i]) /\ EndsAtMark(str_frames[i])
    BY <1>3 DEF Cut, LastPiece, CutAtFirstMark
  <2>5. \A i \in DOMAIN str_frames' :
          \/ i \in DOMAIN str_frames /\ str_frames'[i] = str_frames[i]
          \/ str_frames'[i] = piece
    <3>1. str_frames \in Seq(Seq(Char)) /\ Len(str_frames) \in Nat
      BY DEF TypeOK
    <3>2. piece \in Seq(Char)
      BY <1>3, <2>1, PartOfText
    <3>3. /\ DOMAIN str_frames = 1 .. Len(str_frames)
          /\ DOMAIN str_frames' = 1 .. Len(str_frames) + 1
          /\ \A i \in 1 .. Len(str_frames) : str_frames'[i] = str_frames[i]
          /\ str_frames'[Len(str_frames) + 1] = piece
      BY <1>3, <3>1, <3>2
    <3>4. \A i \in 1 .. Len(str_frames) + 1 :
            i \in 1 .. Len(str_frames) \/ i = Len(str_frames) + 1
      BY <3>1
    <3> QED  BY <3>3, <3>4
  <2> QED  BY <2>2, <2>3, <2>4, <2>5 DEF CutAtFirstMark
<1>4. CASE Cut
  BY <1>3, <1>4 DEF Cut
<1>5. CASE LastPiece
  <2>1. CASE str_frames' = str_frames
    <3>1. pc' # "loop"
      BY <1>5 DEF LastPiece
    <3> QED  BY <2>1, <3>1 DEF CutAtFirstMark
  <2>2. CASE str_frames' # str_frames
    BY <1>3, <1>5, <2>2 DEF LastPiece
  <2> QED  BY <2>1, <2>2
<1>6. CASE FindRequest
  <2>1. pc' # "loop" /\ str_frames' = str_frames
    BY <1>6 DEF FindRequest
  <2> QED  BY <2>1 DEF CutAtFirstMark
<1>7. CASE UNCHANGED vars
  BY <1>7 DEF vars, CutAtFirstMark
<1> QED  BY <1>1, <1>2, <1>4, <1>5, <1>6, <1>7 DEF Next

(* Nothing of the text is lost, doubled or moved by splitString, at any    *)
(* turn of its loop.                                                       *)
THEOREM PiecesRebuildContentHolds == Spec => []PiecesRebuildContent
<1>1. /\ TypeOK /\ AtNextMark /\ PiecesRebuildContent /\ [Next]_vars
        => PiecesRebuildContent'
  BY PiecesStep
<1>2. Init => PiecesRebuildContent
  BY DEF Init, PiecesRebuildContent
<1> QED  BY <1>1, <1>2, TypeOKHolds, AtNextMarkHolds, PTL DEF Spec

(* splitString cuts a piece at the first mark, and leaves no mark in one.  *)
THEOREM CutAtFirstMarkHolds == Spec => []CutAtFirstMark
<1>1. TypeOK /\ AtNextMark /\ CutAtFirstMark /\ [Next]_vars => CutAtFirstMark'
  BY MarksStep
<1>2. Init => CutAtFirstMark
  BY DEF Init, CutAtFirstMark
<1> QED  BY <1>1, <1>2, TypeOKHolds, AtNextMarkHolds, PTL DEF Spec

-----------------------------------------------------------------------------
(***************************************************************************)
(* Frames that can be told apart are read back.                            *)
(***************************************************************************)

(* One more frame is printed behind the others, with a mark before it.     *)
LEMMA JoinedAppend ==
  ASSUME NEW frames \in Seq(Seq(Char)), NEW s \in Seq(Char)
  PROVE  Joined(Append(frames, s)) = Joined(frames) \o (Mark \o s)
<1> DEFINE more == Append(frames, s)
           n == Len(frames)
           t == Mark \o s
           F == [i \in DOMAIN frames |-> Mark \o frames[i]]
           G == [i \in DOMAIN more |-> Mark \o more[i]]
<1>1. /\ n \in Nat /\ DOMAIN frames = 1 .. n
      /\ DOMAIN more = 1 .. n + 1 /\ more[n + 1] = s
      /\ \A i \in 1 .. n : more[i] = frames[i] /\ frames[i] \in Seq(Char)
      /\ \A i \in 1 .. n + 1 : i \in 1 .. n \/ i = n + 1
  OBVIOUS
<1> HIDE DEF more, n
<1>2. \A i \in 1 .. n : Mark \o frames[i] \in Seq(Char)
  BY <1>1, MarkLength, TextConcat
<1>3. t \in Seq(Char)
  BY MarkLength, TextConcat, Zenon
<1>4. F \in Seq(Seq(Char)) /\ Len(F) = n
  <2>1. F \in [1 .. n -> Seq(Char)]
    BY <1>1, <1>2
  <2> HIDE DEF F
  <2> QED  BY <1>1, <2>1, FunctionsAreSeqs
<1>5. G = [i \in 1 .. n + 1 |-> Mark \o more[i]]
  BY <1>1
<1>6. \A i \in 1 .. n + 1 : Mark \o more[i] \in Seq(Char)
  BY <1>1, <1>2, <1>3
<1>7. G \in [1 .. n + 1 -> Seq(Char)]
  BY <1>5, <1>6
<1>8. \A i \in 1 .. n : G[i] = F[i]
  <2>1. \A i \in 1 .. n : i \in 1 .. n + 1
    BY <1>1
  <2> QED  BY <1>1, <1>5, <2>1
<1>9. G[n + 1] = t
  <2>1. n + 1 \in 1 .. n + 1
    BY <1>1
  <2> QED  BY <1>1, <1>5, <2>1
<1> HIDE DEF F, G, t
<1>10. G = Append(F, t)
  BY <1>1, <1>3, <1>4, <1>7, <1>8, <1>9, AppendIs
<1>11. FlattenSeq(G) = FlattenSeq(F) \o t
  BY <1>3, <1>4, <1>10, FlattenAppend
<1> QED  BY <1>11 DEF Joined, F, G, t, more

(* The first frames of a sequence of them.                                 *)
First(frames, n) == SubSeq(frames, 1, n)

LEMMA FirstIs ==
  ASSUME NEW frames \in Seq(Seq(Char)), NEW n \in Nat, n < Len(frames)
  PROVE  /\ First(frames, n) \in Seq(Seq(Char)) /\ Len(First(frames, n)) = n
         /\ frames[n + 1] \in Seq(Char)
         /\ First(frames, n + 1) = Append(First(frames, n), frames[n + 1])
<1>1. Len(frames) \in Nat /\ n + 1 \in 1 .. Len(frames)
  OBVIOUS
<1>2. frames[n + 1] \in Seq(Char)
  BY <1>1
<1>3. First(frames, n) \in Seq(Seq(Char)) /\ Len(First(frames, n)) = n
  BY <1>1 DEF First
<1>4. /\ First(frames, n + 1) \in [1 .. n + 1 -> Seq(Char)]
      /\ \A i \in 1 .. n : First(frames, n + 1)[i] = First(frames, n)[i]
      /\ First(frames, n + 1)[n + 1] = frames[n + 1]
  <2>1. \A m \in Nat : m <= Len(frames) =>
          First(frames, m) = [i \in 1 .. m |-> frames[i]]
    BY DEF First
  <2>2. /\ n + 1 \in Nat /\ n <= Len(frames) /\ n + 1 <= Len(frames)
        /\ \A i \in 1 .. n : i \in 1 .. n + 1
        /\ n + 1 \in 1 .. n + 1
        /\ \A i \in 1 .. n + 1 : frames[i] \in Seq(Char)
    BY <1>1
  <2>3. /\ First(frames, n) = [i \in 1 .. n |-> frames[i]]
        /\ First(frames, n + 1) = [i \in 1 .. n + 1 |-> frames[i]]
    BY <2>1, <2>2
  <2> QED  BY <2>2, <2>3
<1>5. First(frames, n + 1) = Append(First(frames, n), frames[n + 1])
  BY <1>2, <1>3, <1>4, AppendIs
<1> QED  BY <1>2, <1>3, <1>5

LEMMA JoinedFirst ==
  ASSUME NEW frames \in Seq(Seq(Char)), NEW n \in Nat, n < Len(frames)
  PROVE  /\ Joined(First(frames, n)) \in Seq(Char)
         /\ Joined(First(frames, n + 1)) =
              Joined(First(frames, n)) \o (Mark \o frames[n + 1])
<1>1. /\ First(frames, n) \in Seq(Seq(Char)) /\ frames[n + 1] \in Seq(Char)
      /\ First(frames, n + 1) = Append(First(frames, n), frames[n + 1])
  BY FirstIs
<1> QED  BY <1>1, JoinedType, JoinedAppend

LEMMA JoinedNone ==
  ASSUME NEW frames
  PROVE  First(frames, 0) = <<>> /\ Joined(<<>>) = <<>>
<1>1. [i \in DOMAIN <<>> |-> Mark \o <<>>[i]] = <<>>
  OBVIOUS
<1>2. Joined(<<>>) = <<>>
  BY <1>1, FlattenEmpty DEF Joined
<1>3. First(frames, 0) = <<>>
  BY SubSeqEmpty DEF First
<1> QED  BY <1>2, <1>3

(* What was printed first is at the start of what was printed.             *)
LEMMA JoinedPrefix ==
  ASSUME NEW frames \in Seq(Seq(Char)), NEW n \in Nat, n <= Len(frames)
  PROVE  \E rest \in Seq(Char) :
           /\ Joined(frames) = Joined(First(frames, n)) \o rest
           /\ n = Len(frames) => rest = <<>>
<1> DEFINE m == Len(frames)
           J(k) == Joined(First(frames, k))
           S == {k \in Nat : k <= m => \E rest \in Seq(Char) :
                                         /\ Joined(frames) = J(m - k) \o rest
                                         /\ k = 0 => rest = <<>>}
<1>1. m \in Nat /\ First(frames, m) = frames /\ Joined(frames) \in Seq(Char)
  BY JoinedType, SubSeqFull DEF First
<1>2. 0 \in S
  <2>1. m - 0 = m /\ <<>> \in Seq(Char)
    BY <1>1
  <2>2. Joined(frames) = Joined(frames) \o <<>>
    BY <1>1, ConcatEmptySeq
  <2>3. Joined(frames) = J(m - 0) \o <<>>
    BY <1>1, <2>1, <2>2
  <2> HIDE DEF J, m
  <2> QED  BY <2>1, <2>3
<1>3. ASSUME NEW k \in Nat, k \in S PROVE k + 1 \in S
  <2>1. SUFFICES ASSUME k + 1 <= m
                 PROVE  \E rest \in Seq(Char) :
                          Joined(frames) = J(m - (k + 1)) \o rest
    <3>1. k + 1 # 0 /\ k + 1 \in Nat
      OBVIOUS
    <3> HIDE DEF J
    <3> QED  BY <3>1
  <2> DEFINE b == m - (k + 1)
  <2>2. b \in Nat /\ b < Len(frames) /\ b + 1 = m - k /\ k <= m
    BY <1>1, <2>1
  <2>3. PICK rest \in Seq(Char) : Joined(frames) = J(b + 1) \o rest
    BY <1>3, <2>2
  <2> HIDE DEF b
  <2>4. /\ J(b) \in Seq(Char) /\ frames[b + 1] \in Seq(Char)
        /\ J(b + 1) = J(b) \o (Mark \o frames[b + 1])
    BY <2>2, JoinedFirst, FirstIs
  <2> DEFINE f == Mark \o frames[b + 1]
  <2>5. f \in Seq(Char)
    BY <2>4, MarkLength, TextConcat, Zenon
  <2> HIDE DEF J, f
  <2>6. (J(b) \o f) \o rest = J(b) \o (f \o rest)
    BY <2>4, <2>5, TextAssociative, Zenon
  <2>7. f \o rest \in Seq(Char)
    BY <2>5, TextConcat, Zenon
  <2>8. Joined(frames) = J(b) \o (f \o rest)
    BY <2>3, <2>4, <2>6 DEF f
  <2> QED  BY <2>7, <2>8 DEF b
<1>4. Nat \subseteq S
  <2> HIDE DEF S
  <2> QED  BY <1>2, <1>3, AllNat
<1>5. m - n \in Nat /\ m - n <= m /\ m - (m - n) = n /\ (m - n = 0 <=> n = m)
  BY <1>1
<1>6. m - n \in S
  BY <1>4, <1>5
<1> HIDE DEF J, m
<1>7. \E rest \in Seq(Char) : /\ Joined(frames) = J(m - (m - n)) \o rest
                              /\ m - n = 0 => rest = <<>>
  BY <1>5, <1>6
<1>8. \E rest \in Seq(Char) : /\ Joined(frames) = J(n) \o rest
                              /\ n = m => rest = <<>>
  BY <1>5, <1>7
<1> QED  BY <1>8 DEF J, m

(* What follows the frames printed so far: a mark and the next frame, and  *)
(* behind that one a mark again unless it is the last.                     *)
LEMMA NextFrame ==
  ASSUME NEW frames \in Seq(Seq(Char)), NEW n \in Nat, n < Len(frames)
  PROVE  \E y \in Seq(Char) :
           /\ Joined(frames) = Joined(First(frames, n)) \o (Mark \o y)
           /\ n + 1 = Len(frames) => y = frames[n + 1]
           /\ n + 1 < Len(frames) =>
                \E u \in Seq(Char) : y = frames[n + 1] \o (Mark \o u)
<1> DEFINE A == Joined(First(frames, n))
           f == frames[n + 1]
<1>1. /\ A \in Seq(Char) /\ f \in Seq(Char)
      /\ Joined(First(frames, n + 1)) = A \o (Mark \o f)
      /\ Len(frames) \in Nat /\ Mark \in Seq(Char)
  BY JoinedFirst, FirstIs, MarkLength
<1>2. Mark \o f \in Seq(Char)
  BY <1>1, TextConcat, Zenon
<1> DEFINE Goal ==
      \E y \in Seq(Char) :
        /\ Joined(frames) = A \o (Mark \o y)
        /\ n + 1 = Len(frames) => y = f
        /\ n + 1 < Len(frames) => \E u \in Seq(Char) : y = f \o (Mark \o u)
<1>3. ASSUME n + 1 = Len(frames) PROVE Goal
  <2>1. First(frames, n + 1) = frames
    BY <1>3, SubSeqFull DEF First
  <2>2. Joined(frames) = A \o (Mark \o f) /\ ~ (n + 1 < Len(frames))
    BY <1>1, <1>3, <2>1
  <2> HIDE DEF A, f
  <2> QED  BY <1>1, <2>2
<1>4. ASSUME n + 1 < Len(frames) PROVE Goal
  <2> DEFINE g == frames[(n + 1) + 1]
             h == Mark \o f
             k == Mark \o g
  <2>1. n + 1 \in Nat /\ (n + 1) + 1 \in Nat /\ (n + 1) + 1 <= Len(frames)
    BY <1>1, <1>4
  <2>2. PICK rest \in Seq(Char) :
          Joined(frames) = Joined(First(frames, (n + 1) + 1)) \o rest
    BY <2>1, JoinedPrefix
  <2>3. g \in Seq(Char) /\ Joined(First(frames, (n + 1) + 1)) = (A \o h) \o k
    BY <1>1, <1>4, <2>1, JoinedFirst, FirstIs
  <2> DEFINE u == g \o rest
             v == Mark \o u
  <2>4. h \in Seq(Char) /\ k \in Seq(Char) /\ u \in Seq(Char)
    BY <1>1, <1>2, <2>3, TextConcat, Zenon
  <2>5. v \in Seq(Char)
    BY <1>1, <2>4, TextConcat, Zenon
  <2>6. k \o rest = v
    <3>1. Mark \in Seq(Char) /\ g \in Seq(Char) /\ rest \in Seq(Char)
      BY <1>1, <2>3
    <3> HIDE DEF g
    <3>2. (Mark \o g) \o rest = Mark \o (g \o rest)
      BY <3>1, TextAssociative, Zenon
    <3> QED  BY <3>2
  <2> HIDE DEF A, f, g, h, k, u, v
  <2>7. A \o h \in Seq(Char)
    BY <1>1, <2>4, TextConcat, Zenon
  <2>8. ((A \o h) \o k) \o rest = (A \o h) \o (k \o rest)
    BY <2>4, <2>7, TextAssociative, Zenon
  <2>9. (A \o h) \o v = A \o (h \o v)
    <3>1. A \in Seq(Char) /\ h \in Seq(Char) /\ v \in Seq(Char)
      BY <1>1, <2>4, <2>5
    <3> QED  BY <3>1, TextAssociative, Zenon
  <2>10. h \o v = Mark \o (f \o v)
    <3>1. (Mark \o f) \o v = Mark \o (f \o v)
      BY <1>1, <2>5, TextAssociative, Zenon
    <3> QED  BY <3>1 DEF h
  <2>11. f \o v \in Seq(Char)
    BY <1>1, <2>5, TextConcat, Zenon
  <2>12. Joined(frames) = A \o (Mark \o (f \o v))
    BY <2>2, <2>3, <2>6, <2>8, <2>9, <2>10
  <2>13. n + 1 # Len(frames)
    BY <1>1, <1>4
  <2>14. \E w \in Seq(Char) : f \o v = f \o (Mark \o w)
    BY <2>4 DEF v
  <2> DEFINE y == f \o v
  <2> HIDE DEF y
  <2>15. /\ y \in Seq(Char) /\ Joined(frames) = A \o (Mark \o y)
         /\ \E w \in Seq(Char) : y = f \o (Mark \o w)
    BY <2>11, <2>12, <2>14 DEF y
  <2> QED  BY <2>13, <2>15
<1>5. n + 1 = Len(frames) \/ n + 1 < Len(frames)
  BY <1>1
<1>6. Goal
  <2> HIDE DEF Goal
  <2> QED  BY <1>3, <1>4, <1>5
<1> QED  BY <1>6

(* The same, with where the search for the mark behind the frame ends.     *)
LEMMA NextFrameFound ==
  ASSUME NEW frames \in Seq(Seq(Char)), NEW n \in Nat, n < Len(frames),
         IF n + 1 < Len(frames) THEN EndsAtMark(frames[n + 1])
         ELSE Unmarked(frames[n + 1])
  PROVE  \E y \in Seq(Char) :
           /\ Joined(frames) = Joined(First(frames, n)) \o (Mark \o y)
           /\ search(y, 0) = Len(frames[n + 1])
           /\ n + 1 = Len(frames) => y = frames[n + 1]
           /\ n + 1 < Len(frames) => Len(frames[n + 1]) + 7 <= Len(y)
           /\ SubSeq(y, 1, Len(frames[n + 1])) = frames[n + 1]
<1> DEFINE f == frames[n + 1]
<1>1. f \in Seq(Char) /\ Len(frames) \in Nat /\ Len(f) \in Nat
  <2>1. f \in Seq(Char)
    BY FirstIs
  <2> QED  BY <2>1
<1>2. PICK y \in Seq(Char) :
           /\ Joined(frames) = Joined(First(frames, n)) \o (Mark \o y)
           /\ n + 1 = Len(frames) => y = f
           /\ n + 1 < Len(frames) =>
                \E u \in Seq(Char) : y = f \o (Mark \o u)
  BY NextFrame
<1>3. CASE n + 1 = Len(frames)
  <2>1. y = f /\ ~ (n + 1 < Len(frames))
    BY <1>1, <1>2, <1>3
  <2>2. search(y, 0) = Len(f)
    BY <2>1 DEF Unmarked
  <2>3. SubSeq(y, 1, Len(f)) = f
    BY <1>1, <2>1, SubSeqFull
  <2> HIDE DEF f
  <2> QED  BY <1>2, <2>1, <2>2, <2>3 DEF f
<1>4. CASE n + 1 < Len(frames)
  <2>1. PICK u \in Seq(Char) : y = f \o (Mark \o u)
    BY <1>2, <1>4
  <2>2. EndsAtMark(f) /\ n + 1 # Len(frames)
    BY <1>1, <1>4
  <2> HIDE DEF f
  <2>3. search(y, 0) = Len(f)
    BY <1>1, <2>1, <2>2, SearchPast
  <2>4. /\ Mark \o u \in Seq(Char) /\ Len(Mark \o u) = Len(Mark) + Len(u)
    BY MarkLength, TextConcat, Zenon
  <2>5. /\ y \in Seq(Char) /\ Len(y) = Len(f) + Len(Mark \o u)
        /\ \A i \in 1 .. Len(f) : y[i] = f[i]
    <3>1. /\ Len(f \o (Mark \o u)) = Len(f) + Len(Mark \o u)
          /\ \A i \in 1 .. Len(f) : (f \o (Mark \o u))[i] = f[i]
      BY <1>1, <2>4, TextConcat, Zenon
    <3> QED  BY <2>1, <3>1, Zenon
  <2>6. Len(u) \in Nat
    OBVIOUS
  <2>7. Len(f) + 7 <= Len(y)
    BY <1>1, <2>4, <2>5, <2>6, MarkLength
  <2>8. SubSeq(y, 1, Len(f)) = f
    <3>1. /\ SubSeq(y, 0 + 1, Len(f)) \in Seq(Char)
          /\ Len(SubSeq(y, 0 + 1, Len(f))) = Len(f) - 0
          /\ \A i \in 1 .. Len(f) - 0 : SubSeq(y, 0 + 1, Len(f))[i] = y[0 + i]
      <4>1. 0 \in Nat /\ 0 <= Len(f) /\ Len(f) <= Len(y)
        BY <1>1, <2>5, <2>7
      <4> QED  BY <1>1, <4>1, PartOfText, Zenon
    <3> DEFINE x == SubSeq(y, 1, Len(f))
    <3>2. /\ x \in Seq(Char) /\ Len(x) = Len(f)
          /\ \A i \in 1 .. Len(f) : x[i] = f[i]
      <4>1. x = SubSeq(y, 0 + 1, Len(f))
        OBVIOUS
      <4> HIDE DEF x
      <4> QED  BY <1>1, <2>5, <3>1, <4>1
    <3> HIDE DEF x
    <3>3. x = f
      BY <1>1, <3>2, TextsAreTexts
    <3> QED  BY <3>3 DEF x
  <2> QED  BY <1>2, <2>2, <2>3, <2>7, <2>8 DEF f
<1>5. n + 1 = Len(frames) \/ n + 1 < Len(frames)
  BY <1>1
<1> QED  BY <1>3, <1>4, <1>5

(* The content is what was printed without the first mark, so that what    *)
(* follows the frames printed so far and a mark is what is left of it.     *)
LEMMA RestIs ==
  ASSUME NEW c \in Seq(Char), NEW A \in Seq(Char), NEW y \in Seq(Char),
         Mark \o c = A \o (Mark \o y)
  PROVE  /\ Len(c) = Len(A) + Len(y)
         /\ \A i \in 1 .. Len(y) : c[Len(A) + i] = y[i]
<1>1. /\ Mark \in Seq(Char) /\ Len(Mark) = 7
      /\ Len(c) \in Nat /\ Len(A) \in Nat /\ Len(y) \in Nat
  BY MarkLength
<1> DEFINE left == Mark \o c
           my == Mark \o y
           right == A \o my
<1>2. /\ left \in Seq(Char) /\ Len(left) = Len(Mark) + Len(c)
      /\ \A i \in 1 .. Len(c) : left[Len(Mark) + i] = c[i]
  BY <1>1, TextConcat, Zenon
<1>3. /\ my \in Seq(Char) /\ Len(my) = Len(Mark) + Len(y)
      /\ \A i \in 1 .. Len(y) : my[Len(Mark) + i] = y[i]
  BY <1>1, TextConcat, Zenon
<1> HIDE DEF my
<1>4. /\ right \in Seq(Char) /\ Len(right) = Len(A) + Len(my)
      /\ \A i \in 1 .. Len(my) : right[Len(A) + i] = my[i]
  BY <1>3, TextConcat, Zenon
<1>5. left = right
  BY DEF my
<1> HIDE DEF left, right
<1>6. Len(c) = Len(A) + Len(y)
  BY <1>1, <1>2, <1>3, <1>4, <1>5
<1>7. ASSUME NEW i \in 1 .. Len(y) PROVE c[Len(A) + i] = y[i]
  <2>1. /\ Len(A) + i \in 1 .. Len(c) /\ 7 + i \in 1 .. Len(my)
        /\ 7 + (Len(A) + i) = Len(A) + (7 + i)
    BY <1>1, <1>3, <1>6
  <2>2. left[7 + (Len(A) + i)] = c[Len(A) + i]
    BY <1>1, <1>2, <2>1
  <2>3. right[Len(A) + (7 + i)] = my[7 + i]
    BY <1>4, <2>1
  <2>4. my[7 + i] = y[i]
    BY <1>1, <1>3
  <2> QED  BY <1>5, <2>1, <2>2, <2>3, <2>4
<1> QED  BY <1>6, <1>7

(* The part of a text that is the start of what is left of it.             *)
LEMMA StartOfRest ==
  ASSUME NEW c \in Seq(Char), NEW y \in Seq(Char), NEW a \in Nat,
         NEW k \in Nat, k <= Len(y), Len(c) = a + Len(y),
         \A i \in 1 .. Len(y) : c[a + i] = y[i]
  PROVE  SubSeq(c, a + 1, a + k) = SubSeq(y, 1, k)
<1> DEFINE x == SubSeq(c, a + 1, a + k)
           z == SubSeq(y, 0 + 1, k)
<1>1. /\ Len(y) \in Nat /\ Len(c) \in Nat /\ a + k \in Nat /\ a <= a + k
      /\ a + k <= Len(c) /\ (a + k) - a = k /\ k - 0 = k /\ 0 \in Nat
      /\ 0 <= k
  OBVIOUS
<1>2. /\ x \in Seq(Char) /\ Len(x) = (a + k) - a
      /\ \A i \in 1 .. (a + k) - a : x[i] = c[a + i]
  BY <1>1, PartOfText, Zenon
<1>3. /\ z \in Seq(Char) /\ Len(z) = k - 0
      /\ \A i \in 1 .. k - 0 : z[i] = y[0 + i]
  BY <1>1, PartOfText, Zenon
<1>4. z = SubSeq(y, 1, k)
  OBVIOUS
<1> HIDE DEF x, z
<1>5. Len(x) = Len(z) /\ \A i \in 1 .. Len(x) : x[i] = z[i]
  <2>1. Len(x) = k /\ \A i \in 1 .. k : x[i] = c[a + i]
    BY <1>1, <1>2
  <2>2. Len(z) = k /\ \A i \in 1 .. k : z[i] = y[i]
    BY <1>1, <1>3
  <2>3. \A i \in 1 .. k : c[a + i] = y[i]
    BY <1>1
  <2> QED  BY <2>1, <2>2, <2>3
<1>6. x = z
  BY <1>2, <1>3, <1>5, TextsAreTexts
<1> QED  BY <1>4, <1>6 DEF x

(* What a turn of the loop finds, if the text can be told apart: the next  *)
(* frame, and that it is the last one just if no mark is left.             *)
LEMMA TurnInStep ==
  ASSUME TypeOK, AtNextMark, InStep, pc = "loop",
         Separable(printed), printed.frames # <<>>
  PROVE  LET frames == printed.frames
             n      == Len(str_frames)
         IN  /\ n \in Nat /\ n < Len(frames)
             /\ str_frames = First(frames, n)
             /\ SubSeq(content, prev_pos + 1, next_pos) = frames[n + 1]
             /\ next_pos = Len(content) <=> n + 1 = Len(frames)
             /\ next_pos = Len(content) =>
                  (prev_pos = Len(content) <=> frames[n + 1] = <<>>)
             /\ next_pos + 7 = Len(Joined(First(frames, n + 1)))
<1> DEFINE frames == printed.frames
           n == Len(str_frames)
           A == Joined(First(frames, n))
           f == frames[n + 1]
<1>1. /\ frames \in Seq(Seq(Char)) /\ str_frames \in Seq(Seq(Char))
      /\ content \in Seq(Char)
  BY PrintedType DEF TypeOK
<1>2. /\ n < Len(frames) /\ str_frames = First(frames, n)
      /\ prev_pos = Len(A) /\ Mark \o content = Joined(frames)
  BY DEF InStep, First
<1>3. n \in Nat /\ Len(frames) \in Nat /\ n + 1 \in 1 .. Len(frames)
  BY <1>1, <1>2
<1>4. IF n + 1 < Len(frames) THEN EndsAtMark(f) ELSE Unmarked(f)
  <2>1. \A i \in DOMAIN frames :
          IF i < Len(frames) THEN EndsAtMark(frames[i]) ELSE Unmarked(frames[i])
    BY DEF Separable
  <2>2. n + 1 \in DOMAIN frames
    BY <1>1, <1>3
  <2> HIDE DEF frames, n
  <2> QED  BY <2>1, <2>2
<1>5. /\ f \in Seq(Char) /\ A \in Seq(Char)
      /\ Joined(First(frames, n + 1)) = A \o (Mark \o f)
  BY <1>1, <1>2, <1>3, FirstIs, JoinedFirst
<1>6. PICK y \in Seq(Char) :
        /\ Joined(frames) = A \o (Mark \o y)
        /\ search(y, 0) = Len(f)
        /\ n + 1 = Len(frames) => y = f
        /\ n + 1 < Len(frames) => Len(f) + 7 <= Len(y)
        /\ SubSeq(y, 1, Len(f)) = f
  BY <1>1, <1>2, <1>3, <1>4, NextFrameFound
<1>7. str_frames = First(frames, n) /\ next_pos = search(content, prev_pos)
  BY <1>2 DEF AtNextMark
<1> HIDE DEF frames, n, A, f
<1>8. /\ Len(content) = Len(A) + Len(y)
      /\ \A i \in 1 .. Len(y) : content[Len(A) + i] = y[i]
  <2>1. /\ content \in Seq(Char) /\ A \in Seq(Char)
        /\ Mark \o content = A \o (Mark \o y)
    BY <1>1, <1>2, <1>5, <1>6
  <2> QED  BY <2>1, RestIs, Zenon
<1>9. Len(A) \in Nat /\ Len(f) \in Nat /\ Len(y) \in Nat
  BY <1>5
<1>10. next_pos = Len(A) + Len(f)
  <2>1. search(content, Len(A)) = Len(A) + search(y, 0)
    BY <1>1, <1>8, <1>9, SearchRest
  <2> QED  BY <1>2, <1>6, <1>7, <2>1
<1>11. Len(f) <= Len(y)
  <2>1. search(y, 0) \in 0 .. Len(y)
    BY SearchIs, 0 \in Nat
  <2> QED  BY <1>6, <1>9, <2>1
<1>12. SubSeq(content, prev_pos + 1, next_pos) = f
  <2>1. SubSeq(content, Len(A) + 1, Len(A) + Len(f)) = SubSeq(y, 1, Len(f))
    BY <1>1, <1>8, <1>9, <1>11, StartOfRest
  <2> QED  BY <1>2, <1>6, <1>10, <2>1
<1>13. next_pos = Len(content) <=> n + 1 = Len(frames)
  BY <1>2, <1>3, <1>6, <1>8, <1>9, <1>10
<1>14. next_pos = Len(content) => (prev_pos = Len(content) <=> f = <<>>)
  <2>1. Len(f) = 0 <=> f = <<>>
    BY <1>5
  <2> QED  BY <1>2, <1>6, <1>8, <1>9, <1>10, <2>1
<1>15. next_pos + 7 = Len(Joined(First(frames, n + 1)))
  <2>1. Mark \o f \in Seq(Char) /\ Len(Mark \o f) = Len(Mark) + Len(f)
    BY <1>5, MarkLength, TextConcat, Zenon
  <2>2. Len(A \o (Mark \o f)) = Len(A) + Len(Mark \o f)
    BY <1>5, <2>1, TextConcat, Zenon
  <2> QED  BY <1>5, <1>9, <1>10, <2>1, <2>2, MarkLength
<1>16. /\ n \in Nat /\ n < Len(frames) /\ str_frames = First(frames, n)
       /\ SubSeq(content, prev_pos + 1, next_pos) = f
       /\ next_pos = Len(content) <=> n + 1 = Len(frames)
       /\ next_pos = Len(content) => (prev_pos = Len(content) <=> f = <<>>)
       /\ next_pos + 7 = Len(Joined(First(frames, n + 1)))
  BY <1>2, <1>3, <1>12, <1>13, <1>14, <1>15
<1> QED  BY <1>16, Zenon DEF frames, n, f

(* Where the tag of such a text ends, and what comes behind the mark.      *)
LEMMA TagAndRest ==
  ASSUME NEW p \in Printed, Separable(p), p.frames # <<>>
  PROVE  \E y \in Seq(Char) :
           /\ Joined(p.frames) = Mark \o y
           /\ find(TextOf(p)) = Len(p.tag)
           /\ SubSeq(TextOf(p), 1, Len(p.tag)) = p.tag
           /\ Len(p.tag) + 7 <= Len(TextOf(p))
           /\ SubSeq(TextOf(p), Len(p.tag) + 7 + 1, Len(TextOf(p))) = y
<1> DEFINE frames == p.frames
           s == p.tag
           c == TextOf(p)
<1>1. /\ s \in Seq(Char) /\ frames \in Seq(Seq(Char)) /\ c \in Seq(Char)
      /\ Joined(frames) \in Seq(Char)
  BY PrintedType
<1>2. 0 \in Nat /\ 0 < Len(frames) /\ Len(s) \in Nat
  BY <1>1
<1>3. EndsAtMark(s) /\ c = s \o Joined(frames)
  BY DEF Separable, TextOf
<1> HIDE DEF frames, s, c
<1>4. \E y \in Seq(Char) : Joined(frames) = Mark \o y
  <2>1. PICK y \in Seq(Char) :
          Joined(frames) = Joined(First(frames, 0)) \o (Mark \o y)
    BY <1>1, <1>2, NextFrame
  <2>2. Mark \o y \in Seq(Char)
    BY MarkLength, TextConcat, Zenon
  <2>3. <<>> \o (Mark \o y) = Mark \o y
    BY <2>2, ConcatEmptySeq
  <2>4. Joined(First(frames, 0)) = <<>>
    BY JoinedNone
  <2> QED  BY <2>1, <2>3, <2>4
<1>5. PICK y \in Seq(Char) : Joined(frames) = Mark \o y
  BY <1>4
<1>6. /\ Mark \o y \in Seq(Char) /\ Len(Mark \o y) = Len(Mark) + Len(y)
      /\ \A i \in 1 .. Len(y) : (Mark \o y)[Len(Mark) + i] = y[i]
  BY MarkLength, TextConcat, Zenon
<1> DEFINE my == Mark \o y
<1> HIDE DEF my
<1>7. /\ my \in Seq(Char) /\ Len(my) = 7 + Len(y) /\ Len(y) \in Nat
      /\ \A i \in 1 .. Len(y) : my[7 + i] = y[i]
  BY <1>6, MarkLength DEF my
<1>8. /\ Len(c) = Len(s) + Len(my)
      /\ \A i \in 1 .. Len(s) : c[i] = s[i]
      /\ \A i \in 1 .. Len(my) : c[Len(s) + i] = my[i]
  <2>1. c = s \o my
    BY <1>3, <1>5 DEF my
  <2>2. /\ Len(s \o my) = Len(s) + Len(my)
        /\ \A i \in 1 .. Len(s) : (s \o my)[i] = s[i]
        /\ \A i \in 1 .. Len(my) : (s \o my)[Len(s) + i] = my[i]
    BY <1>1, <1>7, TextConcat, Zenon
  <2> QED  BY <2>1, <2>2
<1>9. find(c) = Len(s)
  <2>1. search(s \o (Mark \o y), 0) = Len(s)
    BY <1>1, <1>3, SearchPast
  <2>2. search(c, 0) = Len(s)
    BY <1>3, <1>5, <2>1
  <2>3. Len(s) # Len(c)
    BY <1>2, <1>7, <1>8
  <2> QED  BY <2>2, <2>3 DEF find
<1>10. SubSeq(c, 1, Len(s)) = s
  <2> DEFINE x == SubSeq(c, 0 + 1, Len(s))
  <2>1. 0 <= Len(s) /\ Len(s) <= Len(c) /\ Len(s) - 0 = Len(s)
    BY <1>2, <1>7, <1>8
  <2>2. /\ x \in Seq(Char) /\ Len(x) = Len(s) - 0
        /\ \A i \in 1 .. Len(s) - 0 : x[i] = c[0 + i]
    BY <1>1, <1>2, <2>1, PartOfText, Zenon
  <2>3. x = SubSeq(c, 1, Len(s))
    OBVIOUS
  <2> HIDE DEF x
  <2>4. Len(x) = Len(s) /\ \A i \in 1 .. Len(x) : x[i] = s[i]
    BY <1>2, <1>8, <2>1, <2>2
  <2>5. x = s
    BY <1>1, <2>2, <2>4, TextsAreTexts
  <2> QED  BY <2>3, <2>5
<1>11. SubSeq(c, Len(s) + 7 + 1, Len(c)) = y
  <2> DEFINE a == Len(s) + 7
  <2>1. a \in Nat /\ Len(c) = a + Len(y) /\ Len(y) <= Len(y)
    BY <1>2, <1>7, <1>8
  <2>2. ASSUME NEW i \in 1 .. Len(y) PROVE c[a + i] = y[i]
    <3>1. 7 + i \in 1 .. Len(my) /\ Len(s) + (7 + i) = a + i
      <4>1. Len(my) = 7 + Len(y) /\ Len(y) \in Nat /\ Len(s) \in Nat
        BY <1>2, <1>7
      <4>2. 7 + i \in 1 .. 7 + Len(y)
        BY <4>1
      <4>3. Len(s) + (7 + i) = (Len(s) + 7) + i
        BY <4>1
      <4> QED  BY <4>1, <4>2, <4>3
    <3>2. c[Len(s) + (7 + i)] = my[7 + i] /\ my[7 + i] = y[i]
      BY <1>7, <1>8, <3>1
    <3> QED  BY <3>1, <3>2
  <2> HIDE DEF a
  <2>3. SubSeq(c, a + 1, a + Len(y)) = SubSeq(y, 1, Len(y))
    BY <1>1, <1>7, <2>1, <2>2, StartOfRest
  <2>4. SubSeq(y, 1, Len(y)) = y
    BY SubSeqFull
  <2>5. SubSeq(c, a + 1, Len(c)) = y
    BY <2>1, <2>3, <2>4
  <2> QED  BY <2>5 DEF a
<1>12. Len(s) + 7 <= Len(c)
  BY <1>2, <1>7, <1>8
<1>13. /\ Joined(frames) = Mark \o y /\ find(c) = Len(s)
       /\ SubSeq(c, 1, Len(s)) = s /\ Len(s) + 7 <= Len(c)
       /\ SubSeq(c, Len(s) + 7 + 1, Len(c)) = y
  BY <1>5, <1>9, <1>10, <1>11, <1>12
<1> QED  BY <1>13, Zenon DEF frames, s, c

(* The pieces of frames that were all cut, with and without a last one     *)
(* that is not empty.                                                      *)
LEMMA PiecesAre ==
  ASSUME NEW frames \in Seq(Seq(Char)), NEW n \in Nat, n + 1 = Len(frames)
  PROVE  /\ frames[n + 1] = <<>> => Pieces(frames) = First(frames, n)
         /\ frames[n + 1] # <<>> =>
              Pieces(frames) = Append(First(frames, n), frames[n + 1])
<1>1. /\ frames # <<>> /\ Last(frames) = frames[n + 1]
      /\ Front(frames) = First(frames, n)
  <2>1. Len(frames) - 1 = n
    OBVIOUS
  <2> QED  BY <2>1 DEF Last, Front, First
<1>2. First(frames, n + 1) = frames
  BY SubSeqFull DEF First
<1>3. First(frames, n + 1) = Append(First(frames, n), frames[n + 1])
  BY FirstIs
<1> QED  BY <1>1, <1>2, <1>3 DEF Pieces

LEMMA InStepInit ==
  ASSUME Init
  PROVE  InStep
BY DEF Init, InStep

(* A text that can be told apart is taken apart frame by frame.            *)
LEMMA InStepStep ==
  ASSUME TypeOK, AtNextMark, InStep, [Next]_vars
  PROVE  InStep'
<1> DEFINE frames == printed.frames
           n == Len(str_frames)
<1>1. printed' = printed /\ text' = text /\ calc_tag' = calc_tag
  BY DEF Next, TakeTag, TakeBody, Cut, LastPiece, FindRequest, vars
<1>2. SUFFICES ASSUME Separable(printed), frames # <<>> PROVE InStep'
  <2>1. ~ (Separable(printed') /\ printed'.frames # <<>>) => InStep'
    BY DEF InStep
  <2> QED  BY <1>1, <2>1
<1>3. printed \in Printed /\ text = TextOf(printed)
  BY DEF TypeOK
<1>4. PICK y \in Seq(Char) :
        /\ Joined(frames) = Mark \o y
        /\ find(text) = Len(printed.tag)
        /\ SubSeq(text, 1, Len(printed.tag)) = printed.tag
        /\ Len(printed.tag) + 7 <= Len(text)
        /\ SubSeq(text, Len(printed.tag) + 7 + 1, Len(text)) = y
  BY <1>2, <1>3, TagAndRest
<1>5. /\ Len(printed.tag) \in Nat /\ Len(text) \in Nat /\ Len(text) < npos
      /\ frames \in Seq(Seq(Char)) /\ Len(frames) \in Nat /\ Len(frames) # 0
  <2>1. /\ printed.tag \in Seq(Char) /\ text \in Seq(Char)
        /\ frames \in Seq(Seq(Char)) /\ Len(text) < npos
    BY <1>3, PrintedType
  <2> QED  BY <1>2, <2>1
<1>6. ASSUME TakeTag PROVE InStep'
  <2>1. Min({find(text), Len(text)}) = Len(printed.tag)
    <3> DEFINE S == {Len(printed.tag), Len(text)}
    <3>1. S \subseteq Nat /\ S # {}
      BY <1>5
    <3>2. Min(S) \in S /\ \A x \in S : Min(S) <= x
      BY <3>1, MinIs
    <3> QED  BY <1>4, <1>5, <3>2
  <2>2. trim(SubSeq(text, 1, Min({find(text), Len(text)}))) = trim(printed.tag)
    BY <1>4, <2>1
  <2>3. ~ calc_tag => tag' = trim(printed.tag)
    BY <1>6, <2>2 DEF TakeTag
  <2>4. pc' = "body" /\ str_frames' = <<>>
    BY <1>2, <1>6 DEF TakeTag, InStep
  <2> QED  BY <1>1, <2>3, <2>4 DEF InStep
<1>7. ASSUME TakeBody PROVE InStep'
  <2>1. BodyStart = Len(printed.tag) + 7
    <3>1. \A x, m \in Nat : x <= m => x % (m + 1) = x
      OBVIOUS
    <3>2. /\ Len(printed.tag) + 7 \in Nat /\ npos \in Nat
          /\ Len(printed.tag) + 7 <= npos
      <4>1. npos \in Nat
        BY SplitAssumption
      <4> HIDE DEF npos
      <4> QED  BY <1>4, <1>5, <4>1
    <3> HIDE DEF npos
    <3> QED  BY <1>4, <3>1, <3>2 DEF BodyStart
  <2>2. ~ (BodyStart > Len(text))
    BY <1>4, <1>5, <2>1
  <2>3. /\ content' = y /\ prev_pos' = 0 /\ pc' = "loop"
        /\ tag' = tag /\ str_frames' = <<>>
    <3>1. SubSeq(text, BodyStart + 1, Len(text)) = y
      BY <1>4, <2>1
    <3>2. str_frames = <<>>
      BY <1>7 DEF TakeBody, AtNextMark
    <3> QED  BY <1>7, <2>2, <3>1, <3>2 DEF TakeBody
  <2>4. Mark \o content' = Joined(frames)
    BY <1>4, <2>3
  <2>5. /\ Len(str_frames') = 0 /\ 0 < Len(frames)
        /\ SubSeq(frames, 1, 0) = <<>> /\ Len(Joined(<<>>)) = 0
    <3>1. First(frames, 0) = <<>> /\ Joined(<<>>) = <<>>
      BY JoinedNone
    <3> QED  BY <1>5, <2>3, <3>1 DEF First
  <2>6. ~ calc_tag => tag' = trim(printed.tag)
    BY <1>2, <1>7, <2>3 DEF TakeBody, InStep
  <2> HIDE DEF frames
  <2>7. SubSeq(frames, 1, Len(str_frames')) = <<>>
    BY <2>5
  <2>8. /\ str_frames' = SubSeq(frames, 1, Len(str_frames'))
        /\ prev_pos' = Len(Joined(SubSeq(frames, 1, Len(str_frames'))))
        /\ Len(str_frames') < Len(frames)
    BY <2>3, <2>5, <2>7
  <2> QED  BY <1>1, <2>3, <2>4, <2>6, <2>8 DEF InStep, frames
<1>8. ASSUME Cut PROVE InStep'
  <2>1. /\ n \in Nat /\ n < Len(frames) /\ str_frames = First(frames, n)
        /\ SubSeq(content, prev_pos + 1, next_pos) = frames[n + 1]
        /\ n + 1 # Len(frames)
        /\ next_pos + 7 = Len(Joined(First(frames, n + 1)))
    BY <1>2, <1>8, TurnInStep DEF Cut
  <2>2. /\ str_frames' = Append(First(frames, n), frames[n + 1])
        /\ prev_pos' = next_pos + 7
        /\ pc' = "loop" /\ content' = content /\ tag' = tag
    BY <1>8, <2>1, MarkLength DEF Cut, AfterMark
  <2>3. /\ First(frames, n) \in Seq(Seq(Char)) /\ Len(First(frames, n)) = n
        /\ frames[n + 1] \in Seq(Char)
        /\ First(frames, n + 1) = Append(First(frames, n), frames[n + 1])
    BY <1>5, <2>1, FirstIs
  <2>4. str_frames' = First(frames, n + 1) /\ Len(str_frames') = n + 1
    BY <2>2, <2>3
  <2>5. n + 1 < Len(frames)
    BY <1>5, <2>1
  <2>6. /\ Mark \o content' = Joined(frames)
        /\ ~ calc_tag => tag' = trim(printed.tag)
    BY <1>2, <1>8, <2>2 DEF Cut, InStep
  <2> HIDE DEF frames, n
  <2>7. /\ Len(str_frames') < Len(frames)
        /\ str_frames' = SubSeq(frames, 1, Len(str_frames'))
        /\ prev_pos' = Len(Joined(SubSeq(frames, 1, Len(str_frames'))))
    BY <2>1, <2>2, <2>4, <2>5 DEF First
  <2> QED  BY <1>1, <2>2, <2>6, <2>7 DEF InStep, frames
<1>9. ASSUME LastPiece PROVE InStep'
  <2>1. /\ n \in Nat /\ n < Len(frames) /\ str_frames = First(frames, n)
        /\ SubSeq(content, prev_pos + 1, Len(content)) = frames[n + 1]
        /\ n + 1 = Len(frames)
        /\ prev_pos = Len(content) <=> frames[n + 1] = <<>>
    BY <1>2, <1>9, TurnInStep DEF LastPiece
  <2>2. str_frames' = Pieces(frames)
    <3>1. str_frames' = IF frames[n + 1] = <<>> THEN First(frames, n)
                        ELSE Append(First(frames, n), frames[n + 1])
      BY <1>9, <2>1 DEF LastPiece
    <3> QED  BY <1>5, <2>1, <3>1, PiecesAre
  <2>3. /\ Mark \o content' = Joined(frames) /\ pc' = "request"
        /\ ~ calc_tag => tag' = trim(printed.tag)
    BY <1>2, <1>9 DEF LastPiece, InStep
  <2> QED  BY <1>1, <2>2, <2>3 DEF InStep
<1>10. ASSUME FindRequest PROVE InStep'
  <2>1. pc' \in {"undefined", "done"} /\ pc = "request"
    BY <1>10 DEF FindRequest
  <2>2. str_frames' = str_frames /\ content' = content /\ tag' = tag
    BY <1>10 DEF FindRequest
  <2>3. /\ Mark \o content = Joined(frames) /\ str_frames = Pieces(frames)
        /\ ~ calc_tag => tag = trim(printed.tag)
    BY <1>2, <2>1 DEF InStep
  <2> QED  BY <1>1, <2>1, <2>2, <2>3 DEF InStep
<1>11. ASSUME UNCHANGED vars PROVE InStep'
  BY <1>11 DEF vars, InStep
<1> QED  BY <1>6, <1>7, <1>8, <1>9, <1>10, <1>11 DEF Next

(* Any tag and frames that can be told apart are read back from their      *)
(* text, but for white space around the tag and an empty last frame.       *)
THEOREM ReadsBackHolds == Spec => []ReadsBack
<1>1. TypeOK /\ AtNextMark /\ InStep /\ [Next]_vars => InStep'
  BY InStepStep
<1>2. Init => InStep
  BY InStepInit
<1>3. InStep => ReadsBack
  BY DEF InStep, ReadsBack
<1> QED  BY <1>1, <1>2, <1>3, TypeOKHolds, AtNextMarkHolds, PTL DEF Spec

-----------------------------------------------------------------------------
(***************************************************************************)
(* A tag alone.                                                            *)
(***************************************************************************)
LEMMA WrapsToSix ==
  ASSUME NEW n \in Nat, 7 < n
  PROVE  (n + 7) % (n + 1) = 6
OBVIOUS

LEMMA RestOfText ==
  ASSUME NEW s \in Seq(Char), NEW a \in Nat, a <= Len(s), NEW b, b = a + 1
  PROVE  /\ SubSeq(s, b, Len(s)) \in Seq(Char)
         /\ Len(SubSeq(s, b, Len(s))) = Len(s) - a
         /\ \A i \in 1 .. Len(s) - a : SubSeq(s, b, Len(s))[i] = s[a + i]
<1>1. Len(s) \in Nat /\ Len(s) <= Len(s)
  OBVIOUS
<1>2. /\ SubSeq(s, a + 1, Len(s)) \in Seq(Char)
      /\ Len(SubSeq(s, a + 1, Len(s))) = Len(s) - a
      /\ \A i \in 1 .. Len(s) - a : SubSeq(s, a + 1, Len(s))[i] = s[a + i]
  BY <1>1, PartOfText, Zenon
<1> QED  BY <1>2, Zenon

(* Where the body of a text without a mark starts, and that a search of it *)
(* finds the end.                                                          *)
LEMMA UnmarkedBody ==
  ASSUME NEW s \in Seq(Char), Unmarked(s)
  PROVE  /\ (find(s) + 7) % (npos + 1) = 6
         /\ 6 <= Len(s) => /\ SubSeq(s, 7, Len(s)) \in Seq(Char)
                           /\ Len(SubSeq(s, 7, Len(s))) = Len(s) - 6
                           /\ Unmarked(SubSeq(s, 7, Len(s)))
<1>1. (find(s) + 7) % (npos + 1) = 6
  <2>1. find(s) = npos /\ npos \in Nat /\ 7 < npos
    BY SplitAssumption, MarkLength DEF Unmarked, find
  <2> HIDE DEF npos
  <2> QED  BY <2>1, WrapsToSix
<1>2. ASSUME 6 <= Len(s)
      PROVE  /\ SubSeq(s, 7, Len(s)) \in Seq(Char)
             /\ Len(SubSeq(s, 7, Len(s))) = Len(s) - 6
             /\ Unmarked(SubSeq(s, 7, Len(s)))
  <2> DEFINE y == SubSeq(s, 7, Len(s))
  <2>1. Len(s) \in Nat /\ 6 \in Nat /\ 0 \in Nat
    OBVIOUS
  <2>2. /\ y \in Seq(Char) /\ Len(y) = Len(s) - 6
        /\ \A i \in 1 .. Len(s) - 6 : y[i] = s[6 + i]
    <3>1. ASSUME NEW a \in Nat, a = 6, NEW b, b = 7
          PROVE  /\ SubSeq(s, b, Len(s)) \in Seq(Char)
                 /\ Len(SubSeq(s, b, Len(s))) = Len(s) - a
                 /\ \A i \in 1 .. Len(s) - a : SubSeq(s, b, Len(s))[i] = s[a + i]
      <4>1. b = a + 1 /\ a <= Len(s)
        BY <1>2, <3>1
      <4> QED  BY <4>1, RestOfText, Zenon
    <3> QED  BY <2>1, <3>1, Zenon
  <2> HIDE DEF y
  <2>3. Len(s) = 6 + Len(y) /\ \A i \in 1 .. Len(y) : s[6 + i] = y[i]
    BY <2>1, <2>2
  <2>4. search(s, 6) = 6 + search(y, 0)
    BY <2>1, <2>2, <2>3, SearchRest
  <2>5. search(s, 6) = Len(s)
    <3>1. \A p \in Nat : p + 7 <= Len(s) => ~ MarkAt(s, p)
      <4>1. ASSUME NEW p \in Nat, p + 7 <= Len(s), MarkAt(s, p) PROVE FALSE
        <5>1. search(s, 0) <= p /\ search(s, 0) = Len(s)
          BY <2>1, <4>1, SearchIs DEF Unmarked
        <5> QED  BY <2>1, <4>1, <5>1
      <4> QED  BY <4>1
    <3> QED  BY <1>2, <2>1, <3>1, SearchEndsAt
  <2>6. search(y, 0) = Len(y)
    <3>1. search(y, 0) \in 0 .. Len(y)
      BY <2>1, <2>2, SearchIs, Zenon
    <3>2. Len(y) \in Nat
      BY <2>2
    <3> QED  BY <2>3, <2>4, <2>5, <3>1, <3>2
  <2>7. Unmarked(y)
    BY <2>6 DEF Unmarked
  <2> QED  BY <2>2, <2>7 DEF y
<1> QED  BY <1>1, <1>2

LEMMA TakenForFrameStep ==
  ASSUME TypeOK, TakenForFrame, [Next]_vars
  PROVE  TakenForFrame'
<1>1. printed' = printed /\ text' = text
  BY DEF Next, TakeTag, TakeBody, Cut, LastPiece, FindRequest, vars
<1>2. SUFFICES ASSUME Unmarked(text) PROVE TakenForFrame'
  BY <1>1 DEF TakenForFrame, Unmarked
<1>3. text \in Seq(Char) /\ Len(text) \in Nat
  <2>1. text \in Seq(Char)
    BY PrintedType DEF TypeOK
  <2> QED  BY <2>1
<1> DEFINE y == SubSeq(text, 7, Len(text))
<1>4. BodyStart = 6
  BY <1>2, <1>3, UnmarkedBody DEF BodyStart
<1>5. 6 <= Len(text) => Len(y) = Len(text) - 6 /\ search(y, 0) = Len(y)
  BY <1>2, <1>3, UnmarkedBody DEF Unmarked
<1> HIDE DEF y
<1>6. CASE TakeTag
  BY <1>1, <1>2, <1>6 DEF TakeTag, TakenForFrame, TagAlone
<1>7. CASE TakeBody
  <2>1. CASE BodyStart > Len(text)
    BY <1>1, <1>2, <1>3, <1>4, <1>7, <2>1 DEF TakeBody, TakenForFrame, TagAlone
  <2>2. CASE ~ (BodyStart > Len(text))
    <3>1. 6 <= Len(text)
      BY <1>3, <1>4, <2>2
    <3>2. /\ content' = y /\ prev_pos' = 0 /\ next_pos' = search(y, 0)
          /\ pc' = "loop" /\ str_frames' = <<>>
      <4>1. BodyStart + 1 = 7
        BY <1>4
      <4>2. /\ content' = y /\ prev_pos' = 0 /\ next_pos' = search(content', 0)
            /\ pc' = "loop"
        BY <1>7, <2>2, <4>1 DEF TakeBody, y
      <4>3. str_frames' = <<>>
        BY <1>2, <1>7 DEF TakeBody, TakenForFrame
      <4> QED  BY <4>2, <4>3
    <3> QED  BY <1>1, <1>5, <3>1, <3>2 DEF TakenForFrame, TagAlone, y
  <2> QED  BY <2>1, <2>2
<1>8. CASE Cut
  BY <1>2, <1>8 DEF Cut, TakenForFrame
<1>9. CASE LastPiece
  <2>1. /\ content = y /\ prev_pos = 0 /\ str_frames = <<>>
        /\ 6 <= Len(text) /\ pc' = "request"
    BY <1>2, <1>9 DEF LastPiece, TakenForFrame, y
  <2>2. Len(content) = Len(text) - 6
    BY <1>5, <2>1
  <2>3. prev_pos = Len(content) <=> Len(text) = 6
    BY <1>3, <2>1, <2>2
  <2>4. SubSeq(content, prev_pos + 1, Len(content)) = y
    <3>1. SubSeq(y, 1, Len(y)) = y
      BY <1>2, <1>3, <2>1, UnmarkedBody, SubSeqFull DEF y
    <3>2. prev_pos + 1 = 1
      BY <2>1
    <3> QED  BY <2>1, <3>1, <3>2
  <2>5. str_frames' = IF Len(text) = 6 THEN <<>> ELSE <<y>>
    <3>1. str_frames' = IF prev_pos = Len(content) THEN <<>>
                                                   ELSE Append(<<>>, y)
      BY <1>9, <2>1, <2>4 DEF LastPiece
    <3>2. Append(<<>>, y) = <<y>>
      OBVIOUS
    <3> QED  BY <2>3, <3>1, <3>2
  <2> QED  BY <1>1, <2>1, <2>5 DEF TakenForFrame, TagAlone, AlonePiece, y
<1>10. CASE FindRequest
  <2>1. pc = "request" /\ str_frames' = str_frames
    BY <1>10 DEF FindRequest
  <2>2. /\ 6 <= Len(text)
        /\ str_frames = IF Len(text) = 6 THEN <<>> ELSE <<y>>
    BY <1>2, <2>1 DEF TakenForFrame, AlonePiece, y
  <2>3. <<y>> # <<>>
    OBVIOUS
  <2>4. pc' = IF Len(text) = 6 THEN "undefined" ELSE "done"
    BY <1>10, <2>2, <2>3 DEF FindRequest
  <2>5. CASE Len(text) = 6
    BY <1>1, <2>4, <2>5 DEF TakenForFrame, TagAlone
  <2>6. CASE Len(text) # 6
    <3>1. Len(text) > 6 /\ pc' = "done" /\ str_frames' = <<y>>
      <4>1. str_frames' = <<y>> /\ pc' = "done"
        BY <2>1, <2>2, <2>4, <2>6
      <4>2. Len(text) > 6
        <5>1. \A n \in Nat : 6 <= n /\ n # 6 => n > 6
          OBVIOUS
        <5> QED  BY <1>3, <2>2, <2>6, <5>1, Zenon
      <4> QED  BY <4>1, <4>2
    <3>2. str_frames' = <<SubSeq(text', 7, Len(text'))>> /\ Len(text') > 6
      BY <1>1, <3>1 DEF y
    <3> QED  BY <3>1, <3>2 DEF TakenForFrame, TagAlone
  <2> QED  BY <2>5, <2>6
<1>11. CASE UNCHANGED vars
  BY <1>11 DEF vars, TakenForFrame, TagAlone, AlonePiece, Unmarked
<1> QED  BY <1>6, <1>7, <1>8, <1>9, <1>10, <1>11 DEF Next

(* What becomes of a text without a mark, of any length: the wrapped sum   *)
(* makes the call take what is behind the sixth character for a frame.     *)
THEOREM TagAloneHolds == Spec => []TagAlone
<1>1. TypeOK /\ TakenForFrame /\ [Next]_vars => TakenForFrame'
  BY TakenForFrameStep
<1>2. Init => TakenForFrame
  BY DEF Init, TakenForFrame, TagAlone
<1>3. TakenForFrame => TagAlone
  BY DEF TakenForFrame, TagAlone
<1> QED  BY <1>1, <1>2, <1>3, TypeOKHolds, PTL DEF Spec
=============================================================================
