----------------------------- MODULE LogProofs -----------------------------
(***************************************************************************)
(* Theorems about Log and LogFormatter.                                    *)
(***************************************************************************)
EXTENDS Log, SequenceTheorems, WellFoundedInduction, TLAPS

-----------------------------------------------------------------------------
(***************************************************************************)
(* Induction, and sequences that are joined.                               *)
(***************************************************************************)
\* A set of natural numbers that has a member has a least one.
LEMMA LeastOf ==
  ASSUME NEW K \in SUBSET Nat, NEW m \in K
  PROVE  \E k \in K : \A j \in K : k <= j
<1>1. PICK k \in K : \A j \in K : ~ (<<j, k>> \in OpToRel(<, Nat))
  BY NatLessThanWellFounded, WFMin
<1>2. \A j \in K : ~ (j < k)
  BY <1>1, Zenon DEF OpToRel
<1>3. QED
  BY <1>2

\* What holds for 0 and carries over holds for all.
LEMMA Induct ==
  ASSUME NEW K \in SUBSET Nat, 0 \in K, \A n \in K : n + 1 \in K
  PROVE  K = Nat
<1> SUFFICES ASSUME NEW x \in Nat \ K PROVE FALSE
  OBVIOUS
<1>1. PICK k \in Nat \ K : \A j \in Nat \ K : k <= j
  BY LeastOf
<1>2. k - 1 \in Nat /\ ~ (k <= k - 1)
  BY <1>1
<1>3. k - 1 \in K
  BY <1>1, <1>2, Zenon
<1>4. k = (k - 1) + 1
  BY <1>1
<1>5. QED
  BY <1>1, <1>3, <1>4, Zenon

\* FlattenSeq's table of the first i sequences joined.
FlattenTable(seqs, f, n) == f = [i \in 1..n |-> IF i = 1 THEN seqs[i] ELSE f[i - 1] \o seqs[i]]

LEMMA FlattenTables ==
  ASSUME NEW seqs
  PROVE  \A n \in Nat : \E f : FlattenTable(seqs, f, n)
<1> DEFINE K == {n \in Nat : \E f : FlattenTable(seqs, f, n)}
<1>1. 0 \in K
  <2>1. FlattenTable(seqs, [i \in 1..0 |-> 0], 0)
    BY DEF FlattenTable
  <2>2. QED
    BY <2>1
<1>2. ASSUME NEW n \in K PROVE n + 1 \in K
  <2>1. PICK f : FlattenTable(seqs, f, n)
    OBVIOUS
  <2> DEFINE g == [i \in 1..(n + 1) |-> IF i = 1 THEN seqs[i] ELSE f[i - 1] \o seqs[i]]
  <2>2. \A i \in 1..n : f[i] = IF i = 1 THEN seqs[i] ELSE f[i - 1] \o seqs[i]
    BY <2>1, Zenon DEF FlattenTable
  <2>3. \A i \in 1..(n + 1) : g[i] = IF i = 1 THEN seqs[i] ELSE f[i - 1] \o seqs[i]
    BY Zenon
  <2> HIDE DEF g
  <2>4. \A i \in 1..(n + 1) : i # 1 => g[i - 1] = f[i - 1]
    <3>1. \A i \in 1..n : i \in 1..(n + 1)
      OBVIOUS
    <3>2. \A i \in 1..n : g[i] = f[i]
      BY <2>2, <2>3, <3>1, Zenon
    <3>3. \A i \in 1..(n + 1) : i # 1 => i - 1 \in 1..n
      OBVIOUS
    <3>4. QED
      BY <3>2, <3>3, Zenon
  <2>5. \A i \in 1..(n + 1) : (IF i = 1 THEN seqs[i] ELSE f[i - 1] \o seqs[i])
                               = (IF i = 1 THEN seqs[i] ELSE g[i - 1] \o seqs[i])
    BY <2>4, Zenon
  <2>6. FlattenTable(seqs, g, n + 1)
    BY <2>5, Zenon DEF FlattenTable, g
  <2>7. QED
    BY <2>6
<1> HIDE DEF K
<1>3. K = Nat
  BY <1>1, <1>2, Induct DEF K
<1>4. QED
  BY <1>3, Zenon DEF K

LEMMA FlattenUnfold ==
  ASSUME NEW seqs, NEW n \in Nat \ {0}, Len(seqs) = n
  PROVE  \E F : FlattenSeq(seqs) = F[n] /\ FlattenTable(seqs, F, n)
<1> DEFINE F == CHOOSE f : FlattenTable(seqs, f, n)
<1>1. FlattenTable(seqs, F, n)
  BY FlattenTables, Zenon
<1>2. FlattenSeq(seqs) = F[n]
  BY DEF FlattenSeq, FlattenTable
<1> HIDE DEF F
<1>3. QED
  BY <1>1, <1>2, Zenon

Agrees(T, s, all, n) == s \in Seq(T) /\ Len(s) = n /\ \A k \in 1..n : s[k] = all[k]
Continues(t, all, a) == \A k \in 1..Len(t) : t[k] = all[a + k]

\* One more piece joined to what agrees with the whole so far.
LEMMA Joined ==
  ASSUME NEW T, NEW s, NEW t \in Seq(T), NEW all, NEW a \in Nat,
         Agrees(T, s, all, a), Continues(t, all, a)
  PROVE  Agrees(T, s \o t, all, a + Len(t))
<1> DEFINE z == a + Len(t)
<1>0. /\ s \in Seq(T) /\ Len(s) = a /\ \A k \in 1..a : s[k] = all[k]
      /\ \A k \in 1..Len(t) : t[k] = all[a + k]
  BY DEF Agrees, Continues
<1>1. /\ s \o t \in Seq(T) /\ Len(s \o t) = a + Len(t) /\ Len(t) \in Nat
      /\ \A k \in 1..(a + Len(t)) : (s \o t)[k] = IF k <= a THEN s[k] ELSE t[k - a]
  BY <1>0, ConcatProperties, LenProperties
<1>2. ASSUME NEW k \in 1..z PROVE (s \o t)[k] = all[k]
  <2>1. CASE k <= a
    BY <1>0, <1>1, <2>1
  <2>2. CASE ~ (k <= a)
    <3> DEFINE x == k - a
    <3>1. x \in 1..Len(t) /\ a + x = k
      BY <1>1, <2>2
    <3>2. (s \o t)[k] = t[x]
      BY <1>1, <2>2
    <3> HIDE DEF x
    <3>3. QED
      BY <1>0, <3>1, <3>2
  <2>3. QED
    BY <2>1, <2>2
<1>3. QED
  BY <1>1, <1>2 DEF Agrees

\* Sequences that cover another one piece by piece; e[i] is where the i-th of them ends.
Covers(seqs, n, e, all) ==
  \A i \in 1..n : e[i] = e[i - 1] + Len(seqs[i]) /\ Continues(seqs[i], all, e[i - 1])

\* Joined, they are that one.
LEMMA FlattenIs ==
  ASSUME NEW T, NEW n \in Nat, NEW seqs \in Seq(Seq(T)), Len(seqs) = n, NEW e \in [0..n -> Nat],
         e[0] = 0, NEW all \in Seq(T), Len(all) = e[n], Covers(seqs, n, e, all)
  PROVE  FlattenSeq(seqs) = all
<1>1. PICK F : n # 0 => FlattenSeq(seqs) = F[n] /\ FlattenTable(seqs, F, n)
  <2>1. CASE n = 0
    BY <2>1
  <2>2. CASE n # 0
    <3>1. n \in Nat \ {0}
      BY <2>2
    <3>2. QED
      BY <3>1, FlattenUnfold, Zenon
  <2>3. QED
    BY <2>1, <2>2
<1> DEFINE Good(i) == Agrees(T, F[i], all, e[i])
           K == {i \in Nat : i \in 1..n => Good(i)}
<1>2. n = 0 => FlattenSeq(seqs) = seqs
  BY DEF FlattenSeq
<1>3. \A i \in 1..n : F[i] = IF i = 1 THEN seqs[i] ELSE F[i - 1] \o seqs[i]
  <2>1. \A i \in 1..n : n # 0
    OBVIOUS
  <2>2. QED
    BY <1>1, <2>1, Zenon DEF FlattenTable
<1>4. 0 \in K
  OBVIOUS
<1>5. ASSUME NEW i \in K PROVE i + 1 \in K
  <2> SUFFICES ASSUME i + 1 \in 1..n PROVE Good(i + 1)
    <3> HIDE DEF Good
    <3>1. QED
      OBVIOUS
  <2> DEFINE j == i + 1
             t == seqs[j]
             a == e[i]
             z == e[j]
  <2>1. i \in Nat /\ j \in 1..n /\ j - 1 = i /\ i \in 0..n
    OBVIOUS
  <2>2. t \in Seq(T)
    BY <2>1
  <2>3. z = a + Len(t) /\ \A k \in 1..Len(t) : t[k] = all[a + k]
    BY <2>1 DEF Covers, Continues
  <2>4. a \in Nat /\ z \in Nat /\ Len(t) \in Nat
    BY <2>1, <2>2, LenProperties
  <2>5. CASE i = 0
    <3>1. F[j] = t /\ a = 0
      BY <1>3, <2>1, <2>5
    <3> HIDE DEF t, a, z, j
    <3>2. z = Len(t) /\ \A k \in 1..z : t[k] = all[k]
      <4> DEFINE l == Len(t)
      <4>1. l \in Nat /\ z = a + l /\ \A k \in 1..l : t[k] = all[a + k]
        BY <2>3, <2>4
      <4> HIDE DEF l
      <4>2. z = l /\ \A k \in 1..l : a + k = k
        BY <3>1, <4>1
      <4>3. \A k \in 1..l : t[k] = all[k]
        BY <4>1, <4>2, Zenon
      <4>4. QED
        BY <4>2, <4>3, Zenon DEF l
    <3>3. Agrees(T, F[j], all, z)
      BY <2>2, <3>1, <3>2 DEF Agrees
    <3>4. QED
      BY <3>3 DEF z, j
  <2>6. CASE i # 0
    <3> DEFINE s == F[i]
    <3>1. i \in 1..n /\ j # 1
      BY <2>1, <2>6
    <3>2. Agrees(T, s, all, a)
      BY <3>1
    <3>3. F[j] = s \o t
      BY <1>3, <2>1, <3>1
    <3> HIDE DEF s, t, a, z, j
    <3>4. Continues(t, all, a)
      BY <2>3 DEF Continues
    <3>5. Agrees(T, s \o t, all, a + Len(t))
      BY <2>2, <2>4, <3>2, <3>4, Joined, Zenon
    <3>6. Agrees(T, F[j], all, z)
      BY <2>3, <3>3, <3>5, Zenon
    <3>7. QED
      BY <3>6 DEF z, j
  <2>7. QED
    BY <2>5, <2>6
<1> HIDE DEF K
<1>6. K = Nat
  BY <1>4, <1>5, Induct DEF K
<1>7. CASE n = 0
  <2>1. seqs = <<>> /\ all = <<>>
    BY <1>7
  <2>2. QED
    BY <1>2, <1>7, <2>1
<1>8. CASE n # 0
  <2>1. n \in 1..n
    BY <1>8
  <2>2. Good(n)
    BY <1>6, <2>1 DEF K
  <2>3. QED
    BY <1>1, <1>8, <2>2, SeqEqual DEF Agrees
<1>9. QED
  BY <1>7, <1>8

-----------------------------------------------------------------------------
(***************************************************************************)
(* Scanning a pattern                                                      *)
(***************************************************************************)
\* The first position from k on with a character in S, or the one past the end.
LEMMA FirstInIs ==
  ASSUME NEW p \in Seq(Chars), NEW k \in 1..(Len(p) + 1), NEW S
  PROVE  /\ FirstIn(p, k, S) \in k..(Len(p) + 1)
         /\ FirstIn(p, k, S) <= Len(p) => p[FirstIn(p, k, S)] \in S
         /\ \A j \in k..(FirstIn(p, k, S) - 1) : p[j] \notin S
<1> DEFINE K == {n \in Nat : n \in k..(Len(p) + 1) /\ (n <= Len(p) => p[n] \in S)}
<1>1. Len(p) \in Nat /\ Len(p) + 1 \in K
  OBVIOUS
<1>2. PICK n \in K : \A j \in K : n <= j
  BY <1>1, LeastOf
<1>3. n \in k..(Len(p) + 1) /\ (n <= Len(p) => p[n] \in S) /\ \A j \in k..(n - 1) : p[j] \notin S
  <2>1. ASSUME NEW j \in k..(n - 1), p[j] \in S PROVE FALSE
    <3>1. j \in K /\ ~ (n <= j)
      BY <1>1, <1>2, <2>1
    <3>2. QED
      BY <1>2, <3>1
  <2>2. QED
    BY <1>2, <2>1
<1> HIDE DEF K
<1>4. QED
  BY <1>3 DEF FirstIn

Item == [str : Seq(Chars), fmt : Seq(Chars), type : {0, 1}]
\* The items are those of the first a characters; e[k] is where the k-th of them ends.
Done(p, vec, a) ==
  /\ vec \in Seq(Item)
  /\ \E e \in [0..Len(vec) -> Nat] :
       /\ e[0] = 0 /\ e[Len(vec)] = a
       /\ \A k \in 1..Len(vec) : /\ e[k] = e[k - 1] + Len(Written(vec[k]))
                                 /\ Continues(Written(vec[k]), p, e[k - 1])

LEMMA WrittenType == \A it \in Item : Written(it) \in Seq(Chars) /\ Len(Written(it)) \in Nat
<1> SUFFICES ASSUME NEW it \in Item PROVE Written(it) \in Seq(Chars) /\ Len(Written(it)) \in Nat
  OBVIOUS
<1>1. it.str \in Seq(Chars) /\ it.fmt \in Seq(Chars)
  BY DEF Item
<1>2. <<Percent>> \in Seq(Chars) /\ <<Open>> \in Seq(Chars) /\ <<Close>> \in Seq(Chars)
  BY DEF Chars
<1>3. Written(it) \in Seq(Chars)
  BY <1>1, <1>2, ConcatProperties DEF Written
<1>4. QED
  BY <1>3, LenProperties

LEMMA DoneMore ==
  ASSUME NEW p, NEW vec, NEW a \in Nat, Done(p, vec, a), NEW it \in Item,
         Continues(Written(it), p, a)
  PROVE  Done(p, Append(vec, it), a + Len(Written(it)))
<1> DEFINE n == Len(vec)
           w == Append(vec, it)
           l == Len(Written(it))
<1>1. vec \in Seq(Item) /\ n \in Nat /\ l \in Nat
  BY WrittenType DEF Done
<1>2. w \in Seq(Item) /\ Len(w) = n + 1 /\ w[n + 1] = it /\ \A k \in 1..n : w[k] = vec[k]
  BY <1>1
<1>3. PICK e \in [0..n -> Nat] :
        /\ e[0] = 0 /\ e[n] = a
        /\ \A k \in 1..n : e[k] = e[k - 1] + Len(Written(vec[k])) /\ Continues(Written(vec[k]), p, e[k - 1])
  BY DEF Done
<1> DEFINE g == [k \in 0..(n + 1) |-> IF k <= n THEN e[k] ELSE a + l]
<1> HIDE DEF n, w, l
<1>4. /\ g \in [0..(n + 1) -> Nat] /\ g[0] = 0 /\ g[n + 1] = a + l /\ g[n] = a
      /\ \A k \in 1..n : g[k] = e[k] /\ g[k - 1] = e[k - 1]
  BY <1>1, <1>3
<1> HIDE DEF g
<1>5. ASSUME NEW k \in 1..(n + 1)
      PROVE  g[k] = g[k - 1] + Len(Written(w[k])) /\ Continues(Written(w[k]), p, g[k - 1])
  <2>1. CASE k \in 1..n
    <3>1. g[k] = e[k] /\ g[k - 1] = e[k - 1] /\ w[k] = vec[k]
      BY <1>2, <1>4, <2>1
    <3>2. QED
      BY <1>3, <2>1, <3>1
  <2>2. CASE k = n + 1
    <3>1. k - 1 = n
      BY <1>1, <2>2
    <3>2. QED
      BY <1>2, <1>4, <2>2, <3>1 DEF l
  <2>3. QED
    BY <1>1, <2>1, <2>2
<1>6. Done(p, w, a + l)
  BY <1>2, <1>4, <1>5 DEF Done
<1>7. QED
  BY <1>6 DEF w, l

\* Items that end where the pattern ends are the pattern.
LEMMA DoneAll ==
  ASSUME NEW p \in Seq(Chars), NEW vec, Done(p, vec, Len(p))
  PROVE  FlattenSeq([k \in 1..Len(vec) |-> Written(vec[k])]) = p
<1> DEFINE n == Len(vec)
           seqs == [k \in 1..n |-> Written(vec[k])]
<1>1. vec \in Seq(Item) /\ n \in Nat
  BY DEF Done
<1>2. PICK e \in [0..n -> Nat] :
        /\ e[0] = 0 /\ e[n] = Len(p)
        /\ \A k \in 1..n : e[k] = e[k - 1] + Len(Written(vec[k])) /\ Continues(Written(vec[k]), p, e[k - 1])
  BY DEF Done
<1>3. seqs \in Seq(Seq(Chars)) /\ Len(seqs) = n
  <2>1. \A k \in 1..n : Written(vec[k]) \in Seq(Chars)
    BY <1>1, WrittenType
  <2> HIDE DEF n
  <2>2. QED
    BY <1>1, <2>1
<1>4. Covers(seqs, n, e, p)
  BY <1>2 DEF Covers
<1> HIDE DEF n, seqs
<1>5. FlattenSeq(seqs) = p
  BY <1>1, <1>2, <1>3, <1>4, FlattenIs, Zenon
<1>6. QED
  BY <1>5 DEF seqs, n

-----------------------------------------------------------------------------
(***************************************************************************)
(* Pieces of a pattern                                                     *)
(***************************************************************************)
\* A piece that goes on where another one ends.
LEMMA ContinuesOn ==
  ASSUME NEW s \in Seq(Chars), NEW t \in Seq(Chars), NEW p, NEW a \in Int,
         Continues(s, p, a), Continues(t, p, a + Len(s))
  PROVE  Continues(s \o t, p, a)
<1> DEFINE m == Len(s)
           n == Len(t)
<1>1. /\ m \in Nat /\ n \in Nat /\ Len(s \o t) = m + n
      /\ \A k \in 1..(m + n) : (s \o t)[k] = IF k <= m THEN s[k] ELSE t[k - m]
  BY ConcatProperties, LenProperties
<1>2. (\A k \in 1..m : s[k] = p[a + k]) /\ (\A k \in 1..n : t[k] = p[(a + m) + k])
  BY DEF Continues
<1> HIDE DEF m, n
<1>3. ASSUME NEW k \in 1..(m + n) PROVE (s \o t)[k] = p[a + k]
  <2>1. CASE k <= m
    BY <1>1, <1>2, <2>1
  <2>2. CASE ~ (k <= m)
    <3> DEFINE x == k - m
    <3>1. x \in 1..n /\ (a + m) + x = a + k
      BY <1>1, <2>2
    <3>2. (s \o t)[k] = t[x]
      BY <1>1, <2>2
    <3> HIDE DEF x
    <3>3. QED
      BY <1>2, <3>1, <3>2, Zenon
  <2>3. QED
    BY <2>1, <2>2
<1>4. QED
  BY <1>1, <1>3 DEF Continues

\* A substring, and a single character.
LEMMA ContinuesSub ==
  ASSUME NEW p \in Seq(Chars), NEW m \in 1..(Len(p) + 1), NEW n \in (m - 1)..Len(p)
  PROVE  /\ SubSeq(p, m, n) \in Seq(Chars) /\ Len(SubSeq(p, m, n)) = n - m + 1
         /\ Continues(SubSeq(p, m, n), p, m - 1)
<1>1. SubSeq(p, m, n) \in Seq(Chars) /\ Len(SubSeq(p, m, n)) = n - m + 1
  OBVIOUS
<1>2. \A k \in 1..(n - m + 1) : SubSeq(p, m, n)[k] = p[m + k - 1] /\ m + k - 1 = (m - 1) + k
  OBVIOUS
<1>3. QED
  BY <1>1, <1>2 DEF Continues

LEMMA ContinuesOne ==
  ASSUME NEW p, NEW a \in Int, NEW c \in Chars, p[a + 1] = c
  PROVE  <<c>> \in Seq(Chars) /\ Len(<<c>>) = 1 /\ Continues(<<c>>, p, a)
BY DEF Continues

LEMMA CharsHave == Percent \in Chars /\ Open \in Chars /\ Close \in Chars
BY DEF Chars

LEMMA ConcatChars ==
  ASSUME NEW s \in Seq(Chars), NEW t \in Seq(Chars)
  PROVE  s \o t \in Seq(Chars) /\ Len(s \o t) = Len(s) + Len(t)
BY ConcatProperties

\* The name after a %, and the item of it alone.
LEMMA BareItem ==
  ASSUME NEW p \in Seq(Chars), NEW i \in 1..Len(p), p[i] = Percent, NEW e \in (i + 1)..(Len(p) + 1)
  PROVE  LET w == <<Percent>> \o SubSeq(p, i + 1, e - 1)
         IN  w \in Seq(Chars) /\ Len(w) = e - i /\ Continues(w, p, i - 1)
<1> DEFINE name == SubSeq(p, i + 1, e - 1)
           a == i - 1
           one == <<Percent>>
<1>1. Len(p) \in Nat /\ a \in Int /\ a + 1 = i /\ Percent \in Chars
  BY CharsHave
<1>2. one \in Seq(Chars) /\ Len(one) = 1 /\ Continues(one, p, a)
  BY <1>1, ContinuesOne
<1>3. name \in Seq(Chars) /\ Len(name) = e - 1 - i /\ Continues(name, p, i)
  <2>1. i + 1 \in 1..(Len(p) + 1) /\ e - 1 \in ((i + 1) - 1)..Len(p) /\ (i + 1) - 1 = i
        /\ (e - 1) - (i + 1) + 1 = e - 1 - i
    BY <1>1
  <2>2. QED
    BY <2>1, ContinuesSub
<1> HIDE DEF name, a, one
<1>4. a + Len(one) = i
  BY <1>1, <1>2
<1>5. Continues(one \o name, p, a)
  BY <1>1, <1>2, <1>3, <1>4, ContinuesOn
<1>6. one \o name \in Seq(Chars) /\ Len(one \o name) = e - i
  <2>1. one \o name \in Seq(Chars) /\ Len(one \o name) = Len(one) + Len(name)
    BY <1>2, <1>3, ConcatChars
  <2>2. QED
    BY <1>2, <1>3, <2>1
<1>7. QED
  BY <1>5, <1>6 DEF one, name, a

\* A format in its braces.
LEMMA Braces ==
  ASSUME NEW p \in Seq(Chars), NEW e \in 1..Len(p), NEW b \in (e + 1)..Len(p), p[e] = Open, p[b] = Close
  PROVE  LET w == <<Open>> \o SubSeq(p, e + 1, b - 1) \o <<Close>>
         IN  w \in Seq(Chars) /\ Len(w) = b + 1 - e /\ Continues(w, p, e - 1)
<1> DEFINE fmt == SubSeq(p, e + 1, b - 1)
           a == e - 1
           one == <<Open>>
           last == <<Close>>
<1>1. Len(p) \in Nat /\ a \in Int /\ a + 1 = e /\ Open \in Chars /\ Close \in Chars
      /\ b - 1 \in Int /\ (b - 1) + 1 = b
  BY CharsHave
<1>2. one \in Seq(Chars) /\ Len(one) = 1 /\ Continues(one, p, a)
  BY <1>1, ContinuesOne
<1>3. fmt \in Seq(Chars) /\ Len(fmt) = b - 1 - e /\ Continues(fmt, p, e)
  <2>1. e + 1 \in 1..(Len(p) + 1) /\ b - 1 \in ((e + 1) - 1)..Len(p) /\ (e + 1) - 1 = e
        /\ (b - 1) - (e + 1) + 1 = b - 1 - e
    BY <1>1
  <2>2. QED
    BY <2>1, ContinuesSub
<1>4. last \in Seq(Chars) /\ Len(last) = 1 /\ Continues(last, p, b - 1)
  BY <1>1, ContinuesOne
<1> HIDE DEF fmt, a, one, last
<1>5. a + Len(one) = e
  BY <1>1, <1>2
<1>6. Continues(one \o fmt, p, a)
  BY <1>1, <1>2, <1>3, <1>5, ContinuesOn
<1>7. one \o fmt \in Seq(Chars) /\ Len(one \o fmt) = b - e
  <2>1. one \o fmt \in Seq(Chars) /\ Len(one \o fmt) = Len(one) + Len(fmt)
    BY <1>2, <1>3, ConcatChars
  <2>2. QED
    BY <1>2, <1>3, <2>1
<1>8. a + Len(one \o fmt) = b - 1
  BY <1>1, <1>7
<1>9. Continues((one \o fmt) \o last, p, a)
  BY <1>1, <1>4, <1>6, <1>7, <1>8, ContinuesOn
<1>10. (one \o fmt) \o last \in Seq(Chars) /\ Len((one \o fmt) \o last) = b + 1 - e
  <2>1. /\ (one \o fmt) \o last \in Seq(Chars)
        /\ Len((one \o fmt) \o last) = Len(one \o fmt) + Len(last)
    BY <1>4, <1>7, ConcatChars
  <2>2. QED
    BY <1>4, <1>7, <2>1
<1>11. QED
  BY <1>9, <1>10 DEF one, fmt, a, last

\* The item at a % of a plain pattern is the text it is cut from.
LEMMA ScanExact ==
  ASSUME NEW p \in Seq(Chars), Plain(p), NEW i \in 1..Len(p), p[i] = Percent
  PROVE  /\ ScanItem(p, i).good /\ ScanItem(p, i).item \in Item
         /\ ScanItem(p, i).next \in (i + 1)..(Len(p) + 1)
         /\ Len(Written(ScanItem(p, i).item)) = ScanItem(p, i).next - i
         /\ Continues(Written(ScanItem(p, i).item), p, i - 1)
<1> DEFINE S == Chars \ (Alpha \cup {Close})
           e == FirstIn(p, i + 1, S)
           name == SubSeq(p, i + 1, e - 1)
           b == FirstIn(p, e + 1, {Close})
           fmt == SubSeq(p, e + 1, b - 1)
           w == <<Percent>> \o name
           scan == ScanItem(p, i)
<1>1. Len(p) \in Nat /\ i + 1 \in 1..(Len(p) + 1)
  OBVIOUS
<1>2. e \in (i + 1)..(Len(p) + 1)
  BY <1>1, FirstInIs
<1>3. name \in Seq(Chars)
  <2> HIDE DEF e
  <2>1. e - 1 \in ((i + 1) - 1)..Len(p)
    BY <1>1, <1>2
  <2>2. QED
    BY <1>1, <2>1, ContinuesSub
<1>4. w \in Seq(Chars) /\ Len(w) = e - i /\ Continues(w, p, i - 1)
  <2> HIDE DEF e
  <2>1. QED
    BY <1>2, BareItem
<1>5. CASE e > Len(p) \/ p[e] # Open
  <2> DEFINE it == [str |-> name, fmt |-> <<>>, type |-> 1]
  <2>1. scan = [item |-> it, next |-> e, good |-> TRUE]
    BY <1>5 DEF ScanItem
  <2> HIDE DEF e, name, scan
  <2>2. it \in Item
    BY <1>3 DEF Item
  <2>3. Written(it) = w
    <3>1. Written(it) = w \o <<>>
      BY DEF Written
    <3>2. QED
      BY <1>4, <3>1, ConcatEmptySeq
  <2>4. scan.item = it /\ scan.next = e /\ scan.good
    BY <2>1
  <2> HIDE DEF it, w
  <2>5. QED
    BY <1>2, <1>4, <2>2, <2>3, <2>4 DEF scan
<1>6. CASE ~ (e > Len(p) \/ p[e] # Open)
  <2> DEFINE it == [str |-> name, fmt |-> fmt, type |-> 1]
             v == <<Open>> \o fmt \o <<Close>>
  <2>1. scan = [item |-> it, next |-> b + 1, good |-> b <= Len(p)]
    BY <1>6 DEF ScanItem
  <2> HIDE DEF e, name, scan, w
  <2>2. e \in 1..Len(p) /\ p[e] = Open /\ e + 1 \in 1..(Len(p) + 1)
    BY <1>1, <1>2, <1>6
  <2>3. /\ b \in (e + 1)..(Len(p) + 1) /\ (b <= Len(p) => p[b] = Close)
        /\ \A j \in (e + 1)..(b - 1) : p[j] # Close
    BY <2>2, FirstInIs
  <2> HIDE DEF b
  <2>4. b <= Len(p)
    <3>1. PICK j \in (e + 1)..Len(p) : p[j] = Close
      BY <2>2 DEF Plain
    <3>2. QED
      BY <1>1, <2>2, <2>3, <3>1
  <2>5. b # e + 1
    <3>1. b = e + 1 => e \in 1..(Len(p) - 1)
      BY <2>2, <2>4
    <3>2. QED
      BY <2>2, <2>3, <2>4, <3>1 DEF Plain
  <2>6. b \in (e + 1)..Len(p) /\ p[b] = Close
    BY <1>1, <2>2, <2>3, <2>4
  <2>7. v \in Seq(Chars) /\ Len(v) = b + 1 - e /\ Continues(v, p, e - 1)
    BY <2>2, <2>6, Braces
  <2>8. fmt \in Seq(Chars) /\ Len(fmt) = b - 1 - e
    <3>1. b - 1 \in ((e + 1) - 1)..Len(p) /\ (b - 1) - (e + 1) + 1 = b - 1 - e
      BY <2>2, <2>6
    <3>2. QED
      BY <2>2, <3>1, ContinuesSub
  <2>9. fmt # <<>>
    <3> HIDE DEF fmt
    <3>1. Len(fmt) # 0
      BY <2>2, <2>5, <2>6, <2>8
    <3>2. QED
      BY <3>1
  <2> HIDE DEF fmt
  <2>10. Written(it) = w \o v
    BY <2>9 DEF Written, w
  <2> HIDE DEF v
  <2>11. it \in Item
    BY <1>3, <2>8 DEF Item
  <2>12. scan.item = it /\ scan.next = b + 1 /\ scan.good
    BY <2>1, <2>4
  <2> HIDE DEF it
  <2>13. (i - 1) + Len(w) = e - 1 /\ i - 1 \in Int
    BY <1>4, <2>2
  <2>14. Continues(w \o v, p, i - 1)
    BY <1>4, <2>7, <2>13, ContinuesOn
  <2>15. Len(w \o v) = (b + 1) - i
    <3>1. Len(w \o v) = Len(w) + Len(v)
      BY <1>4, <2>7, ConcatChars
    <3>2. QED
      BY <1>4, <2>2, <2>6, <2>7, <3>1
  <2>16. b + 1 \in (i + 1)..(Len(p) + 1)
    BY <1>1, <1>2, <2>6
  <2>17. QED
    BY <2>10, <2>11, <2>12, <2>14, <2>15, <2>16 DEF scan
<1>7. QED
  BY <1>5, <1>6

-----------------------------------------------------------------------------
(***************************************************************************)
(* The outer loop.  The items so far are those of the first a characters,  *)
(* the literal text continues there and ends before i, and k turns have    *)
(* gone past k characters or to the end.                                   *)
(***************************************************************************)
CutState == [i : Nat, nstr : Seq(Chars), vec : Seq(Item)]
CutUpTo(p, s, a) ==
  /\ s \in CutState
  /\ s.i \in 1..(Len(p) + 1) /\ s.i = a + Len(s.nstr) + 1
  /\ Done(p, s.vec, a) /\ Continues(s.nstr, p, a)
Cutting(p, s, k) == (k < s.i \/ s.i = Len(p) + 1) /\ \E a \in Nat : CutUpTo(p, s, a)

\* The literal text becomes an item.
LEMMA FlushDone ==
  ASSUME NEW p \in Seq(Chars), NEW s, NEW a \in Nat, CutUpTo(p, s, a)
  PROVE  Done(p, Flush(s.nstr, s.vec), s.i - 1)
<1> DEFINE x == s.nstr
<1>1. x \in Seq(Chars) /\ Len(x) \in Nat /\ s.i - 1 = a + Len(x)
  BY DEF CutUpTo, CutState
<1>2. Done(p, s.vec, a) /\ Continues(x, p, a)
  BY DEF CutUpTo
<1> HIDE DEF x
<1>3. CASE x = <<>>
  <2>1. s.i - 1 = a
    BY <1>1, <1>3
  <2>2. QED
    BY <1>2, <1>3, <2>1 DEF Flush, x
<1>4. CASE x # <<>>
  <2> DEFINE it == Literal(x)
  <2>1. it \in Item /\ Written(it) = x
    BY <1>1 DEF Literal, Item, Written
  <2> HIDE DEF it
  <2>2. Done(p, Append(s.vec, it), a + Len(x))
    BY <1>2, <2>1, DoneMore
  <2>3. Flush(x, s.vec) = Append(s.vec, it)
    BY <1>4 DEF Flush, it
  <2>4. QED
    BY <1>1, <2>2, <2>3 DEF x
<1>5. QED
  BY <1>3, <1>4

\* The loop counts one character more, or to the end of an item.
LEMMA OneMore ==
  ASSUME NEW i \in Nat, NEW l \in Nat, NEW a \in Nat, NEW m \in Nat, i = a + l + 1, i <= m
  PROVE  i + 1 \in 1..(m + 1) /\ i + 1 = a + (l + 1) + 1
OBVIOUS

LEMMA ItemMore ==
  ASSUME NEW m \in Nat, NEW i \in 1..m, NEW n \in (i + 1)..(m + 1), NEW k \in Nat, k < i
  PROVE  /\ i - 1 \in Nat /\ (i - 1) + (n - i) = n - 1
         /\ n \in 1..(m + 1) /\ n - 1 \in Nat /\ n = (n - 1) + 0 + 1 /\ n \in Nat /\ k + 1 < n
OBVIOUS

\* One more character of literal text.
LEMMA TurnText ==
  ASSUME NEW p \in Seq(Chars), NEW s, NEW k \in Nat, Cutting(p, s, k), s.i <= Len(p),
         NEW t, t = [s EXCEPT !.i = @ + 1, !.nstr = Append(@, p[s.i])]
  PROVE  Cutting(p, t, k + 1)
<1>1. PICK a \in Nat : CutUpTo(p, s, a)
  BY DEF Cutting
<1> DEFINE x == s.nstr
           c == p[s.i]
           y == Append(x, c)
<1>2. /\ s \in CutState /\ x \in Seq(Chars) /\ s.i \in Nat /\ s.vec \in Seq(Item)
      /\ s.i \in 1..(Len(p) + 1) /\ s.i = a + Len(x) + 1
      /\ Done(p, s.vec, a) /\ Continues(x, p, a) /\ Len(x) \in Nat /\ Len(p) \in Nat
  BY <1>1 DEF CutUpTo, CutState
<1>3. c \in Chars
  BY <1>2
<1>4. t.i = s.i + 1 /\ t.nstr = y /\ t.vec = s.vec /\ t \in CutState
  <2>1. y \in Seq(Chars) /\ s.i + 1 \in Nat
    BY <1>2, <1>3
  <2>2. t = [s EXCEPT !.i = s.i + 1, !.nstr = y]
    OBVIOUS
  <2> HIDE DEF y
  <2>3. QED
    BY <1>2, <2>1, <2>2 DEF CutState
<1>5. k < s.i
  BY <1>2 DEF Cutting
<1> HIDE DEF c, x
<1>6. /\ y \in Seq(Chars) /\ Len(y) = Len(x) + 1
      /\ y[Len(x) + 1] = c /\ \A j \in 1..Len(x) : y[j] = x[j]
  BY <1>2, <1>3
<1> HIDE DEF y
<1>7. Continues(y, p, a)
  <2>1. ASSUME NEW j \in 1..Len(y) PROVE y[j] = p[a + j]
    <3>1. CASE j \in 1..Len(x)
      <4>1. x[j] = p[a + j]
        BY <1>2, <3>1 DEF Continues
      <4>2. QED
        BY <1>6, <3>1, <4>1
    <3>2. CASE j = Len(x) + 1
      <4>1. a + j = s.i
        BY <1>2, <3>2
      <4>2. QED
        BY <1>6, <3>2, <4>1 DEF c
    <3>3. QED
      BY <1>2, <1>6, <3>1, <3>2
  <2>2. QED
    BY <2>1 DEF Continues
<1>8. CutUpTo(p, t, a)
  <2>1. t.i \in 1..(Len(p) + 1) /\ t.i = a + Len(t.nstr) + 1
    <3>1. s.i + 1 \in 1..(Len(p) + 1) /\ s.i + 1 = a + (Len(x) + 1) + 1
      BY <1>2, OneMore
    <3>2. QED
      BY <1>4, <1>6, <3>1, Zenon
  <2>2. QED
    BY <1>2, <1>4, <1>7, <2>1, Zenon DEF CutUpTo
<1>9. k + 1 < t.i
  BY <1>2, <1>4, <1>5
<1>10. QED
  BY <1>8, <1>9 DEF Cutting

\* One turn on a plain pattern.
LEMMA TurnKeeps ==
  ASSUME NEW p \in Seq(Chars), Plain(p), NEW s, NEW k \in Nat, Cutting(p, s, k)
  PROVE  Cutting(p, Turn(p, s), k + 1)
<1>1. PICK a \in Nat : CutUpTo(p, s, a)
  BY DEF Cutting
<1>2. s \in CutState /\ s.i \in 1..(Len(p) + 1) /\ Len(p) \in Nat
  BY <1>1 DEF CutUpTo
<1>3. CASE s.i > Len(p)
  <2>1. s.i = Len(p) + 1 /\ Turn(p, s) = s
    BY <1>2, <1>3 DEF Turn
  <2>2. QED
    BY <2>1 DEF Cutting
<1>4. CASE s.i <= Len(p) /\ p[s.i] # Percent
  <2>1. Turn(p, s) = [s EXCEPT !.i = @ + 1, !.nstr = Append(@, p[s.i])]
    BY <1>2, <1>4 DEF Turn
  <2> DEFINE t == Turn(p, s)
  <2> HIDE DEF t
  <2>2. t = [s EXCEPT !.i = @ + 1, !.nstr = Append(@, p[s.i])]
    BY <2>1 DEF t
  <2>3. Cutting(p, t, k + 1)
    BY <1>4, <2>2, TurnText
  <2>4. QED
    BY <2>3 DEF t
<1>5. CASE s.i <= Len(p) /\ p[s.i] = Percent
  <2> DEFINE i == s.i
             scan == ScanItem(p, i)
             it == scan.item
             f == Flush(s.nstr, s.vec)
             t == [i |-> scan.next, nstr |-> <<>>, vec |-> Append(f, it)]
  <2>1. i \in 1..Len(p) /\ p[i] = Percent
    BY <1>2, <1>5
  <2>2. ~ (i < Len(p) /\ p[i + 1] = Percent)
    <3> HIDE DEF i
    <3>1. ASSUME i < Len(p) PROVE p[i + 1] # Percent
      <4>1. i \in 1..(Len(p) - 1)
        BY <1>2, <2>1, <3>1
      <4>2. QED
        BY <2>1, <4>1 DEF Plain
    <3>2. QED
      BY <3>1
  <2>3. /\ scan.good /\ it \in Item /\ scan.next \in (i + 1)..(Len(p) + 1)
        /\ Len(Written(it)) = scan.next - i /\ Continues(Written(it), p, i - 1)
    <3> HIDE DEF i
    <3>1. QED
      BY <2>1, ScanExact
  <2>4. Turn(p, s) = t
    <3> HIDE DEF it, f
    <3>1. ~ (s.i > Len(p)) /\ ~ (p[s.i] # Percent)
      BY <1>2, <1>5
    <3>2. QED
      BY <2>2, <2>3, <3>1, Zenon DEF Turn, NextAfter, it, f
  <2>5. Done(p, f, i - 1)
    BY <1>1, FlushDone
  <2> HIDE DEF f, it, scan
  <2> DEFINE n == scan.next
             vec == Append(f, it)
  <2> HIDE DEF n, vec
  <2>6. /\ i - 1 \in Nat /\ (i - 1) + (n - i) = n - 1 /\ n \in 1..(Len(p) + 1)
        /\ n - 1 \in Nat /\ n = (n - 1) + 0 + 1 /\ n \in Nat /\ k + 1 < n
    <3>1. k < i
      BY <1>2, <2>1 DEF Cutting
    <3>2. n \in (i + 1)..(Len(p) + 1)
      BY <2>3 DEF n
    <3> HIDE DEF i
    <3>3. QED
      BY <1>2, <2>1, <3>1, <3>2, ItemMore
  <2>7. Done(p, vec, n - 1)
    <3>1. Done(p, Append(f, it), (i - 1) + Len(Written(it)))
      BY <2>3, <2>5, <2>6, DoneMore
    <3>2. (i - 1) + Len(Written(it)) = n - 1
      BY <2>3, <2>6, Zenon DEF n
    <3>3. QED
      BY <3>1, <3>2, Zenon DEF vec
  <2>8. vec \in Seq(Item)
    BY <2>7 DEF Done
  <2>9. t.i = n /\ t.nstr = <<>> /\ t.vec = vec
    BY DEF n, vec
  <2>10. t \in CutState
    <3>1. t = [i |-> n, nstr |-> <<>>, vec |-> vec]
      BY DEF n, vec
    <3>2. <<>> \in Seq(Chars) /\ n \in Nat
      BY <2>6
    <3> HIDE DEF t
    <3>3. QED
      BY <2>8, <3>1, <3>2 DEF CutState
  <2> HIDE DEF t
  <2>11. Continues(t.nstr, p, n - 1) /\ Len(t.nstr) = 0
    BY <2>9 DEF Continues
  <2>12. CutUpTo(p, t, n - 1)
    BY <2>6, <2>7, <2>9, <2>10, <2>11, Zenon DEF CutUpTo
  <2>13. Cutting(p, t, k + 1)
    BY <2>6, <2>9, <2>12, Zenon DEF Cutting
  <2>14. QED
    BY <2>4, <2>13
<1>6. QED
  BY <1>2, <1>3, <1>4, <1>5

\* The table of states after each turn.
CutTable(p, f, n) ==
  f = [k \in 0..n |-> IF k = 0 THEN [i |-> 1, nstr |-> <<>>, vec |-> <<>>] ELSE Turn(p, f[k - 1])]

LEMMA CutTables ==
  ASSUME NEW p
  PROVE  \A n \in Nat : \E f : CutTable(p, f, n)
<1> DEFINE K == {n \in Nat : \E f : CutTable(p, f, n)}
           start == [i |-> 1, nstr |-> <<>>, vec |-> <<>>]
<1>1. 0 \in K
  <2> DEFINE f == [k \in 0..0 |-> start]
  <2>1. \A k \in 0..0 : start = IF k = 0 THEN start ELSE Turn(p, f[k - 1])
    OBVIOUS
  <2>2. f = [k \in 0..0 |-> IF k = 0 THEN start ELSE Turn(p, f[k - 1])]
    BY <2>1, Zenon
  <2>3. CutTable(p, f, 0)
    BY <2>2 DEF CutTable
  <2>4. QED
    BY <2>3
<1>2. ASSUME NEW n \in K PROVE n + 1 \in K
  <2>1. PICK f : CutTable(p, f, n)
    OBVIOUS
  <2> DEFINE g == [k \in 0..(n + 1) |-> IF k = 0 THEN start ELSE Turn(p, f[k - 1])]
  <2>2. \A k \in 0..n : f[k] = IF k = 0 THEN start ELSE Turn(p, f[k - 1])
    BY <2>1, Zenon DEF CutTable
  <2>3. \A k \in 0..(n + 1) : g[k] = IF k = 0 THEN start ELSE Turn(p, f[k - 1])
    BY Zenon
  <2> HIDE DEF g, start
  <2>4. \A k \in 0..(n + 1) : k # 0 => g[k - 1] = f[k - 1]
    <3>1. \A k \in 0..n : k \in 0..(n + 1)
      OBVIOUS
    <3>2. \A k \in 0..n : g[k] = f[k]
      BY <2>2, <2>3, <3>1, Zenon
    <3>3. \A k \in 0..(n + 1) : k # 0 => k - 1 \in 0..n
      OBVIOUS
    <3>4. QED
      BY <3>2, <3>3, Zenon
  <2>5. \A k \in 0..(n + 1) : (IF k = 0 THEN start ELSE Turn(p, f[k - 1]))
                               = (IF k = 0 THEN start ELSE Turn(p, g[k - 1]))
    BY <2>4, Zenon
  <2>6. CutTable(p, g, n + 1)
    BY <2>5, Zenon DEF CutTable, g, start
  <2>7. QED
    BY <2>6
<1> HIDE DEF K
<1>3. K = Nat
  BY <1>1, <1>2, Induct DEF K
<1>4. QED
  BY <1>3, Zenon DEF K

\* The items of a pattern are those of the last state.
LEMMA ItemsUnfold ==
  ASSUME NEW p \in Seq(Chars)
  PROVE  \E f : /\ initItems(p) = Flush(f[Len(p)].nstr, f[Len(p)].vec)
                /\ CutTable(p, f, Len(p))
<1> DEFINE F == CHOOSE f : CutTable(p, f, Len(p))
<1>1. Len(p) \in Nat
  OBVIOUS
<1>2. CutTable(p, F, Len(p))
  BY <1>1, CutTables, Zenon
<1>3. initItems(p) = Flush(F[Len(p)].nstr, F[Len(p)].vec)
  BY Zenon DEF initItems, CutTable
<1> HIDE DEF F
<1>4. QED
  BY <1>2, <1>3, Zenon

\* Every state of the loop is as Cutting says.
LEMMA CutAlways ==
  ASSUME NEW p \in Seq(Chars), Plain(p), NEW f, CutTable(p, f, Len(p))
  PROVE  Cutting(p, f[Len(p)], Len(p))
<1> DEFINE n == Len(p)
           start == [i |-> 1, nstr |-> <<>>, vec |-> <<>>]
           K == {k \in Nat : k \in 0..n => Cutting(p, f[k], k)}
<1>1. n \in Nat
  OBVIOUS
<1>2. \A k \in 0..n : f[k] = IF k = 0 THEN start ELSE Turn(p, f[k - 1])
  BY Zenon DEF CutTable
<1>3. 0 \in K
  <2>1. f[0] = start
    BY <1>1, <1>2
  <2>2. start.i = 1 /\ start.nstr = <<>> /\ start.vec = <<>> /\ start \in CutState
    BY DEF CutState
  <2> HIDE DEF start
  <2>3. Done(p, <<>>, 0)
    <3> DEFINE e == [k \in 0..0 |-> 0]
    <3>1. e \in [0..0 -> Nat] /\ e[0] = 0 /\ Len(<<>>) = 0 /\ <<>> \in Seq(Item)
      OBVIOUS
    <3> HIDE DEF e
    <3>2. QED
      BY <3>1 DEF Done
  <2>4. Continues(<<>>, p, 0) /\ Len(<<>>) = 0
    BY DEF Continues
  <2>5. CutUpTo(p, start, 0)
    BY <1>1, <2>2, <2>3, <2>4 DEF CutUpTo
  <2>6. Cutting(p, start, 0)
    BY <2>2, <2>5 DEF Cutting
  <2>7. QED
    BY <2>1, <2>6
<1>4. ASSUME NEW k \in K PROVE k + 1 \in K
  <2> SUFFICES ASSUME k + 1 \in 0..n PROVE Cutting(p, f[k + 1], k + 1)
    OBVIOUS
  <2> HIDE DEF n, start
  <2>1. k \in Nat /\ k \in 0..n /\ (k + 1) - 1 = k /\ k + 1 # 0
    BY <1>1
  <2>2. f[k + 1] = Turn(p, f[k])
    BY <1>2, <2>1, Zenon
  <2>3. Cutting(p, f[k], k)
    BY <2>1
  <2>4. QED
    BY <2>1, <2>2, <2>3, TurnKeeps
<1> HIDE DEF K
<1>5. K = Nat
  BY <1>3, <1>4, Induct DEF K
<1>6. n \in K /\ n \in 0..n
  BY <1>1, <1>5
<1>7. QED
  BY <1>6 DEF K

\* LogFormatter::init cuts every plain pattern exactly.
LEMMA Exact ==
  ASSUME NEW p \in Seq(Chars)
  PROVE  FormatterExact(p)
<1> SUFFICES ASSUME Plain(p)
             PROVE  /\ FlattenSeq([k \in 1..Len(initItems(p)) |-> Written(initItems(p)[k])]) = p
                    /\ \A k \in 1..Len(initItems(p)) : initItems(p)[k] # PatternError
  BY DEF FormatterExact
<1> DEFINE vec == initItems(p)
<1>1. PICK f : vec = Flush(f[Len(p)].nstr, f[Len(p)].vec) /\ CutTable(p, f, Len(p))
  BY ItemsUnfold
<1> DEFINE s == f[Len(p)]
<1>2. Cutting(p, s, Len(p))
  BY <1>1, CutAlways
<1> HIDE DEF s, vec
<1>3. PICK a \in Nat : CutUpTo(p, s, a)
  BY <1>2 DEF Cutting
<1>4. s.i = Len(p) + 1 /\ s.i - 1 = Len(p)
  <2>1. s.i \in 1..(Len(p) + 1) /\ Len(p) \in Nat
    BY <1>3 DEF CutUpTo
  <2>2. QED
    BY <1>2, <2>1 DEF Cutting
<1>5. Done(p, vec, Len(p))
  BY <1>1, <1>3, <1>4, FlushDone DEF s
<1>6. FlattenSeq([k \in 1..Len(vec) |-> Written(vec[k])]) = p
  BY <1>5, DoneAll
<1>7. ASSUME NEW k \in 1..Len(vec) PROVE vec[k] # PatternError
  <2>1. vec[k] \in Item
    BY <1>5 DEF Done
  <2>2. vec[k].str \in Seq(Chars)
    BY <2>1 DEF Item
  <2>3. PatternError.str = <<"pattern_error">>
    BY DEF PatternError
  <2>4. <<"pattern_error">> \notin Seq(Chars)
    <3>1. "pattern_error" \notin Chars
      BY DEF Chars, Alpha, Items, Percent, Open, Close
    <3>2. ASSUME <<"pattern_error">> \in Seq(Chars) PROVE FALSE
      <4>1. <<"pattern_error">>[1] \in Chars
        BY <3>2
      <4>2. QED
        BY <3>1, <4>1
    <3>3. QED
      BY <3>2
  <2>5. QED
    BY <2>2, <2>3, <2>4
<1>8. QED
  BY <1>6, <1>7 DEF vec

-----------------------------------------------------------------------------
\* A program that only builds formatters has one pattern, of any length up to the bound.
PatternInv == pattern \in Seq(Chars)

LEMMA PatternKept == Spec => []PatternInv
<1>1. Init => PatternInv
  BY LogAssumption DEF Init, PatternInv, BoundedSeq, SeqOf
<1>2. PatternInv /\ [Next]_vars => PatternInv'
  BY DEF PatternInv, Next, vars
<1>3. QED
  BY <1>1, <1>2, PTL DEF Spec

\* LogFormatter::init cuts a pattern of any length without losing, adding or moving a
\* character, and reports an error only for a name that no item has.
THEOREM PatternsAreExact == Spec => []PatternsExact
<1>1. PatternInv => PatternsExact
  BY Exact DEF PatternInv, PatternsExact
<1>2. QED
  BY <1>1, PatternKept, PTL
=============================================================================
