--------------------------- MODULE ByteArrayProofs --------------------------
(***************************************************************************)
(* Proofs about ByteArray: the chain of blocks implements FlatBuffer, the  *)
(* current block is that of the position, the pieces are exact and a value *)
(* is read back, for blocks, bytes and integers of every size.             *)
(***************************************************************************)
EXTENDS ByteArray, TLAPS, WellFoundedInduction, SequenceTheorems

-----------------------------------------------------------------------------
(***************************************************************************)
(* Arithmetic                                                              *)
(***************************************************************************)
LEMMA DivMod ==
  ASSUME NEW a \in Nat, NEW d \in Nat \ {0}
  PROVE  /\ a \div d \in Nat /\ a % d \in Nat /\ a % d < d
         /\ a = d * (a \div d) + (a % d)
<1>1. a \div d \in Nat
  BY SMT
<1>2. a % d \in Nat /\ a % d < d
  BY SMT
<1>3. a = d * (a \div d) + (a % d)
  BY SMT
<1>4. QED
  BY <1>1, <1>2, <1>3

LEMMA DivUnique ==
  ASSUME NEW d \in Nat \ {0}, NEW q \in Nat, NEW r \in Nat, r < d
  PROVE  /\ (d * q + r) \div d = q
         /\ (d * q + r) % d = r
  BY SMT

LEMMA MulMono ==
  ASSUME NEW d \in Nat \ {0}, NEW x \in Int, NEW y \in Int
  PROVE  /\ d * x \in Int /\ d * x + d * y = d * (x + y) /\ d * x - d * y = d * (x - y)
         /\ x < y => d * x + d <= d * y
         /\ x <= y => d * x <= d * y
  BY SMT

LEMMA DivExact ==
  ASSUME NEW d \in Nat \ {0}, NEW q \in Nat
  PROVE  (q * d) \div d = q /\ (q * d) % d = 0
<1>1. q * d = d * q + 0 /\ 0 < d
  OBVIOUS
<1>2. QED
  BY <1>1, DivUnique

\* A place in a block counted from an earlier one.
LEMMA DivShift ==
  ASSUME NEW d \in Nat \ {0}, NEW p \in Nat, NEW k \in Nat
  PROVE  /\ p \div d + ((p % d) + k) \div d = (p + k) \div d
         /\ ((p % d) + k) \div d \in Nat
<1> DEFINE q == p \div d
           r == p % d
           t == (r + k) \div d
           u == (r + k) % d
<1>1. q \in Nat /\ r \in Nat /\ p = d * q + r
  BY DivMod
<1>2. t \in Nat /\ u \in Nat /\ u < d /\ r + k = d * t + u
  BY <1>1, DivMod
<1> HIDE DEF q, r, t, u
<1>3. p + k = d * (q + t) + u
  BY <1>1, <1>2
<1>4. (p + k) \div d = q + t
  BY <1>1, <1>2, <1>3, DivUnique
<1>5. QED
  BY <1>2, <1>4 DEF q, r, t

\* A place below n blocks is in one of them.
LEMMA DivBelow ==
  ASSUME NEW d \in Nat \ {0}, NEW k \in Nat, NEW n \in Nat
  PROVE  k < n * d <=> k \div d < n
<1>1. k \div d \in Nat /\ k % d \in Nat /\ k % d < d /\ k = d * (k \div d) + (k % d)
  BY DivMod
<1> DEFINE q == k \div d
           r == k % d
<1> HIDE DEF q, r
<1>2. q \in Nat /\ r \in Nat /\ r < d /\ k = d * q + r
  BY <1>1 DEF q, r
<1>3. q < n => d * q + d <= d * n
  BY <1>2, MulMono
<1>4. n <= q => d * n <= d * q
  BY <1>2, MulMono
<1>5. n * d = d * n /\ d * q \in Int /\ d * n \in Int
  BY <1>2
<1>6. k < n * d <=> q < n
  BY <1>2, <1>3, <1>4, <1>5
<1>7. QED
  BY <1>6 DEF q

-----------------------------------------------------------------------------
(***************************************************************************)
(* Powers of 2                                                             *)
(***************************************************************************)
\* A set of natural numbers that has a member has a least one.
LEMMA LeastOf ==
  ASSUME NEW K \in SUBSET Nat, NEW m \in K
  PROVE  \E k \in K : \A j \in K : k <= j
<1>1. PICK k \in K : \A j \in K : ~ (<<j, k>> \in OpToRel(<, Nat))
  BY NatLessThanWellFounded, WFMin
<1>2. \A j \in K : ~ (j < k)
  BY <1>1, Zenon DEF OpToRel
<1>3. QED
  BY <1>2

\* What holds for 0 and carries over holds for all.
LEMMA Induct ==
  ASSUME NEW K \in SUBSET Nat, 0 \in K, \A n \in K : n + 1 \in K
  PROVE  K = Nat
<1> SUFFICES ASSUME NEW x \in Nat \ K PROVE FALSE
  OBVIOUS
<1>1. PICK k \in Nat \ K : \A j \in Nat \ K : k <= j
  BY LeastOf
<1>2. k - 1 \in Nat /\ ~ (k <= k - 1)
  BY <1>1
<1>3. k - 1 \in K
  BY <1>1, <1>2, Zenon
<1>4. k = (k - 1) + 1
  BY <1>1
<1>5. QED
  BY <1>1, <1>3, <1>4, Zenon

\* The table of the first powers.
PowerTable(f, n) == f = [k \in 0..n |-> IF k = 0 THEN 1 ELSE 2 * f[k - 1]]

LEMMA PowerTables == \A n \in Nat : \E f : PowerTable(f, n)
<1> DEFINE K == {n \in Nat : \E f : PowerTable(f, n)}
<1>1. 0 \in K
  <2>1. PowerTable([k \in 0..0 |-> 1], 0)
    BY DEF PowerTable
  <2>2. QED
    BY <2>1
<1>2. ASSUME NEW n \in K PROVE n + 1 \in K
  <2>1. PICK f : PowerTable(f, n)
    OBVIOUS
  <2> DEFINE g == [k \in 0..(n + 1) |-> IF k = 0 THEN 1 ELSE 2 * f[k - 1]]
  <2>2. \A k \in 0..n : f[k] = IF k = 0 THEN 1 ELSE 2 * f[k - 1]
    BY <2>1, Zenon DEF PowerTable
  <2>3. \A k \in 0..(n + 1) : g[k] = IF k = 0 THEN 1 ELSE 2 * f[k - 1]
    BY Zenon
  <2> HIDE DEF g
  <2>4. \A k \in 0..(n + 1) : k # 0 => g[k - 1] = f[k - 1]
    <3>1. \A k \in 0..n : g[k] = f[k]
      BY <2>2, <2>3
    <3>2. \A k \in 0..(n + 1) : k # 0 => k - 1 \in 0..n
      OBVIOUS
    <3>3. QED
      BY <3>1, <3>2
  <2>5. \A k \in 0..(n + 1) : (IF k = 0 THEN 1 ELSE 2 * f[k - 1]) = (IF k = 0 THEN 1 ELSE 2 * g[k - 1])
    BY <2>4, Zenon
  <2>6. PowerTable(g, n + 1)
    BY <2>5, Zenon DEF PowerTable, g
  <2>7. QED
    BY <2>6
<1> HIDE DEF K
<1>3. K = Nat
  BY <1>1, <1>2, Induct DEF K
<1>4. QED
  BY <1>3, Zenon DEF K

\* Two tables agree where both are defined.
LEMMA PowerTablesAgree ==
  ASSUME NEW f, NEW g, NEW m \in Nat, NEW n \in Nat, PowerTable(f, m), PowerTable(g, n)
  PROVE  \A k \in Nat : k <= m /\ k <= n => f[k] = g[k]
<1> DEFINE K == {k \in Nat : k <= m /\ k <= n => f[k] = g[k]}
<1>1. \A k \in 0..m : f[k] = IF k = 0 THEN 1 ELSE 2 * f[k - 1]
  BY Zenon DEF PowerTable
<1>2. \A k \in 0..n : g[k] = IF k = 0 THEN 1 ELSE 2 * g[k - 1]
  BY Zenon DEF PowerTable
<1>3. 0 \in K
  BY <1>1, <1>2
<1>4. ASSUME NEW k \in K PROVE k + 1 \in K
  <2>1. CASE k + 1 <= m /\ k + 1 <= n
    <3>1. k + 1 \in 0..m /\ k + 1 \in 0..n /\ k + 1 # 0 /\ (k + 1) - 1 = k /\ k <= m /\ k <= n
      BY <2>1
    <3>2. f[k + 1] = 2 * f[k] /\ g[k + 1] = 2 * g[k]
      BY <1>1, <1>2, <3>1
    <3>3. QED
      BY <3>1, <3>2
  <2>2. QED
    BY <2>1
<1> HIDE DEF K
<1>5. K = Nat
  BY <1>3, <1>4, Induct DEF K
<1>6. QED
  BY <1>5, Zenon DEF K

LEMMA PowerDef == \A k \in Nat : PowerOf2[k] = IF k = 0 THEN 1 ELSE 2 * PowerOf2[k - 1]
<1> DEFINE table(n) == CHOOSE f : PowerTable(f, n)
           P == [k \in Nat |-> table(k)[k]]
<1>1. \A n \in Nat : PowerTable(table(n), n)
  BY PowerTables
<1> HIDE DEF table
<1>2. \A k \in Nat : P[k] = IF k = 0 THEN 1 ELSE 2 * P[k - 1]
  <2> SUFFICES ASSUME NEW k \in Nat PROVE P[k] = IF k = 0 THEN 1 ELSE 2 * P[k - 1]
    OBVIOUS
  <2>1. P[k] = IF k = 0 THEN 1 ELSE 2 * table(k)[k - 1]
    <3>1. k \in 0..k
      OBVIOUS
    <3>2. table(k)[k] = IF k = 0 THEN 1 ELSE 2 * table(k)[k - 1]
      BY <1>1, <3>1, Zenon DEF PowerTable
    <3>3. QED
      BY <3>2
  <2>2. k # 0 => table(k)[k - 1] = P[k - 1]
    <3>1. k # 0 => k - 1 \in Nat /\ k - 1 <= k /\ k - 1 <= k - 1
      OBVIOUS
    <3>2. k # 0 => table(k)[k - 1] = table(k - 1)[k - 1]
      BY <1>1, <3>1, PowerTablesAgree
    <3>3. QED
      BY <3>1, <3>2
  <2>3. QED
    BY <2>1, <2>2, Zenon
<1> HIDE DEF P
<1>3. P = [k \in Nat |-> IF k = 0 THEN 1 ELSE 2 * P[k - 1]]
  <2>1. P = [k \in Nat |-> P[k]]
    BY DEF P
  <2>2. QED
    BY <1>2, <2>1, Zenon
<1>4. PowerOf2 = [k \in Nat |-> IF k = 0 THEN 1 ELSE 2 * PowerOf2[k - 1]]
  BY <1>3, Zenon DEF PowerOf2
<1>5. QED
  BY <1>4, Zenon

LEMMA PowerZero == PowerOf2[0] = 1
  BY PowerDef

LEMMA PowerNext ==
  ASSUME NEW k \in Nat
  PROVE  PowerOf2[k + 1] = 2 * PowerOf2[k]
<1>1. k + 1 \in Nat /\ k + 1 # 0 /\ (k + 1) - 1 = k
  OBVIOUS
<1>2. QED
  BY <1>1, PowerDef

LEMMA PowerType == \A k \in Nat : PowerOf2[k] \in Nat \ {0}
<1> DEFINE K == {k \in Nat : PowerOf2[k] \in Nat \ {0}}
<1>1. 0 \in K
  BY PowerZero
<1>2. ASSUME NEW k \in K PROVE k + 1 \in K
  BY PowerNext
<1> HIDE DEF K
<1>3. K = Nat
  BY <1>1, <1>2, Induct DEF K
<1>4. QED
  BY <1>3, Zenon DEF K

LEMMA PowerAdd ==
  ASSUME NEW i \in Nat
  PROVE  \A j \in Nat : PowerOf2[i + j] = PowerOf2[i] * PowerOf2[j]
<1> DEFINE K == {j \in Nat : PowerOf2[i + j] = PowerOf2[i] * PowerOf2[j]}
<1>1. 0 \in K
  <2>1. i + 0 = i /\ PowerOf2[i] \in Nat
    BY PowerType
  <2>2. QED
    BY <2>1, PowerZero
<1>2. ASSUME NEW j \in K PROVE j + 1 \in K
  <2>1. i + j \in Nat /\ i + (j + 1) = (i + j) + 1
    OBVIOUS
  <2>2. PowerOf2[i + (j + 1)] = 2 * (PowerOf2[i] * PowerOf2[j])
    BY <2>1, PowerNext
  <2>3. PowerOf2[j + 1] = 2 * PowerOf2[j]
    BY PowerNext
  <2>4. PowerOf2[i] \in Nat /\ PowerOf2[j] \in Nat
    BY PowerType
  <2>5. 2 * (PowerOf2[i] * PowerOf2[j]) = PowerOf2[i] * (2 * PowerOf2[j])
    BY <2>4
  <2>6. QED
    BY <2>2, <2>3, <2>5
<1> HIDE DEF K
<1>3. K = Nat
  BY <1>1, <1>2, Induct DEF K
<1>4. QED
  BY <1>3, Zenon DEF K

LEMMA PowerMono ==
  ASSUME NEW i \in Nat, NEW j \in Nat, i <= j
  PROVE  PowerOf2[i] <= PowerOf2[j]
<1>1. j - i \in Nat /\ i + (j - i) = j
  OBVIOUS
<1>2. PowerOf2[j] = PowerOf2[i] * PowerOf2[j - i]
  BY <1>1, PowerAdd
<1>3. PowerOf2[i] \in Nat \ {0} /\ PowerOf2[j - i] \in Nat \ {0}
  BY <1>1, PowerType
<1>4. QED
  BY <1>2, <1>3

LEMMA PayloadType == Payload \in Nat \ {0} /\ Half \in Nat \ {0} /\ Mod \in Nat \ {0}
<1>1. Group \in Nat /\ Width - 1 \in Nat
  BY ByteArrayAssumption
<1>2. QED
  BY <1>1, PowerType DEF Payload, Half, Mod

-----------------------------------------------------------------------------
(***************************************************************************)
(* The chain                                                               *)
(***************************************************************************)
ABlock == [1..BaseSize -> Byte]

\* An object as the calls find it: the blocks make up the capacity, the position is not
\* beyond the size and the current block is the one of the position, or null.
Chain(b) ==
  /\ b \in [blocks : Seq(ABlock), capacity : Nat, size : Nat, position : Nat, cur : Nat,
            fault : BOOLEAN]
  /\ ~b.fault /\ b.blocks # <<>>
  /\ b.capacity = Len(b.blocks) * BaseSize
  /\ b.size <= b.capacity /\ b.position <= b.size
  /\ b.cur = At(b.position \div BaseSize + 1, b)

LEMMA Base == BaseSize \in Nat \ {0}
  BY ByteArrayAssumption

LEMMA ByteAtType ==
  ASSUME NEW b, Chain(b), NEW k \in Nat, k < b.capacity
  PROVE  ByteAt(b, k) \in Byte
<1>1. Len(b.blocks) \in Nat /\ \A n \in 1..Len(b.blocks) : b.blocks[n] \in ABlock
  BY DEF Chain
<1>2. k \div BaseSize \in Nat /\ k \div BaseSize < Len(b.blocks)
  BY <1>1, Base, DivBelow, DivMod DEF Chain
<1>3. (k % BaseSize) + 1 \in 1..BaseSize
  BY Base, DivMod
<1>4. k \div BaseSize + 1 \in 1..Len(b.blocks)
  BY <1>1, <1>2
<1>5. QED
  BY <1>1, <1>3, <1>4 DEF ByteAt, ABlock

\* The walk from the current block comes to the block and the offset of each place.
LEMMA WalkPlace ==
  ASSUME NEW b, Chain(b), NEW k \in Nat, b.position + k < b.capacity
  PROVE  /\ b.cur = b.position \div BaseSize + 1
         /\ Block(b.cur, b.position, k) = (b.position + k) \div BaseSize + 1
         /\ Block(b.cur, b.position, k) \in 1..Len(b.blocks)
         /\ b.blocks[Block(b.cur, b.position, k)][Offset(b.position, k)] = ByteAt(b, b.position + k)
<1> DEFINE p == b.position
           m == Len(b.blocks)
<1>1. p \in Nat /\ m \in Nat /\ b.capacity = m * BaseSize
  BY DEF Chain
<1>2. p \div BaseSize \in Nat /\ p \div BaseSize < m
  <2>1. p < b.capacity
    <3>1. b.capacity \in Nat
      BY DEF Chain
    <3>2. QED
      BY <1>1, <3>1
  <2>2. p < m * BaseSize
    BY <1>1, <2>1
  <2>3. QED
    BY <1>1, <2>2, Base, DivBelow, DivMod
<1>3. b.cur = p \div BaseSize + 1
  BY <1>1, <1>2 DEF Chain, At
<1>4. (p + k) \div BaseSize \in Nat /\ (p + k) \div BaseSize < m
  <2>1. p + k \in Nat /\ p + k < m * BaseSize
    BY <1>1
  <2>2. QED
    BY <1>1, <2>1, Base, DivBelow, DivMod
<1>5. Block(b.cur, p, k) = (p + k) \div BaseSize + 1
  <2>1. /\ p \div BaseSize + ((p % BaseSize) + k) \div BaseSize = (p + k) \div BaseSize
        /\ ((p % BaseSize) + k) \div BaseSize \in Nat
    BY <1>1, Base, DivShift
  <2>2. QED
    BY <1>2, <1>3, <2>1 DEF Block
<1>6. QED
  BY <1>1, <1>3, <1>4, <1>5 DEF Offset, ByteAt

\* The walk over n bytes runs off exactly when they are more than the capacity left.
LEMMA RunsOffWhen ==
  ASSUME NEW b, Chain(b), NEW n \in Nat, n > 0
  PROVE  RunsOff(b, n) <=> b.position + n > b.capacity
<1> DEFINE p == b.position
           m == Len(b.blocks)
<1>1. p \in Nat /\ m \in Nat /\ b.capacity = m * BaseSize /\ b.capacity \in Nat /\ b.cur \in Nat
  BY DEF Chain
<1>2. ASSUME p + n <= b.capacity PROVE ~RunsOff(b, n)
  <2>1. n - 1 \in Nat /\ p + (n - 1) < b.capacity /\ p + 0 < b.capacity
    BY <1>1, <1>2
  <2>2. Block(b.cur, p, n - 1) \in 1..m
    BY <2>1, WalkPlace
  <2>3. b.cur = p \div BaseSize + 1 /\ p \div BaseSize \in Nat
    BY <1>1, <2>1, WalkPlace, Base, DivMod
  <2>4. QED
    BY <1>1, <2>2, <2>3 DEF RunsOff
<1>3. ASSUME p + n > b.capacity, b.cur # 0 PROVE RunsOff(b, n)
  <2>1. b.cur = p \div BaseSize + 1
    BY <1>3 DEF Chain, At
  <2>2. /\ p \div BaseSize + ((p % BaseSize) + (n - 1)) \div BaseSize = (p + (n - 1)) \div BaseSize
        /\ ((p % BaseSize) + (n - 1)) \div BaseSize \in Nat /\ p \div BaseSize \in Nat
    <3>1. n - 1 \in Nat
      OBVIOUS
    <3>2. QED
      BY <1>1, <3>1, Base, DivShift, DivMod
  <2>3. ~ ((p + (n - 1)) \div BaseSize < m)
    <3>1. ~ (p + (n - 1) < m * BaseSize) /\ p + (n - 1) \in Nat
      BY <1>1, <1>3
    <3>2. QED
      BY <1>1, <3>1, Base, DivBelow
  <2>4. (p + (n - 1)) \div BaseSize \in Nat
    BY <1>1, Base, DivMod
  <2>5. Block(b.cur, p, n - 1) > m
    BY <1>1, <2>1, <2>2, <2>3, <2>4 DEF Block
  <2>6. QED
    BY <2>5 DEF RunsOff
<1>4. QED
  BY <1>1, <1>2, <1>3 DEF RunsOff

\* addCapacity keeps the chain, the position and every byte; it may add too little.
LEMMA AddDoes ==
  ASSUME NEW b, Chain(b), NEW n \in Nat
  PROVE  /\ Chain(addCapacity(b, n))
         /\ addCapacity(b, n).position = b.position /\ addCapacity(b, n).size = b.size
         /\ addCapacity(b, n).capacity >= b.capacity
         /\ \A k \in Nat : k < b.capacity => ByteAt(addCapacity(b, n), k) = ByteAt(b, k)
<1> DEFINE c == addCapacity(b, n)
           old == getCapacity(b)
           rest == n - old
           count == rest \div BaseSize + (IF (rest % BaseSize) > old THEN 1 ELSE 0)
           more == [k \in 1..count |-> Fresh]
           m == Len(b.blocks)
<1>1. /\ b.position \in Nat /\ b.size \in Nat /\ b.capacity \in Nat /\ m \in Nat /\ b.cur \in Nat
      /\ b.position <= b.capacity /\ b.capacity = m * BaseSize /\ b.blocks \in Seq(ABlock)
      /\ b.position <= b.size /\ b.size <= b.capacity
  BY DEF Chain
<1>2. old \in Nat /\ old = b.capacity - b.position
  BY <1>1 DEF getCapacity
<1>3. CASE old >= n
  <2>1. c = b
    BY <1>3 DEF addCapacity
  <2>2. QED
    BY <1>1, <2>1
<1>4. CASE ~ (old >= n)
  <2>1. rest \in Nat /\ rest > 0
    BY <1>2, <1>4
  <2>2. rest \div BaseSize \in Nat /\ rest % BaseSize \in Nat
        /\ rest = BaseSize * (rest \div BaseSize) + (rest % BaseSize)
    BY <2>1, Base, DivMod
  <2>3. count \in Nat
    BY <1>2, <2>2
  <2>4. old = 0 => count > 0
    <3>1. ASSUME old = 0, rest \div BaseSize = 0 PROVE rest % BaseSize > 0
      BY <2>1, <2>2, <3>1, Base
    <3>2. QED
      BY <1>2, <2>2, <3>1
  <2>5. c = [b EXCEPT !.blocks = @ \o more, !.capacity = @ + count * BaseSize,
                      !.cur = IF old = 0 THEN m + 1 ELSE @]
    BY <1>4 DEF addCapacity
  <2> HIDE DEF count, rest, old
  <2>6. more \in Seq(ABlock) /\ Len(more) = count
    <3>1. Fresh \in ABlock
      <4>1. 0 \in Byte
        <5>1. Payload \in Nat \ {0}
          BY PayloadType
        <5>2. QED
          BY <5>1 DEF Byte
      <4>2. QED
        BY <4>1 DEF Fresh, ABlock
    <3>2. more \in [1..count -> ABlock]
      BY <3>1
    <3>3. QED
      BY <2>3, <3>2, IsASeq, LenProperties
  <2> HIDE DEF more, c
  <2>7. /\ b.blocks \o more \in Seq(ABlock)
        /\ Len(b.blocks \o more) = m + count
        /\ \A i \in 1..m : (b.blocks \o more)[i] = b.blocks[i]
    <3> DEFINE s == b.blocks
    <3>1. s \in Seq(ABlock) /\ more \in Seq(ABlock)
      BY <1>1, <2>6
    <3> HIDE DEF s
    <3>2. /\ s \o more \in Seq(ABlock) /\ Len(s \o more) = Len(s) + Len(more)
          /\ \A i \in 1..Len(s) : (s \o more)[i] = s[i]
      BY <3>1, ConcatProperties, LenProperties
    <3>3. QED
      BY <2>6, <3>2 DEF s
  <2>8. /\ c.blocks = b.blocks \o more /\ c.capacity = b.capacity + count * BaseSize
        /\ c.cur = (IF old = 0 THEN m + 1 ELSE b.cur)
        /\ c.size = b.size /\ c.position = b.position /\ c.fault = b.fault
        /\ c = [blocks |-> c.blocks, capacity |-> c.capacity, size |-> c.size,
                position |-> c.position, cur |-> c.cur, fault |-> c.fault]
    BY <2>5 DEF Chain
  <2>9. count * BaseSize \in Nat /\ (m + count) * BaseSize = m * BaseSize + count * BaseSize
    <3> HIDE DEF m
    <3>1. QED
      BY <1>1, <2>3, Base
  <2>10. c.cur = At(b.position \div BaseSize + 1, c)
    <3>1. Len(c.blocks) = m + count
      BY <2>7, <2>8
    <3>2. CASE old = 0
      <4>1. b.position = m * BaseSize
        BY <1>1, <1>2, <3>2
      <4>2. b.position \div BaseSize = m
        BY <1>1, <4>1, Base, DivExact
      <4>3. QED
        BY <1>1, <2>3, <2>4, <2>8, <3>1, <3>2, <4>2 DEF At
    <3>3. CASE old # 0
      <4>1. b.position + 0 < b.capacity
        BY <1>1, <1>2, <3>3
      <4>2. b.cur = b.position \div BaseSize + 1 /\ Block(b.cur, b.position, 0) \in 1..m
            /\ Block(b.cur, b.position, 0) = b.position \div BaseSize + 1
        BY <1>1, <4>1, WalkPlace
      <4>3. QED
        BY <1>1, <2>3, <2>8, <3>1, <3>3, <4>2 DEF At
    <3>4. QED
      BY <3>2, <3>3
  <2>11. c.cur \in Nat /\ c.fault = FALSE /\ b.fault = FALSE
    BY <1>1, <2>8 DEF Chain
  <2>12. c.blocks # <<>>
    <3>1. m # 0
      BY <1>1, EmptySeq DEF Chain
    <3>2. QED
      BY <1>1, <2>3, <2>7, <2>8, <3>1, EmptySeq
  <2>13. Chain(c)
    <3>1. c.capacity = Len(c.blocks) * BaseSize /\ c.capacity \in Nat /\ c.size <= c.capacity
      BY <1>1, <2>7, <2>8, <2>9
    <3>2. c \in [blocks : Seq(ABlock), capacity : Nat, size : Nat, position : Nat, cur : Nat,
                 fault : BOOLEAN]
      BY <1>1, <2>7, <2>8, <2>11, <3>1
    <3>3. QED
      BY <1>1, <2>8, <2>10, <2>11, <2>12, <3>1, <3>2 DEF Chain
  <2>14. \A k \in Nat : k < b.capacity => ByteAt(c, k) = ByteAt(b, k)
    <3> SUFFICES ASSUME NEW k \in Nat, k < b.capacity PROVE ByteAt(c, k) = ByteAt(b, k)
      OBVIOUS
    <3>1. k \div BaseSize \in Nat /\ k \div BaseSize < m
      BY <1>1, Base, DivBelow, DivMod
    <3>2. k \div BaseSize + 1 \in 1..m
      BY <1>1, <3>1
    <3>3. QED
      BY <2>7, <2>8, <3>2 DEF ByteAt
  <2>15. QED
    BY <1>1, <2>8, <2>9, <2>13, <2>14 DEF c
<1>5. QED
  BY <1>3, <1>4

\* After n bytes within the capacity the current block is that of the new position.
LEMMA AdvanceCur ==
  ASSUME NEW b, Chain(b), NEW n \in Nat, b.position + n <= b.capacity
  PROVE  At(Block(b.cur, b.position, n), b) = At((b.position + n) \div BaseSize + 1, b)
<1> DEFINE p == b.position
           m == Len(b.blocks)
<1>1. p \in Nat /\ m \in Nat /\ b.capacity = m * BaseSize /\ b.capacity \in Nat
  BY DEF Chain
<1>2. CASE p < b.capacity
  <2>1. b.cur = p \div BaseSize + 1
    <3>1. 0 \in Nat /\ p + 0 < b.capacity
      BY <1>1, <1>2
    <3>2. QED
      BY <3>1, WalkPlace
  <2>2. p \div BaseSize + ((p % BaseSize) + n) \div BaseSize = (p + n) \div BaseSize
        /\ ((p % BaseSize) + n) \div BaseSize \in Nat /\ p \div BaseSize \in Nat
    BY <1>1, Base, DivShift, DivMod
  <2>3. QED
    BY <2>1, <2>2 DEF Block
<1>3. CASE p = b.capacity
  <2>1. p = m * BaseSize /\ n = 0 /\ p + n = m * BaseSize
    BY <1>1, <1>3
  <2>2. p \div BaseSize = m /\ (p + n) \div BaseSize = m /\ p % BaseSize = 0
    BY <1>1, <2>1, Base, DivExact
  <2>3. b.cur = 0
    BY <1>1, <2>2 DEF Chain, At
  <2>4. (p % BaseSize) + n = 0
    <3> HIDE DEF p, m
    <3>1. QED
      BY <2>1, <2>2
  <2>5. ((p % BaseSize) + n) \div BaseSize = 0
    <3>1. (0 * BaseSize) \div BaseSize = 0 /\ 0 * BaseSize = 0
      BY Base, DivExact
    <3>2. QED
      BY <2>4, <3>1, Zenon
  <2>6. QED
    BY <1>1, <2>2, <2>3, <2>5 DEF At, Block
<1>4. QED
  BY <1>1, <1>2, <1>3

Larger(m, n) == IF n > m THEN n ELSE m

\* A position within the capacity: the chain and its bytes stay.
LEMMA SeekDoes ==
  ASSUME NEW b, Chain(b), NEW v \in Nat, v <= b.capacity
  PROVE  /\ Chain(setPosition(b, v))
         /\ setPosition(b, v).position = v /\ setPosition(b, v).size = Larger(b.size, v)
         /\ setPosition(b, v).capacity = b.capacity
         /\ \A k \in Nat : ByteAt(setPosition(b, v), k) = ByteAt(b, k)
<1> DEFINE d == setPosition(b, v)
           m == v \div BaseSize + 1
<1>1. /\ b.position \in Nat /\ b.size \in Nat /\ b.capacity \in Nat /\ Len(b.blocks) \in Nat
      /\ b.position <= b.size /\ b.size <= b.capacity /\ ~b.fault /\ b.blocks # <<>>
      /\ b.capacity = Len(b.blocks) * BaseSize
      /\ b.blocks \in Seq(ABlock) /\ b.fault \in BOOLEAN
  BY DEF Chain
<1>2. m \in Nat
  BY Base, DivMod
<1> HIDE DEF m
<1>3. d = [b EXCEPT !.position = v, !.size = IF v > @ THEN v ELSE @, !.cur = At(m, b)]
  BY DEF setPosition, m
<1>4. /\ d.blocks = b.blocks /\ d.capacity = b.capacity /\ d.size = Larger(b.size, v)
      /\ d.position = v /\ d.cur = At(m, b) /\ d.fault = b.fault
      /\ d = [blocks |-> d.blocks, capacity |-> d.capacity, size |-> d.size,
              position |-> d.position, cur |-> d.cur, fault |-> d.fault]
  BY <1>3 DEF Chain, Larger
<1> HIDE DEF d
<1>5. At(m, b) \in Nat /\ At(m, d) = At(m, b)
  BY <1>2, <1>4 DEF At
<1>6. /\ d.size \in Nat /\ d.size <= d.capacity /\ d.position <= d.size
      /\ d.position \in Nat /\ d.capacity \in Nat /\ d.cur \in Nat
  BY <1>1, <1>4, <1>5 DEF Larger
<1>7. d \in [blocks : Seq(ABlock), capacity : Nat, size : Nat, position : Nat, cur : Nat,
             fault : BOOLEAN]
  BY <1>1, <1>4, <1>6
<1>8. Chain(d)
  BY <1>1, <1>4, <1>5, <1>6, <1>7 DEF Chain, m
<1>9. QED
  BY <1>4, <1>8 DEF d, ByteAt

\* d is b after the bytes bs have been written at its position.
Written(b, d, bs) ==
  /\ Chain(d) /\ d.capacity >= b.capacity
  /\ d.position = b.position + Len(bs)
  /\ d.size = Larger(b.size, d.position)
  /\ \A k \in Nat : k < d.size =>
       ByteAt(d, k) = IF b.position <= k /\ k < d.position THEN bs[k - b.position + 1] ELSE ByteAt(b, k)

\* write() writes the bytes or runs off the chain.
LEMMA WriteDoes ==
  ASSUME NEW b, Chain(b), NEW bs \in Seq(Byte)
  PROVE  write(b, bs) = [b EXCEPT !.fault = TRUE] \/ Written(b, write(b, bs), bs)
<1> DEFINE n == Len(bs)
           c == addCapacity(b, n)
           p == c.position
           m == Len(c.blocks)
           index(i, o) == (i - c.cur) * BaseSize + o - (p % BaseSize)
           over == [i \in 1..m |-> [o \in 1..BaseSize |->
                      IF index(i, o) \in 1..n THEN bs[index(i, o)] ELSE c.blocks[i][o]]]
           d == [c EXCEPT !.blocks = over]
           e == Advance(d, n)
<1>1. n \in Nat /\ ~b.fault /\ b.position \in Nat /\ b.size \in Nat /\ b.position <= b.size
      /\ b.size <= b.capacity /\ b.capacity \in Nat
  BY LenProperties DEF Chain
<1>2. CASE bs = <<>>
  <2>1. write(b, bs) = b /\ n = 0
    BY <1>2 DEF write
  <2>2. QED
    BY <1>1, <2>1 DEF Written, Larger
<1>3. CASE bs # <<>> /\ RunsOff(c, n)
  BY <1>1, <1>3 DEF write
<1>4. CASE bs # <<>> /\ ~RunsOff(c, n)
  <2>1. write(b, bs) = [e EXCEPT !.size = IF e.position > @ THEN e.position ELSE @]
    BY <1>1, <1>4 DEF write
  <2>2. n > 0
    BY <1>1, <1>4, EmptySeq
  <2>3. /\ Chain(c) /\ p = b.position /\ c.size = b.size /\ c.capacity >= b.capacity
        /\ \A k \in Nat : k < b.capacity => ByteAt(c, k) = ByteAt(b, k)
    BY <1>1, AddDoes
  <2> HIDE DEF c
  <2>4. /\ c.capacity = m * BaseSize /\ m \in Nat /\ c.capacity \in Nat /\ c.size \in Nat
        /\ c.blocks \in Seq(ABlock) /\ c.cur \in Nat /\ p \in Nat /\ c.fault = FALSE /\ c.blocks # <<>>
        /\ p <= c.size /\ c.size <= c.capacity
        /\ c.cur = At(p \div BaseSize + 1, c)
    BY <2>3 DEF Chain
  <2>5. p + n <= c.capacity
    BY <1>1, <1>4, <2>2, <2>3, <2>4, RunsOffWhen
  <2>6. c.cur = p \div BaseSize + 1
    <3>1. 0 \in Nat /\ p + 0 < c.capacity
      BY <1>1, <2>2, <2>4, <2>5
    <3>2. QED
      BY <2>3, <3>1, WalkPlace
  <2>7. over \in Seq(ABlock) /\ Len(over) = m
    <3>1. \A i \in 1..m : c.blocks[i] \in ABlock
      BY <2>4
    <3>2. \A i \in 1..n : bs[i] \in Byte
      BY <1>1
    <3> HIDE DEF index
    <3>3. \A i \in 1..m : over[i] \in ABlock
      BY <3>1, <3>2 DEF ABlock
    <3>4. over \in [1..m -> ABlock]
      BY <3>3
    <3> HIDE DEF over, m
    <3>5. QED
      BY <2>4, <3>4, IsASeq, LenProperties
  <2>8. \A k \in Nat : k < c.capacity =>
          over[k \div BaseSize + 1][(k % BaseSize) + 1]
            = IF p <= k /\ k < p + n THEN bs[k - p + 1] ELSE ByteAt(c, k)
    <3> SUFFICES ASSUME NEW k \in Nat, k < c.capacity
                 PROVE  over[k \div BaseSize + 1][(k % BaseSize) + 1]
                          = IF p <= k /\ k < p + n THEN bs[k - p + 1] ELSE ByteAt(c, k)
      OBVIOUS
    <3> DEFINE q == k \div BaseSize
               r == k % BaseSize
               s == p \div BaseSize
               t == p % BaseSize
    <3>1. q \in Nat /\ r \in Nat /\ r < BaseSize /\ k = BaseSize * q + r
      BY Base, DivMod
    <3>2. s \in Nat /\ t \in Nat /\ t < BaseSize /\ p = BaseSize * s + t
      BY <2>4, Base, DivMod
    <3>3. q < m
      BY <2>4, Base, DivBelow
    <3>4. index(q + 1, r + 1) = k - p + 1
      <4>1. index(q + 1, r + 1) = ((q + 1) - (s + 1)) * BaseSize + (r + 1) - t
        BY <2>6
      <4> HIDE DEF q, r, s, t, index
      <4>2. ((q + 1) - (s + 1)) * BaseSize = BaseSize * q - BaseSize * s
        BY <3>1, <3>2, Base
      <4>3. BaseSize * q \in Int /\ BaseSize * s \in Int
        BY <3>1, <3>2, Base
      <4>4. QED
        BY <3>1, <3>2, <4>1, <4>2, <4>3
    <3>5. q + 1 \in 1..m /\ r + 1 \in 1..BaseSize
      BY <2>4, <3>1, <3>3, Base
    <3> HIDE DEF index
    <3>6. over[q + 1][r + 1] = IF index(q + 1, r + 1) \in 1..n THEN bs[index(q + 1, r + 1)]
                               ELSE c.blocks[q + 1][r + 1]
      BY <3>5
    <3> HIDE DEF over, q, r
    <3>7. k - p + 1 \in 1..n <=> p <= k /\ k < p + n
      <4> HIDE DEF p, n
      <4>1. QED
        BY <1>1, <2>4
    <3>8. over[q + 1][r + 1] = IF p <= k /\ k < p + n THEN bs[k - p + 1] ELSE c.blocks[q + 1][r + 1]
      BY <3>4, <3>6, <3>7, Zenon
    <3>9. QED
      BY <3>8 DEF ByteAt, q, r
  <2> HIDE DEF over
  <2>9. /\ d.blocks = over /\ d.capacity = c.capacity /\ d.size = c.size /\ d.position = p
        /\ d.cur = c.cur /\ d.fault = c.fault
        /\ d = [blocks |-> d.blocks, capacity |-> d.capacity, size |-> d.size,
                position |-> d.position, cur |-> d.cur, fault |-> d.fault]
    BY <2>3, SMTT(30) DEF Chain
  <2> HIDE DEF d
  <2>10. Chain(d)
    <3>1. d \in [blocks : Seq(ABlock), capacity : Nat, size : Nat, position : Nat, cur : Nat,
                 fault : BOOLEAN]
      BY <2>4, <2>7, <2>9
    <3>2. d.blocks # <<>>
      <4>1. m # 0
        BY <2>4, EmptySeq
      <4>2. QED
        BY <2>7, <2>9, <4>1, EmptySeq
    <3>3. d.cur = At(d.position \div BaseSize + 1, d)
      BY <2>4, <2>7, <2>9 DEF At
    <3>4. QED
      BY <2>4, <2>7, <2>9, <3>1, <3>2, <3>3 DEF Chain
  <2>11. \A k \in Nat : k < d.capacity =>
           ByteAt(d, k) = IF p <= k /\ k < p + n THEN bs[k - p + 1] ELSE ByteAt(c, k)
    BY <2>8, <2>9 DEF ByteAt
  <2>12. write(b, bs) = setPosition(d, p + n)
    <3>1. At(Block(d.cur, d.position, n), d) = At((p + n) \div BaseSize + 1, d)
      BY <1>1, <2>5, <2>9, <2>10, AdvanceCur
    <3>2. e = [d EXCEPT !.position = @ + n, !.cur = At((p + n) \div BaseSize + 1, d)]
      BY <3>1 DEF Advance
    <3>3. e.position = p + n /\ e.size = d.size
      BY <2>9, <3>2
    <3>4. QED
      BY <2>1, <2>9, <3>2, <3>3 DEF setPosition
  <2>13. p + n \in Nat
    BY <1>1, <2>4
  <2>14. /\ Chain(write(b, bs)) /\ write(b, bs).position = p + n
         /\ write(b, bs).size = Larger(d.size, p + n) /\ write(b, bs).capacity = d.capacity
         /\ \A k \in Nat : ByteAt(write(b, bs), k) = ByteAt(d, k)
    BY <2>5, <2>9, <2>10, <2>12, <2>13, SeekDoes
  <2> DEFINE w == write(b, bs)
  <2> HIDE DEF w
  <2>15. /\ Chain(w) /\ w.position = p + n /\ w.size = Larger(c.size, p + n) /\ w.capacity = c.capacity
         /\ \A k \in Nat : k < c.capacity =>
              ByteAt(w, k) = IF p <= k /\ k < p + n THEN bs[k - p + 1] ELSE ByteAt(c, k)
    BY <2>9, <2>11, <2>14 DEF w
  <2>16. w.size \in Nat /\ w.size <= c.capacity
    BY <1>1, <2>4, <2>5, <2>15 DEF Larger
  <2>17. ASSUME NEW k \in Nat, k < w.size
         PROVE  ByteAt(w, k) = IF b.position <= k /\ k < w.position THEN bs[k - b.position + 1]
                               ELSE ByteAt(b, k)
    <3>1. k < c.capacity
      BY <2>4, <2>16, <2>17
    <3>2. ~ (p <= k /\ k < p + n) => k < b.capacity
      BY <1>1, <2>3, <2>4, <2>15, <2>17 DEF Larger
    <3>3. QED
      BY <2>3, <2>15, <3>1, <3>2
  <2>18. Written(b, w, bs)
    BY <2>3, <2>15, <2>17 DEF Written
  <2>19. QED
    BY <2>18 DEF w
<1>5. QED
  BY <1>2, <1>3, <1>4

\* d is b after the bytes out have been read at its position.
Taken(b, d, out) ==
  /\ Chain(d) /\ d.position = b.position + Len(out) /\ d.position <= b.size /\ d.size = b.size
  /\ d.capacity = b.capacity
  /\ \A k \in Nat : ByteAt(d, k) = ByteAt(b, k)
  /\ out \in Seq(Byte)
  /\ \A k \in 1..Len(out) : out[k] = ByteAt(b, b.position + k - 1)

\* read() throws, takes the bytes, or looks at a null block for no bytes.
LEMMA ReadDoes ==
  ASSUME NEW b, Chain(b), NEW n \in Nat
  PROVE  \/ n > getReadSize(b) /\ read(b, n) = [ba |-> b, out |-> <<>>, ok |-> FALSE]
         \/ n = 0 /\ read(b, n) = [ba |-> [b EXCEPT !.fault = TRUE], out |-> <<>>, ok |-> FALSE]
         \/ /\ n <= getReadSize(b) /\ read(b, n).ok = TRUE
            /\ Taken(b, read(b, n).ba, read(b, n).out) /\ Len(read(b, n).out) = n
<1> DEFINE p == b.position
           e == Advance(b, n)
           out == Bytes(b, b.cur, p, n)
<1>1. /\ p \in Nat /\ b.size \in Nat /\ b.capacity \in Nat /\ p <= b.size /\ b.size <= b.capacity
      /\ b.fault = FALSE
  BY DEF Chain
<1>2. CASE n > getReadSize(b)
  BY <1>1, <1>2 DEF read
<1>3. CASE n <= getReadSize(b) /\ RunsOff(b, n)
  <2>1. p + n <= b.capacity
    BY <1>1, <1>3 DEF getReadSize
  <2>2. ~ (n > 0)
    BY <1>1, <1>3, <2>1, RunsOffWhen
  <2>3. ~ (n > getReadSize(b))
    BY <1>1, <1>3 DEF getReadSize
  <2>4. QED
    BY <1>1, <1>3, <2>2, <2>3 DEF read
<1>4. CASE n <= getReadSize(b) /\ ~RunsOff(b, n)
  <2>1. p + n \in Nat /\ p + n <= b.size /\ p + n <= b.capacity /\ ~ (n > getReadSize(b))
    BY <1>1, <1>4 DEF getReadSize
  <2>2. read(b, n) = [ba |-> e, out |-> out, ok |-> TRUE]
    BY <1>1, <1>4, <2>1 DEF read
  <2>3. e = setPosition(b, p + n)
    <3>1. At(Block(b.cur, p, n), b) = At((p + n) \div BaseSize + 1, b)
      BY <2>1, AdvanceCur
    <3>2. b = [b EXCEPT !.size = b.size]
      BY DEF Chain
    <3>3. ~ (p + n > b.size)
      BY <1>1, <2>1
    <3>4. QED
      BY <3>1, <3>2, <3>3 DEF Advance, setPosition, Chain
  <2>4. /\ Chain(e) /\ e.position = p + n /\ e.size = b.size /\ e.capacity = b.capacity
        /\ \A k \in Nat : ByteAt(e, k) = ByteAt(b, k)
    <3>1. Larger(b.size, p + n) = b.size
      BY <1>1, <2>1 DEF Larger
    <3>2. QED
      BY <2>1, <2>3, <3>1, SeekDoes
  <2> HIDE DEF e
  <2>5. \A k \in 1..n : out[k] = ByteAt(b, p + k - 1) /\ out[k] \in Byte
    <3> SUFFICES ASSUME NEW k \in 1..n PROVE out[k] = ByteAt(b, p + k - 1) /\ out[k] \in Byte
      OBVIOUS
    <3>1. k - 1 \in Nat /\ p + (k - 1) < b.capacity /\ p + (k - 1) \in Nat /\ p + (k - 1) = p + k - 1
      BY <1>1, <2>1
    <3>2. out[k] = b.blocks[Block(b.cur, p, k - 1)][Offset(p, k - 1)]
      BY DEF Bytes
    <3>3. QED
      BY <3>1, <3>2, WalkPlace, ByteAtType
  <2>6. out \in Seq(Byte) /\ Len(out) = n
    <3>1. out \in [1..n -> Byte]
      BY <2>5 DEF Bytes
    <3> HIDE DEF out
    <3>2. QED
      BY <3>1, IsASeq, LenProperties
  <2> HIDE DEF out
  <2>7. Taken(b, e, out)
    BY <2>1, <2>4, <2>5, <2>6 DEF Taken
  <2>8. QED
    BY <1>4, <2>2, <2>6, <2>7
<1>5. n > getReadSize(b) \/ n <= getReadSize(b)
  BY <1>1 DEF getReadSize
<1>6. QED
  BY <1>2, <1>3, <1>4, <1>5, Zenon

\* What is written twice is written as one, what is taken twice is taken as one.
LEMMA WrittenTwice ==
  ASSUME NEW b, NEW c, NEW d, NEW s \in Seq(Byte), NEW t \in Seq(Byte),
         Chain(b), Written(b, c, s), Written(c, d, t)
  PROVE  Written(b, d, s \o t)
<1> DEFINE u == s \o t
           m == Len(s)
           n == Len(t)
<1>1. /\ u \in Seq(Byte) /\ Len(u) = m + n /\ m \in Nat /\ n \in Nat
      /\ \A i \in 1..m : u[i] = s[i]
      /\ \A i \in 1..n : u[m + i] = t[i]
  <2>1. /\ u \in Seq(Byte) /\ Len(u) = m + n /\ m \in Nat /\ n \in Nat
        /\ \A i \in 1..(m + n) : u[i] = IF i <= m THEN s[i] ELSE t[i - m]
    BY ConcatProperties, LenProperties
  <2> HIDE DEF u, m, n
  <2>2. \A i \in 1..n : u[m + i] = t[i]
    <3> SUFFICES ASSUME NEW i \in 1..n PROVE u[m + i] = t[i]
      OBVIOUS
    <3>1. m + i \in 1..(m + n) /\ ~ (m + i <= m) /\ (m + i) - m = i
      BY <2>1
    <3>2. QED
      BY <2>1, <3>1, Zenon
  <2>3. \A i \in 1..m : u[i] = s[i]
    BY <2>1
  <2>4. QED
    BY <2>1, <2>2, <2>3
<1> HIDE DEF u, m, n
<1> DEFINE p == b.position
           q == c.position
           r == d.position
<1>2. /\ p \in Nat /\ b.size \in Nat /\ q \in Nat /\ c.size \in Nat
      /\ r \in Nat /\ d.size \in Nat /\ b.capacity \in Nat /\ c.capacity \in Nat
      /\ d.capacity \in Nat
  BY DEF Written, Chain
<1>3. /\ q = p + m /\ r = q + n
      /\ c.size = Larger(b.size, q) /\ d.size = Larger(c.size, r)
      /\ c.capacity >= b.capacity /\ d.capacity >= c.capacity
  BY DEF Written, m, n
<1>4. /\ \A k \in Nat : k < d.size =>
            ByteAt(d, k) = IF q <= k /\ k < r THEN t[k - q + 1] ELSE ByteAt(c, k)
      /\ \A k \in Nat : k < c.size =>
            ByteAt(c, k) = IF p <= k /\ k < q THEN s[k - p + 1] ELSE ByteAt(b, k)
  BY DEF Written
<1> HIDE DEF p, q, r
<1>5. m \in Nat /\ n \in Nat /\ Len(u) = m + n
  BY <1>1
<1>6. d.size = Larger(b.size, r) /\ r = p + Len(u) /\ d.capacity >= b.capacity
  BY <1>2, <1>3, <1>5 DEF Larger
<1>7. ASSUME NEW k \in Nat, k < d.size
      PROVE  ByteAt(d, k) = IF p <= k /\ k < r THEN u[k - p + 1] ELSE ByteAt(b, k)
  <2>1. ByteAt(d, k) = IF q <= k /\ k < r THEN t[k - q + 1] ELSE ByteAt(c, k)
    BY <1>4, <1>7
  <2>2. CASE q <= k /\ k < r
    <3>1. k - q + 1 \in 1..n /\ m + (k - q + 1) = k - p + 1 /\ p <= k
      BY <1>2, <1>3, <1>5, <2>2
    <3>2. u[k - p + 1] = t[k - q + 1]
      BY <1>1, <3>1
    <3>3. QED
      BY <2>1, <2>2, <3>1, <3>2
  <2>3. CASE ~ (q <= k /\ k < r)
    <3>1. k < c.size
      BY <1>2, <1>3, <1>5, <1>7, <2>3 DEF Larger
    <3>2. p <= k /\ k < q => k - p + 1 \in 1..m
      BY <1>2, <1>3, <1>5
    <3>3. p <= k /\ k < r <=> p <= k /\ k < q
      BY <1>2, <1>3, <1>5, <2>3
    <3>4. ByteAt(d, k) = IF p <= k /\ k < q THEN s[k - p + 1] ELSE ByteAt(b, k)
      BY <1>4, <2>1, <2>3, <3>1
    <3>5. p <= k /\ k < q => u[k - p + 1] = s[k - p + 1]
      BY <1>1, <3>2
    <3>6. QED
      BY <3>3, <3>4, <3>5
  <2>4. QED
    BY <2>2, <2>3
<1>8. Chain(d)
  BY DEF Written
<1>9. QED
  BY <1>6, <1>7, <1>8 DEF Written, u, p, r

LEMMA TakenTwice ==
  ASSUME NEW b, NEW c, NEW d, NEW s, NEW t,
         Chain(b), Taken(b, c, s), Taken(c, d, t)
  PROVE  Taken(b, d, s \o t)
<1> DEFINE u == s \o t
           m == Len(s)
           n == Len(t)
<1>0. s \in Seq(Byte) /\ t \in Seq(Byte)
  BY DEF Taken
<1>1. /\ u \in Seq(Byte) /\ Len(u) = m + n /\ m \in Nat /\ n \in Nat
      /\ \A i \in 1..(m + n) : u[i] = IF i <= m THEN s[i] ELSE t[i - m]
  BY <1>0, ConcatProperties, LenProperties
<1> HIDE DEF u, m, n
<1>2. /\ b.position \in Nat /\ b.size \in Nat /\ c.position \in Nat /\ c.size \in Nat
      /\ d.position \in Nat /\ d.size \in Nat
  BY DEF Taken, Chain
<1>3. /\ c.position = b.position + m /\ d.position = c.position + n
      /\ c.size = b.size /\ d.size = b.size /\ d.position <= b.size /\ d.capacity = b.capacity
      /\ \A k \in Nat : ByteAt(d, k) = ByteAt(b, k)
      /\ \A i \in 1..m : s[i] = ByteAt(b, b.position + i - 1)
      /\ \A i \in 1..n : t[i] = ByteAt(c, c.position + i - 1)
  BY DEF Taken, m, n
<1>4. ASSUME NEW i \in 1..(m + n) PROVE u[i] = ByteAt(b, b.position + i - 1)
  <2>1. CASE i <= m
    BY <1>1, <1>3, <2>1
  <2>2. CASE ~ (i <= m)
    <3> DEFINE p == b.position
               q == c.position
    <3>0. p \in Nat /\ q = p + m /\ m \in Nat /\ n \in Nat
      BY <1>1, <1>2, <1>3
    <3> HIDE DEF p, q
    <3>1. i - m \in 1..n /\ q + (i - m) - 1 = p + i - 1 /\ p + i - 1 \in Nat
      BY <2>2, <3>0
    <3>2. t[i - m] = ByteAt(c, q + (i - m) - 1)
      <4>1. \A j \in 1..n : t[j] = ByteAt(c, q + j - 1)
        BY DEF Taken, n, q
      <4> DEFINE j == i - m
      <4>2. j \in 1..n
        BY <3>1
      <4> HIDE DEF j
      <4>3. t[j] = ByteAt(c, q + j - 1)
        BY <4>1, <4>2
      <4>4. QED
        BY <4>3 DEF j
    <3>3. ByteAt(c, p + i - 1) = ByteAt(b, p + i - 1)
      BY <3>1 DEF Taken
    <3> USE DEF p
    <3>4. QED
      BY <1>1, <2>2, <3>1, <3>2, <3>3
  <2>3. QED
    BY <2>1, <2>2
<1>5. d.position = b.position + Len(u)
  BY <1>1, <1>2, <1>3
<1>6. Chain(d)
  BY DEF Taken
<1>7. QED
  BY <1>1, <1>3, <1>4, <1>5, <1>6 DEF Taken, u

-----------------------------------------------------------------------------
(***************************************************************************)
(* Several reads and writes                                                *)
(***************************************************************************)
\* The first k pieces of a file.
Till(bs, k) == IF k * BaseSize > Len(bs) THEN Len(bs) ELSE k * BaseSize
Piece(bs, k) == SubSeq(bs, (k - 1) * BaseSize + 1, Till(bs, k))
FileTable(b, bs, f, n) == f = [k \in 0..n |-> IF k = 0 THEN b ELSE write(f[k - 1], Piece(bs, k))]

LEMMA FileTables ==
  ASSUME NEW b, NEW bs
  PROVE  \A n \in Nat : \E f : FileTable(b, bs, f, n)
<1> DEFINE K == {n \in Nat : \E f : FileTable(b, bs, f, n)}
<1>1. 0 \in K
  <2>1. FileTable(b, bs, [k \in 0..0 |-> b], 0)
    BY DEF FileTable
  <2>2. QED
    BY <2>1
<1>2. ASSUME NEW n \in K PROVE n + 1 \in K
  <2>1. PICK f : FileTable(b, bs, f, n)
    OBVIOUS
  <2> DEFINE g == [k \in 0..(n + 1) |-> IF k = 0 THEN b ELSE write(f[k - 1], Piece(bs, k))]
  <2>2. \A k \in 0..n : f[k] = IF k = 0 THEN b ELSE write(f[k - 1], Piece(bs, k))
    BY <2>1, Zenon DEF FileTable
  <2>3. \A k \in 0..(n + 1) : g[k] = IF k = 0 THEN b ELSE write(f[k - 1], Piece(bs, k))
    BY Zenon
  <2> HIDE DEF g
  <2>4. \A k \in 0..(n + 1) : k # 0 => g[k - 1] = f[k - 1]
    <3>1. \A k \in 0..n : k \in 0..(n + 1)
      OBVIOUS
    <3>2. \A k \in 0..n : g[k] = f[k]
      BY <2>2, <2>3, <3>1, Zenon
    <3>3. \A k \in 0..(n + 1) : k # 0 => k - 1 \in 0..n
      OBVIOUS
    <3>4. QED
      BY <3>2, <3>3, Zenon
  <2>5. \A k \in 0..(n + 1) : (IF k = 0 THEN b ELSE write(f[k - 1], Piece(bs, k)))
                               = (IF k = 0 THEN b ELSE write(g[k - 1], Piece(bs, k)))
    BY <2>4, Zenon
  <2>6. FileTable(b, bs, g, n + 1)
    BY <2>5, Zenon DEF FileTable, g
  <2>7. QED
    BY <2>6
<1> HIDE DEF K
<1>3. K = Nat
  BY <1>1, <1>2, Induct DEF K
<1>4. QED
  BY <1>3, Zenon DEF K

\* readFromFile writes the file as one call of write() would, or runs off the chain.
LEMMA FileDoes ==
  ASSUME NEW b, Chain(b), NEW bs \in Seq(Byte)
  PROVE  readFromFile(b, bs).fault = TRUE \/ Written(b, readFromFile(b, bs), bs)
<1> DEFINE len == Len(bs)
           n == (len + BaseSize - 1) \div BaseSize
           F == CHOOSE f : f = [k \in 0..n |-> IF k = 0 THEN b ELSE write(f[k - 1], Piece(bs, k))]
           Good(k) == F[k].fault = TRUE \/ Written(b, F[k], SubSeq(bs, 1, Till(bs, k)))
           K == {k \in Nat : k <= n => Good(k)}
<1>1. len \in Nat /\ n \in Nat /\ n * BaseSize >= len /\ (n - 1) * BaseSize < len
  <2>1. len \in Nat
    BY LenProperties
  <2> HIDE DEF len
  <2>2. len + BaseSize - 1 \in Nat
    BY <2>1, Base
  <2> DEFINE q == (len + BaseSize - 1) \div BaseSize
             r == (len + BaseSize - 1) % BaseSize
  <2>3. q \in Nat /\ r \in Nat /\ r < BaseSize /\ len + BaseSize - 1 = BaseSize * q + r
    BY <2>2, Base, DivMod
  <2> HIDE DEF q, r
  <2>4. q * BaseSize = BaseSize * q /\ BaseSize * q \in Int /\ (q - 1) * BaseSize = BaseSize * q - BaseSize
    BY <2>3, Base
  <2>5. q * BaseSize >= len /\ (q - 1) * BaseSize < len
    BY <2>1, <2>3, <2>4, Base
  <2>6. QED
    BY <2>1, <2>3, <2>5 DEF q
<1>2. readFromFile(b, bs) = F[n]
  BY Zenon DEF readFromFile, Piece, Till
<1>3. F = [k \in 0..n |-> IF k = 0 THEN b ELSE write(F[k - 1], Piece(bs, k))]
  <2>1. \E f : f = [k \in 0..n |-> IF k = 0 THEN b ELSE write(f[k - 1], Piece(bs, k))]
    <3> HIDE DEF n
    <3>1. \E f : FileTable(b, bs, f, n)
      BY <1>1, FileTables
    <3>2. QED
      BY <3>1, Zenon DEF FileTable
  <2>2. QED
    BY <2>1
<1> HIDE DEF F
<1>4. \A k \in 0..n : F[k] = IF k = 0 THEN b ELSE write(F[k - 1], Piece(bs, k))
  BY <1>3, Zenon
<1> HIDE DEF len, n
<1>5. 0 \in K
  <2>1. F[0] = b
    BY <1>1, <1>4
  <2>2. Till(bs, 0) = 0
    BY <1>1, Base DEF Till, len
  <2>3. SubSeq(bs, 1, 0) = <<>>
    BY SubSeqEmpty
  <2>4. Written(b, b, <<>>)
    BY DEF Written, Larger, Chain
  <2>5. QED
    BY <2>1, <2>2, <2>3, <2>4
<1>6. ASSUME NEW k \in K PROVE k + 1 \in K
  <2> SUFFICES ASSUME k + 1 <= n PROVE Good(k + 1)
    <3> HIDE DEF Good
    <3>1. QED
      OBVIOUS
  <2> DEFINE old == Till(bs, k)
             new == Till(bs, k + 1)
             piece == Piece(bs, k + 1)
             s == SubSeq(bs, 1, old)
  <2>1. Good(k) /\ k + 1 \in 0..n /\ k + 1 # 0 /\ (k + 1) - 1 = k
    BY <1>1
  <2>2. F[k + 1] = write(F[k], piece)
    BY <1>4, <2>1, Zenon
  <2>3. /\ old = k * BaseSize /\ old \in Nat /\ old <= len /\ new \in Nat /\ old <= new /\ new <= len
    <3>1. k * BaseSize <= (n - 1) * BaseSize
      <4>1. k <= n - 1 /\ n - 1 \in Nat
        BY <1>1
      <4>2. QED
        BY <4>1, Base
    <3>2. k * BaseSize \in Nat /\ (k + 1) * BaseSize = k * BaseSize + BaseSize
          /\ (n - 1) * BaseSize \in Int
      BY <1>1, Base
    <3> DEFINE x == k * BaseSize
               y == (k + 1) * BaseSize
               z == (n - 1) * BaseSize
    <3>3. x \in Nat /\ y = x + BaseSize /\ x <= z /\ z \in Int /\ z < len
      BY <1>1, <3>1, <3>2
    <3>4. old = (IF x > len THEN len ELSE x) /\ new = IF y > len THEN len ELSE y
      BY DEF Till, len
    <3> HIDE DEF x, y, z, old, new
    <3>5. old = x /\ old \in Nat /\ old <= len /\ new \in Nat /\ old <= new /\ new <= len
      BY <1>1, <3>3, <3>4, Base
    <3>6. QED
      BY <3>5 DEF x
  <2>4. piece = SubSeq(bs, old + 1, new)
    BY <2>1, <2>3 DEF Piece
  <2> HIDE DEF old, new
  <2>5. /\ piece \in Seq(Byte) /\ s \in Seq(Byte) /\ s \o piece = SubSeq(bs, 1, new)
    <3>1. bs \in Seq(Byte) /\ old + 1 \in 1..(len + 1) /\ old \in 0..len /\ new \in old..len
      BY <1>1, <2>3
    <3>2. SubSeq(bs, 1, old) \o SubSeq(bs, old + 1, new) = SubSeq(bs, 1, new)
      <4>1. 1 \in 1..(Len(bs) + 1) /\ old \in (1 - 1)..Len(bs) /\ new \in old..Len(bs)
        BY <1>1, <2>3 DEF len
      <4>2. QED
        BY <3>1, <4>1, ConcatAdjacentSubSeq
    <3>3. SubSeq(bs, 1, old) \in Seq(Byte) /\ SubSeq(bs, old + 1, new) \in Seq(Byte)
      BY <1>1, <2>3, SubSeqProperties DEF len
    <3>4. QED
      BY <2>4, <3>2, <3>3
  <2> HIDE DEF piece, s
  <2>6. CASE F[k].fault = TRUE
    <3>1. F[k + 1] = F[k]
      BY <2>2, <2>6 DEF write
    <3>2. QED
      BY <2>6, <3>1
  <2>7. CASE Written(b, F[k], s)
    <3>1. Chain(F[k])
      BY <2>7 DEF Written
    <3>2. CASE F[k + 1] = [F[k] EXCEPT !.fault = TRUE]
      <4>1. F[k + 1].fault = TRUE
        BY <3>1, <3>2 DEF Chain
      <4>2. QED
        BY <4>1
    <3>3. CASE Written(F[k], F[k + 1], piece)
      <4>1. Written(b, F[k + 1], s \o piece)
        BY <2>5, <2>7, <3>3, WrittenTwice
      <4>2. QED
        BY <2>5, <4>1 DEF new
    <3>4. QED
      BY <2>2, <2>5, <3>1, <3>2, <3>3, WriteDoes
  <2>8. QED
    BY <2>1, <2>6, <2>7 DEF s, old
<1> HIDE DEF K
<1>7. K = Nat
  BY <1>5, <1>6, Induct DEF K
<1>8. Good(n)
  BY <1>1, <1>7 DEF K
<1>9. SubSeq(bs, 1, Till(bs, n)) = bs
  <2>1. Till(bs, n) = len
    <3>1. n * BaseSize \in Nat
      BY <1>1, Base
    <3>2. QED
      BY <1>1, <3>1 DEF Till, len
  <2>2. QED
    BY <1>1, <2>1, SubSeqFull DEF len
<1>10. QED
  BY <1>2, <1>8, <1>9

-----------------------------------------------------------------------------
(***************************************************************************)
(* The codecs                                                              *)
(***************************************************************************)
SumTable(bs, f, n) ==
  f = [k \in 0..n |->
         IF k = 0 THEN 0 ELSE f[k - 1] + (bs[k] % Payload) * PowerOf2[Group * (k - 1)]]

LEMMA SumTables ==
  ASSUME NEW bs
  PROVE  \A n \in Nat : \E f : SumTable(bs, f, n)
<1> DEFINE K == {n \in Nat : \E f : SumTable(bs, f, n)}
           a(k) == (bs[k] % Payload) * PowerOf2[Group * (k - 1)]
<1>1. 0 \in K
  <2>1. SumTable(bs, [k \in 0..0 |-> 0], 0)
    BY DEF SumTable
  <2>2. QED
    BY <2>1
<1>2. ASSUME NEW n \in K PROVE n + 1 \in K
  <2>1. PICK f : SumTable(bs, f, n)
    OBVIOUS
  <2> DEFINE g == [k \in 0..(n + 1) |-> IF k = 0 THEN 0 ELSE f[k - 1] + a(k)]
  <2>2. \A k \in 0..n : f[k] = IF k = 0 THEN 0 ELSE f[k - 1] + a(k)
    BY <2>1, Zenon DEF SumTable
  <2> HIDE DEF a
  <2>3. \A k \in 0..(n + 1) : g[k] = IF k = 0 THEN 0 ELSE f[k - 1] + a(k)
    BY Zenon
  <2> HIDE DEF g
  <2>4. \A k \in 0..(n + 1) : k # 0 => g[k - 1] = f[k - 1]
    <3>1. \A k \in 0..n : k \in 0..(n + 1)
      OBVIOUS
    <3>2. \A k \in 0..n : g[k] = f[k]
      BY <2>2, <2>3, <3>1, Zenon
    <3>3. \A k \in 0..(n + 1) : k # 0 => k - 1 \in 0..n
      OBVIOUS
    <3>4. QED
      BY <3>2, <3>3, Zenon
  <2>5. \A k \in 0..(n + 1) : (IF k = 0 THEN 0 ELSE f[k - 1] + a(k))
                               = (IF k = 0 THEN 0 ELSE g[k - 1] + a(k))
    BY <2>4, Zenon
  <2>6. SumTable(bs, g, n + 1)
    BY <2>5, Zenon DEF SumTable, g, a
  <2>7. QED
    BY <2>6
<1> HIDE DEF K
<1>3. K = Nat
  BY <1>1, <1>2, Induct DEF K
<1>4. QED
  BY <1>3, Zenon DEF K

LEMMA SumTablesAgree ==
  ASSUME NEW bs, NEW f, NEW g, NEW m \in Nat, NEW n \in Nat, SumTable(bs, f, m), SumTable(bs, g, n)
  PROVE  \A k \in Nat : k <= m /\ k <= n => f[k] = g[k]
<1> DEFINE K == {k \in Nat : k <= m /\ k <= n => f[k] = g[k]}
           a(k) == (bs[k] % Payload) * PowerOf2[Group * (k - 1)]
<1>1. \A k \in 0..m : f[k] = IF k = 0 THEN 0 ELSE f[k - 1] + a(k)
  BY Zenon DEF SumTable
<1>2. \A k \in 0..n : g[k] = IF k = 0 THEN 0 ELSE g[k - 1] + a(k)
  BY Zenon DEF SumTable
<1> HIDE DEF a
<1>3. 0 \in K
  BY <1>1, <1>2
<1>4. ASSUME NEW k \in K PROVE k + 1 \in K
  <2>1. CASE k + 1 <= m /\ k + 1 <= n
    <3>1. k + 1 \in 0..m /\ k + 1 \in 0..n /\ k + 1 # 0 /\ (k + 1) - 1 = k /\ k <= m /\ k <= n
      BY <2>1
    <3>2. f[k] = g[k]
      BY <3>1
    <3>3. f[k + 1] = f[k] + a(k + 1) /\ g[k + 1] = g[k] + a(k + 1)
      <4>1. f[k + 1] = f[(k + 1) - 1] + a(k + 1) /\ g[k + 1] = g[(k + 1) - 1] + a(k + 1)
        BY <1>1, <1>2, <3>1, Zenon
      <4>2. QED
        BY <3>1, <4>1, Zenon
    <3>4. f[k + 1] = g[k + 1]
      BY <3>2, <3>3, Zenon
    <3>5. QED
      BY <3>4
  <2>2. QED
    BY <2>1
<1> HIDE DEF K
<1>5. K = Nat
  BY <1>3, <1>4, Induct DEF K
<1>6. QED
  BY <1>5, Zenon DEF K

\* The decoder's sum, one byte after the other.
LEMMA SumNext ==
  ASSUME NEW bs, NEW n \in Nat
  PROVE  /\ Sum(bs, 0) = 0
         /\ Sum(bs, n + 1) = Sum(bs, n) + (bs[n + 1] % Payload) * PowerOf2[Group * n]
<1> DEFINE table(m) == CHOOSE f : SumTable(bs, f, m)
           a(k) == (bs[k] % Payload) * PowerOf2[Group * (k - 1)]
<1>1. \A m \in Nat : SumTable(bs, table(m), m)
  BY SumTables
<1>2. \A m \in Nat : Sum(bs, m) = table(m)[m]
  BY Zenon DEF Sum, SumTable
<1> HIDE DEF table
<1>3. \A m \in Nat : \A k \in 0..m : table(m)[k] = IF k = 0 THEN 0 ELSE table(m)[k - 1] + a(k)
  BY <1>1, Zenon DEF SumTable
<1> HIDE DEF a
<1>4. Sum(bs, 0) = 0
  <2>1. 0 \in 0..0 /\ 0 \in Nat
    OBVIOUS
  <2>2. QED
    BY <1>2, <1>3, <2>1, Zenon
<1>5. Sum(bs, n + 1) = Sum(bs, n) + a(n + 1)
  <2>1. n + 1 \in Nat /\ n + 1 \in 0..(n + 1) /\ n + 1 # 0 /\ (n + 1) - 1 = n /\ n <= n /\ n <= n + 1
    OBVIOUS
  <2>2. table(n + 1)[n + 1] = table(n + 1)[n] + a(n + 1)
    BY <1>3, <2>1, Zenon
  <2>3. table(n + 1)[n] = table(n)[n]
    BY <1>1, <2>1, SumTablesAgree
  <2>4. QED
    BY <1>2, <2>1, <2>2, <2>3, Zenon
<1>6. a(n + 1) = (bs[n + 1] % Payload) * PowerOf2[Group * n]
  <2>1. (n + 1) - 1 = n
    OBVIOUS
  <2>2. QED
    BY <2>1, Zenon DEF a
<1>7. QED
  BY <1>4, <1>5, <1>6

LEMMA SumType ==
  ASSUME NEW bs \in Seq(Byte)
  PROVE  DecodeVarint(bs) \in Nat
<1> DEFINE K == {n \in Nat : n <= Len(bs) => Sum(bs, n) \in Nat}
<1>1. 0 \in K
  BY SumNext
<1>2. ASSUME NEW n \in K PROVE n + 1 \in K
  <2> SUFFICES ASSUME n + 1 <= Len(bs) PROVE Sum(bs, n + 1) \in Nat
    OBVIOUS
  <2>1. Sum(bs, n) \in Nat
    BY LenProperties
  <2>2. bs[n + 1] \in Nat
    <3>1. bs[n + 1] \in Byte
      BY LenProperties
    <3>2. QED
      BY <3>1, PayloadType DEF Byte
  <2>3. bs[n + 1] % Payload \in Nat
    BY <2>2, PayloadType, DivMod
  <2>4. Group * n \in Nat
    BY ByteArrayAssumption
  <2>5. PowerOf2[Group * n] \in Nat
    BY <2>4, PowerType
  <2>6. (bs[n + 1] % Payload) * PowerOf2[Group * n] \in Nat
    BY <2>3, <2>5
  <2>7. Sum(bs, n + 1) = Sum(bs, n) + (bs[n + 1] % Payload) * PowerOf2[Group * n]
    BY SumNext
  <2> DEFINE a == (bs[n + 1] % Payload) * PowerOf2[Group * n]
  <2> HIDE DEF a
  <2>8. QED
    BY <2>1, <2>6, <2>7 DEF a
<1> HIDE DEF K
<1>3. K = Nat
  BY <1>1, <1>2, Induct DEF K
<1>4. Sum(bs, Len(bs)) \in Nat
  BY <1>3, LenProperties DEF K
<1>5. QED
  BY <1>4, PayloadType, DivMod DEF DecodeVarint

LEMMA MaxVarintIs == MaxVarint \in 1..Width /\ Group * MaxVarint >= Width
<1>1. Group \in Nat \ {0} /\ Width \in Nat \ {0}
  BY ByteArrayAssumption
<1> DEFINE q == (Width + Group - 1) \div Group
           r == (Width + Group - 1) % Group
<1>2. Width + Group - 1 \in Nat
  BY <1>1
<1>3. q \in Nat /\ r \in Nat /\ r < Group /\ Width + Group - 1 = Group * q + r
  BY <1>1, <1>2, DivMod
<1> HIDE DEF q, r
<1>4. Group * q \in Nat /\ Group * q >= Width
  BY <1>1, <1>3
<1>5. q # 0
  BY <1>1, <1>4
<1>6. q <= Width
  <2>1. SUFFICES ASSUME q > Width PROVE FALSE
    BY <1>1, <1>3
  <2>2. Group * (Width + 1) <= Group * q
    BY <1>1, <1>3, <2>1, MulMono
  <2>3. Group * (Width + 1) = Group * Width + Group /\ Group * Width >= Width /\ Group * Width \in Nat
    BY <1>1
  <2>4. QED
    BY <1>1, <1>3, <1>4, <2>2, <2>3
<1>7. QED
  BY <1>1, <1>3, <1>4, <1>5, <1>6 DEF q, MaxVarint

LEMMA ModIs == Mod = PowerOf2[Width]
<1>1. Width - 1 \in Nat /\ (Width - 1) + 1 = Width
  BY ByteArrayAssumption
<1>2. PowerOf2[(Width - 1) + 1] = 2 * PowerOf2[Width - 1]
  BY <1>1, PowerNext
<1>3. QED
  BY <1>1, <1>2 DEF Mod, Half

\* The groups of a value: as many as it needs, at most as many as are read.
LEMMA VarintLength ==
  ASSUME NEW v \in Nat, v < Mod
  PROVE  \E n \in 1..MaxVarint :
           /\ v < PowerOf2[Group * n]
           /\ Len(EncodeVarint(v)) = n
           /\ EncodeVarint(v) = [k \in 1..n |-> PayloadOf(v, k) + (IF k < n THEN Payload ELSE 0)]
<1> DEFINE Fits(k) == v < PowerOf2[Group * k]
           Right(k) == Fits(k) /\ (k = 1 \/ v >= PowerOf2[Group * (k - 1)])
           n == CHOOSE k \in 1..Width : Right(k)
           K == {k \in Nat : Fits(k)}
<1>1. Group \in Nat \ {0} /\ Width \in Nat \ {0} /\ MaxVarint \in 1..Width /\ MaxVarint \in Nat
      /\ Group * MaxVarint \in Nat /\ Group * MaxVarint >= Width
  BY ByteArrayAssumption, MaxVarintIs
<1>2. \A k \in Nat : Group * k \in Nat /\ PowerOf2[Group * k] \in Nat
  BY <1>1, PowerType
<1>3. \A k \in Nat : k >= MaxVarint => Mod <= PowerOf2[Group * k]
  <2> SUFFICES ASSUME NEW k \in Nat, k >= MaxVarint PROVE Mod <= PowerOf2[Group * k]
    OBVIOUS
  <2>1. Group * MaxVarint <= Group * k
    BY <1>1, MulMono
  <2>2. Width \in Nat /\ Group * k \in Nat /\ Width <= Group * k
    BY <1>1, <1>2, <2>1
  <2>3. PowerOf2[Width] <= PowerOf2[Group * k]
    BY <2>2, PowerMono
  <2>4. QED
    BY <2>3, ModIs
<1>4. MaxVarint \in K
  <2>1. MaxVarint >= MaxVarint
    BY <1>1
  <2>2. Mod <= PowerOf2[Group * MaxVarint] /\ PowerOf2[Group * MaxVarint] \in Nat
    BY <1>1, <1>2, <1>3, <2>1
  <2>3. Fits(MaxVarint)
    BY <2>2, PayloadType
  <2>4. QED
    BY <1>1, <2>3
<1>5. \E k \in 1..Width : Right(k)
  <2>1. PICK k \in K : \A j \in K : k <= j
    BY <1>4, LeastOf
  <2>2. k <= MaxVarint /\ k \in Nat
    BY <1>4, <2>1
  <2>3. CASE k = 0
    <3>1. PowerOf2[Group * 0] = 1
      BY <1>1, PowerZero
    <3>2. v = 0
      BY <2>1, <2>3, <3>1
    <3>3. PowerOf2[Group * 1] \in Nat \ {0}
      BY <1>1, PowerType
    <3>4. Right(1)
      BY <3>2, <3>3
    <3>5. QED
      BY <1>1, <3>4
  <2>4. CASE k # 0
    <3>1. k - 1 \in Nat /\ ~ (k <= k - 1) /\ k \in 1..Width
      BY <1>1, <2>2, <2>4
    <3>2. k - 1 \notin K
      BY <2>1, <3>1, Zenon
    <3>3. ~ Fits(k - 1)
      BY <3>1, <3>2
    <3>4. v >= PowerOf2[Group * (k - 1)]
      BY <1>2, <3>1, <3>3
    <3>5. Right(k)
      BY <2>1, <3>4
    <3>6. QED
      BY <3>1, <3>5
  <2>5. QED
    BY <2>3, <2>4
<1>6. n \in 1..Width /\ Right(n)
  <2> HIDE DEF Right
  <2>1. QED
    BY <1>5
<1>7. EncodeVarint(v) = [k \in 1..n |-> PayloadOf(v, k) + (IF k < n THEN Payload ELSE 0)]
  BY DEF EncodeVarint
<1> HIDE DEF n
<1>8. n <= MaxVarint
  <2> SUFFICES ASSUME n > MaxVarint PROVE FALSE
    BY <1>1, <1>6
  <2>1. n - 1 \in Nat /\ n - 1 >= MaxVarint /\ n # 1
    BY <1>1, <1>6
  <2>2. Mod <= PowerOf2[Group * (n - 1)] /\ PowerOf2[Group * (n - 1)] \in Nat
    BY <1>2, <1>3, <2>1
  <2>3. v >= PowerOf2[Group * (n - 1)]
    BY <1>6, <2>1
  <2>4. QED
    BY <2>2, <2>3, PayloadType
<1>9. Len(EncodeVarint(v)) = n
  BY <1>1, <1>6, <1>7, LenProperties
<1>10. QED
  BY <1>1, <1>6, <1>7, <1>8, <1>9

\* A number modulo a product: the lower part and the next digit.
LEMMA DigitAdd ==
  ASSUME NEW v \in Nat, NEW q \in Nat \ {0}, NEW d \in Nat \ {0}
  PROVE  v % (q * d) = (v % q) + ((v \div q) % d) * q
<1> DEFINE a == v \div q
           r == v % q
           b == a \div d
           s == a % d
<1>1. a \in Nat /\ r \in Nat /\ r < q /\ v = q * a + r
  BY DivMod
<1>2. b \in Nat /\ s \in Nat /\ s < d /\ a = d * b + s
  BY <1>1, DivMod
<1> HIDE DEF a, r, b, s
<1>3. v = (q * d) * b + (q * s + r)
  <2>1. q * a = (q * d) * b + q * s
    BY <1>1, <1>2
  <2>2. QED
    BY <1>1, <1>2, <2>1
<1>4. q * s + r \in Nat /\ q * s + r < q * d
  <2>1. q * s + q <= q * d /\ q * s \in Nat /\ q * d \in Nat
    BY <1>1, <1>2, MulMono
  <2>2. QED
    BY <1>1, <2>1
<1>5. q * d \in Nat \ {0}
  OBVIOUS
<1>6. v % (q * d) = q * s + r
  BY <1>2, <1>3, <1>4, <1>5, DivUnique
<1>7. q * s = s * q /\ q * s \in Nat
  BY <1>1, <1>2
<1>8. v % (q * d) = r + s * q
  BY <1>1, <1>6, <1>7
<1>9. QED
  BY <1>8 DEF a, r, s

LEMMA ModSmall ==
  ASSUME NEW d \in Nat \ {0}, NEW a \in Nat, a < d
  PROVE  a % d = a /\ a \div d = 0
  BY SMT

\* The bytes of a value and what the decoder makes of them.
LEMMA VarintBack ==
  ASSUME NEW v \in Nat, v < Mod
  PROVE  /\ EncodeVarint(v) \in Seq(Byte) /\ Len(EncodeVarint(v)) \in 1..MaxVarint
         /\ \A k \in 1..Len(EncodeVarint(v)) : EncodeVarint(v)[k] < Payload <=> k = Len(EncodeVarint(v))
         /\ DecodeVarint(EncodeVarint(v)) = v
<1> DEFINE bs == EncodeVarint(v)
<1>1. PICK n \in 1..MaxVarint :
        /\ v < PowerOf2[Group * n] /\ Len(bs) = n
        /\ bs = [k \in 1..n |-> PayloadOf(v, k) + (IF k < n THEN Payload ELSE 0)]
  BY VarintLength, Zenon
<1> HIDE DEF bs
<1>2. n \in Nat /\ n \in 1..Width
  <2>1. MaxVarint \in 1..Width /\ Width \in Nat
    BY ByteArrayAssumption, MaxVarintIs
  <2>2. QED
    BY <2>1
<1>3. Group \in Nat \ {0} /\ Payload \in Nat \ {0} /\ Payload = PowerOf2[Group]
  BY ByteArrayAssumption, PayloadType DEF Payload
<1>4. \A k \in Nat : Group * k \in Nat /\ PowerOf2[Group * k] \in Nat \ {0}
  BY <1>3, PowerType
<1>5. \A k \in 1..n : PayloadOf(v, k) \in Nat /\ PayloadOf(v, k) < Payload
  <2> SUFFICES ASSUME NEW k \in 1..n PROVE PayloadOf(v, k) \in Nat /\ PayloadOf(v, k) < Payload
    OBVIOUS
  <2>1. PowerOf2[Group * (k - 1)] \in Nat \ {0}
    <3>1. k - 1 \in Nat
      OBVIOUS
    <3>2. QED
      BY <1>4, <3>1
  <2>2. v \div PowerOf2[Group * (k - 1)] \in Nat
    BY <2>1, DivMod
  <2>3. QED
    BY <1>3, <2>2, DivMod DEF PayloadOf
<1>6. \A k \in 1..n : bs[k] = PayloadOf(v, k) + (IF k < n THEN Payload ELSE 0)
  BY <1>1
<1>7. \A k \in 1..n : bs[k] \in Byte /\ (bs[k] < Payload <=> k = n) /\ bs[k] % Payload = PayloadOf(v, k)
  <2> SUFFICES ASSUME NEW k \in 1..n
               PROVE  bs[k] \in Byte /\ (bs[k] < Payload <=> k = n) /\ bs[k] % Payload = PayloadOf(v, k)
    OBVIOUS
  <2> DEFINE x == PayloadOf(v, k)
  <2>1. x \in Nat /\ x < Payload /\ bs[k] = x + (IF k < n THEN Payload ELSE 0)
    BY <1>5, <1>6
  <2> HIDE DEF x
  <2>2. (Payload * 1 + x) % Payload = x /\ x % Payload = x
    <3>1. (Payload * 1 + x) % Payload = x
      BY <1>3, <2>1, DivUnique, SMTT(20)
    <3>2. x % Payload = x
      BY <1>3, <2>1, ModSmall, SMTT(20)
    <3>3. QED
      BY <3>1, <3>2
  <2>3. CASE k < n
    <3>1. bs[k] = Payload * 1 + x
      BY <1>3, <2>1, <2>3
    <3>2. QED
      BY <1>2, <1>3, <2>1, <2>2, <2>3, <3>1 DEF Byte, x
  <2>4. CASE ~ (k < n)
    <3>1. bs[k] = x /\ k = n
      BY <1>2, <1>3, <2>1, <2>4
    <3>2. QED
      BY <1>2, <1>3, <2>1, <2>2, <2>4, <3>1 DEF Byte, x
  <2>5. QED
    BY <2>3, <2>4
<1>8. bs \in Seq(Byte)
  <2>1. bs \in [1..n -> Byte]
    <3>1. bs = [k \in 1..n |-> bs[k]]
      BY <1>1
    <3>2. QED
      BY <1>7, <3>1
  <2>2. QED
    BY <1>2, <2>1, IsASeq
<1> DEFINE K == {k \in Nat : k <= n => Sum(bs, k) = v % PowerOf2[Group * k]}
<1>9. 0 \in K
  <2>1. Group * 0 = 0
    BY <1>3
  <2>2. v % 1 = 0
    OBVIOUS
  <2>3. QED
    BY <2>1, <2>2, PowerZero, SumNext
<1>10. ASSUME NEW k \in K PROVE k + 1 \in K
  <2> SUFFICES ASSUME k + 1 <= n PROVE Sum(bs, k + 1) = v % PowerOf2[Group * (k + 1)]
    OBVIOUS
  <2>1. k \in Nat /\ Sum(bs, k) = v % PowerOf2[Group * k]
    BY <1>2
  <2>2. PowerOf2[Group * (k + 1)] = PowerOf2[Group * k] * Payload
    <3>1. Group * (k + 1) = Group * k + Group /\ Group * k \in Nat
      BY <1>3
    <3>2. QED
      BY <1>3, <3>1, PowerAdd
  <2>3. Sum(bs, k + 1) = Sum(bs, k) + (bs[k + 1] % Payload) * PowerOf2[Group * k]
    BY SumNext
  <2>4. bs[k + 1] % Payload = (v \div PowerOf2[Group * k]) % Payload
    <3>1. k + 1 \in 1..n /\ (k + 1) - 1 = k
      BY <1>2
    <3>2. bs[k + 1] % Payload = PayloadOf(v, k + 1)
      BY <1>7, <3>1
    <3>3. QED
      BY <3>1, <3>2, Zenon DEF PayloadOf
  <2>5. PowerOf2[Group * k] \in Nat \ {0}
    BY <1>4
  <2>6. v % (PowerOf2[Group * k] * Payload)
          = (v % PowerOf2[Group * k]) + ((v \div PowerOf2[Group * k]) % Payload) * PowerOf2[Group * k]
    BY <1>3, <2>5, DigitAdd
  <2>7. QED
    BY <2>1, <2>2, <2>3, <2>4, <2>6, Zenon
<1> HIDE DEF K
<1>11. K = Nat
  BY <1>9, <1>10, Induct DEF K
<1>12. Sum(bs, n) = v % PowerOf2[Group * n]
  BY <1>2, <1>11 DEF K
<1>13. v % PowerOf2[Group * n] = v /\ v % Mod = v
  BY <1>1, <1>2, <1>4, PayloadType, ModSmall
<1>14. DecodeVarint(bs) = v
  BY <1>1, <1>12, <1>13 DEF DecodeVarint
<1>15. QED
  BY <1>1, <1>7, <1>8, <1>14 DEF bs

LEMMA ZigzagBack ==
  ASSUME NEW v \in -Half..(Half - 1)
  PROVE  /\ EncodeZigzag(v) \in Nat /\ EncodeZigzag(v) < Mod
         /\ DecodeZigzag(EncodeZigzag(v)) = v
<1>1. Half \in Nat \ {0} /\ Mod = 2 * Half /\ v \in Int /\ -Half <= v /\ v < Half /\ Mod \in Nat \ {0}
  BY PayloadType DEF Mod
<1>2. CASE v < 0
  <2>1. (-v) \in Nat /\ (-v) < Mod /\ (-v) * 2 - 1 \in Nat /\ (-v) * 2 - 1 < Mod
    BY <1>1, <1>2
  <2>2. EncodeZigzag(v) = (-v) * 2 - 1
    BY <1>1, <1>2, <2>1, ModSmall DEF EncodeZigzag
  <2> DEFINE e == EncodeZigzag(v)
  <2>3. e \in Nat /\ e < Mod /\ e = 2 * ((-v) - 1) + 1 /\ (-v) - 1 \in Nat
    BY <1>1, <1>2, <2>1, <2>2
  <2> HIDE DEF e
  <2>4. e % 2 = 1 /\ e \div 2 = (-v) - 1
    BY <2>3, DivUnique
  <2>5. Mod - 1 - (e \div 2) = Mod + v /\ Mod + v >= Half
    BY <1>1, <2>4
  <2>6. DecodeZigzag(e) = (Mod + v) - Mod
    BY <1>1, <2>4, <2>5 DEF DecodeZigzag
  <2>7. QED
    BY <1>1, <2>3, <2>6 DEF e
<1>3. CASE v >= 0
  <2>1. v * 2 \in Nat /\ v * 2 < Mod /\ ~ (v < 0) /\ v \in Nat
    BY <1>1, <1>3
  <2>2. EncodeZigzag(v) = v * 2
    BY <1>1, <2>1, ModSmall DEF EncodeZigzag
  <2> DEFINE e == EncodeZigzag(v)
  <2>3. e \in Nat /\ e < Mod /\ e = v * 2
    BY <1>1, <2>1, <2>2
  <2> HIDE DEF e
  <2>4. e % 2 = 0 /\ e \div 2 = v
    BY <2>1, <2>3, DivExact
  <2>5. DecodeZigzag(e) = v
    BY <1>1, <2>1, <2>4 DEF DecodeZigzag
  <2>6. QED
    BY <2>3, <2>5 DEF e
<1>4. QED
  BY <1>1, <1>2, <1>3

LEMMA FixedBack ==
  ASSUME NEW v \in -Half..(Half - 1), NEW little \in BOOLEAN
  PROVE  /\ EncodeFixed(v, little) \in Seq(Byte) /\ Len(EncodeFixed(v, little)) = 2
         /\ DecodeFixed(EncodeFixed(v, little), little) = v
<1> DEFINE P == 2 * Payload
           u == v % Mod
           lo == u % P
           hi == u \div P
           bs == EncodeFixed(v, little)
<1>1. Half \in Nat \ {0} /\ Mod = 2 * Half /\ v \in Int /\ -Half <= v /\ v < Half /\ Mod \in Nat \ {0}
  BY PayloadType DEF Mod
<1>2. P \in Nat \ {0} /\ Byte = 0..(P - 1)
  BY PayloadType DEF Byte
<1>3. u \in Nat /\ u < Mod /\ u = IF v < 0 THEN Mod + v ELSE v
  BY <1>1
<1>4. Mod <= P * P
  <2>1. Group \in Nat /\ Width \in Nat /\ 2 * (Group + 1) \in Nat /\ Width <= 2 * (Group + 1)
        /\ 2 * (Group + 1) = (Group + 1) + (Group + 1) /\ Group + 1 \in Nat
    BY ByteArrayAssumption
  <2>2. PowerOf2[Group + 1] = P
    BY <2>1, PowerNext DEF Payload
  <2>3. PowerOf2[(Group + 1) + (Group + 1)] = P * P
    BY <2>1, <2>2, PowerAdd
  <2>4. PowerOf2[Width] <= PowerOf2[2 * (Group + 1)]
    BY <2>1, PowerMono
  <2>5. QED
    BY <2>1, <2>3, <2>4, ModIs
<1>5. lo \in Nat /\ hi \in Nat /\ lo < P /\ u = P * hi + lo
  BY <1>2, <1>3, DivMod
<1>6. bs = IF little THEN <<lo, hi>> ELSE <<hi, lo>>
  BY DEF EncodeFixed
<1>7. DecodeFixed(bs, little)
        = LET w == IF little THEN bs[2] * 2 * Payload + bs[1] ELSE bs[1] * 2 * Payload + bs[2]
          IN  IF w % Mod >= Half THEN (w % Mod) - Mod ELSE w % Mod
  BY DEF DecodeFixed
<1> HIDE DEF bs, lo, hi, u
<1>8. hi < P
  <2>1. P * hi <= u /\ P * hi \in Nat
    BY <1>2, <1>5
  <2>2. SUFFICES ASSUME hi >= P PROVE FALSE
    BY <1>2, <1>5
  <2>3. P * P <= P * hi /\ P * P \in Nat
    BY <1>2, <1>5, <2>2, MulMono
  <2>4. QED
    BY <1>1, <1>3, <1>4, <2>1, <2>3
<1>9. lo \in Byte /\ hi \in Byte
  BY <1>2, <1>5, <1>8
<1>10. bs \in Seq(Byte) /\ Len(bs) = 2
  BY <1>6, <1>9
<1>11. hi * 2 * Payload + lo = u
  <2>1. hi * 2 * Payload = P * hi
    BY <1>5, PayloadType
  <2>2. QED
    BY <1>5, <2>1
<1>12. u % Mod = u
  BY <1>1, <1>3, ModSmall
<1>13. DecodeFixed(bs, little) = IF u >= Half THEN u - Mod ELSE u
  <2>1. CASE little
    BY <1>6, <1>7, <1>11, <1>12, <2>1
  <2>2. CASE ~little
    BY <1>6, <1>7, <1>11, <1>12, <2>2
  <2>3. QED
    BY <2>1, <2>2
<1>14. DecodeFixed(bs, little) = v
  BY <1>1, <1>3, <1>13
<1>15. QED
  BY <1>10, <1>14 DEF bs

-----------------------------------------------------------------------------
(***************************************************************************)
(* readUint32/64                                                           *)
(***************************************************************************)
LEMMA Readable ==
  ASSUME NEW b, Chain(b)
  PROVE  /\ getReadSize(b) \in Nat /\ b.position \in Nat /\ b.size \in Nat /\ b.capacity \in Nat
         /\ b.position + getReadSize(b) = b.size /\ b.size <= b.capacity
  BY DEF Chain, getReadSize

\* The byte that the k-th call of readFuint8 returns.
LEMMA NextBytes ==
  ASSUME NEW b, Chain(b), NEW k \in Nat \ {0}, k <= getReadSize(b)
  PROVE  Bytes(b, b.cur, b.position, k)[k] = ByteAt(b, b.position + k - 1)
<1> DEFINE p == b.position
<1>1. p \in Nat /\ k - 1 \in Nat /\ p + (k - 1) < b.capacity /\ p + (k - 1) = p + k - 1
  <2>1. getReadSize(b) \in Nat /\ p \in Nat /\ b.size \in Nat /\ b.capacity \in Nat
        /\ p + getReadSize(b) = b.size /\ b.size <= b.capacity
    BY Readable
  <2> HIDE DEF p
  <2>2. QED
    BY <2>1
<1>2. b.blocks[Block(b.cur, p, k - 1)][Offset(p, k - 1)] = ByteAt(b, p + (k - 1))
  BY <1>1, WalkPlace
<1>3. k \in 1..k
  OBVIOUS
<1>4. Bytes(b, b.cur, p, k)[k] = b.blocks[Block(b.cur, p, k - 1)][Offset(p, k - 1)]
  BY <1>3 DEF Bytes
<1>5. QED
  BY <1>1, <1>2, <1>4

\* The bytes readVarint asks for.
Asks(b) ==
  LET last == {k \in 1..MaxVarint : /\ k <= getReadSize(b)
                                    /\ Bytes(b, b.cur, b.position, k)[k] < Payload}
  IN  IF last = {} THEN MaxVarint ELSE Min(last)

LEMMA AsksType ==
  ASSUME NEW b
  PROVE  Asks(b) \in 1..MaxVarint
<1> DEFINE last == {k \in 1..MaxVarint : /\ k <= getReadSize(b)
                                         /\ Bytes(b, b.cur, b.position, k)[k] < Payload}
<1>1. MaxVarint \in Nat \ {0}
  BY MaxVarintIs, ByteArrayAssumption
<1>2. last \subseteq 1..MaxVarint /\ last \in SUBSET Nat
  BY <1>1
<1>3. Asks(b) = IF last = {} THEN MaxVarint ELSE Min(last)
  BY DEF Asks
<1> HIDE DEF last
<1>4. last # {} => Min(last) \in last
  <2> SUFFICES ASSUME NEW m \in last PROVE Min(last) \in last
    OBVIOUS
  <2>1. \E k \in last : \A j \in last : k <= j
    BY <1>2, LeastOf
  <2>2. QED
    BY <2>1 DEF Min
<1>5. CASE last = {}
  BY <1>1, <1>3, <1>5
<1>6. CASE last # {}
  <2>1. Asks(b) = Min(last) /\ Min(last) \in last
    BY <1>3, <1>4, <1>6
  <2>2. QED
    BY <1>2, <2>1, Zenon
<1>7. QED
  BY <1>5, <1>6

LEMMA VarintReads ==
  ASSUME NEW b, Chain(b)
  PROVE  LET r == readVarint(b) IN
         /\ Taken(b, r.ba, r.bs)
         /\ r.ok = (getReadSize(b) # 0 /\ Asks(b) <= getReadSize(b))
         /\ r.ok => Len(r.bs) = Asks(b)
<1> DEFINE r == readVarint(b)
           size == getReadSize(b)
           n == Asks(b)
           t == IF n > size THEN size ELSE n
<1>1. size \in Nat /\ MaxVarint \in Nat
  BY Readable, MaxVarintIs, ByteArrayAssumption
<1>2. n \in 1..MaxVarint
  BY AsksType
<1>3. r = IF size = 0 THEN [ba |-> b, bs |-> <<>>, ok |-> FALSE]
          ELSE [ba |-> read(b, t).ba, bs |-> read(b, t).out, ok |-> n <= size]
  BY DEF readVarint, Asks
<1> HIDE DEF r, n, size
<1>4. CASE size = 0
  <2>1. r.ba = b /\ r.bs = <<>> /\ r.ok = FALSE
    BY <1>3, <1>4
  <2>2. Taken(b, b, <<>>)
    BY DEF Taken, Chain
  <2>3. QED
    BY <1>4, <2>1, <2>2 DEF r, size
<1>5. CASE size # 0
  <2>1. t \in Nat /\ t # 0 /\ ~ (t > size)
    BY <1>1, <1>2, <1>5
  <2> HIDE DEF t
  <2>2. Taken(b, read(b, t).ba, read(b, t).out) /\ Len(read(b, t).out) = t
    BY <2>1, ReadDoes DEF size
  <2>3. r.ba = read(b, t).ba /\ r.bs = read(b, t).out /\ r.ok = (n <= size)
    BY <1>3, <1>5
  <2>4. n <= size => t = n
    BY <1>1, <1>2 DEF t
  <2>5. Taken(b, r.ba, r.bs) /\ r.ok = (size # 0 /\ n <= size) /\ (r.ok => Len(r.bs) = n)
    <3>1. (n <= size) = (size # 0 /\ n <= size)
      BY <1>5
    <3>2. r.ok = (size # 0 /\ n <= size)
      BY <2>3, <3>1, Zenon
    <3>3. r.ok => Len(r.bs) = n
      BY <2>2, <2>3, <2>4, Zenon
    <3>4. QED
      BY <2>2, <2>3, <3>2, <3>3, Zenon
  <2>6. QED
    BY <2>5 DEF r, size, n
<1>6. QED
  BY <1>4, <1>5

\* Bytes at the position of which only the last has no flag are what readVarint takes.
LEMMA VarintStops ==
  ASSUME NEW b, Chain(b), NEW bs \in Seq(Byte), Len(bs) \in 1..MaxVarint, Len(bs) <= getReadSize(b),
         \A k \in 1..Len(bs) : ByteAt(b, b.position + k - 1) = bs[k],
         \A k \in 1..Len(bs) : bs[k] < Payload <=> k = Len(bs)
  PROVE  readVarint(b).ok = TRUE /\ readVarint(b).bs = bs
<1> DEFINE j == Len(bs)
           byte(k) == Bytes(b, b.cur, b.position, k)[k]
           last == {k \in 1..MaxVarint : k <= getReadSize(b) /\ byte(k) < Payload}
<1>1. MaxVarint \in Nat /\ j \in 1..MaxVarint /\ getReadSize(b) \in Nat /\ j <= getReadSize(b)
  BY MaxVarintIs, ByteArrayAssumption, Readable
<1>2. \A k \in 1..j : byte(k) = bs[k]
  <2> SUFFICES ASSUME NEW k \in 1..j PROVE byte(k) = bs[k]
    OBVIOUS
  <2>1. k \in Nat \ {0} /\ k <= getReadSize(b)
    BY <1>1
  <2>2. QED
    BY <2>1, NextBytes
<1> HIDE DEF byte
<1>3. j \in last
  BY <1>1, <1>2
<1>4. \A k \in last : j <= k
  BY <1>1, <1>2
<1>5. last \in SUBSET Nat
  BY <1>1
<1>6. Asks(b) = IF last = {} THEN MaxVarint ELSE Min(last)
  BY DEF Asks, byte
<1> HIDE DEF last
<1>7. Min(last) = j
  <2>1. \A x \in last : (\A y \in last : x <= y) => x = j
    BY <1>3, <1>4, <1>5
  <2>2. QED
    BY <1>3, <1>4, <2>1 DEF Min
<1>8. Asks(b) = j
  BY <1>3, <1>6, <1>7
<1> DEFINE r == readVarint(b)
<1> HIDE DEF r
<1>9. r.ok = TRUE /\ Len(r.bs) = j /\ Taken(b, r.ba, r.bs)
  <2>1. /\ Taken(b, r.ba, r.bs)
        /\ r.ok = (getReadSize(b) # 0 /\ Asks(b) <= getReadSize(b))
        /\ r.ok => Len(r.bs) = Asks(b)
    BY VarintReads, Zenon DEF r
  <2>2. (getReadSize(b) # 0 /\ Asks(b) <= getReadSize(b)) = TRUE
    BY <1>1, <1>8
  <2>3. QED
    BY <1>8, <2>1, <2>2
<1>10. r.bs \in Seq(Byte) /\ \A k \in 1..j : r.bs[k] = ByteAt(b, b.position + k - 1)
  BY <1>9 DEF Taken
<1>11. r.bs = bs
  BY <1>9, <1>10, SeqEqual
<1>12. QED
  BY <1>9, <1>11 DEF r

-----------------------------------------------------------------------------
(***************************************************************************)
(* The calls of a program                                                  *)
(***************************************************************************)
ChainInv == ~ba.fault => Chain(ba)

\* What a call makes of the chain and of the bytes it moves.
Faulted == ba' = [ba EXCEPT !.fault = TRUE] /\ moved' = moved
HasWritten == moved' \in Seq(Byte) /\ Written(ba, ba', moved')
HasTaken == Taken(ba, ba', moved')
HasSought ==
  /\ Chain(ba') /\ ba'.size = Larger(ba.size, ba'.position) /\ moved' = <<>>
  /\ \A k \in Nat : ByteAt(ba', k) = ByteAt(ba, k)
HasCleared == Chain(ba') /\ ba'.size = 0 /\ ba'.position = 0 /\ moved' = <<>>
HasGrown ==
  /\ Chain(ba') /\ ba'.size = ba.size /\ ba'.position = ba.position /\ moved' = <<>>
  /\ \A k \in Nat : k < ba.capacity => ByteAt(ba', k) = ByteAt(ba, k)
Outcome == Faulted \/ HasWritten \/ HasTaken \/ HasSought \/ HasCleared \/ HasGrown

LEMMA BecomesDoes ==
  ASSUME NEW d, NEW out, Becomes(d, out)
  PROVE  /\ ~ba.fault
         /\ (d.fault /\ Faulted) \/ (~d.fault /\ ba' = d /\ moved' = out)
  BY DEF Becomes, Faulted

LEMMA WriteOutcome ==
  ASSUME NEW d, NEW bs \in Seq(Byte), Chain(ba), Becomes(d, bs), d.fault = TRUE \/ Written(ba, d, bs)
  PROVE  Faulted \/ (HasWritten /\ moved' = bs)
<1>1. CASE d.fault = TRUE
  BY <1>1, BecomesDoes
<1>2. CASE Written(ba, d, bs)
  <2>1. ~d.fault
    BY <1>2 DEF Written, Chain
  <2>2. QED
    BY <1>2, <2>1, BecomesDoes DEF HasWritten
<1>3. QED
  BY <1>1, <1>2

LEMMA TakenOutcome ==
  ASSUME NEW d, NEW out, Becomes(d, out), Taken(ba, d, out)
  PROVE  HasTaken
<1>1. ~d.fault
  BY DEF Taken, Chain
<1>2. QED
  BY <1>1, BecomesDoes DEF HasTaken

LEMMA WriteFaults ==
  ASSUME NEW b, Chain(b), NEW bs \in Seq(Byte)
  PROVE  write(b, bs).fault = TRUE \/ Written(b, write(b, bs), bs)
<1>1. [b EXCEPT !.fault = TRUE].fault = TRUE
  BY DEF Chain
<1>2. QED
  BY <1>1, WriteDoes

LEMMA StringWrites ==
  ASSUME NEW b, Chain(b), NEW s \in Seq(Byte), NEW t \in Seq(Byte)
  PROVE  LET d == write(write(b, s), t)
         IN  d.fault = TRUE \/ Written(b, d, s \o t)
<1> DEFINE c == write(b, s)
           d == write(c, t)
<1>1. c.fault = TRUE \/ Written(b, c, s)
  BY WriteFaults
<1> HIDE DEF c
<1>2. CASE c.fault = TRUE
  <2>1. d = c
    BY <1>2 DEF write
  <2>2. QED
    BY <1>2, <2>1 DEF c
<1>3. CASE Written(b, c, s)
  <2>1. Chain(c)
    BY <1>3 DEF Written
  <2>2. d.fault = TRUE \/ Written(c, d, t)
    BY <2>1, WriteFaults
  <2> HIDE DEF d
  <2>3. d.fault = TRUE \/ Written(b, d, s \o t)
    BY <1>3, <2>2, WrittenTwice
  <2>4. QED
    BY <2>3 DEF c, d
<1>4. QED
  BY <1>1, <1>2, <1>3

LEMMA RawType == \A bs \in RawData : bs \in Seq(Byte) /\ Len(bs) \in Nat /\ Len(bs) < Mod
  BY ByteArrayAssumption, LenProperties

\* The bytes a value is written as.
Encoded(kind, little, v) ==
  CASE kind = "int"    -> EncodeVarint(EncodeZigzag(v))
    [] kind = "fixed"  -> EncodeFixed(v, little)
    [] kind = "string" -> EncodeVarint(Len(v)) \o v

Value(kind, v) ==
  \/ kind \in {"int", "fixed"} /\ v \in Ints
  \/ kind = "string" /\ v \in RawData

LEMMA EncodedType ==
  ASSUME NEW kind, NEW v, NEW little \in BOOLEAN, Value(kind, v)
  PROVE  Encoded(kind, little, v) \in Seq(Byte)
<1>1. Ints \subseteq -Half..(Half - 1)
  BY ByteArrayAssumption
<1>2. CASE kind = "int" /\ v \in Ints
  <2>1. EncodeZigzag(v) \in Nat /\ EncodeZigzag(v) < Mod
    BY <1>1, <1>2, ZigzagBack
  <2>2. EncodeVarint(EncodeZigzag(v)) \in Seq(Byte)
    BY <2>1, VarintBack
  <2>3. QED
    BY <1>2, <2>2 DEF Encoded
<1>3. CASE kind = "fixed" /\ v \in Ints
  <2>1. EncodeFixed(v, little) \in Seq(Byte)
    BY <1>1, <1>3, FixedBack
  <2>2. QED
    BY <1>3, <2>1 DEF Encoded
<1>4. CASE kind = "string" /\ v \in RawData
  <2>1. EncodeVarint(Len(v)) \in Seq(Byte) /\ v \in Seq(Byte)
    BY <1>4, RawType, VarintBack
  <2>2. EncodeVarint(Len(v)) \o v \in Seq(Byte)
    BY <2>1, ConcatProperties
  <2>3. QED
    BY <1>4, <2>2 DEF Encoded
<1>5. QED
  BY <1>2, <1>3, <1>4 DEF Value

LEMMA ValueWritten ==
  ASSUME NEW kind, NEW v, Value(kind, v), Chain(ba), m_endian \in BOOLEAN, WriteValue(kind, v)
  PROVE  /\ Faulted \/ (HasWritten /\ moved' = Encoded(kind, m_endian, v))
         /\ mark' = [kind |-> kind, at |-> ba.position, little |-> m_endian, value |-> v]
         /\ result' = NoResult
<1> DEFINE bs == Encoded(kind, m_endian, v)
           d == IF kind = "string" THEN write(write(ba, EncodeVarint(Len(v))), v) ELSE write(ba, bs)
<1>1. bs \in Seq(Byte)
  BY EncodedType
<1>2. Becomes(d, bs)
  BY DEF WriteValue, Encoded
<1>3. d.fault = TRUE \/ Written(ba, d, bs)
  <2>1. CASE kind = "string"
    <3>1. v \in RawData
      BY <2>1 DEF Value
    <3>2. EncodeVarint(Len(v)) \in Seq(Byte) /\ v \in Seq(Byte)
      BY <3>1, RawType, VarintBack
    <3>3. bs = EncodeVarint(Len(v)) \o v
      BY <2>1 DEF Encoded
    <3>4. d = write(write(ba, EncodeVarint(Len(v))), v)
      BY <2>1
    <3> HIDE DEF d, bs
    <3>5. QED
      BY <3>2, <3>3, <3>4, StringWrites
  <2>2. CASE kind # "string"
    <3>1. d = write(ba, bs)
      BY <2>2
    <3> HIDE DEF d, bs
    <3>2. QED
      BY <1>1, <3>1, WriteFaults
  <2>3. QED
    BY <2>1, <2>2
<1> HIDE DEF d, bs
<1>4. Faulted \/ (HasWritten /\ moved' = bs)
  BY <1>1, <1>2, <1>3, WriteOutcome
<1>5. QED
  BY <1>4 DEF WriteValue, bs

LEMMA PlainWritten ==
  ASSUME NEW bs \in RawData, Chain(ba), Write(bs) \/ ReadFromFile(bs)
  PROVE  Faulted \/ HasWritten
<1>1. bs \in Seq(Byte)
  BY RawType
<1>2. CASE Write(bs)
  <2>1. Becomes(write(ba, bs), bs)
    BY <1>2 DEF Write
  <2>2. QED
    BY <1>1, <2>1, WriteFaults, WriteOutcome
<1>3. CASE ReadFromFile(bs)
  <2>1. Becomes(readFromFile(ba, bs), bs)
    BY <1>3 DEF ReadFromFile
  <2>2. QED
    BY <1>1, <2>1, FileDoes, WriteOutcome
<1>4. QED
  BY <1>2, <1>3

LEMMA ReadOutcome ==
  ASSUME NEW n \in Nat, Chain(ba), Becomes(read(ba, n).ba, read(ba, n).out)
  PROVE  /\ Faulted \/ HasTaken
         /\ read(ba, n).ok \in BOOLEAN
         /\ read(ba, n).ok => HasTaken /\ n <= getReadSize(ba) /\ Len(moved') = n
                              /\ moved' = read(ba, n).out
<1> DEFINE r == read(ba, n)
<1>1. Becomes(r.ba, r.out)
  OBVIOUS
<1>2. \/ r = [ba |-> ba, out |-> <<>>, ok |-> FALSE]
      \/ r = [ba |-> [ba EXCEPT !.fault = TRUE], out |-> <<>>, ok |-> FALSE]
      \/ n <= getReadSize(ba) /\ r.ok = TRUE /\ Taken(ba, r.ba, r.out) /\ Len(r.out) = n
  BY ReadDoes
<1> HIDE DEF r
<1>3. CASE r = [ba |-> ba, out |-> <<>>, ok |-> FALSE]
  <2>1. Taken(ba, ba, <<>>)
    BY DEF Taken, Chain
  <2>2. HasTaken
    BY <1>1, <1>3, <2>1, TakenOutcome
  <2>3. QED
    BY <1>3, <2>2 DEF r
<1>4. CASE r = [ba |-> [ba EXCEPT !.fault = TRUE], out |-> <<>>, ok |-> FALSE]
  <2>1. r.ba.fault = TRUE /\ r.ok = FALSE
    BY <1>4 DEF Chain
  <2>2. QED
    BY <1>1, <2>1, BecomesDoes DEF r
<1>5. CASE n <= getReadSize(ba) /\ r.ok = TRUE /\ Taken(ba, r.ba, r.out) /\ Len(r.out) = n
  <2>1. HasTaken
    BY <1>1, <1>5, TakenOutcome
  <2>2. ~r.ba.fault
    BY <1>5 DEF Taken, Chain
  <2>3. moved' = r.out
    BY <1>1, <2>2, BecomesDoes
  <2>4. QED
    BY <1>5, <2>1, <2>3 DEF r
<1>6. QED
  BY <1>2, <1>3, <1>4, <1>5

LEMMA NothingTaken ==
  ASSUME NEW b, Chain(b)
  PROVE  Taken(b, b, <<>>)
  BY DEF Taken, Chain

LEMMA IntRead ==
  ASSUME Chain(ba), readInt
  PROVE  /\ HasTaken /\ moved' = readVarint(ba).bs /\ mark' = mark
         /\ \/ result' = NoResult
            \/ result' = <<"int", ba.position, m_endian, DecodeZigzag(DecodeVarint(moved'))>>
<1> DEFINE r == readVarint(ba)
<1>1. /\ Becomes(r.ba, r.bs) /\ mark' = mark
      /\ result' = IF r.ok THEN <<"int", ba.position, m_endian, DecodeZigzag(DecodeVarint(r.bs))>>
                   ELSE NoResult
  BY DEF readInt
<1>2. Taken(ba, r.ba, r.bs)
  BY VarintReads
<1> HIDE DEF r
<1>3. HasTaken
  BY <1>1, <1>2, TakenOutcome
<1>4. moved' = r.bs
  <2>1. ~r.ba.fault
    BY <1>2 DEF Taken, Chain
  <2>2. QED
    BY <1>1, <2>1, BecomesDoes
<1>5. QED
  BY <1>1, <1>3, <1>4, Zenon DEF r

LEMMA FintRead ==
  ASSUME Chain(ba), readFint
  PROVE  /\ Faulted \/ HasTaken
         /\ mark' = mark
         /\ \/ result' = NoResult
            \/ /\ result' = <<"fixed", ba.position, m_endian, DecodeFixed(moved', m_endian)>>
               /\ HasTaken /\ Len(moved') = 2
<1> DEFINE r == read(ba, 2)
<1>1. /\ Becomes(r.ba, r.out) /\ mark' = mark
      /\ result' = IF r.ok THEN <<"fixed", ba.position, m_endian, DecodeFixed(r.out, m_endian)>>
                   ELSE NoResult
  BY DEF readFint
<1>2. /\ Faulted \/ HasTaken
      /\ r.ok \in BOOLEAN
      /\ r.ok => HasTaken /\ Len(moved') = 2 /\ moved' = r.out
  <2>1. 2 \in Nat
    OBVIOUS
  <2>2. QED
    BY <1>1, <2>1, ReadOutcome, Zenon
<1> HIDE DEF r
<1>3. QED
  BY <1>1, <1>2, Zenon

LEMMA StringRead ==
  ASSUME Chain(ba), readString
  PROVE  LET r == readVarint(ba)
             s == read(r.ba, DecodeVarint(r.bs))
         IN  /\ Faulted \/ HasTaken
             /\ mark' = mark
             /\ \/ result' = NoResult
                \/ r.ok /\ s.ok /\ result' = <<"string", ba.position, m_endian, s.out>>
<1> DEFINE r == readVarint(ba)
           n == DecodeVarint(r.bs)
           s == read(r.ba, n)
           d == IF r.ok THEN s.ba ELSE r.ba
           out == IF r.ok /\ s.ok THEN r.bs \o s.out ELSE r.bs
<1>1. /\ Becomes(d, out) /\ mark' = mark
      /\ result' = IF r.ok /\ s.ok THEN <<"string", ba.position, m_endian, s.out>> ELSE NoResult
  BY DEF readString
<1>2. Taken(ba, r.ba, r.bs)
  BY VarintReads
<1> HIDE DEF r
<1>3. Chain(r.ba) /\ n \in Nat
  BY <1>2, SumType DEF Taken
<1> HIDE DEF n
<1>4. \/ s = [ba |-> r.ba, out |-> <<>>, ok |-> FALSE]
      \/ s = [ba |-> [r.ba EXCEPT !.fault = TRUE], out |-> <<>>, ok |-> FALSE]
      \/ s.ok = TRUE /\ Taken(r.ba, s.ba, s.out)
  BY <1>3, ReadDoes
<1> HIDE DEF s
<1>5. Faulted \/ HasTaken
  <2>1. CASE ~r.ok
    <3>1. d = r.ba /\ out = r.bs
      BY <2>1
    <3>2. QED
      BY <1>1, <1>2, <3>1, TakenOutcome
  <2>2. CASE r.ok /\ s = [ba |-> r.ba, out |-> <<>>, ok |-> FALSE]
    <3>1. d = r.ba /\ out = r.bs
      BY <2>2
    <3>2. QED
      BY <1>1, <1>2, <3>1, TakenOutcome
  <2>3. CASE r.ok /\ s = [ba |-> [r.ba EXCEPT !.fault = TRUE], out |-> <<>>, ok |-> FALSE]
    <3>1. d = [r.ba EXCEPT !.fault = TRUE]
      BY <2>3
    <3>2. d.fault
      BY <1>3, <3>1 DEF Chain
    <3>3. QED
      BY <1>1, <3>2, BecomesDoes
  <2>4. CASE r.ok /\ s.ok = TRUE /\ Taken(r.ba, s.ba, s.out)
    <3>1. d = s.ba /\ out = r.bs \o s.out
      BY <2>4
    <3>2. Taken(ba, s.ba, r.bs \o s.out)
      BY <1>2, <2>4, TakenTwice
    <3>3. QED
      BY <1>1, <3>1, <3>2, TakenOutcome
  <2>5. QED
    BY <1>4, <2>1, <2>2, <2>3, <2>4
<1>6. \/ result' = NoResult
      \/ r.ok /\ s.ok /\ result' = <<"string", ba.position, m_endian, s.out>>
  BY <1>1
<1>7. QED
  BY <1>1, <1>5, <1>6 DEF r, n, s

LEMMA Sought ==
  ASSUME Chain(ba), NEW v \in Nat, SetPosition(v)
  PROVE  HasSought \/ HasTaken
<1> DEFINE d == setPosition(ba, v)
<1>1. ba.capacity \in Nat
  BY Readable
<1>2. CASE v > ba.capacity
  <2>1. Becomes(ba, <<>>)
    BY <1>2 DEF SetPosition
  <2>2. QED
    BY <2>1, NothingTaken, TakenOutcome
<1>3. CASE ~ (v > ba.capacity)
  <2>1. Becomes(d, <<>>)
    BY <1>3 DEF SetPosition
  <2>2. /\ Chain(d) /\ d.position = v /\ d.size = Larger(ba.size, v)
        /\ \A k \in Nat : ByteAt(d, k) = ByteAt(ba, k)
    BY <1>1, <1>3, SeekDoes
  <2> HIDE DEF d
  <2>3. ~d.fault
    BY <2>2 DEF Chain
  <2>4. ba' = d /\ moved' = <<>>
    BY <2>1, <2>3, BecomesDoes
  <2>5. QED
    BY <2>2, <2>4 DEF HasSought
<1>4. QED
  BY <1>2, <1>3

LEMMA Grown ==
  ASSUME Chain(ba), NEW len \in Nat, GetWriteBuffers(len)
  PROVE  Faulted \/ HasGrown
<1> DEFINE c == addCapacity(ba, len)
           d == IF RunsOff(c, len) THEN [ba EXCEPT !.fault = TRUE] ELSE c
<1>1. Becomes(d, <<>>)
  BY DEF GetWriteBuffers
<1>2. /\ Chain(c) /\ c.position = ba.position /\ c.size = ba.size
      /\ \A k \in Nat : k < ba.capacity => ByteAt(c, k) = ByteAt(ba, k)
  BY AddDoes
<1>3. d = [ba EXCEPT !.fault = TRUE] \/ d = c
  OBVIOUS
<1> HIDE DEF c, d
<1>4. (d.fault /\ Faulted) \/ (~d.fault /\ ba' = d /\ moved' = <<>>)
  BY <1>1, BecomesDoes
<1>5. CASE d = [ba EXCEPT !.fault = TRUE]
  <2>1. d.fault = TRUE
    BY <1>5 DEF Chain
  <2>2. QED
    BY <1>4, <2>1
<1>6. CASE d = c
  <2>1. ba' = c /\ moved' = <<>>
    BY <1>2, <1>4, <1>6 DEF Chain
  <2>2. QED
    BY <1>2, <2>1 DEF HasGrown
<1>7. QED
  BY <1>3, <1>5, <1>6

LEMMA Cleared ==
  ASSUME Chain(ba), Clear
  PROVE  HasCleared
<1> DEFINE d == clear(ba)
<1>1. /\ d = [blocks |-> <<ba.blocks[1]>>, capacity |-> BaseSize, size |-> 0, position |-> 0,
              cur |-> 1, fault |-> FALSE]
  <2> DEFINE x == <<ba.blocks[1]>>
             y == <<Fresh>>
  <2>1. d = [[blocks |-> y, capacity |-> BaseSize, size |-> 0, position |-> 0, cur |-> 1,
              fault |-> FALSE] EXCEPT !.blocks = x]
    BY DEF clear, Empty
  <2> HIDE DEF x, y, d
  <2>2. d = [blocks |-> x, capacity |-> BaseSize, size |-> 0, position |-> 0, cur |-> 1,
             fault |-> FALSE]
    BY <2>1
  <2>3. QED
    BY <2>2 DEF x
<1>2. ba.blocks[1] \in ABlock
  BY DEF Chain
<1>3. 0 \div BaseSize = 0
  <2>1. 0 = BaseSize * 0 + 0 /\ 0 \in Nat /\ 0 < BaseSize
    BY Base
  <2>2. QED
    BY Base, <2>1, DivUnique
<1>4. Chain(d)
  <2>1. <<ba.blocks[1]>> \in Seq(ABlock) /\ Len(<<ba.blocks[1]>>) = 1 /\ <<ba.blocks[1]>> # <<>>
    BY <1>2
  <2> HIDE DEF d
  <2>2. At(0 \div BaseSize + 1, d) = 1
    BY <1>1, <1>3, <2>1 DEF At
  <2>3. BaseSize \in Nat /\ 1 * BaseSize = BaseSize
    BY Base
  <2>4. QED
    BY <1>1, <2>1, <2>2, <2>3 DEF Chain
<1>5. Becomes(d, <<>>)
  BY DEF Clear
<1>6. ba' = d /\ moved' = <<>>
  BY <1>1, <1>5, BecomesDoes
<1> HIDE DEF d
<1>7. QED
  BY <1>1, <1>4, <1>6 DEF HasCleared

-----------------------------------------------------------------------------
(***************************************************************************)
(* The invariant of the chain                                              *)
(***************************************************************************)
BAInv == ChainInv /\ m_endian \in BOOLEAN

LEMMA StepOutcome ==
  ASSUME BAInv, ~ba.fault, Next
  PROVE  Outcome \/ UNCHANGED <<ba, moved>>
<1>1. Chain(ba) /\ m_endian \in BOOLEAN
  BY DEF BAInv, ChainInv
<1>2. CASE \E bs \in RawData : Write(bs) \/ ReadFromFile(bs)
  BY <1>1, <1>2, PlainWritten DEF Outcome
<1>3. CASE \E bs \in RawData : WriteValue("string", bs)
  <2>1. PICK bs \in RawData : WriteValue("string", bs)
    BY <1>3
  <2>2. Value("string", bs)
    BY DEF Value
  <2>3. QED
    BY <1>1, <2>1, <2>2, ValueWritten DEF Outcome
<1>4. CASE \E v \in Ints, kind \in {"int", "fixed"} : WriteValue(kind, v)
  <2>1. PICK v \in Ints, kind \in {"int", "fixed"} : WriteValue(kind, v)
    BY <1>4
  <2>2. Value(kind, v)
    BY DEF Value
  <2>3. QED
    BY <1>1, <2>1, <2>2, ValueWritten DEF Outcome
<1>5. CASE \E n \in 0..MaxRead : Read(n)
  <2>1. PICK n \in 0..MaxRead : Read(n)
    BY <1>5
  <2>2. n \in Nat /\ Becomes(read(ba, n).ba, read(ba, n).out)
    BY <2>1 DEF Read
  <2>3. QED
    BY <1>1, <2>2, ReadOutcome DEF Outcome
<1>6. CASE \E v \in 0..MaxSize : SetPosition(v)
  BY <1>1, <1>6, Sought DEF Outcome
<1>7. CASE \E val \in BOOLEAN : setIsLittleEndian(val)
  BY <1>7 DEF setIsLittleEndian
<1>8. CASE readInt
  BY <1>1, <1>8, IntRead DEF Outcome
<1>9. CASE readFint
  BY <1>1, <1>9, FintRead DEF Outcome
<1>10. CASE readString
  BY <1>1, <1>10, StringRead DEF Outcome
<1>11. CASE Clear
  BY <1>1, <1>11, Cleared DEF Outcome
<1>12. CASE \E len \in 1..MaxSize : GetWriteBuffers(len)
  BY <1>1, <1>12, Grown DEF Outcome
<1>13. QED
  BY <1>2, <1>3, <1>4, <1>5, <1>6, <1>7, <1>8, <1>9, <1>10, <1>11, <1>12 DEF Next

LEMMA NoStepAfterFault ==
  ASSUME Next
  PROVE  ~ba.fault
  BY DEF Next, Write, ReadFromFile, WriteValue, Read, GetWriteBuffers, SetPosition,
         setIsLittleEndian, readInt, readFint, readString, Clear, Becomes

LEMMA EndianStep ==
  ASSUME m_endian \in BOOLEAN, Next
  PROVE  m_endian' \in BOOLEAN
  BY DEF Next, Write, ReadFromFile, WriteValue, Read, GetWriteBuffers, SetPosition,
         setIsLittleEndian, readInt, readFint, readString, Clear

LEMMA EmptyChain == Chain(Empty)
<1>1. Fresh \in ABlock
  <2>1. 0 \in Byte
    BY PayloadType DEF Byte
  <2>2. QED
    BY <2>1 DEF Fresh, ABlock
<1>2. 0 \div BaseSize = 0
  <2>1. 0 = BaseSize * 0 + 0 /\ 0 \in Nat /\ 0 < BaseSize
    BY Base
  <2>2. QED
    BY Base, <2>1, DivUnique
<1>3. <<Fresh>> \in Seq(ABlock) /\ Len(<<Fresh>>) = 1 /\ <<Fresh>> # <<>>
  BY <1>1
<1>4. At(0 \div BaseSize + 1, Empty) = 1
  BY <1>2, <1>3 DEF At, Empty
<1>5. BaseSize \in Nat /\ 1 * BaseSize = BaseSize
  BY Base
<1>6. QED
  BY <1>3, <1>4, <1>5 DEF Chain, Empty

LEMMA InitBA == Init => BAInv
  BY EmptyChain DEF Init, BAInv, ChainInv

LEMMA NextBA == BAInv /\ [Next]_vars => BAInv'
<1> SUFFICES ASSUME BAInv, [Next]_vars
             PROVE  BAInv'
  OBVIOUS
<1>1. CASE Next
  <2>1. ~ba.fault /\ Chain(ba)
    BY <1>1, NoStepAfterFault DEF BAInv, ChainInv
  <2>2. m_endian' \in BOOLEAN
    BY <1>1, EndianStep DEF BAInv
  <2>3. Outcome \/ UNCHANGED <<ba, moved>>
    BY <1>1, <2>1, StepOutcome
  <2>4. ChainInv'
    <3>1. CASE Faulted
      <4>1. ba'.fault
        BY <2>1, <3>1 DEF Faulted, Chain
      <4>2. QED
        BY <4>1 DEF ChainInv
    <3>2. CASE HasWritten \/ HasTaken \/ HasSought \/ HasCleared \/ HasGrown
      BY <3>2 DEF HasWritten, HasTaken, HasSought, HasCleared, HasGrown, Written, Taken, ChainInv
    <3>3. CASE UNCHANGED <<ba, moved>>
      BY <3>3 DEF BAInv, ChainInv
    <3>4. QED
      BY <2>3, <3>1, <3>2, <3>3 DEF Outcome
  <2>5. QED
    BY <2>2, <2>4 DEF BAInv
<1>2. CASE UNCHANGED vars
  BY <1>2 DEF vars, BAInv, ChainInv
<1>3. QED
  BY <1>1, <1>2

LEMMA BAInvHolds == Spec => []BAInv
  BY InitBA, NextBA, PTL DEF Spec

(***************************************************************************)
(* After every call m_cur is the block of the position, or null when the   *)
(* position is the end of the capacity, whichever of setPosition, write,   *)
(* read or addCapacity moved it, and the capacity is that of the blocks.   *)
(***************************************************************************)
THEOREM CurFollows == Spec => []CurIsPosition
<1>1. BAInv => CurIsPosition
  <2> SUFFICES ASSUME Chain(ba)
               PROVE  /\ ba.cur = IF ba.position = ba.capacity THEN 0
                                  ELSE ba.position \div BaseSize + 1
                      /\ ba.capacity = Len(ba.blocks) * BaseSize /\ ba.size <= ba.capacity
    BY DEF BAInv, ChainInv, CurIsPosition
  <2> DEFINE m == Len(ba.blocks)
             p == ba.position
  <2>1. /\ m \in Nat /\ p \in Nat /\ ba.capacity = m * BaseSize /\ p <= ba.capacity
        /\ ba.cur = IF p \div BaseSize + 1 <= m THEN p \div BaseSize + 1 ELSE 0
        /\ ba.size <= ba.capacity
    BY DEF Chain, At
  <2> HIDE DEF m, p
  <2>2. CASE p = ba.capacity
    <3>1. p \div BaseSize = m
      <4>1. p = BaseSize * m + 0 /\ 0 \in Nat /\ 0 < BaseSize
        BY <2>1, <2>2, Base
      <4>2. QED
        BY <2>1, <4>1, Base, DivUnique
    <3>2. QED
      BY <2>1, <2>2, <3>1 DEF m, p
  <2>3. CASE p # ba.capacity
    <3>1. p < m * BaseSize
      <4>1. m * BaseSize \in Nat
        BY <2>1, Base
      <4>2. QED
        BY <2>1, <2>3, <4>1
    <3>2. p \div BaseSize \in Nat /\ p \div BaseSize < m
      BY <2>1, <3>1, Base, DivBelow, DivMod
    <3>3. QED
      BY <2>1, <2>3, <3>2 DEF m, p
  <2>4. QED
    BY <2>2, <2>3
<1>2. QED
  BY <1>1, BAInvHolds, PTL

-----------------------------------------------------------------------------
(***************************************************************************)
(* The chain implements the flat sequence of bytes                         *)
(***************************************************************************)
Data(b) == [k \in 1..b.size |-> ByteAt(b, k - 1)]

LEMMA DataType ==
  ASSUME NEW b, Chain(b)
  PROVE  /\ Data(b) \in Seq(Byte) /\ Len(Data(b)) = b.size
         /\ \A k \in 1..b.size : Data(b)[k] = ByteAt(b, k - 1)
<1>1. b.size \in Nat /\ b.capacity \in Nat /\ b.size <= b.capacity
  BY Readable
<1>2. ASSUME NEW k \in 1..b.size PROVE ByteAt(b, k - 1) \in Byte
  <2>1. k - 1 \in Nat /\ k - 1 < b.capacity
    BY <1>1
  <2>2. QED
    BY <2>1, ByteAtType
<1>3. Data(b) \in [1..b.size -> Byte]
  BY <1>2 DEF Data
<1>4. Data(b) \in Seq(Byte) /\ Len(Data(b)) = b.size
  BY <1>1, <1>3, IsASeq
<1>5. \A k \in 1..b.size : Data(b)[k] = ByteAt(b, k - 1)
  BY DEF Data
<1>6. QED
  BY <1>4, <1>5

\* Bytes of the chain from a place on, as a part of the data.
LEMMA DataPart ==
  ASSUME NEW b, Chain(b), NEW p \in Nat, NEW q \in Nat, p <= q, q <= b.size,
         NEW out \in Seq(Byte), Len(out) = q - p,
         \A k \in 1..Len(out) : out[k] = ByteAt(b, p + k - 1)
  PROVE  SubSeq(Data(b), p + 1, q) = out
<1> DEFINE s == Data(b)
           u == SubSeq(s, p + 1, q)
<1>1. s \in Seq(Byte) /\ Len(s) = b.size /\ \A k \in 1..b.size : s[k] = ByteAt(b, k - 1)
  BY DataType
<1>2. b.size \in Nat
  BY Readable
<1> HIDE DEF s
<1>3. u \in Seq(Byte) /\ Len(u) = q - p /\ \A k \in 1..(q - p) : u[k] = s[p + k]
  <2>1. \A i \in (p + 1)..q : s[i] \in Byte
    BY <1>1, <1>2
  <2>2. p + 1 \in Int /\ q \in Int /\ q - (p + 1) + 1 = q - p
    OBVIOUS
  <2>3. /\ u \in Seq(Byte) /\ Len(u) = IF p + 1 <= q THEN q - (p + 1) + 1 ELSE 0
        /\ \A i \in 1..(q - (p + 1) + 1) : u[i] = s[(p + 1) + i - 1]
    BY <2>1, <2>2, SubSeqProperties
  <2> HIDE DEF u
  <2>4. \A k \in 1..(q - p) : (p + 1) + k - 1 = p + k
    OBVIOUS
  <2>5. Len(u) = q - p
    BY <2>3
  <2>6. \A k \in 1..(q - p) : u[k] = s[p + k]
    BY <2>2, <2>3, <2>4
  <2>7. QED
    BY <2>3, <2>5, <2>6
<1> HIDE DEF u
<1>4. \A k \in 1..(q - p) : u[k] = out[k]
  <2> SUFFICES ASSUME NEW k \in 1..(q - p) PROVE u[k] = out[k]
    OBVIOUS
  <2>1. k \in Nat /\ p + k \in 1..b.size /\ (p + k) - 1 = p + k - 1
    BY <1>2
  <2>2. u[k] = ByteAt(b, p + k - 1)
    BY <1>1, <1>3, <2>1
  <2>3. QED
    BY <2>2
<1>5. QED
  BY <1>3, <1>4, SeqEqual DEF u, s

Longer(m, n) == IF m > n THEN m ELSE n

LEMMA SameData ==
  ASSUME NEW b, NEW d, d.size = b.size, b.size \in Nat,
         \A k \in Nat : k < b.size => ByteAt(d, k) = ByteAt(b, k)
  PROVE  Data(d) = Data(b)
<1>1. \A k \in 1..b.size : ByteAt(d, k - 1) = ByteAt(b, k - 1)
  <2> SUFFICES ASSUME NEW k \in 1..b.size PROVE ByteAt(d, k - 1) = ByteAt(b, k - 1)
    OBVIOUS
  <2>1. k - 1 \in Nat /\ k - 1 < b.size
    OBVIOUS
  <2>2. QED
    BY <2>1
<1>2. QED
  BY <1>1 DEF Data

LEMMA ContentsIs == Contents = Data(ba) /\ Contents' = Data(ba')
  BY DEF Contents, Data, ByteAt

LEMMA WrittenFlat ==
  ASSUME BAInv, ~ba.fault, HasWritten
  PROVE  Flat!Write
<1> DEFINE b == ba
           d == ba'
           out == moved'
           p == b.position
           q == d.position
           m == b.size
           n == d.size
           l == Len(out)
<1>1. Chain(b) /\ Chain(d) /\ out \in Seq(Byte) /\ Written(b, d, out)
  BY DEF BAInv, ChainInv, HasWritten, Written
<1>2. Contents = Data(b) /\ Contents' = Data(d)
  BY ContentsIs
<1> HIDE DEF b, d, out
<1>3. p \in Nat /\ q \in Nat /\ m \in Nat /\ n \in Nat /\ l \in Nat /\ p <= m /\ q <= n
  BY <1>1, LenProperties DEF Chain
<1>4. /\ q = p + l /\ n = Larger(m, q)
      /\ \A k \in Nat : k < n =>
           ByteAt(d, k) = IF p <= k /\ k < q THEN out[k - p + 1] ELSE ByteAt(b, k)
  BY <1>1 DEF Written
<1>5. Len(Data(b)) = m /\ Len(Data(d)) = n
  BY <1>1, DataType
<1>6. /\ \A k \in 1..m : Data(b)[k] = ByteAt(b, k - 1)
      /\ \A k \in 1..n : Data(d)[k] = ByteAt(d, k - 1)
  BY <1>1, DataType
<1>7. (\A k \in 1..l : out[k] = ByteAt(d, p + k - 1)) => SubSeq(Data(d), p + 1, q) = out
  <2>1. p <= q /\ l = q - p
    <3>1. p \in Nat /\ l \in Nat /\ q = p + l
      BY <1>3, <1>4
    <3> HIDE DEF p, q, l
    <3>2. QED
      BY <3>1
  <2>2. Len(out) = q - p /\ q <= d.size
    BY <1>3, <2>1
  <2> HIDE DEF p, q
  <2>3. QED
    BY <1>1, <1>3, <2>1, <2>2, DataPart
<1> HIDE DEF p, q, m, n, l
<1>8. n = Longer(m, q)
  BY <1>3, <1>4 DEF Larger, Longer
<1>9. \A k \in 1..l : out[k] = ByteAt(d, p + k - 1)
  <2> SUFFICES ASSUME NEW k \in 1..l PROVE out[k] = ByteAt(d, p + k - 1)
    OBVIOUS
  <2> DEFINE x == p + k - 1
  <2>1. x \in Nat /\ x < n /\ p <= x /\ x < q /\ x - p + 1 = k
    BY <1>3, <1>4
  <2> HIDE DEF x
  <2>2. ByteAt(d, x) = out[x - p + 1]
    BY <1>4, <2>1
  <2>3. QED
    BY <2>1, <2>2 DEF x
<1>10. \A k \in 1..m : k <= p \/ k > q => Data(d)[k] = Data(b)[k]
  <2> SUFFICES ASSUME NEW k \in 1..m, k <= p \/ k > q
               PROVE  Data(d)[k] = Data(b)[k]
    OBVIOUS
  <2> DEFINE x == k - 1
  <2>1. x \in Nat /\ x < n /\ ~ (p <= x /\ x < q) /\ k \in 1..n
    BY <1>3, <1>4 DEF Larger
  <2>2. Data(d)[k] = ByteAt(d, x) /\ Data(b)[k] = ByteAt(b, x)
    BY <1>6, <2>1
  <2> HIDE DEF x
  <2>3. QED
    BY <1>4, <2>1, <2>2
<1>11. /\ q = p + l /\ Len(Data(d)) = Longer(Len(Data(b)), q) /\ SubSeq(Data(d), p + 1, q) = out
       /\ \A k \in 1..Len(Data(b)) : k <= p \/ k > q => Data(d)[k] = Data(b)[k]
  BY <1>4, <1>5, <1>7, <1>8, <1>9, <1>10
<1>12. QED
  BY <1>2, <1>11 DEF Flat!Write, Flat!Longer, Longer, b, d, out, p, q, l

LEMMA TakenFlat ==
  ASSUME BAInv, ~ba.fault, HasTaken
  PROVE  Flat!Read
<1> DEFINE b == ba
           d == ba'
           out == moved'
           p == b.position
           q == d.position
<1>1. Chain(b) /\ Chain(d) /\ out \in Seq(Byte) /\ Taken(b, d, out)
  BY DEF BAInv, ChainInv, HasTaken, Taken
<1>2. Contents = Data(b) /\ Contents' = Data(d)
  BY ContentsIs
<1> HIDE DEF b, d, out
<1>3. /\ p \in Nat /\ q \in Nat /\ b.size \in Nat /\ Len(out) \in Nat
      /\ q = p + Len(out) /\ q <= b.size /\ d.size = b.size
      /\ \A k \in Nat : ByteAt(d, k) = ByteAt(b, k)
      /\ \A k \in 1..Len(out) : out[k] = ByteAt(b, p + k - 1)
  BY <1>1, LenProperties DEF Chain, Taken
<1>4. Data(d) = Data(b) /\ Len(Data(b)) = b.size
  BY <1>1, <1>3, SameData, DataType
<1>5. SubSeq(Data(b), p + 1, q) = out
  <2> DEFINE l == Len(out)
  <2>1. p \in Nat /\ q \in Nat /\ l \in Nat /\ q = p + l /\ q <= b.size
    BY <1>3
  <2>2. \A k \in 1..Len(out) : out[k] = ByteAt(b, p + k - 1)
    BY <1>3
  <2> HIDE DEF p, q
  <2>3. p <= q /\ l = q - p
    <3> HIDE DEF l
    <3>1. QED
      BY <2>1
  <2>4. QED
    BY <1>1, <2>1, <2>2, <2>3, DataPart
<1>6. QED
  BY <1>2, <1>3, <1>4, <1>5 DEF Flat!Read, b, d, out

LEMMA SoughtFlat ==
  ASSUME BAInv, ~ba.fault, HasSought
  PROVE  Flat!Seek
<1> DEFINE b == ba
           d == ba'
           q == d.position
<1>1. /\ Chain(b) /\ Chain(d) /\ d.size = Larger(b.size, q) /\ moved' = <<>>
      /\ \A k \in Nat : ByteAt(d, k) = ByteAt(b, k)
  BY DEF BAInv, ChainInv, HasSought
<1>2. Contents = Data(b) /\ Contents' = Data(d)
  BY ContentsIs
<1> HIDE DEF b, d
<1>3. q \in Nat /\ b.size \in Nat /\ d.size \in Nat /\ q >= 0
  BY <1>1 DEF Chain
<1>4. /\ Data(b) \in Seq(Byte) /\ Len(Data(b)) = b.size /\ Len(Data(d)) = d.size
      /\ \A k \in 1..b.size : Data(b)[k] = ByteAt(b, k - 1)
  BY <1>1, DataType
<1>5. SubSeq(Data(d), 0 + 1, b.size) = Data(b)
  <2> DEFINE out == Data(b)
             z == 0
  <2>1. /\ out \in Seq(Byte) /\ Len(out) = b.size - z /\ z \in Nat /\ z <= b.size
        /\ b.size <= d.size
    BY <1>1, <1>3, <1>4 DEF Larger
  <2>2. \A k \in 1..Len(out) : out[k] = ByteAt(d, z + k - 1)
    <3> SUFFICES ASSUME NEW k \in 1..b.size PROVE out[k] = ByteAt(d, z + k - 1)
      BY <1>4
    <3>1. k - 1 \in Nat /\ z + k - 1 = k - 1
      BY <1>3
    <3>2. QED
      BY <1>1, <1>4, <3>1
  <2> DEFINE m == b.size
  <2>3. /\ Chain(d) /\ z \in Nat /\ m \in Nat /\ z <= m /\ m <= d.size
        /\ out \in Seq(Byte) /\ Len(out) = m - z
    BY <1>1, <1>3, <2>1
  <2> HIDE DEF out, z, m
  <2>4. SubSeq(Data(d), z + 1, m) = out
    BY <2>2, <2>3, DataPart
  <2>5. QED
    BY <2>4 DEF out, z, m
<1>6. SubSeq(Data(d), 1, Len(Data(b))) = Data(b)
  BY <1>4, <1>5
<1>7. Len(Data(d)) = Longer(Len(Data(b)), q)
  BY <1>1, <1>3, <1>4 DEF Larger, Longer
<1>8. QED
  BY <1>1, <1>2, <1>3, <1>6, <1>7 DEF Flat!Seek, Flat!Longer, Longer, b, d

LEMMA ClearedFlat ==
  ASSUME HasCleared
  PROVE  Flat!Clear
<1>1. ba'.size = 0 /\ ba'.position = 0 /\ moved' = <<>>
  BY DEF HasCleared
<1>2. Contents' = <<>>
  <2>1. Chain(ba')
    BY DEF HasCleared
  <2> DEFINE s == Data(ba')
  <2>2. s \in Seq(Byte) /\ Len(s) = 0
    BY <1>1, <2>1, DataType
  <2> HIDE DEF s
  <2>3. s = <<>>
    BY <2>2
  <2>4. QED
    BY <2>3, ContentsIs DEF s
<1>3. QED
  BY <1>1, <1>2 DEF Flat!Clear

LEMMA GrownFlat ==
  ASSUME BAInv, ~ba.fault, HasGrown
  PROVE  Flat!Read
<1> DEFINE b == ba
           d == ba'
           p == b.position
           none == <<>>
<1>1. /\ Chain(b) /\ d.size = b.size /\ d.position = p /\ moved' = none
      /\ \A k \in Nat : k < b.capacity => ByteAt(d, k) = ByteAt(b, k)
  BY DEF BAInv, ChainInv, HasGrown
<1>2. Contents = Data(b) /\ Contents' = Data(d)
  BY ContentsIs
<1> HIDE DEF b, d
<1>3. /\ p \in Nat /\ b.size \in Nat /\ b.capacity \in Nat
      /\ p <= b.size /\ b.size <= b.capacity
  BY <1>1 DEF Chain
<1>4. Data(d) = Data(b) /\ Len(Data(b)) = b.size
  BY <1>1, <1>3, SameData, DataType
<1>5. SubSeq(Data(b), p + 1, p) = none
  <2>1. none \in Seq(Byte) /\ Len(none) = p - p
    BY <1>3
  <2> HIDE DEF p
  <2>2. \A k \in 1..Len(none) : none[k] = ByteAt(b, p + k - 1)
    BY <1>3, <2>1
  <2> HIDE DEF none
  <2>3. p <= p
    BY <1>3
  <2>4. QED
    BY <1>1, <1>3, <2>1, <2>2, <2>3, DataPart
<1>6. QED
  BY <1>1, <1>2, <1>3, <1>4, <1>5 DEF Flat!Read, b, d

LEMMA FaultedFlat ==
  ASSUME BAInv, ~ba.fault, Faulted
  PROVE  UNCHANGED <<Contents, ba.position, moved>>
<1> DEFINE b == ba
           d == ba'
<1>1. Chain(b) /\ d = [b EXCEPT !.fault = TRUE] /\ moved' = moved
  BY DEF BAInv, ChainInv, Faulted
<1>2. Contents = Data(b) /\ Contents' = Data(d)
  BY ContentsIs
<1> HIDE DEF b, d
<1>3. d.size = b.size /\ d.position = b.position /\ d.blocks = b.blocks /\ b.size \in Nat
  BY <1>1 DEF Chain
<1>4. Data(d) = Data(b)
  BY <1>3, SameData DEF ByteAt
<1>5. QED
  BY <1>1, <1>2, <1>3, <1>4 DEF b, d

(***************************************************************************)
(* Every call on the chain of blocks is a call on one flat sequence of     *)
(* bytes with a position: what write and readFromFile put in is where the  *)
(* position says and nothing else changes, what the reads return is what   *)
(* is there, setPosition and clear do what they say, whatever the size of  *)
(* a block and wherever the calls cross from one block to the next; a call *)
(* that runs off the chain ends the program and changes nothing before.    *)
(***************************************************************************)
THEOREM ChainIsFlat == Spec => FlatSpec
<1>1. Init => Flat!Init
  <2> SUFFICES ASSUME Init PROVE Flat!Init
    OBVIOUS
  <2>1. ba = Empty /\ moved = <<>>
    BY DEF Init
  <2>2. Contents = <<>> /\ ba.position = 0
    BY <2>1 DEF Contents, Empty
  <2>3. QED
    BY <2>1, <2>2 DEF Flat!Init
<1>2. BAInv /\ [Next]_vars => [Flat!Next]_(Flat!flatvars)
  <2> SUFFICES ASSUME BAInv, [Next]_vars
               PROVE  Flat!Next \/ UNCHANGED <<Contents, ba.position, moved>>
    BY DEF Flat!flatvars
  <2>1. CASE Next
    <3>1. ~ba.fault
      BY <2>1, NoStepAfterFault
    <3>2. Outcome \/ UNCHANGED <<ba, moved>>
      BY <2>1, <3>1, StepOutcome
    <3>3. CASE Faulted
      BY <3>1, <3>3, FaultedFlat
    <3>4. CASE HasWritten
      BY <3>1, <3>4, WrittenFlat DEF Flat!Next
    <3>5. CASE HasTaken
      BY <3>1, <3>5, TakenFlat DEF Flat!Next
    <3>6. CASE HasSought
      BY <3>1, <3>6, SoughtFlat DEF Flat!Next
    <3>7. CASE HasCleared
      BY <3>7, ClearedFlat DEF Flat!Next
    <3>8. CASE HasGrown
      BY <3>1, <3>8, GrownFlat DEF Flat!Next
    <3>9. CASE UNCHANGED <<ba, moved>>
      BY <3>9 DEF Contents
    <3>10. QED
      BY <3>2, <3>3, <3>4, <3>5, <3>6, <3>7, <3>8, <3>9 DEF Outcome
  <2>2. CASE UNCHANGED vars
    BY <2>2 DEF vars, Contents
  <2>3. QED
    BY <2>1, <2>2
<1>3. QED
  BY <1>1, <1>2, BAInvHolds, PTL DEF Spec, FlatSpec, Flat!Spec

-----------------------------------------------------------------------------
(***************************************************************************)
(* What was written is read back                                           *)
(***************************************************************************)
\* The bytes are in the data from the place on.
Holds(b, at, bs) ==
  /\ at + Len(bs) <= b.size
  /\ \A k \in 1..Len(bs) : ByteAt(b, at + k - 1) = bs[k]

\* The value last written is still at its place.
Marked ==
  mark # NoMark =>
    /\ mark.at \in Nat /\ mark.little \in BOOLEAN /\ Value(mark.kind, mark.value)
    /\ Holds(ba, mark.at, Encoded(mark.kind, mark.little, mark.value))

MarkInv == ~ba.fault => Marked

LEMMA HoldsKept ==
  ASSUME NEW b, NEW d, b.size \in Nat, d.size \in Nat, b.size <= d.size,
         \A k \in Nat : k < b.size => ByteAt(d, k) = ByteAt(b, k),
         NEW at \in Nat, NEW bs \in Seq(Byte), Holds(b, at, bs)
  PROVE  Holds(d, at, bs)
<1>1. Len(bs) \in Nat /\ at + Len(bs) <= d.size
  BY LenProperties DEF Holds
<1>2. ASSUME NEW k \in 1..Len(bs) PROVE ByteAt(d, at + k - 1) = bs[k]
  <2>1. at + k - 1 \in Nat /\ at + k - 1 < b.size
    BY <1>1 DEF Holds
  <2>2. QED
    BY <2>1 DEF Holds
<1>3. QED
  BY <1>1, <1>2 DEF Holds

LEMMA MarkKept ==
  ASSUME Chain(ba), Marked, mark' = mark, HasTaken \/ HasSought \/ HasGrown
  PROVE  Marked'
<1> SUFFICES ASSUME mark # NoMark
             PROVE  Holds(ba', mark.at, Encoded(mark.kind, mark.little, mark.value))
  BY DEF Marked, Value, Holds, Encoded
<1>1. /\ mark.at \in Nat /\ mark.little \in BOOLEAN /\ Value(mark.kind, mark.value)
      /\ Holds(ba, mark.at, Encoded(mark.kind, mark.little, mark.value))
  BY DEF Marked
<1>2. Encoded(mark.kind, mark.little, mark.value) \in Seq(Byte)
  BY <1>1, EncodedType
<1>3. \A k \in Nat : k < ba.size => ByteAt(ba', k) = ByteAt(ba, k)
  <2>1. ba.size \in Nat /\ ba.capacity \in Nat /\ ba.size <= ba.capacity
    BY DEF Chain
  <2>2. QED
    BY <2>1 DEF HasTaken, HasSought, HasGrown, Taken
<1>4. ba.size \in Nat /\ ba'.size \in Nat /\ ba.size <= ba'.size
  BY DEF HasTaken, HasSought, HasGrown, Taken, Chain, Larger
<1>5. QED
  BY <1>1, <1>2, <1>3, <1>4, HoldsKept

LEMMA MarkWritten ==
  ASSUME Chain(ba), NEW kind, NEW v, NEW little \in BOOLEAN, Value(kind, v),
         HasWritten, moved' = Encoded(kind, little, v),
         mark' = [kind |-> kind, at |-> ba.position, little |-> little, value |-> v]
  PROVE  Marked'
<1> DEFINE b == ba
           d == ba'
           out == moved'
           p == b.position
           q == d.position
           n == d.size
           l == Len(out)
<1>1. Chain(b) /\ Chain(d) /\ out \in Seq(Byte) /\ Written(b, d, out)
  BY DEF HasWritten, Written
<1> HIDE DEF b, d, out
<1>2. p \in Nat /\ q \in Nat /\ n \in Nat /\ l \in Nat /\ q <= n
  BY <1>1, LenProperties DEF Chain
<1>3. /\ q = p + l
      /\ \A k \in Nat : k < n =>
           ByteAt(d, k) = IF p <= k /\ k < q THEN out[k - p + 1] ELSE ByteAt(b, k)
  BY <1>1 DEF Written
<1> HIDE DEF p, q, n, l
<1>4. \A k \in 1..l : ByteAt(d, p + k - 1) = out[k]
  <2> SUFFICES ASSUME NEW k \in 1..l PROVE ByteAt(d, p + k - 1) = out[k]
    OBVIOUS
  <2> DEFINE x == p + k - 1
  <2>1. x \in Nat /\ x < n /\ p <= x /\ x < q /\ x - p + 1 = k
    BY <1>2, <1>3
  <2> HIDE DEF x
  <2>2. ByteAt(d, x) = out[x - p + 1]
    BY <1>3, <2>1
  <2>3. QED
    BY <2>1, <2>2 DEF x
<1>5. p + l <= n
  BY <1>2, <1>3
<1>6. Holds(d, p, out)
  BY <1>4, <1>5 DEF Holds, l, n
<1>7. mark'.at = p /\ mark'.little = little /\ mark'.kind = kind /\ mark'.value = v
  BY DEF p, b
<1>8. p \in Nat
  BY <1>2
<1>9. Holds(ba', mark'.at, Encoded(mark'.kind, mark'.little, mark'.value))
  <2>1. Holds(ba', mark'.at, Encoded(kind, little, v))
    BY <1>6, <1>7 DEF d, out
  <2>2. QED
    BY <1>7, <2>1
<1>10. Value(mark'.kind, mark'.value) /\ mark'.at \in Nat /\ mark'.little \in BOOLEAN
  BY <1>7, <1>8
<1>11. QED
  BY <1>9, <1>10 DEF Marked, Value, Holds, Encoded

LEMMA VarintAt ==
  ASSUME NEW b, Chain(b), NEW v \in Nat, v < Mod, Holds(b, b.position, EncodeVarint(v))
  PROVE  readVarint(b).ok = TRUE /\ readVarint(b).bs = EncodeVarint(v)
<1> DEFINE bs == EncodeVarint(v)
           l == Len(bs)
           size == getReadSize(b)
           p == b.position
<1>1. /\ bs \in Seq(Byte) /\ l \in 1..MaxVarint
      /\ \A k \in 1..l : bs[k] < Payload <=> k = l
  BY VarintBack
<1>2. p + l <= b.size /\ \A k \in 1..l : ByteAt(b, p + k - 1) = bs[k]
  BY DEF Holds
<1>3. size \in Nat /\ p \in Nat /\ b.size \in Nat /\ p + size = b.size /\ l \in Nat
  BY <1>1, Readable, LenProperties
<1> HIDE DEF bs, l, size, p
<1>4. l <= size
  BY <1>2, <1>3
<1>5. /\ Len(bs) \in 1..MaxVarint /\ Len(bs) <= getReadSize(b)
      /\ \A k \in 1..Len(bs) : ByteAt(b, b.position + k - 1) = bs[k]
      /\ \A k \in 1..Len(bs) : bs[k] < Payload <=> k = Len(bs)
  BY <1>1, <1>2, <1>4 DEF l, size, p
<1>6. QED
  BY <1>1, <1>5, VarintStops DEF bs

LEMMA IntBack ==
  ASSUME NEW b, Chain(b), NEW v \in Ints, NEW little,
         Holds(b, b.position, Encoded("int", little, v))
  PROVE  DecodeZigzag(DecodeVarint(readVarint(b).bs)) = v
<1> DEFINE z == EncodeZigzag(v)
<1>1. v \in -Half..(Half - 1)
  BY ByteArrayAssumption
<1>2. z \in Nat /\ z < Mod /\ DecodeZigzag(z) = v
  BY <1>1, ZigzagBack
<1>3. Holds(b, b.position, EncodeVarint(z))
  BY DEF Encoded
<1> HIDE DEF z
<1>4. readVarint(b).bs = EncodeVarint(z)
  BY <1>2, <1>3, VarintAt
<1>5. DecodeVarint(EncodeVarint(z)) = z
  BY <1>2, VarintBack
<1>6. QED
  BY <1>2, <1>4, <1>5

\* Bytes taken where others are held, as many, are those.
LEMMA TakenAt ==
  ASSUME NEW b, NEW d, NEW out, Chain(b), Taken(b, d, out), NEW bs \in Seq(Byte),
         Holds(b, b.position, bs), Len(out) = Len(bs)
  PROVE  out = bs
<1>1. out \in Seq(Byte) /\ \A k \in 1..Len(out) : out[k] = ByteAt(b, b.position + k - 1)
  BY DEF Taken
<1>2. \A k \in 1..Len(out) : out[k] = bs[k]
  BY <1>1 DEF Holds
<1>3. QED
  BY <1>1, <1>2, SeqEqual

LEMMA FintBack ==
  ASSUME NEW b, NEW d, NEW out, Chain(b), Taken(b, d, out), Len(out) = 2,
         NEW v \in Ints, NEW little \in BOOLEAN,
         Holds(b, b.position, Encoded("fixed", little, v))
  PROVE  DecodeFixed(out, little) = v
<1> DEFINE bs == EncodeFixed(v, little)
<1>1. v \in -Half..(Half - 1)
  BY ByteArrayAssumption
<1>2. bs \in Seq(Byte) /\ Len(bs) = 2 /\ DecodeFixed(bs, little) = v
  BY <1>1, FixedBack
<1>3. Holds(b, b.position, bs)
  BY DEF Encoded
<1> HIDE DEF bs
<1>4. out = bs
  BY <1>2, <1>3, TakenAt
<1>5. QED
  BY <1>2, <1>4

LEMMA StringBack ==
  ASSUME NEW b, Chain(b), NEW v \in RawData, NEW little,
         Holds(b, b.position, Encoded("string", little, v)),
         read(readVarint(b).ba, DecodeVarint(readVarint(b).bs)).ok
  PROVE  read(readVarint(b).ba, DecodeVarint(readVarint(b).bs)).out = v
<1> DEFINE pre == EncodeVarint(Len(v))
           u == pre \o v
           r == readVarint(b)
           d == r.ba
           n == Len(v)
           m == Len(pre)
           p == b.position
           s == read(d, n)
<1>1. v \in Seq(Byte) /\ n \in Nat /\ n < Mod
  BY RawType
<1>2. pre \in Seq(Byte) /\ DecodeVarint(pre) = n /\ m \in Nat
  BY <1>1, VarintBack, LenProperties
<1>3. p + Len(u) <= b.size /\ \A k \in 1..Len(u) : ByteAt(b, p + k - 1) = u[k]
  BY DEF Holds, Encoded
<1>4. Taken(b, d, r.bs)
  BY VarintReads
<1> HIDE DEF r, d, pre, u, p, n, m
<1>5. Len(u) = m + n /\ \A k \in 1..(m + n) : u[k] = IF k <= m THEN pre[k] ELSE v[k - m]
  BY <1>1, <1>2, ConcatProperties DEF u, n, m
<1>6. p \in Nat /\ b.size \in Nat
  BY Readable DEF p
<1>7. Holds(b, b.position, pre)
  <2>1. p + m <= b.size
    <3> DEFINE z == b.size
    <3>1. p + (m + n) <= z /\ z \in Nat
      BY <1>3, <1>5, <1>6
    <3> HIDE DEF z
    <3>2. p + m <= z
      BY <1>1, <1>2, <1>6, <3>1
    <3>3. QED
      BY <3>2 DEF z
  <2>2. \A k \in 1..m : ByteAt(b, p + k - 1) = pre[k]
    BY <1>1, <1>2, <1>3, <1>5
  <2>3. QED
    BY <2>1, <2>2 DEF Holds, p, m
<1>8. r.bs = pre
  BY <1>1, <1>7, VarintAt DEF pre, r, n
<1>9. Chain(d) /\ d.position = p + m /\ \A k \in Nat : ByteAt(d, k) = ByteAt(b, k)
  BY <1>4, <1>8 DEF Taken, p, m
<1>10. Holds(d, d.position, v)
  <2>1. d.size = b.size
    BY <1>4 DEF Taken
  <2>2. (p + m) + n <= d.size
    BY <1>1, <1>2, <1>3, <1>5, <1>6, <2>1
  <2>3. ASSUME NEW k \in 1..n PROVE ByteAt(d, (p + m) + k - 1) = v[k]
    <3> DEFINE x == m + k
    <3>1. /\ x \in 1..(m + n) /\ ~ (x <= m) /\ x - m = k /\ p + x - 1 = (p + m) + k - 1
          /\ p + x - 1 \in Nat
      BY <1>1, <1>2, <1>6
    <3> HIDE DEF x
    <3>2. u[x] = v[x - m] /\ ByteAt(b, p + x - 1) = u[x]
      BY <1>3, <1>5, <3>1
    <3>3. QED
      BY <1>9, <3>1, <3>2
  <2>4. QED
    BY <1>9, <2>2, <2>3 DEF Holds, n
<1>11. s.ok /\ s = read(readVarint(b).ba, DecodeVarint(readVarint(b).bs))
  BY <1>2, <1>8 DEF s, d, r
<1> HIDE DEF s
<1>12. Taken(d, s.ba, s.out) /\ Len(s.out) = n
  <2>1. \/ s = [ba |-> d, out |-> <<>>, ok |-> FALSE]
        \/ s = [ba |-> [d EXCEPT !.fault = TRUE], out |-> <<>>, ok |-> FALSE]
        \/ Taken(d, s.ba, s.out) /\ Len(s.out) = n
    BY <1>1, <1>9, ReadDoes, Zenon DEF s
  <2>2. QED
    BY <1>11, <2>1
<1>13. s.out = v
  BY <1>1, <1>9, <1>10, <1>12, TakenAt DEF n
<1>14. QED
  BY <1>11, <1>13

RBInv == BAInv /\ MarkInv /\ ReadBack

\* A call that leaves no typed result, or one that the mark vouches for.
LEMMA BackStep ==
  ASSUME Chain(ba), Marked, m_endian \in BOOLEAN, readInt \/ readFint \/ readString
  PROVE  ReadBack'
<1> SUFFICES ASSUME result' # NoResult, mark' # NoMark,
                    result'[1] = mark'.kind, result'[2] = mark'.at,
                    mark'.kind = "fixed" => result'[3] = mark'.little
             PROVE  result'[4] = mark'.value
  BY DEF ReadBack
<1> DEFINE kind == mark.kind
           v == mark.value
           little == mark.little
<1>1. mark' = mark
  BY IntRead, FintRead, StringRead
<1>2. /\ mark.at \in Nat /\ little \in BOOLEAN /\ Value(kind, v)
      /\ Holds(ba, mark.at, Encoded(kind, little, v))
  BY <1>1 DEF Marked
<1>3. mark.at = result'[2] /\ kind = result'[1] /\ (kind = "fixed" => result'[3] = little)
  BY <1>1
<1> SUFFICES result'[4] = v
  BY <1>1
<1> HIDE DEF kind, v, little
<1>4. CASE readInt
  <2>1. /\ moved' = readVarint(ba).bs
        /\ result' = <<"int", ba.position, m_endian, DecodeZigzag(DecodeVarint(moved'))>>
    BY <1>4, IntRead
  <2>2. kind = "int" /\ mark.at = ba.position /\ v \in Ints
    BY <1>2, <1>3, <2>1 DEF Value
  <2>3. DecodeZigzag(DecodeVarint(readVarint(ba).bs)) = v
    BY <1>2, <2>2, IntBack
  <2>4. QED
    BY <2>1, <2>3
<1>5. CASE readFint
  <2>1. /\ result' = <<"fixed", ba.position, m_endian, DecodeFixed(moved', m_endian)>>
        /\ HasTaken /\ Len(moved') = 2
    BY <1>5, FintRead
  <2>2. kind = "fixed" /\ mark.at = ba.position /\ v \in Ints /\ m_endian = little
    BY <1>2, <1>3, <2>1 DEF Value
  <2>3. DecodeFixed(moved', little) = v
    BY <1>2, <2>1, <2>2, FintBack DEF HasTaken
  <2>4. QED
    BY <2>1, <2>2, <2>3
<1>6. CASE readString
  <2> DEFINE s == read(readVarint(ba).ba, DecodeVarint(readVarint(ba).bs))
  <2>1. s.ok /\ result' = <<"string", ba.position, m_endian, s.out>>
    BY <1>6, StringRead
  <2>2. kind = "string" /\ mark.at = ba.position /\ v \in RawData
    BY <1>2, <1>3, <2>1 DEF Value
  <2>3. s.out = v
    BY <1>2, <2>1, <2>2, StringBack
  <2>4. QED
    BY <2>1, <2>3
<1>7. QED
  BY <1>4, <1>5, <1>6

LEMMA MarkStep ==
  ASSUME Chain(ba), Marked, m_endian \in BOOLEAN, Next, ~ba'.fault
  PROVE  Marked'
<1>1. ~Faulted
  BY DEF Faulted, Chain
<1>2. CASE mark' = NoMark
  BY <1>2 DEF Marked
<1>3. CASE \E kind \in {"int", "fixed"}, v \in Ints : WriteValue(kind, v)
  <2>1. PICK kind \in {"int", "fixed"}, v \in Ints : WriteValue(kind, v)
    BY <1>3
  <2>2. Value(kind, v)
    BY DEF Value
  <2>3. QED
    BY <1>1, <2>1, <2>2, ValueWritten, MarkWritten
<1>4. CASE \E bs \in RawData : WriteValue("string", bs)
  <2>1. PICK bs \in RawData : WriteValue("string", bs)
    BY <1>4
  <2>2. Value("string", bs)
    BY DEF Value
  <2>3. QED
    BY <1>1, <2>1, <2>2, ValueWritten, MarkWritten
<1>5. CASE \E n \in 0..MaxRead : Read(n)
  <2>1. PICK n \in 0..MaxRead : Read(n)
    BY <1>5
  <2>2. n \in Nat /\ Becomes(read(ba, n).ba, read(ba, n).out) /\ mark' = mark
    BY <2>1 DEF Read
  <2>3. HasTaken
    BY <1>1, <2>2, ReadOutcome
  <2>4. QED
    BY <2>2, <2>3, MarkKept
<1>6. CASE \E v \in 0..MaxSize : SetPosition(v)
  <2>1. PICK v \in 0..MaxSize : SetPosition(v)
    BY <1>6
  <2>2. mark' = mark /\ v \in Nat
    BY <2>1 DEF SetPosition
  <2>3. QED
    BY <2>1, <2>2, Sought, MarkKept
<1>7. CASE readInt \/ readFint \/ readString
  <2>1. HasTaken /\ mark' = mark
    BY <1>1, <1>7, IntRead, FintRead, StringRead
  <2>2. QED
    BY <2>1, MarkKept
<1>8. CASE \E val \in BOOLEAN : setIsLittleEndian(val)
  BY <1>8 DEF setIsLittleEndian, Marked, Value, Holds, Encoded
<1>9. CASE Clear \/ \E bs \in RawData : Write(bs) \/ ReadFromFile(bs)
  BY <1>2, <1>9 DEF Clear, Write, ReadFromFile
<1>10. CASE \E len \in 1..MaxSize : GetWriteBuffers(len)
  <2>1. PICK len \in 1..MaxSize : GetWriteBuffers(len)
    BY <1>10
  <2>2. mark' = mark /\ len \in Nat
    BY <2>1 DEF GetWriteBuffers
  <2>3. QED
    BY <1>1, <2>1, <2>2, Grown, MarkKept
<1>11. QED
  BY <1>3, <1>4, <1>5, <1>6, <1>7, <1>8, <1>9, <1>10 DEF Next

LEMMA ResultStep ==
  ASSUME Chain(ba), Marked, m_endian \in BOOLEAN, ReadBack, Next
  PROVE  ReadBack'
<1>1. CASE result' = NoResult
  BY <1>1 DEF ReadBack
<1>2. CASE readInt \/ readFint \/ readString
  BY <1>2, BackStep
<1>3. CASE \E val \in BOOLEAN : setIsLittleEndian(val)
  BY <1>3 DEF setIsLittleEndian, ReadBack
<1>4. QED
  BY <1>1, <1>2, <1>3 DEF Next, Write, ReadFromFile, WriteValue, Read, GetWriteBuffers,
       SetPosition, Clear

(***************************************************************************)
(* What readInt, readFint and the string read return at the place where    *)
(* the last value was written, in the byte order it was written in, is     *)
(* that value: the varint's loop takes exactly the bytes the encoder made, *)
(* zigzag and the width's wrap-around lose nothing, and neither the blocks *)
(* in between nor the reads and moves since the write disturb it.          *)
(***************************************************************************)
THEOREM WhatWasWrittenIsRead == Spec => []ReadBack
<1>1. Init => RBInv
  BY InitBA DEF RBInv, Init, MarkInv, Marked, ReadBack
<1>2. RBInv /\ [Next]_vars => RBInv'
  <2> SUFFICES ASSUME RBInv, [Next]_vars
               PROVE  RBInv'
    OBVIOUS
  <2>1. BAInv'
    BY NextBA DEF RBInv
  <2>2. CASE Next
    <3>1. Chain(ba) /\ Marked /\ m_endian \in BOOLEAN /\ ReadBack
      BY <2>2, NoStepAfterFault DEF RBInv, BAInv, ChainInv, MarkInv
    <3>2. ReadBack'
      BY <2>2, <3>1, ResultStep
    <3>3. MarkInv'
      BY <2>2, <3>1, MarkStep DEF MarkInv
    <3>4. QED
      BY <2>1, <3>2, <3>3 DEF RBInv
  <2>3. CASE UNCHANGED vars
    <3>1. UNCHANGED <<ba, mark, result>>
      BY <2>3 DEF vars
    <3>2. MarkInv' /\ ReadBack'
      BY <3>1 DEF RBInv, MarkInv, Marked, ReadBack, Value, Holds, Encoded
    <3>3. QED
      BY <2>1, <3>2 DEF RBInv
  <2>4. QED
    BY <2>2, <2>3
<1>3. RBInv => ReadBack
  BY DEF RBInv
<1>4. QED
  BY <1>1, <1>2, <1>3, PTL DEF Spec

-----------------------------------------------------------------------------
(***************************************************************************)
(* The pieces given to readv, writev and files                             *)
(***************************************************************************)
\* FlattenSeq's table of the first i sequences joined.
FlattenTable(seqs, f, n) == f = [i \in 1..n |-> IF i = 1 THEN seqs[i] ELSE f[i - 1] \o seqs[i]]

LEMMA FlattenTables ==
  ASSUME NEW seqs
  PROVE  \A n \in Nat : \E f : FlattenTable(seqs, f, n)
<1> DEFINE K == {n \in Nat : \E f : FlattenTable(seqs, f, n)}
<1>1. 0 \in K
  <2>1. FlattenTable(seqs, [i \in 1..0 |-> 0], 0)
    BY DEF FlattenTable
  <2>2. QED
    BY <2>1
<1>2. ASSUME NEW n \in K PROVE n + 1 \in K
  <2>1. PICK f : FlattenTable(seqs, f, n)
    OBVIOUS
  <2> DEFINE g == [i \in 1..(n + 1) |-> IF i = 1 THEN seqs[i] ELSE f[i - 1] \o seqs[i]]
  <2>2. \A i \in 1..n : f[i] = IF i = 1 THEN seqs[i] ELSE f[i - 1] \o seqs[i]
    BY <2>1, Zenon DEF FlattenTable
  <2>3. \A i \in 1..(n + 1) : g[i] = IF i = 1 THEN seqs[i] ELSE f[i - 1] \o seqs[i]
    BY Zenon
  <2> HIDE DEF g
  <2>4. \A i \in 1..(n + 1) : i # 1 => g[i - 1] = f[i - 1]
    <3>1. \A i \in 1..n : i \in 1..(n + 1)
      OBVIOUS
    <3>2. \A i \in 1..n : g[i] = f[i]
      BY <2>2, <2>3, <3>1, Zenon
    <3>3. \A i \in 1..(n + 1) : i # 1 => i - 1 \in 1..n
      OBVIOUS
    <3>4. QED
      BY <3>2, <3>3, Zenon
  <2>5. \A i \in 1..(n + 1) : (IF i = 1 THEN seqs[i] ELSE f[i - 1] \o seqs[i])
                               = (IF i = 1 THEN seqs[i] ELSE g[i - 1] \o seqs[i])
    BY <2>4, Zenon
  <2>6. FlattenTable(seqs, g, n + 1)
    BY <2>5, Zenon DEF FlattenTable, g
  <2>7. QED
    BY <2>6
<1> HIDE DEF K
<1>3. K = Nat
  BY <1>1, <1>2, Induct DEF K
<1>4. QED
  BY <1>3, Zenon DEF K

LEMMA FlattenUnfold ==
  ASSUME NEW seqs, NEW n \in Nat \ {0}, Len(seqs) = n
  PROVE  \E F : FlattenSeq(seqs) = F[n] /\ FlattenTable(seqs, F, n)
<1> DEFINE F == CHOOSE f : FlattenTable(seqs, f, n)
<1>1. FlattenTable(seqs, F, n)
  BY FlattenTables, Zenon
<1>2. FlattenSeq(seqs) = F[n]
  BY DEF FlattenSeq, FlattenTable
<1> HIDE DEF F
<1>3. QED
  BY <1>1, <1>2, Zenon

Agrees(T, s, out, n) == s \in Seq(T) /\ Len(s) = n /\ \A k \in 1..n : s[k] = out[k]
Continues(t, out, a) == \A k \in 1..Len(t) : t[k] = out[a + k]

\* One more piece joined to what agrees with out so far.
LEMMA Joined ==
  ASSUME NEW T, NEW s, NEW t \in Seq(T), NEW out, NEW a \in Nat,
         Agrees(T, s, out, a), Continues(t, out, a)
  PROVE  Agrees(T, s \o t, out, a + Len(t))
<1> DEFINE z == a + Len(t)
<1>0. /\ s \in Seq(T) /\ Len(s) = a /\ \A k \in 1..a : s[k] = out[k]
      /\ \A k \in 1..Len(t) : t[k] = out[a + k]
  BY DEF Agrees, Continues
<1>1. /\ s \o t \in Seq(T) /\ Len(s \o t) = a + Len(t) /\ Len(t) \in Nat
      /\ \A k \in 1..(a + Len(t)) : (s \o t)[k] = IF k <= a THEN s[k] ELSE t[k - a]
  BY <1>0, ConcatProperties, LenProperties
<1>2. ASSUME NEW k \in 1..z PROVE (s \o t)[k] = out[k]
  <2>1. CASE k <= a
    BY <1>0, <1>1, <2>1
  <2>2. CASE ~ (k <= a)
    <3> DEFINE x == k - a
    <3>1. x \in 1..Len(t) /\ a + x = k
      BY <1>1, <2>2
    <3>2. (s \o t)[k] = t[x]
      BY <1>1, <2>2
    <3> HIDE DEF x
    <3>3. QED
      BY <1>0, <3>1, <3>2
  <2>3. QED
    BY <2>1, <2>2
<1>3. QED
  BY <1>1, <1>2 DEF Agrees

\* Sequences that cover another one piece by piece; e[i] is where the i-th of them ends.
Covers(seqs, n, e, out) ==
  \A i \in 1..n : e[i] = e[i - 1] + Len(seqs[i]) /\ Continues(seqs[i], out, e[i - 1])

\* Joined, they are that one.
LEMMA FlattenIs ==
  ASSUME NEW T, NEW n \in Nat, NEW seqs \in Seq(Seq(T)), Len(seqs) = n, NEW e \in [0..n -> Nat],
         e[0] = 0, NEW out \in Seq(T), Len(out) = e[n], Covers(seqs, n, e, out)
  PROVE  FlattenSeq(seqs) = out
<1>1. PICK F : n # 0 => FlattenSeq(seqs) = F[n] /\ FlattenTable(seqs, F, n)
  <2>1. CASE n = 0
    BY <2>1
  <2>2. CASE n # 0
    <3>1. n \in Nat \ {0}
      BY <2>2
    <3>2. QED
      BY <3>1, FlattenUnfold, Zenon
  <2>3. QED
    BY <2>1, <2>2
<1> DEFINE Good(i) == Agrees(T, F[i], out, e[i])
           K == {i \in Nat : i \in 1..n => Good(i)}
<1>2. n = 0 => FlattenSeq(seqs) = seqs
  BY DEF FlattenSeq
<1>3. \A i \in 1..n : F[i] = IF i = 1 THEN seqs[i] ELSE F[i - 1] \o seqs[i]
  <2>1. \A i \in 1..n : n # 0
    OBVIOUS
  <2>2. QED
    BY <1>1, <2>1, Zenon DEF FlattenTable
<1>4. 0 \in K
  OBVIOUS
<1>5. ASSUME NEW i \in K PROVE i + 1 \in K
  <2> SUFFICES ASSUME i + 1 \in 1..n PROVE Good(i + 1)
    <3> HIDE DEF Good
    <3>1. QED
      OBVIOUS
  <2> DEFINE j == i + 1
             t == seqs[j]
             a == e[i]
             z == e[j]
  <2>1. i \in Nat /\ j \in 1..n /\ j - 1 = i /\ i \in 0..n
    OBVIOUS
  <2>2. t \in Seq(T)
    BY <2>1
  <2>3. z = a + Len(t) /\ \A k \in 1..Len(t) : t[k] = out[a + k]
    BY <2>1 DEF Covers, Continues
  <2>4. a \in Nat /\ z \in Nat /\ Len(t) \in Nat
    BY <2>1, <2>2, LenProperties
  <2>5. CASE i = 0
    <3>1. F[j] = t /\ a = 0
      BY <1>3, <2>1, <2>5
    <3> HIDE DEF t, a, z, j
    <3>2. z = Len(t) /\ \A k \in 1..z : t[k] = out[k]
      <4> DEFINE l == Len(t)
      <4>1. l \in Nat /\ z = a + l /\ \A k \in 1..l : t[k] = out[a + k]
        BY <2>3, <2>4
      <4> HIDE DEF l
      <4>2. z = l /\ \A k \in 1..l : a + k = k
        BY <3>1, <4>1
      <4>3. \A k \in 1..l : t[k] = out[k]
        BY <4>1, <4>2, Zenon
      <4>4. QED
        BY <4>2, <4>3, Zenon DEF l
    <3>3. Agrees(T, F[j], out, z)
      BY <2>2, <3>1, <3>2 DEF Agrees
    <3>4. QED
      BY <3>3 DEF z, j
  <2>6. CASE i # 0
    <3> DEFINE s == F[i]
    <3>1. i \in 1..n /\ j # 1
      BY <2>1, <2>6
    <3>2. Agrees(T, s, out, a)
      BY <3>1
    <3>3. F[j] = s \o t
      BY <1>3, <2>1, <3>1
    <3> HIDE DEF s, t, a, z, j
    <3>4. Continues(t, out, a)
      BY <2>3 DEF Continues
    <3>5. Agrees(T, s \o t, out, a + Len(t))
      BY <2>2, <2>4, <3>2, <3>4, Joined, Zenon
    <3>6. Agrees(T, F[j], out, z)
      BY <2>3, <3>3, <3>5, Zenon
    <3>7. QED
      BY <3>6 DEF z, j
  <2>7. QED
    BY <2>5, <2>6
<1> HIDE DEF K
<1>6. K = Nat
  BY <1>4, <1>5, Induct DEF K
<1>7. CASE n = 0
  <2>1. seqs = <<>> /\ out = <<>>
    BY <1>7
  <2>2. QED
    BY <1>2, <1>7, <2>1
<1>8. CASE n # 0
  <2>1. n \in 1..n
    BY <1>8
  <2>2. Good(n)
    BY <1>6, <2>1 DEF K
  <2>3. QED
    BY <1>1, <1>8, <2>2, SeqEqual DEF Agrees
<1>9. QED
  BY <1>7, <1>8

\* The pieces cover n places from the position on, piece after piece; the i-th ends e[i]
\* places after it.
Cut(b, iov, n, e) ==
  /\ Len(iov) \in Nat /\ e \in [0..Len(iov) -> Nat] /\ e[0] = 0 /\ e[Len(iov)] = n
  /\ \A i \in 1..Len(iov) :
       /\ iov[i].block \in Nat \ {0} /\ iov[i].offset \in Nat /\ iov[i].length \in Nat \ {0}
       /\ iov[i].offset + iov[i].length <= BaseSize
       /\ e[i] = e[i - 1] + iov[i].length /\ e[i] <= n
       /\ BaseSize * (iov[i].block - 1) + iov[i].offset = b.position + e[i - 1]

\* getReadBuffers' arithmetic.
LEMMA PiecesCut ==
  ASSUME NEW b, b.position \in Nat, NEW n \in Nat,
         n # 0 => b.cur = b.position \div BaseSize + 1,
         NEW len \in Nat, n = IF len > getReadSize(b) THEN getReadSize(b) ELSE len
  PROVE  \E e : Cut(b, getReadBuffers(b, len), n, e)
<1> DEFINE p == b.position
           B == BaseSize
           d == p \div B
           npos == p % B
           c == IF n = 0 THEN 0 ELSE (npos + n + B - 1) \div B
           from(i) == IF i = 1 THEN npos ELSE 0
           till(i) == IF i = c THEN npos + n - (c - 1) * B ELSE B
           iov == getReadBuffers(b, len)
           e == [i \in 0..c |-> IF i = 0 THEN 0 ELSE IF i = c THEN n ELSE i * B - npos]
<1>1. iov = [i \in 1..c |-> [block |-> b.cur + i - 1, offset |-> from(i),
                             length |-> till(i) - from(i)]]
  BY DEF getReadBuffers
<1>2. B \in Nat \ {0} /\ p \in Nat /\ d \in Nat /\ npos \in Nat /\ npos < B /\ p = B * d + npos
  BY Base, DivMod
<1>3. n # 0 => b.cur = d + 1
  OBVIOUS
<1> HIDE DEF iov, p, B, d, npos
<1>4. n # 0 => /\ c \in Nat \ {0}
               /\ (c - 1) * B < npos + n /\ npos + n <= (c - 1) * B + B /\ (c - 1) * B \in Nat
  <2> SUFFICES ASSUME n # 0
               PROVE  /\ c \in Nat \ {0}
                      /\ (c - 1) * B < npos + n /\ npos + n <= (c - 1) * B + B /\ (c - 1) * B \in Nat
    OBVIOUS
  <2> DEFINE x == npos + n + B - 1
             q == x \div B
             r == x % B
  <2>1. x \in Nat /\ x >= B
    BY <1>2
  <2>2. q \in Nat /\ r \in Nat /\ r < B /\ x = B * q + r
    BY <1>2, <2>1, DivMod
  <2>3. x = npos + n + B - 1 /\ c = q
    OBVIOUS
  <2> HIDE DEF x, q, r, c
  <2>4. q # 0
    BY <1>2, <2>1, <2>2
  <2>5. (q - 1) * B = B * q - B /\ B * q \in Nat /\ (q - 1) * B \in Nat
    BY <1>2, <2>2, <2>4
  <2>6. (q - 1) * B < npos + n /\ npos + n <= (q - 1) * B + B
    BY <1>2, <2>2, <2>3, <2>5
  <2>7. QED
    BY <2>2, <2>3, <2>4, <2>5, <2>6
<1>5. CASE n = 0
  <2>1. c = 0 /\ iov = <<>>
    BY <1>1, <1>5
  <2>2. Len(iov) = 0 /\ e \in [0..0 -> Nat] /\ e[0] = 0
    BY <2>1
  <2> HIDE DEF e
  <2>3. Cut(b, iov, n, e)
    BY <1>5, <2>2 DEF Cut
  <2>4. QED
    BY <2>3 DEF iov
<1>6. CASE n # 0
  <2>1. c \in Nat \ {0} /\ Len(iov) = c
    BY <1>1, <1>4, <1>6
  <2> DEFINE z == (c - 1) * B
  <2>2. z \in Nat /\ z < npos + n /\ npos + n <= z + B
    BY <1>4, <1>6
  <2>3. ASSUME NEW i \in 1..c
        PROVE  /\ from(i) \in Nat /\ till(i) - from(i) \in Nat \ {0}
               /\ from(i) + (till(i) - from(i)) <= B
               /\ e[i] = e[i - 1] + (till(i) - from(i)) /\ e[i] <= n
               /\ e[i] \in Nat /\ e[i - 1] \in Nat
               /\ B * (d + i - 1) + from(i) = p + e[i - 1]
    <3> DEFINE y == (i - 1) * B
               x == i * B
               f == from(i)
               t == till(i)
               u == e[i]
               w == e[i - 1]
               v == B * (d + i - 1)
               g == B * d
    <3>1. /\ i \in Nat \ {0} /\ i \in 0..c /\ i - 1 \in 0..c /\ i # 0 /\ i - 1 # c
          /\ (i - 1 = 0 <=> i = 1)
      BY <2>1
    <3>2. /\ y \in Nat /\ x = y + B /\ g \in Nat /\ v = g + y
          /\ (i = c => y = z) /\ (i = 1 => y = 0) /\ (i # 1 => y >= B)
      BY <1>2, <2>1, <3>1
    <3>3. i # c => x <= z
      <4>1. i # c => i <= c - 1
        BY <2>1, <3>1
      <4>2. i <= c - 1 => B * i <= B * (c - 1)
        <5> DEFINE j == c - 1
        <5>1. B \in Nat \ {0} /\ i \in Int /\ j \in Int
          BY <1>2, <2>1, <3>1
        <5> HIDE DEF j, c
        <5>2. i <= j => B * i <= B * j
          BY <5>1, MulMono
        <5>3. QED
          BY <5>2 DEF j
      <4>3. B * i = x /\ B * (c - 1) = z
        BY <1>2, <2>1, <3>1
      <4>4. QED
        BY <4>1, <4>2, <4>3
    <3>4. /\ f = (IF i = 1 THEN npos ELSE 0) /\ t = (IF i = c THEN npos + n - z ELSE B)
          /\ u = (IF i = c THEN n ELSE x - npos) /\ w = IF i = 1 THEN 0 ELSE y - npos
      BY <3>1
    <3>5. p = g + npos
      BY <1>2
    <3> HIDE DEF y, x, f, t, u, w, v, g, z, c, e
    <3>6. /\ f \in Nat /\ t - f \in Nat \ {0} /\ f + (t - f) <= B
          /\ u = w + (t - f) /\ u <= n /\ u \in Nat /\ w \in Nat
          /\ v + f = p + w
      <4>1. CASE i = 1 /\ i = c
        BY <1>2, <1>6, <2>2, <3>2, <3>4, <3>5, <4>1
      <4>2. CASE i = 1 /\ i # c
        BY <1>2, <1>6, <2>2, <3>2, <3>3, <3>4, <3>5, <4>2
      <4>3. CASE i # 1 /\ i = c
        BY <1>2, <1>6, <2>2, <3>2, <3>4, <3>5, <4>3
      <4>4. CASE i # 1 /\ i # c
        BY <1>2, <1>6, <2>2, <3>2, <3>3, <3>4, <3>5, <4>4
      <4>5. QED
        BY <4>1, <4>2, <4>3, <4>4
    <3>7. QED
      BY <3>6 DEF f, t, u, w, v
  <2>4. e \in [0..c -> Nat] /\ e[0] = 0 /\ e[c] = n
    <3>1. \A i \in 0..c : (IF i = 0 THEN 0 ELSE IF i = c THEN n ELSE i * B - npos) \in Nat
      <4> SUFFICES ASSUME NEW i \in 0..c, i # 0
                   PROVE  (IF i = 0 THEN 0 ELSE IF i = c THEN n ELSE i * B - npos) \in Nat
        OBVIOUS
      <4>1. i \in 1..c /\ i \in 0..c
        BY <2>1
      <4>2. e[i] \in Nat
        BY <2>3, <4>1
      <4>3. QED
        BY <4>1, <4>2
    <3>2. 0 \in 0..c /\ c \in 0..c /\ c # 0
      BY <2>1
    <3>3. QED
      BY <3>1, <3>2
  <2>5. ASSUME NEW i \in 1..c
        PROVE  iov[i].block = d + i /\ iov[i].offset = from(i) /\ iov[i].length = till(i) - from(i)
    <3>1. b.cur + i - 1 = d + i
      BY <1>2, <1>3, <1>6, <2>1
    <3> HIDE DEF from, till
    <3>2. QED
      BY <1>1, <3>1
  <2>6. \A i \in 1..c :
          /\ iov[i].block \in Nat \ {0} /\ iov[i].offset \in Nat /\ iov[i].length \in Nat \ {0}
          /\ iov[i].offset + iov[i].length <= B
          /\ e[i] = e[i - 1] + iov[i].length /\ e[i] <= n
          /\ B * (iov[i].block - 1) + iov[i].offset = p + e[i - 1]
    <3> SUFFICES ASSUME NEW i \in 1..c
                 PROVE  /\ iov[i].block \in Nat \ {0} /\ iov[i].offset \in Nat
                        /\ iov[i].length \in Nat \ {0}
                        /\ iov[i].offset + iov[i].length <= B
                        /\ e[i] = e[i - 1] + iov[i].length /\ e[i] <= n
                        /\ B * (iov[i].block - 1) + iov[i].offset = p + e[i - 1]
      OBVIOUS
    <3>1. d + i \in Nat \ {0} /\ (d + i) - 1 = d + i - 1
      BY <1>2, <2>1
    <3> HIDE DEF from, till, e
    <3>2. QED
      BY <2>3, <2>5, <3>1
  <2> HIDE DEF e, c
  <2>7. Cut(b, iov, n, e)
    BY <2>1, <2>4, <2>6 DEF Cut, B, p
  <2>8. QED
    BY <2>7 DEF iov
<1>7. QED
  BY <1>5, <1>6

\* The l bytes of the chain from place x on.
Part(b, s, l, x) == s \in Seq(Byte) /\ Len(s) = l /\ \A k \in 1..l : s[k] = ByteAt(b, x + k - 1)

\* Bytes of one block, as bytes of the chain.
LEMMA OnePiece ==
  ASSUME NEW b, Chain(b), NEW m \in Nat \ {0}, NEW o \in Nat, NEW l \in Nat \ {0},
         o + l <= BaseSize, NEW x \in Nat, BaseSize * (m - 1) + o = x, x < b.capacity
  PROVE  m \in 1..Len(b.blocks) /\ Part(b, SubSeq(b.blocks[m], o + 1, o + l), l, x)
<1> DEFINE B == BaseSize
           L == Len(b.blocks)
           blk == b.blocks[m]
           s == SubSeq(blk, o + 1, o + l)
<1>1. /\ B \in Nat \ {0} /\ L \in Nat /\ b.capacity = L * B /\ m - 1 \in Nat /\ o < B
      /\ \A i \in 1..L : b.blocks[i] \in ABlock
  BY Base DEF Chain
<1>2. x \div B = m - 1
  <2>1. x = B * (m - 1) + o
    OBVIOUS
  <2> DEFINE q == m - 1
  <2>2. q \in Nat
    OBVIOUS
  <2> HIDE DEF q, B
  <2>3. QED
    BY <1>1, <2>1, <2>2, DivUnique DEF q
<1>3. m \in 1..L
  <2>1. x < L * B
    BY <1>1
  <2> HIDE DEF L, B
  <2>2. x \div B < L
    BY <1>1, <2>1, DivBelow
  <2>3. QED
    BY <1>1, <1>2, <2>2
<1>4. blk \in [1..B -> Byte]
  BY <1>1, <1>3 DEF ABlock
<1> HIDE DEF blk
<1>5. s \in Seq(Byte) /\ Len(s) = l /\ \A k \in 1..l : s[k] = blk[o + k]
  <2>1. \A i \in (o + 1)..(o + l) : blk[i] \in Byte
    BY <1>1, <1>4
  <2>2. o + 1 \in Int /\ o + l \in Int /\ (o + l) - (o + 1) + 1 = l
    OBVIOUS
  <2>3. /\ s \in Seq(Byte)
        /\ Len(s) = IF o + 1 <= o + l THEN (o + l) - (o + 1) + 1 ELSE 0
        /\ \A i \in 1..((o + l) - (o + 1) + 1) : s[i] = blk[(o + 1) + i - 1]
    BY <2>1, <2>2, SubSeqProperties
  <2> HIDE DEF s
  <2>4. \A k \in 1..l : (o + 1) + k - 1 = o + k
    OBVIOUS
  <2>5. Len(s) = l
    BY <2>2, <2>3
  <2>6. \A k \in 1..l : s[k] = blk[o + k]
    BY <2>2, <2>3, <2>4
  <2>7. QED
    BY <2>3, <2>5, <2>6
<1> HIDE DEF s
<1>6. ASSUME NEW k \in 1..l PROVE s[k] = ByteAt(b, x + k - 1)
  <2> DEFINE y == x + k - 1
             r == o + k - 1
             q == m - 1
  <2>1. r \in Nat /\ r < B /\ q \in Nat /\ r + 1 = o + k /\ q + 1 = m
    BY <1>1
  <2>2. y = B * q + r
    <3> DEFINE z == B * q
    <3>1. z \in Nat /\ z + o = x
      BY <1>1, <2>1
    <3> HIDE DEF z, q
    <3>2. y = z + r
      BY <3>1
    <3>3. QED
      BY <3>2 DEF z
  <2> HIDE DEF y, r, q, B
  <2>3. y \div B = q /\ y % B = r
    BY <1>1, <2>1, <2>2, DivUnique
  <2>4. ByteAt(b, y) = b.blocks[q + 1][r + 1]
    BY <2>3 DEF ByteAt, B
  <2>5. QED
    BY <1>5, <2>1, <2>4 DEF y, blk
<1>7. QED
  BY <1>3, <1>5, <1>6 DEF s, blk, Part

\* The part of the data from the position on.
LEMMA DataFrom ==
  ASSUME NEW b, Chain(b), NEW n \in Nat, b.position + n <= b.size
  PROVE  LET out == SubSeq(Data(b), b.position + 1, b.position + n)
         IN  /\ out \in Seq(Byte) /\ Len(out) = n
             /\ \A k \in 1..n : out[k] = ByteAt(b, b.position + k - 1)
<1> DEFINE p == b.position
           q == p + n
           s == [k \in 1..n |-> ByteAt(b, p + k - 1)]
           z == b.size
<1>1. p \in Nat /\ z \in Nat /\ z <= b.capacity /\ b.capacity \in Nat
  BY Readable
<1>2. q <= z
  OBVIOUS
<1> HIDE DEF p, z
<1>3. \A k \in 1..n : ByteAt(b, p + k - 1) \in Byte
  <2> SUFFICES ASSUME NEW k \in 1..n PROVE ByteAt(b, p + k - 1) \in Byte
    OBVIOUS
  <2>1. p + k - 1 \in Nat /\ p + k - 1 < b.capacity
    BY <1>1, <1>2
  <2>2. QED
    BY <2>1, ByteAtType
<1>4. s \in Seq(Byte) /\ Len(s) = n /\ \A k \in 1..n : s[k] = ByteAt(b, p + k - 1)
  <2>1. s \in [1..n -> Byte]
    BY <1>3
  <2>2. \A k \in 1..n : s[k] = ByteAt(b, p + k - 1)
    OBVIOUS
  <2> HIDE DEF s
  <2>3. QED
    BY <2>1, <2>2, IsASeq
<1>5. q \in Nat /\ p <= q /\ q <= b.size /\ Len(s) = q - p
  BY <1>1, <1>2, <1>4 DEF z
<1> HIDE DEF q, s
<1>6. SubSeq(Data(b), p + 1, q) = s
  BY <1>1, <1>4, <1>5, DataPart
<1>7. QED
  BY <1>4, <1>6 DEF p, q

LEMMA CurHere ==
  ASSUME NEW b, Chain(b), b.position < b.capacity
  PROVE  b.cur = b.position \div BaseSize + 1
<1>1. 0 \in Nat /\ b.position + 0 < b.capacity
  BY Readable
<1>2. QED
  BY <1>1, WalkPlace

\* readv's view of getReadBuffers.
LEMMA GatherIs ==
  ASSUME NEW b, Chain(b), NEW len \in Nat,
         NEW n, n = IF len > getReadSize(b) THEN getReadSize(b) ELSE len
  PROVE  Gather(b, getReadBuffers(b, len)) = SubSeq(Data(b), b.position + 1, b.position + n)
<1> DEFINE p == b.position
           iov == getReadBuffers(b, len)
           c == Len(iov)
           out == SubSeq(Data(b), p + 1, p + n)
           piece(i) == SubSeq(b.blocks[iov[i].block], iov[i].offset + 1, iov[i].offset + iov[i].length)
           seqs == [i \in 1..c |-> piece(i)]
           cap == b.capacity
<1>1. /\ n \in Nat /\ p \in Nat /\ b.size \in Nat /\ cap \in Nat /\ p + n <= b.size /\ p + n <= cap
  <2> DEFINE r == getReadSize(b)
             z == b.size
  <2>1. r \in Nat /\ p \in Nat /\ z \in Nat /\ cap \in Nat /\ p + r = z /\ z <= cap
    BY Readable
  <2>2. n = IF len > r THEN r ELSE len
    OBVIOUS
  <2> HIDE DEF r, z, p, cap
  <2>3. n \in Nat /\ p + n <= z /\ p + n <= cap
    BY <2>1, <2>2
  <2>4. QED
    BY <2>1, <2>3 DEF z
<1>2. out \in Seq(Byte) /\ Len(out) = n /\ \A k \in 1..n : out[k] = ByteAt(b, p + k - 1)
  BY <1>1, DataFrom
<1>3. n # 0 => b.cur = p \div BaseSize + 1
  <2>1. n # 0 => p < cap
    <3> HIDE DEF p, cap
    <3>1. QED
      BY <1>1
  <2>2. QED
    BY <2>1, CurHere
<1>4. PICK e : Cut(b, iov, n, e)
  BY <1>1, <1>3, PiecesCut
<1>5. Gather(b, iov) = FlattenSeq(seqs)
  BY DEF Gather
<1> HIDE DEF iov, out, p
<1>6. c \in Nat /\ e \in [0..c -> Nat] /\ e[0] = 0 /\ e[c] = n
  BY <1>4 DEF Cut
<1>7. ASSUME NEW i \in 1..c
      PROVE  /\ piece(i) \in Seq(Byte) /\ e[i] = e[i - 1] + Len(piece(i))
             /\ Continues(piece(i), out, e[i - 1])
  <2> DEFINE m == iov[i].block
             o == iov[i].offset
             l == iov[i].length
             a == e[i - 1]
             x == p + a
             s == piece(i)
  <2> DEFINE u == e[i]
  <2>1. /\ m \in Nat \ {0} /\ o \in Nat /\ l \in Nat \ {0} /\ o + l <= BaseSize
        /\ BaseSize * (m - 1) + o = x
    BY <1>4 DEF Cut, p
  <2>0. u = a + l /\ u <= n /\ l \in Nat \ {0}
    BY <1>4 DEF Cut
  <2>2. a \in Nat
    <3>1. i - 1 \in 0..c
      BY <1>6
    <3>2. QED
      BY <1>6, <3>1
  <2>3. s = SubSeq(b.blocks[m], o + 1, o + l)
    OBVIOUS
  <2> HIDE DEF m, o, l, a, s, u, cap
  <2>4. x \in Nat /\ x < cap /\ a + l <= n
    BY <1>1, <2>0, <2>2
  <2>5. Part(b, s, l, x)
    <3> HIDE DEF x
    <3>1. x < b.capacity
      BY <2>4 DEF cap
    <3>2. Part(b, SubSeq(b.blocks[m], o + 1, o + l), l, x)
      BY <2>1, <2>4, <3>1, OnePiece
    <3>3. QED
      BY <2>3, <3>2, Zenon
  <2>6. s \in Seq(Byte) /\ Len(s) = l /\ \A k \in 1..l : s[k] = ByteAt(b, x + k - 1)
    BY <2>5, Zenon DEF Part
  <2>7. ASSUME NEW k \in 1..l PROVE s[k] = out[a + k]
    <3>1. a + k \in 1..n /\ p + (a + k) - 1 = x + k - 1
      BY <1>1, <2>0, <2>2, <2>4
    <3>2. out[a + k] = ByteAt(b, p + (a + k) - 1)
      BY <1>2, <3>1, Zenon
    <3> HIDE DEF x
    <3>3. QED
      BY <2>6, <3>1, <3>2, Zenon
  <2>8. s \in Seq(Byte) /\ u = a + Len(s) /\ Continues(s, out, a)
    BY <2>0, <2>6, <2>7, Zenon DEF Continues
  <2>9. QED
    BY <2>8 DEF s, a, u
<1> HIDE DEF piece
<1>8. seqs \in Seq(Seq(Byte)) /\ Len(seqs) = c /\ \A i \in 1..c : seqs[i] = piece(i)
  <2>1. seqs \in [1..c -> Seq(Byte)]
    BY <1>7
  <2>2. \A i \in 1..c : seqs[i] = piece(i)
    OBVIOUS
  <2> HIDE DEF seqs
  <2>3. QED
    BY <1>6, <2>1, <2>2, IsASeq
<1> HIDE DEF seqs, c
<1>9. Covers(seqs, c, e, out)
  BY <1>7, <1>8, Zenon DEF Covers
<1>10. FlattenSeq(seqs) = out
  <2>1. Len(out) = e[c]
    BY <1>2, <1>6
  <2>2. QED
    BY <1>2, <1>6, <1>8, <1>9, <2>1, FlattenIs, Zenon
<1>11. QED
  BY <1>5, <1>10 DEF iov, out, p

\* The room that getWriteBuffers hands to writev.
LEMMA PlacesAre ==
  ASSUME NEW b, Chain(b), NEW len \in Nat \ {0},
         b.position + len <= addCapacity(b, len).capacity
  PROVE  Places(getWriteBuffers(b, len)) = [k \in 1..len |-> b.position + k]
<1> DEFINE c == addCapacity(b, len)
           d == [c EXCEPT !.size = c.position + len]
           p == b.position
           cap == c.capacity
           iov == getReadBuffers(d, len)
           n == Len(iov)
           out == [k \in 1..len |-> p + k]
           piece(i) == [k \in 1..iov[i].length |-> (iov[i].block - 1) * BaseSize + iov[i].offset + k]
           seqs == [i \in 1..n |-> piece(i)]
<1>1. len \in Nat /\ Chain(c) /\ c.position = p /\ p \in Nat
  BY AddDoes, Readable
<1>2. p + len <= cap
  OBVIOUS
<1>3. getWriteBuffers(b, len) = iov
  BY DEF getWriteBuffers
<1> HIDE DEF c
<1>4. d.position = p /\ d.size = p + len /\ d.cur = c.cur
  BY <1>1 DEF Chain
<1>5. cap \in Nat
  BY <1>1 DEF Chain
<1>6. d.cur = p \div BaseSize + 1
  <2>1. p < cap
    <3> HIDE DEF p, cap
    <3>1. QED
      BY <1>1, <1>2, <1>5
  <2>2. QED
    BY <1>1, <1>4, <2>1, CurHere
<1> HIDE DEF d, p, cap
<1>7. getReadSize(d) = len
  BY <1>1, <1>4 DEF getReadSize
<1>8. PICK e : Cut(d, iov, len, e)
  <2>1. len = IF len > getReadSize(d) THEN getReadSize(d) ELSE len
    BY <1>7
  <2>2. d.position \in Nat /\ (len # 0 => d.cur = d.position \div BaseSize + 1)
    BY <1>1, <1>4, <1>6
  <2>3. QED
    BY <1>1, <2>1, <2>2, PiecesCut
<1>9. Places(iov) = FlattenSeq(seqs)
  BY DEF Places
<1> HIDE DEF iov
<1>10. n \in Nat /\ e \in [0..n -> Nat] /\ e[0] = 0 /\ e[n] = len
  BY <1>8 DEF Cut
<1>11. out \in Seq(Nat) /\ Len(out) = len /\ \A k \in 1..len : out[k] = p + k
  <2>1. out \in [1..len -> Nat]
    BY <1>1
  <2>2. \A k \in 1..len : out[k] = p + k
    OBVIOUS
  <2> HIDE DEF out
  <2>3. QED
    BY <1>1, <2>1, <2>2, IsASeq
<1> HIDE DEF out
<1>12. ASSUME NEW i \in 1..n
       PROVE  /\ piece(i) \in Seq(Nat) /\ e[i] = e[i - 1] + Len(piece(i))
              /\ Continues(piece(i), out, e[i - 1])
  <2> DEFINE m == iov[i].block
             o == iov[i].offset
             l == iov[i].length
             a == e[i - 1]
             u == e[i]
             s == piece(i)
             w == (m - 1) * BaseSize + o
  <2>1. m \in Nat \ {0} /\ o \in Nat /\ l \in Nat \ {0} /\ BaseSize * (m - 1) + o = p + a
    BY <1>4, <1>8 DEF Cut
  <2>2. u = a + l /\ u <= len /\ l \in Nat
    BY <1>8 DEF Cut
  <2>3. a \in Nat
    <3>1. i - 1 \in 0..n
      BY <1>10
    <3>2. QED
      BY <1>10, <3>1
  <2>4. s = [k \in 1..l |-> w + k]
    OBVIOUS
  <2> HIDE DEF m, o, l, a, u, s
  <2>5. w = p + a
    <3>1. (m - 1) * BaseSize = BaseSize * (m - 1)
      BY <2>1, Base
    <3>2. QED
      BY <2>1, <3>1
  <2> HIDE DEF w
  <2>6. s \in Seq(Nat) /\ Len(s) = l
    <3>1. s \in [1..l -> Nat]
      BY <1>1, <2>3, <2>4, <2>5
    <3>2. QED
      BY <2>2, <3>1, IsASeq
  <2>7. ASSUME NEW k \in 1..l PROVE s[k] = out[a + k]
    <3>1. a + k \in 1..len /\ p + (a + k) = w + k
      BY <1>1, <2>2, <2>3, <2>5
    <3>2. s[k] = w + k
      BY <2>4
    <3>3. QED
      BY <1>11, <3>1, <3>2
  <2>8. s \in Seq(Nat) /\ u = a + Len(s) /\ Continues(s, out, a)
    BY <2>2, <2>6, <2>7, Zenon DEF Continues
  <2>9. QED
    BY <2>8 DEF s, a, u
<1> HIDE DEF piece
<1>13. seqs \in Seq(Seq(Nat)) /\ Len(seqs) = n /\ \A i \in 1..n : seqs[i] = piece(i)
  <2>1. seqs \in [1..n -> Seq(Nat)]
    BY <1>12
  <2>2. \A i \in 1..n : seqs[i] = piece(i)
    OBVIOUS
  <2> HIDE DEF seqs
  <2>3. QED
    BY <1>10, <2>1, <2>2, IsASeq
<1> HIDE DEF seqs, n
<1>14. Covers(seqs, n, e, out)
  BY <1>12, <1>13, Zenon DEF Covers
<1>15. FlattenSeq(seqs) = out
  <2>1. Len(out) = e[n]
    BY <1>10, <1>11
  <2>2. QED
    BY <1>10, <1>11, <1>13, <1>14, <2>1, FlattenIs, Zenon
<1>16. QED
  BY <1>3, <1>9, <1>15 DEF out, p

LEMMA ToStringIs ==
  ASSUME NEW b, Chain(b)
  PROVE  toString(b) = SubSeq(Data(b), b.position + 1, b.size)
<1> DEFINE p == b.position
           n == getReadSize(b)
           z == b.size
           cap == b.capacity
           s == Bytes(b, b.cur, p, n)
           out == SubSeq(Data(b), p + 1, p + n)
<1>1. n \in Nat /\ p \in Nat /\ z \in Nat /\ cap \in Nat /\ p + n = z /\ z <= cap
  BY Readable
<1>2. out \in Seq(Byte) /\ Len(out) = n /\ \A k \in 1..n : out[k] = ByteAt(b, p + k - 1)
  BY <1>1, DataFrom
<1>3. toString(b) = IF n = 0 THEN <<>> ELSE s
  BY DEF toString
<1>4. s = [k \in 1..n |-> b.blocks[Block(b.cur, p, k - 1)][Offset(p, k - 1)]]
  BY DEF Bytes
<1> HIDE DEF n, out
<1>5. ASSUME NEW k \in 1..n
      PROVE  b.blocks[Block(b.cur, p, k - 1)][Offset(p, k - 1)] = out[k]
  <2> DEFINE j == k - 1
  <2>1. j \in Nat /\ p + j < cap /\ p + j = p + k - 1
    <3> HIDE DEF p, z, cap
    <3>1. QED
      BY <1>1
  <2> HIDE DEF j
  <2>2. b.blocks[Block(b.cur, p, j)][Offset(p, j)] = ByteAt(b, p + j)
    BY <2>1, WalkPlace
  <2>3. QED
    BY <1>2, <2>1, <2>2 DEF j
<1> HIDE DEF s
<1>6. s = [k \in 1..n |-> out[k]]
  BY <1>4, <1>5, Zenon
<1>7. s = out
  <2>1. out = [k \in 1..n |-> out[k]]
    BY <1>1, <1>2
  <2>2. QED
    BY <1>6, <2>1, Zenon
<1>8. n = 0 => out = <<>>
  BY <1>2
<1>9. toString(b) = out
  BY <1>3, <1>7, <1>8
<1>10. QED
  BY <1>1, <1>9 DEF out

LEMMA JoinParts ==
  ASSUME NEW b, NEW s, NEW t, NEW m \in Nat, NEW n \in Nat, NEW x \in Nat,
         Part(b, s, m, x), Part(b, t, n, x + m)
  PROVE  Part(b, s \o t, m + n, x)
<1>0. /\ s \in Seq(Byte) /\ Len(s) = m /\ \A k \in 1..m : s[k] = ByteAt(b, x + k - 1)
      /\ t \in Seq(Byte) /\ Len(t) = n /\ \A k \in 1..n : t[k] = ByteAt(b, (x + m) + k - 1)
  BY DEF Part
<1>1. /\ s \o t \in Seq(Byte) /\ Len(s \o t) = m + n
      /\ \A k \in 1..(m + n) : (s \o t)[k] = IF k <= m THEN s[k] ELSE t[k - m]
  BY <1>0, ConcatProperties
<1>2. ASSUME NEW k \in 1..(m + n) PROVE (s \o t)[k] = ByteAt(b, x + k - 1)
  <2>1. CASE k <= m
    BY <1>0, <1>1, <2>1
  <2>2. CASE ~ (k <= m)
    <3> DEFINE j == k - m
    <3>1. j \in 1..n /\ (x + m) + j - 1 = x + k - 1
      BY <2>2
    <3>2. (s \o t)[k] = t[j]
      BY <1>1, <2>2
    <3> HIDE DEF j
    <3>3. QED
      BY <1>0, <3>1, <3>2
  <2>3. QED
    BY <2>1, <2>2
<1>3. QED
  BY <1>1, <1>2 DEF Part

\* writeToFile's loop: what is written, the block, the place and what is left.
FileStart(b) ==
  [bytes |-> <<>>, cur |-> b.cur, pos |-> b.position, left |-> getReadSize(b), lost |-> FALSE]
FileStep(b, f) ==
  LET diff == f.pos % BaseSize
      len == (IF f.left > BaseSize THEN BaseSize ELSE f.left) - diff
  IN  IF f.left <= 0 \/ f.lost THEN f
      ELSE IF len <= 0 \/ f.cur > Len(b.blocks) THEN [f EXCEPT !.lost = TRUE]
      ELSE [f EXCEPT !.bytes = @ \o SubSeq(b.blocks[f.cur], diff + 1, diff + len),
                     !.cur = @ + 1, !.pos = @ + len, !.left = @ - len]
OutTable(b, f, n) == f = [k \in 0..n |-> IF k = 0 THEN FileStart(b) ELSE FileStep(b, f[k - 1])]

LEMMA OutTables ==
  ASSUME NEW b
  PROVE  \A n \in Nat : \E f : OutTable(b, f, n)
<1> DEFINE K == {n \in Nat : \E f : OutTable(b, f, n)}
<1>1. 0 \in K
  <2>1. OutTable(b, [k \in 0..0 |-> FileStart(b)], 0)
    BY DEF OutTable
  <2>2. QED
    BY <2>1
<1>2. ASSUME NEW n \in K PROVE n + 1 \in K
  <2>1. PICK f : OutTable(b, f, n)
    OBVIOUS
  <2> DEFINE g == [k \in 0..(n + 1) |-> IF k = 0 THEN FileStart(b) ELSE FileStep(b, f[k - 1])]
  <2>2. \A k \in 0..n : f[k] = IF k = 0 THEN FileStart(b) ELSE FileStep(b, f[k - 1])
    BY <2>1, Zenon DEF OutTable
  <2>3. \A k \in 0..(n + 1) : g[k] = IF k = 0 THEN FileStart(b) ELSE FileStep(b, f[k - 1])
    BY Zenon
  <2> HIDE DEF g
  <2>4. \A k \in 0..(n + 1) : k # 0 => g[k - 1] = f[k - 1]
    <3>1. \A k \in 0..n : k \in 0..(n + 1)
      OBVIOUS
    <3>2. \A k \in 0..n : g[k] = f[k]
      BY <2>2, <2>3, <3>1, Zenon
    <3>3. \A k \in 0..(n + 1) : k # 0 => k - 1 \in 0..n
      OBVIOUS
    <3>4. QED
      BY <3>2, <3>3, Zenon
  <2>5. \A k \in 0..(n + 1) : (IF k = 0 THEN FileStart(b) ELSE FileStep(b, f[k - 1]))
                               = (IF k = 0 THEN FileStart(b) ELSE FileStep(b, g[k - 1]))
    BY <2>4, Zenon
  <2>6. OutTable(b, g, n + 1)
    BY <2>5, Zenon DEF OutTable, g
  <2>7. QED
    BY <2>6
<1> HIDE DEF K
<1>3. K = Nat
  BY <1>1, <1>2, Induct DEF K
<1>4. QED
  BY <1>3, Zenon DEF K

\* After k pieces the bytes up to the place are out, the place is the start of a block as
\* long as anything is left, and at least k bytes are out by then.
Progress(b, f, k) ==
  /\ f \in [bytes : Seq(Byte), cur : Nat, pos : Nat, left : Nat, lost : BOOLEAN] /\ ~f.lost
  /\ b.position <= f.pos /\ f.pos + f.left = b.size
  /\ f.left # 0 => /\ f.pos % BaseSize = 0 /\ f.cur = f.pos \div BaseSize + 1
                   /\ f.pos >= b.position + k
  /\ Part(b, f.bytes, f.pos - b.position, b.position)

LEMMA FileProgress ==
  ASSUME NEW b, Chain(b), NEW f, NEW k \in Nat, Progress(b, f, k)
  PROVE  Progress(b, FileStep(b, f), k + 1)
<1> DEFINE B == BaseSize
           p == b.position
           z == b.size
           cap == b.capacity
           pos == f.pos
           left == f.left
           cur == f.cur
           bytes == f.bytes
           diff == pos % B
           len == (IF left > B THEN B ELSE left) - diff
           t == SubSeq(b.blocks[cur], diff + 1, diff + len)
           g == FileStep(b, f)
           L == Len(b.blocks)
<1>1. /\ f = [bytes |-> bytes, cur |-> cur, pos |-> pos, left |-> left, lost |-> FALSE]
      /\ bytes \in Seq(Byte) /\ cur \in Nat /\ pos \in Nat /\ left \in Nat /\ ~f.lost
      /\ p <= pos /\ pos + left = z
      /\ left # 0 => diff = 0 /\ cur = pos \div B + 1 /\ pos >= p + k
      /\ Part(b, bytes, pos - p, p)
  BY DEF Progress
<1>2. p \in Nat /\ z \in Nat /\ cap \in Nat /\ z <= cap /\ B \in Nat \ {0} /\ L \in Nat
  BY Base DEF Chain
<1>3. g = IF left <= 0 \/ f.lost THEN f
          ELSE IF len <= 0 \/ cur > L THEN [f EXCEPT !.lost = TRUE]
          ELSE [f EXCEPT !.bytes = @ \o t, !.cur = @ + 1, !.pos = @ + len, !.left = @ - len]
  BY DEF FileStep
<1>4. CASE left = 0
  <2>1. g = f
    BY <1>3, <1>4
  <2>2. QED
    BY <1>4, <2>1 DEF Progress
<1>5. CASE left # 0
  <2> DEFINE q == pos \div B
  <2> HIDE DEF g, B, t
  <2>1. q \in Nat /\ pos = B * q + 0 /\ diff = 0 /\ cur = q + 1 /\ pos >= p + k
    BY <1>1, <1>2, <1>5, DivMod
  <2>2. len = (IF left > B THEN B ELSE left) - diff
    OBVIOUS
  <2> HIDE DEF q, diff, len, pos, left, cur, bytes, p, z, cap
  <2>3. len \in Nat \ {0} /\ len <= B /\ len <= left /\ (left - len # 0 => len = B) /\ left - len \in Nat
    BY <1>1, <1>2, <1>5, <2>1, <2>2
  <2>4. pos < cap
    BY <1>1, <1>2, <1>5
  <2>5. cur \in 1..L /\ Part(b, t, len, pos)
    <3>1. /\ cur \in Nat \ {0} /\ diff \in Nat /\ diff + len <= B
      BY <1>2, <2>1, <2>3
    <3>2. B * (cur - 1) + diff = pos
      <4>1. cur - 1 = q
        BY <2>1
      <4>2. QED
        BY <2>1, <4>1
    <3>3. pos < b.capacity /\ diff + len <= BaseSize /\ BaseSize * (cur - 1) + diff = pos
      BY <2>4, <3>1, <3>2 DEF cap, B
    <3>4. cur \in 1..Len(b.blocks) /\ Part(b, SubSeq(b.blocks[cur], diff + 1, diff + len), len, pos)
      BY <1>1, <2>3, <3>1, <3>3, OnePiece
    <3>5. QED
      BY <3>4 DEF t
  <2>6. g = [bytes |-> bytes \o t, cur |-> cur + 1, pos |-> pos + len, left |-> left - len,
             lost |-> FALSE]
    <3>1. ~ (left <= 0 \/ f.lost) /\ ~ (len <= 0 \/ cur > L)
      BY <1>1, <1>2, <1>5, <2>3, <2>5
    <3>2. g = [f EXCEPT !.bytes = @ \o t, !.cur = @ + 1, !.pos = @ + len, !.left = @ - len]
      BY <1>3, <3>1, Zenon
    <3>3. QED
      BY <1>1, <3>2
  <2>7. Part(b, bytes \o t, (pos + len) - p, p)
    <3> DEFINE m == pos - p
    <3>1. m \in Nat /\ p + m = pos /\ (pos + len) - p = m + len /\ len \in Nat
      BY <1>1, <1>2, <2>3
    <3>2. Part(b, bytes, m, p) /\ Part(b, t, len, p + m)
      BY <1>1, <2>5, <3>1
    <3> HIDE DEF m
    <3>3. Part(b, bytes \o t, m + len, p)
      BY <1>2, <3>1, <3>2, JoinParts
    <3>4. QED
      BY <3>1, <3>3
  <2>8. bytes \o t \in Seq(Byte)
    BY <2>7 DEF Part
  <2>9. left - len # 0 => (pos + len) % B = 0 /\ cur + 1 = (pos + len) \div B + 1
    <3> SUFFICES ASSUME left - len # 0
                 PROVE  (pos + len) % B = 0 /\ cur + 1 = (pos + len) \div B + 1
      OBVIOUS
    <3>1. pos + len = B * (q + 1) + 0 /\ q + 1 \in Nat /\ 0 \in Nat /\ 0 < B
      BY <1>2, <2>1, <2>3
    <3>2. (B * (q + 1) + 0) \div B = q + 1 /\ (B * (q + 1) + 0) % B = 0
      BY <1>2, <3>1, DivUnique
    <3>3. (pos + len) \div B = q + 1 /\ (pos + len) % B = 0
      BY <3>1, <3>2
    <3>4. QED
      BY <2>1, <3>3
  <2>10. /\ p <= pos + len /\ (pos + len) + (left - len) = z /\ pos + len >= p + (k + 1)
         /\ pos + len \in Nat /\ cur + 1 \in Nat
    BY <1>1, <1>2, <2>1, <2>3
  <2>11. Progress(b, g, k + 1)
    BY <2>3, <2>6, <2>7, <2>8, <2>9, <2>10 DEF Progress, p, z, B
  <2>12. QED
    BY <2>11 DEF g
<1>6. QED
  BY <1>4, <1>5

LEMMA PartIs ==
  ASSUME NEW b, Chain(b), NEW p \in Nat, NEW q \in Nat, p <= q, q <= b.size,
         NEW out, Part(b, out, q - p, p)
  PROVE  SubSeq(Data(b), p + 1, q) = out
<1>1. out \in Seq(Byte) /\ Len(out) = q - p /\ \A k \in 1..Len(out) : out[k] = ByteAt(b, p + k - 1)
  BY DEF Part
<1>2. QED
  BY <1>1, DataPart

LEMMA FileOut ==
  ASSUME NEW b, Chain(b), b.position % BaseSize = 0
  PROVE  writeToFile(b) = SubSeq(Data(b), b.position + 1, b.size)
<1> DEFINE p == b.position
           n == getReadSize(b)
           z == b.size
           F == CHOOSE f : OutTable(b, f, n)
           K == {k \in Nat : k <= n => Progress(b, F[k], k)}
<1>1. n \in Nat /\ p \in Nat /\ z \in Nat /\ b.capacity \in Nat /\ p + n = z /\ z <= b.capacity
  BY Readable
<1>2. writeToFile(b) = F[n].bytes
  BY Zenon DEF writeToFile, OutTable, FileStart, FileStep
<1>3. OutTable(b, F, n)
  <2> HIDE DEF n
  <2>1. QED
    BY <1>1, OutTables, Zenon
<1> HIDE DEF F
<1>4. \A k \in 0..n : F[k] = IF k = 0 THEN FileStart(b) ELSE FileStep(b, F[k - 1])
  BY <1>3, Zenon DEF OutTable
<1>5. n # 0 => b.cur = p \div BaseSize + 1
  <2>1. n # 0 => p < b.capacity
    <3> DEFINE cap == b.capacity
    <3> HIDE DEF n, p, z, cap
    <3>1. QED
      BY <1>1 DEF cap
  <2>2. QED
    BY <2>1, CurHere
<1>6. 0 \in K
  <2>1. F[0] = [bytes |-> <<>>, cur |-> b.cur, pos |-> p, left |-> n, lost |-> FALSE]
    <3>1. 0 \in 0..n
      BY <1>1
    <3>2. F[0] = FileStart(b)
      BY <1>4, <3>1, Zenon
    <3>3. QED
      BY <3>2, Zenon DEF FileStart
  <2>2. b.cur \in Nat
    BY DEF Chain
  <2>3. Part(b, <<>>, p - p, p)
    BY <1>1 DEF Part
  <2> HIDE DEF n
  <2>4. p <= p /\ p >= p + 0
    BY <1>1
  <2>5. Progress(b, F[0], 0)
    BY <1>1, <1>5, <2>1, <2>2, <2>3, <2>4 DEF Progress
  <2>6. QED
    BY <2>5
<1> HIDE DEF n
<1>7. ASSUME NEW k \in K PROVE k + 1 \in K
  <2> SUFFICES ASSUME k + 1 <= n PROVE Progress(b, F[k + 1], k + 1)
    OBVIOUS
  <2>1. k \in Nat /\ k <= n /\ k + 1 \in 0..n /\ k + 1 # 0 /\ (k + 1) - 1 = k
    BY <1>1
  <2>2. F[k + 1] = FileStep(b, F[k])
    BY <1>4, <2>1
  <2>3. Progress(b, F[k], k)
    BY <2>1
  <2>4. Progress(b, FileStep(b, F[k]), k + 1)
    BY <2>1, <2>3, FileProgress
  <2>5. QED
    BY <2>2, <2>4
<1> HIDE DEF K
<1>8. K = Nat
  BY <1>6, <1>7, Induct DEF K
<1>9. Progress(b, F[n], n)
  BY <1>1, <1>8 DEF K
<1> DEFINE f == F[n]
           pos == f.pos
           left == f.left
<1> HIDE DEF f
<1>10. /\ pos \in Nat /\ left \in Nat /\ pos + left = z /\ (left # 0 => pos >= p + n)
       /\ Part(b, f.bytes, pos - p, p)
  BY <1>9 DEF Progress, f
<1>11. left = 0 /\ pos = z
  <2> HIDE DEF pos, left, p, z
  <2>1. QED
    BY <1>1, <1>10
<1>12. Part(b, f.bytes, z - p, p)
  BY <1>10, <1>11
<1>13. SubSeq(Data(b), p + 1, z) = f.bytes
  <2>1. z <= b.size
    BY <1>1
  <2> HIDE DEF p, z
  <2>2. p <= z
    BY <1>1
  <2>3. QED
    BY <1>1, <1>12, <2>1, <2>2, PartIs, Zenon
<1>14. QED
  BY <1>2, <1>13 DEF f

(***************************************************************************)
(* The pieces of blocks that getReadBuffers hands to readv are exactly the *)
(* readable bytes that were asked for, in order; those of getWriteBuffers  *)
(* are exactly the room after the position; toString and, from the start   *)
(* of a block, writeToFile give all readable bytes.  It holds for every    *)
(* size of a block, wherever the first and the last piece are cut.         *)
(***************************************************************************)
THEOREM PiecesAreExact == Spec => []PiecesExact
<1>1. BAInv => PiecesExact
  <2> SUFFICES ASSUME Chain(ba) PROVE PiecesExact
    BY DEF BAInv, ChainInv, PiecesExact
  <2>0. Contents = Data(ba)
    BY ContentsIs
  <2>1. ASSUME NEW len \in 1..MaxSize
        PROVE  LET n == IF len > getReadSize(ba) THEN getReadSize(ba) ELSE len
               IN  Gather(ba, getReadBuffers(ba, len))
                     = SubSeq(Contents, ba.position + 1, ba.position + n)
    <3> DEFINE n == IF len > getReadSize(ba) THEN getReadSize(ba) ELSE len
    <3>1. len \in Nat /\ n = IF len > getReadSize(ba) THEN getReadSize(ba) ELSE len
      OBVIOUS
    <3> HIDE DEF n
    <3>2. Gather(ba, getReadBuffers(ba, len)) = SubSeq(Data(ba), ba.position + 1, ba.position + n)
      BY <3>1, GatherIs
    <3>3. QED
      BY <2>0, <3>2 DEF n
  <2>2. ASSUME NEW len \in 1..MaxSize, ba.position + len <= addCapacity(ba, len).capacity
        PROVE  Places(getWriteBuffers(ba, len)) = [k \in 1..len |-> ba.position + k]
    <3>1. len \in Nat \ {0}
      OBVIOUS
    <3>2. QED
      BY <2>2, <3>1, PlacesAre
  <2>3. toString(ba) = SubSeq(Contents, ba.position + 1, ba.size)
    BY <2>0, ToStringIs
  <2>4. ba.position % BaseSize = 0 => writeToFile(ba) = SubSeq(Contents, ba.position + 1, ba.size)
    BY <2>0, FileOut
  <2>5. QED
    BY <2>1, <2>2, <2>3, <2>4 DEF PiecesExact
<1>2. QED
  BY <1>1, BAInvHolds, PTL
=============================================================================
