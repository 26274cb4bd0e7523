------------------------------- MODULE HeapProofs -------------------------------
(****************************************************************************)
(* Proofs about malloc, free and realloc for any page size, any number of   *)
(* frames and contexts, any sizes and any merge threshold: the types, what  *)
(* HeapProperties says of the blocks, and the refinement of Allocator.      *)
(*                                                                          *)
(* First, what the operators of Heap do to a list of blocks: splitBlock,    *)
(* the batch that extends the last block, the sorted insertion of free, and *)
(* merge. Each lemma says that the result is a good list again and which    *)
(* cells it covers.                                                         *)
(****************************************************************************)
EXTENDS HeapProperties, SequenceTheorems, WellFoundedInduction, TLAPS

In(u, b) == b.addr <= u /\ u < End(b)

Covers(list, u) == \E i \in 1 .. Len(list) : In(u, list[i])

\* Blocks in the order of their addresses, apart from each other and below top.
Good(list, top) ==
  /\ list \in Seq(Block)
  /\ \A i \in 1 .. Len(list) : list[i].size > 0 /\ End(list[i]) <= top
  /\ \A i, j \in 1 .. Len(list) : i < j => End(list[i]) <= list[j].addr

-----------------------------------------------------------------------------
(* Induction, as statements about sets of natural numbers.                  *)

LEMMA Smallest ==
  ASSUME NEW T \in SUBSET Nat, T # {}
  PROVE  \E n \in T : \A m \in T : n <= m
<1> DEFINE R == {p \in Nat \X Nat : p[1] < p[2]}
<1>1. IsWellFoundedOn(R, Nat)
  BY NatLessThanWellFounded DEF OpToRel
<1> HIDE DEF R
<1>2. PICK n \in T : \A m \in T : <<m, n>> \notin R
  BY <1>1, WFMin
<1>3. ASSUME NEW m \in T, m < n PROVE FALSE
  <2>1. <<m, n>> \in R
    BY <1>3 DEF R
  <2>2. QED BY <1>2, <2>1
<1>4. QED BY <1>3

LEMMA Induction ==
  ASSUME NEW T, 0 \in T, \A n \in Nat : n \in T => n + 1 \in T
  PROVE  Nat \subseteq T
<1> SUFFICES ASSUME Nat \ T # {} PROVE FALSE
  OBVIOUS
<1>1. PICK n \in Nat \ T : \A m \in Nat \ T : n <= m
  BY Smallest
<1>2. n # 0 /\ n - 1 \in Nat
  BY <1>1
<1>3. n - 1 \in T
  BY <1>1, <1>2
<1>4. QED
  BY <1>1, <1>2, <1>3

-----------------------------------------------------------------------------
(* The operators on sequences, element by element.                          *)

LEMMA RemoveAtIs ==
  ASSUME NEW S, NEW list \in Seq(S), NEW i \in 1 .. Len(list)
  PROVE  /\ RemoveAt(list, i) \in Seq(S)
         /\ Len(RemoveAt(list, i)) = Len(list) - 1
         /\ \A j \in 1 .. Len(list) - 1 :
              RemoveAt(list, i)[j] = IF j < i THEN list[j] ELSE list[j + 1]
<1> DEFINE a == SubSeq(list, 1, i - 1)
           z == SubSeq(list, i + 1, Len(list))
<1>1. Len(list) \in Nat /\ \A j \in 1 .. Len(list) : list[j] \in S
  OBVIOUS
<1>2. a \in Seq(S) /\ Len(a) = i - 1 /\ \A j \in 1 .. i - 1 : a[j] = list[j]
  BY <1>1, SubSeqProperties
<1>3. /\ z \in Seq(S) /\ Len(z) = Len(list) - i
      /\ \A j \in 1 .. Len(list) - i : z[j] = list[i + j]
  BY <1>1, SubSeqProperties
<1> HIDE DEF a, z
<1>4. /\ a \o z \in Seq(S) /\ Len(a \o z) = Len(a) + Len(z)
      /\ \A j \in 1 .. Len(a) + Len(z) :
           (a \o z)[j] = IF j <= Len(a) THEN a[j] ELSE z[j - Len(a)]
  BY <1>2, <1>3, ConcatProperties
<1>5. ASSUME NEW j \in 1 .. Len(list) - 1
      PROVE  (a \o z)[j] = IF j < i THEN list[j] ELSE list[j + 1]
  <2>1. CASE j < i
    BY <2>1, <1>1, <1>2, <1>3, <1>4
  <2>2. CASE ~(j < i)
    <3>1. j - Len(a) \in 1 .. Len(list) - i /\ i + (j - Len(a)) = j + 1
      BY <2>2, <1>1, <1>2
    <3>2. (a \o z)[j] = z[j - Len(a)]
      BY <2>2, <1>1, <1>2, <1>3, <1>4
    <3>3. QED BY <2>2, <3>1, <3>2, <1>3
  <2>3. QED BY <2>1, <2>2
<1>6. RemoveAt(list, i) = a \o z
  BY DEF RemoveAt, a, z
<1>7. a \o z \in Seq(S) /\ Len(a \o z) = Len(list) - 1
  BY <1>1, <1>2, <1>3, <1>4
<1>8. QED BY <1>5, <1>6, <1>7, Zenon

LEMMA InsertAtIs ==
  ASSUME NEW S, NEW list \in Seq(S), NEW i \in 1 .. Len(list) + 1, NEW e \in S
  PROVE  /\ InsertAt(list, i, e) \in Seq(S)
         /\ Len(InsertAt(list, i, e)) = Len(list) + 1
         /\ \A j \in 1 .. Len(list) + 1 :
              InsertAt(list, i, e)[j] = IF j < i THEN list[j]
                                        ELSE IF j = i THEN e ELSE list[j - 1]
<1> DEFINE a == SubSeq(list, 1, i - 1)
           z == SubSeq(list, i, Len(list))
           ae == a \o <<e>>
<1>1. Len(list) \in Nat /\ \A j \in 1 .. Len(list) : list[j] \in S
  OBVIOUS
<1>2. a \in Seq(S) /\ Len(a) = i - 1 /\ \A j \in 1 .. i - 1 : a[j] = list[j]
  BY <1>1, SubSeqProperties
<1>3. /\ z \in Seq(S) /\ Len(z) = Len(list) - i + 1
      /\ \A j \in 1 .. Len(list) - i + 1 : z[j] = list[i + j - 1]
  BY <1>1, SubSeqProperties
<1> HIDE DEF a, z
<1>4. /\ ae \in Seq(S) /\ Len(ae) = i /\ ae[i] = e
      /\ \A j \in 1 .. i - 1 : ae[j] = list[j]
  <2>1. <<e>> \in Seq(S) /\ Len(<<e>>) = 1 /\ <<e>>[1] = e
    OBVIOUS
  <2>2. /\ ae \in Seq(S) /\ Len(ae) = Len(a) + 1
        /\ \A j \in 1 .. Len(a) + 1 : ae[j] = IF j <= Len(a) THEN a[j] ELSE <<e>>[j - Len(a)]
    BY <2>1, <1>2, ConcatProperties
  <2> HIDE DEF ae
  <2>3. QED BY <2>1, <2>2, <1>1, <1>2
<1> HIDE DEF ae
<1>5. /\ ae \o z \in Seq(S) /\ Len(ae \o z) = Len(ae) + Len(z)
      /\ \A j \in 1 .. Len(ae) + Len(z) :
           (ae \o z)[j] = IF j <= Len(ae) THEN ae[j] ELSE z[j - Len(ae)]
  BY <1>3, <1>4, ConcatProperties
<1>6. ASSUME NEW j \in 1 .. Len(list) + 1
      PROVE  (ae \o z)[j] = IF j < i THEN list[j] ELSE IF j = i THEN e ELSE list[j - 1]
  <2>1. CASE j <= i
    BY <2>1, <1>1, <1>3, <1>4, <1>5
  <2>2. CASE ~(j <= i)
    <3>1. j - Len(ae) \in 1 .. Len(list) - i + 1 /\ i + (j - Len(ae)) - 1 = j - 1
      BY <2>2, <1>1, <1>4
    <3>2. (ae \o z)[j] = z[j - Len(ae)]
      BY <2>2, <1>1, <1>3, <1>4, <1>5
    <3>3. z[j - Len(ae)] = list[i + (j - Len(ae)) - 1]
      BY <3>1, <1>3
    <3>4. (ae \o z)[j] = list[j - 1]
      BY <3>1, <3>2, <3>3
    <3>5. QED BY <2>2, <3>4
  <2>3. QED BY <2>1, <2>2
<1>7. InsertAt(list, i, e) = ae \o z
  BY DEF InsertAt, a, z, ae
<1>8. ae \o z \in Seq(S) /\ Len(ae \o z) = Len(list) + 1
  BY <1>1, <1>3, <1>4, <1>5
<1>9. QED BY <1>6, <1>7, <1>8, Zenon

LEMMA ReplacedIs ==
  ASSUME NEW S, NEW list \in Seq(S), NEW i \in 1 .. Len(list), NEW e \in S
  PROVE  /\ [list EXCEPT ![i] = e] \in Seq(S)
         /\ Len([list EXCEPT ![i] = e]) = Len(list)
         /\ \A j \in 1 .. Len(list) :
              [list EXCEPT ![i] = e][j] = IF j = i THEN e ELSE list[j]
OBVIOUS

-----------------------------------------------------------------------------
(* Blocks, and the facts about a good list that the proofs below use.       *)

LEMMA BlockParts ==
  ASSUME NEW b \in Block
  PROVE  /\ b.addr \in Nat /\ b.size \in Nat /\ End(b) \in Nat
         /\ End(b) = b.addr + b.size + 1
BY DEF Block, End

LEMMA BlockFrom ==
  ASSUME NEW a \in Nat, NEW n \in Nat
  PROVE  LET b == [addr |-> a, size |-> n]
         IN  b \in Block /\ b.addr = a /\ b.size = n /\ End(b) = a + n + 1
BY DEF Block, End

LEMMA GoodParts ==
  ASSUME NEW top, NEW list, Good(list, top)
  PROVE  /\ list \in Seq(Block) /\ Len(list) \in Nat
         /\ \A i \in 1 .. Len(list) :
              /\ list[i] \in Block /\ list[i].addr \in Nat /\ list[i].size \in Nat \ {0}
              /\ End(list[i]) \in Nat /\ End(list[i]) = list[i].addr + list[i].size + 1
              /\ list[i].addr + 1 < End(list[i]) /\ End(list[i]) <= top
         /\ \A i, j \in 1 .. Len(list) : i < j => End(list[i]) <= list[j].addr
<1>1. list \in Seq(Block) /\ Len(list) \in Nat
  BY DEF Good
<1>2. ASSUME NEW i \in 1 .. Len(list)
      PROVE  /\ list[i] \in Block /\ list[i].addr \in Nat /\ list[i].size \in Nat \ {0}
             /\ End(list[i]) \in Nat /\ End(list[i]) = list[i].addr + list[i].size + 1
             /\ list[i].addr + 1 < End(list[i]) /\ End(list[i]) <= top
  <2>1. list[i] \in Block
    BY <1>1
  <2>2. list[i].size > 0 /\ End(list[i]) <= top
    BY DEF Good
  <2>3. QED BY <2>1, <2>2, BlockParts
<1>3. QED BY <1>1, <1>2 DEF Good

LEMMA ServedIs ==
  ASSUME NEW o \in Block, NEW s \in Nat \ {0}, o.size >= s
  PROVE  /\ Served(o, s) \in Block
         /\ Served(o, s).addr = o.addr
         /\ Served(o, s).size = IF o.size >= s + 2 THEN s ELSE o.size
BY DEF Block, Served

\* A block cut in two: what is handed out and what remains.
Remainder(o, s) == [addr |-> o.addr + s + 1, size |-> o.size - s - 1]

LEMMA CutInTwo ==
  ASSUME NEW o \in Block, NEW s \in Nat \ {0}, o.size >= s + 2
  PROVE  /\ Served(o, s) \in Block /\ Remainder(o, s) \in Block
         /\ Served(o, s).addr = o.addr /\ Served(o, s).size = s
         /\ End(Served(o, s)) = Remainder(o, s).addr
         /\ End(Remainder(o, s)) = End(o)
         /\ Remainder(o, s).size > 0
<1> DEFINE b == Served(o, s)
           r == Remainder(o, s)
<1>1. o.addr \in Nat /\ o.size \in Nat
  BY BlockParts
<1>2. b \in Block /\ b.addr = o.addr /\ b.size = s
  BY <1>1, ServedIs
<1>3. r \in Block /\ r.addr = o.addr + s + 1 /\ r.size = o.size - s - 1
  BY <1>1, BlockFrom DEF Remainder
<1> HIDE DEF b, r
<1>4. End(b) = b.addr + b.size + 1 /\ End(r) = r.addr + r.size + 1
      /\ End(o) = o.addr + o.size + 1
  BY <1>2, <1>3, BlockParts
<1>5. QED BY <1>1, <1>2, <1>3, <1>4 DEF b, r

\* What serving s units of block i does: the list that remains and the block
\* handed out are apart, and together they are the list that was.
Split(list, rest, b, top) ==
  /\ Good(rest, top)
  /\ b \in Block /\ b.size > 0 /\ End(b) <= top
  /\ \A u \in Nat : Covers(list, u) <=> Covers(rest, u) \/ In(u, b)
  /\ \A u \in Nat : ~(Covers(rest, u) /\ In(u, b))

LEMMA SplitRest ==
  ASSUME NEW top \in Nat, NEW list, Good(list, top), NEW i \in 1 .. Len(list),
         NEW s \in Nat \ {0}, list[i].size >= s + 2
  PROVE  Split(list, splitBlock(list, i, s), Served(list[i], s), top)
<1> DEFINE rest == splitBlock(list, i, s)
           b    == Served(list[i], s)
           r    == Remainder(list[i], s)
           n    == Len(list)
<1>1. list[i] \in Block /\ list[i].addr \in Nat /\ End(list[i]) \in Nat
      /\ list \in Seq(Block) /\ n \in Nat
  BY GoodParts
<1>2. /\ b \in Block /\ r \in Block /\ b.addr = list[i].addr /\ b.size = s
      /\ End(b) = r.addr /\ End(r) = End(list[i]) /\ r.size > 0
  BY <1>1, CutInTwo
<1>3. rest = [list EXCEPT ![i] = r]
  BY <1>1 DEF splitBlock, ReplaceAt, Remainder
<1> HIDE DEF rest, b, r
<1>4. rest \in Seq(Block) /\ Len(rest) = n
      /\ \A j \in 1 .. n : rest[j] = IF j = i THEN r ELSE list[j]
  BY <1>1, <1>2, <1>3, ReplacedIs
<1>5. b.addr \in Nat /\ End(b) \in Nat
  BY <1>2, BlockParts
<1>6. /\ b.size \in Nat /\ End(b) = b.addr + b.size + 1
      /\ r.addr \in Nat /\ r.size \in Nat /\ End(r) \in Nat /\ End(r) = r.addr + r.size + 1
  BY <1>2, BlockParts
<1>7. /\ b.addr \in Nat /\ End(b) \in Nat /\ b.addr = list[i].addr
      /\ r.addr \in Nat /\ End(r) \in Nat /\ r.addr = End(b) /\ End(r) = End(list[i])
      /\ r.size > 0 /\ list[i].addr < r.addr /\ r.addr < End(r)
  <2>1. \A p, q \in Nat : p < p + q + 1
    OBVIOUS
  <2>2. r.addr < End(r)
    BY <1>6, <2>1
  <2>3. b.addr < End(b)
    BY <1>5, <1>6, <2>1
  <2>4. list[i].addr < r.addr
    BY <2>3, <1>2
  <2>5. QED BY <1>2, <1>5, <1>6, <2>2, <2>4
<1> HIDE DEF n
<1>8. \A j \in 1 .. n : list[j].addr \in Nat /\ End(list[j]) \in Nat /\ list[j].size > 0
                        /\ End(list[j]) <= top
  BY GoodParts DEF n
<1>9. \A j, k \in 1 .. n : j < k => End(list[j]) <= list[k].addr
  BY GoodParts DEF n
<1>10. Good(rest, top)
  <2>1. ASSUME NEW j \in 1 .. n PROVE rest[j].size > 0 /\ End(rest[j]) <= top
    BY <1>4, <1>7, <1>8
  <2>2. ASSUME NEW j \in 1 .. n, NEW k \in 1 .. n, j < k
        PROVE  End(rest[j]) <= rest[k].addr
    <3>1. End(rest[j]) = End(list[j])
      BY <1>4, <1>7
    <3>2. list[k].addr <= rest[k].addr
      <4>1. CASE k = i
        <5>1. rest[k] = r
          BY <4>1, <1>4
        <5>2. QED BY <4>1, <5>1, <1>1, <1>7
      <4>2. CASE k # i
        BY <4>2, <1>4, <1>8
      <4>3. QED BY <4>1, <4>2
    <3>3. End(list[j]) <= list[k].addr
      BY <1>9, <2>2
    <3>4. rest[k].addr \in Nat
      BY <1>4, <1>7, <1>8
    <3>5. QED BY <3>1, <3>2, <3>3, <3>4, <1>8
  <2>3. QED BY <1>4, <2>1, <2>2 DEF Good
<1>11. i \in 1 .. n
  BY DEF n
<1>12. ASSUME NEW u \in Nat PROVE Covers(list, u) <=> Covers(rest, u) \/ In(u, b)
  <2>1. In(u, list[i]) <=> In(u, r) \/ In(u, b)
    BY <1>1, <1>2, <1>7, <1>8, <1>11 DEF In
  <2>2. \A j \in 1 .. n : j # i => (In(u, rest[j]) <=> In(u, list[j]))
    BY <1>4
  <2>3. rest[i] = r
    BY <1>4, <1>11
  <2>4. QED BY <1>4, <1>11, <2>1, <2>2, <2>3 DEF Covers, n
<1>13. ASSUME NEW u \in Nat, In(u, b), NEW j \in 1 .. n, In(u, rest[j]) PROVE FALSE
  <2>1. list[i].addr <= u /\ u < End(b) /\ u < End(list[i])
    BY <1>13, <1>1, <1>2, <1>7 DEF In
  <2>2. CASE j = i
    BY <1>13, <2>1, <2>2, <1>4, <1>7 DEF In
  <2>3. CASE j # i
    <3>1. rest[j] = list[j]
      BY <2>3, <1>4
    <3>2. list[j].addr <= u /\ u < End(list[j])
      BY <1>13, <3>1 DEF In
    <3>3. End(list[i]) <= list[j].addr \/ End(list[j]) <= list[i].addr
      BY <2>3, <1>9, <1>11
    <3>4. /\ list[j].addr \in Nat /\ End(list[j]) \in Nat
          /\ list[i].addr \in Nat /\ End(list[i]) \in Nat
      BY <1>8, <1>11
    <3>5. u \in Int
      BY <1>13
    <3>6. End(list[i]) \in Int /\ u < End(list[i])
      BY <2>1, <3>4
    <3>7. CASE End(list[i]) <= list[j].addr
      BY <3>2, <3>4, <3>5, <3>6, <3>7
    <3>8. CASE End(list[j]) <= list[i].addr
      BY <2>1, <3>2, <3>4, <3>5, <3>8
    <3>9. QED BY <3>3, <3>7, <3>8
  <2>4. QED BY <2>2, <2>3
<1>14. b.size > 0 /\ End(b) <= top
  BY <1>2, <1>7, <1>8, <1>11
<1>15. QED
  BY <1>2, <1>4, <1>10, <1>12, <1>13, <1>14 DEF Split, Covers, rest, b

LEMMA SplitWhole ==
  ASSUME NEW top \in Nat, NEW list, Good(list, top), NEW i \in 1 .. Len(list),
         NEW s \in Nat \ {0}, list[i].size >= s, ~(list[i].size >= s + 2)
  PROVE  Split(list, splitBlock(list, i, s), Served(list[i], s), top)
<1> DEFINE rest == splitBlock(list, i, s)
           b    == Served(list[i], s)
           n    == Len(list)
<1>1. list[i] \in Block /\ list[i].addr \in Nat /\ list[i].size \in Nat
      /\ End(list[i]) = list[i].addr + list[i].size + 1 /\ list \in Seq(Block) /\ n \in Nat
  BY GoodParts
<1>2. b \in Block /\ b.addr = list[i].addr /\ b.size = list[i].size
  BY <1>1, ServedIs
<1>3. rest = RemoveAt(list, i)
  BY DEF splitBlock
<1> HIDE DEF rest, b
<1>4. rest \in Seq(Block) /\ Len(rest) = n - 1
      /\ \A j \in 1 .. n - 1 : rest[j] = IF j < i THEN list[j] ELSE list[j + 1]
  BY <1>1, <1>3, RemoveAtIs
<1>5. b.addr = list[i].addr /\ End(b) = End(list[i])
  BY <1>1, <1>2, BlockParts
<1>6. i \in 1 .. n
  OBVIOUS
<1> HIDE DEF n
<1>7. \A j \in 1 .. n : list[j].addr \in Nat /\ End(list[j]) \in Nat /\ list[j].size > 0
                          /\ End(list[j]) <= top
  BY GoodParts, SMTT(30) DEF n
<1>8. \A j, k \in 1 .. n : j < k => End(list[j]) <= list[k].addr
  BY GoodParts DEF n
<1>9. /\ \A j \in 1 .. n : list[j].addr \in Nat /\ End(list[j]) \in Nat /\ list[j].size > 0
                           /\ End(list[j]) <= top
      /\ \A j, k \in 1 .. n : j < k => End(list[j]) <= list[k].addr
  BY <1>7, <1>8
<1>10. ASSUME NEW j \in 1 .. n - 1
      PROVE  \E k \in 1 .. n : k # i /\ rest[j] = list[k] /\ k = IF j < i THEN j ELSE j + 1
  <2>1. CASE j < i
    <3>1. j \in 1 .. n /\ j # i /\ rest[j] = list[j]
      BY <2>1, <1>1, <1>4, <1>6
    <3>2. QED BY <2>1, <3>1
  <2>2. CASE ~(j < i)
    <3>1. j + 1 \in 1 .. n /\ j + 1 # i /\ rest[j] = list[j + 1]
      BY <2>2, <1>1, <1>4, <1>6
    <3>2. QED BY <2>2, <3>1
  <2>3. QED BY <2>1, <2>2
<1>11. ASSUME NEW k \in 1 .. n, k # i PROVE \E j \in 1 .. n - 1 : rest[j] = list[k]
  <2>1. CASE k < i
    <3>1. k \in 1 .. n - 1 /\ rest[k] = list[k]
      BY <2>1, <1>1, <1>4, <1>6
    <3>2. QED BY <3>1
  <2>2. CASE ~(k < i)
    <3>1. k - 1 \in 1 .. n - 1 /\ ~(k - 1 < i) /\ (k - 1) + 1 = k
      BY <2>2, <1>11, <1>1, <1>6
    <3>2. rest[k - 1] = list[(k - 1) + 1]
      BY <3>1, <1>4
    <3>3. rest[k - 1] = list[k]
      BY <3>1, <3>2
    <3>4. QED BY <3>1, <3>3
  <2>3. QED BY <2>1, <2>2
<1>12. Good(rest, top)
  <2>1. ASSUME NEW j \in 1 .. n - 1 PROVE rest[j].size > 0 /\ End(rest[j]) <= top
    BY <1>10, <1>9
  <2>2. ASSUME NEW j \in 1 .. n - 1, NEW k \in 1 .. n - 1, j < k
        PROVE  End(rest[j]) <= rest[k].addr
    <3>1. PICK jj \in 1 .. n : rest[j] = list[jj] /\ jj = IF j < i THEN j ELSE j + 1
      BY <1>10
    <3>2. PICK kk \in 1 .. n : rest[k] = list[kk] /\ kk = IF k < i THEN k ELSE k + 1
      BY <1>10
    <3>3. jj < kk
      BY <2>2, <3>1, <3>2, <1>6
    <3>4. QED BY <3>1, <3>2, <3>3, <1>9
  <2>3. QED BY <1>4, <2>1, <2>2 DEF Good
<1>13. ASSUME NEW u \in Nat PROVE In(u, list[i]) <=> In(u, b)
  BY <1>5 DEF In
<1>14. ASSUME NEW u \in Nat PROVE Covers(list, u) <=> Covers(rest, u) \/ In(u, b)
  BY <1>4, <1>6, <1>10, <1>11, <1>13 DEF Covers, n
<1>15. ASSUME NEW u \in Nat, In(u, b), NEW j \in 1 .. n - 1, In(u, rest[j]) PROVE FALSE
  <2>1. list[i].addr <= u /\ u < End(list[i])
    BY <1>15, <1>13 DEF In
  <2>2. PICK k \in 1 .. n : k # i /\ rest[j] = list[k]
    BY <1>10
  <2>3. list[k].addr <= u /\ u < End(list[k])
    BY <1>15, <2>2 DEF In
  <2>4. CASE k < i
    BY <2>1, <2>3, <2>4, <1>9, <1>6
  <2>5. CASE i < k
    BY <2>1, <2>3, <2>5, <1>9, <1>6
  <2>6. QED BY <2>2, <2>4, <2>5, <1>6
<1>16. b.size > 0 /\ End(b) <= top
  BY <1>2, <1>5, <1>9, <1>6
<1>17. QED
  BY <1>2, <1>4, <1>12, <1>14, <1>15, <1>16 DEF Split, Covers, rest, b

\* splitBlock and what malloc returns, for any block that is large enough.
LEMMA SplitIs ==
  ASSUME NEW top \in Nat, NEW list, Good(list, top), NEW i \in 1 .. Len(list),
         NEW s \in Nat \ {0}, list[i].size >= s
  PROVE  Split(list, splitBlock(list, i, s), Served(list[i], s), top)
BY SplitRest, SplitWhole

-----------------------------------------------------------------------------
(* getFreeBlock, and the batch taken when it finds nothing.                 *)

LEMMA FirstFitIs ==
  ASSUME NEW s \in Nat, freeList \in Seq(Block), Fits(s) # {}
  PROVE  FirstFit(s) \in 1 .. Len(freeList) /\ freeList[FirstFit(s)].size >= s
<1>1. Fits(s) \subseteq 1 .. Len(freeList) /\ Fits(s) \in SUBSET Nat
  BY DEF Fits
<1>2. \E i \in Fits(s) : \A j \in Fits(s) : i <= j
  BY <1>1, Smallest
<1>3. FirstFit(s) \in Fits(s)
  BY <1>2 DEF FirstFit
<1>4. QED BY <1>1, <1>3 DEF Fits

LEMMA PageFacts ==
  ASSUME NEW P \in Nat \ {0}, NEW n \in Nat \ {0}
  PROVE  LET q == (n + P - 1) \div P
         IN  q \in Nat /\ q * P \in Nat /\ q * P >= n
OBVIOUS

LEMMA PagesIs ==
  ASSUME NEW n \in Nat \ {0}
  PROVE  /\ Pages(n) \in Nat /\ Pages(n) * PageUnits \in Nat
         /\ Pages(n) * PageUnits >= n
BY HeapAssumption, PageFacts DEF Pages

\* More pages behind a list: it is good again, has grown by those cells, and its
\* last block is large enough.
Grown(list, more, top, t, s) ==
  /\ Good(more, t) /\ more # <<>>
  /\ more[Len(more)].size >= s
  /\ \A u \in Nat : Covers(more, u) <=> Covers(list, u) \/ (top <= u /\ u < t)

Longer(o, m) == [o EXCEPT !.size = @ + m]

LEMMA LongerIs ==
  ASSUME NEW o \in Block, NEW m \in Nat
  PROVE  /\ Longer(o, m) \in Block
         /\ Longer(o, m).addr = o.addr /\ Longer(o, m).size = o.size + m
         /\ End(Longer(o, m)) = End(o) + m
BY DEF Block, End, Longer

LEMMA AppendGood ==
  ASSUME NEW list, NEW top \in Nat, Good(list, top),
         NEW b \in Block, b.size > 0, top <= b.addr, NEW t \in Nat, t = End(b)
  PROVE  /\ Good(Append(list, b), t)
         /\ Append(list, b)[Len(Append(list, b))] = b /\ Append(list, b) # <<>>
         /\ \A u \in Nat : Covers(Append(list, b), u) <=> Covers(list, u) \/ In(u, b)
<1> DEFINE n == Len(list)
           more == Append(list, b)
<1>1. list \in Seq(Block) /\ n \in Nat
  BY GoodParts
<1>2. /\ more \in Seq(Block) /\ Len(more) = n + 1 /\ more[n + 1] = b /\ more # <<>>
      /\ \A i \in 1 .. n : more[i] = list[i]
  BY <1>1, AppendProperties
<1> HIDE DEF more, n
<1>3. /\ \A j \in 1 .. n : list[j].addr \in Nat /\ End(list[j]) \in Nat /\ list[j].size > 0
                           /\ End(list[j]) <= top
  BY GoodParts DEF n
<1>4. \A j, k \in 1 .. n : j < k => End(list[j]) <= list[k].addr
  BY GoodParts DEF n
<1>5. b.addr \in Nat /\ b.addr < t
  BY BlockParts
<1>6. ASSUME NEW j \in 1 .. n + 1 PROVE more[j].size > 0 /\ End(more[j]) <= t
  <2>1. CASE j = n + 1
    BY <2>1, <1>2, <1>5
  <2>2. CASE j # n + 1
    <3>1. j \in 1 .. n
      BY <2>2, <1>1
    <3>2. QED BY <3>1, <1>2, <1>3, <1>5
  <2>3. QED BY <2>1, <2>2
<1>7. ASSUME NEW j \in 1 .. n + 1, NEW k \in 1 .. n + 1, j < k
      PROVE  End(more[j]) <= more[k].addr
  <2>1. j \in 1 .. n /\ more[j] = list[j]
    BY <1>7, <1>1, <1>2
  <2>2. CASE k = n + 1
    BY <2>1, <2>2, <1>2, <1>3, <1>5
  <2>3. CASE k # n + 1
    <3>1. k \in 1 .. n /\ more[k] = list[k]
      BY <2>3, <1>1, <1>2
    <3>2. QED BY <3>1, <2>1, <1>7, <1>4
  <2>4. QED BY <2>2, <2>3
<1>8. ASSUME NEW u \in Nat PROVE Covers(more, u) <=> Covers(list, u) \/ In(u, b)
  <2>1. ASSUME NEW j \in 1 .. n + 1, In(u, more[j]) PROVE Covers(list, u) \/ In(u, b)
    <3>1. CASE j = n + 1
      BY <2>1, <3>1, <1>2
    <3>2. CASE j # n + 1
      <4>1. j \in 1 .. n /\ more[j] = list[j]
        BY <3>2, <1>1, <1>2
      <4>2. QED BY <2>1, <4>1 DEF Covers, n
    <3>3. QED BY <3>1, <3>2
  <2>2. \A j \in 1 .. n : j \in 1 .. n + 1 /\ more[j] = list[j]
    BY <1>1, <1>2
  <2>3. n + 1 \in 1 .. n + 1
    BY <1>1
  <2>4. QED BY <2>1, <2>2, <2>3, <1>2 DEF Covers, n
<1>9. QED BY <1>2, <1>6, <1>7, <1>8 DEF Good, more, n

Widened(list, m) == [list EXCEPT ![Len(list)] = Longer(list[Len(list)], m)]

LEMMA WidenedIs ==
  ASSUME NEW list \in Seq(Block), list # <<>>, NEW m \in Nat
  PROVE  /\ Widened(list, m) \in Seq(Block) /\ Widened(list, m) # <<>>
         /\ Len(Widened(list, m)) = Len(list)
         /\ Widened(list, m)[Len(list)] = Longer(list[Len(list)], m)
         /\ \A j \in 1 .. Len(list) : j # Len(list) => Widened(list, m)[j] = list[j]
<1> DEFINE i == Len(list)
           more == Widened(list, m)
<1>1. i \in Nat /\ i \in 1 .. i /\ list[i] \in Block
  BY EmptySeq
<1>2. Longer(list[i], m) \in Block
  BY <1>1, LongerIs
<1>3. /\ more \in Seq(Block) /\ Len(more) = i
      /\ \A j \in 1 .. i : more[j] = IF j = i THEN Longer(list[i], m) ELSE list[j]
  BY <1>1, <1>2, ReplacedIs DEF Widened
<1> HIDE DEF more
<1>4. more # <<>>
  BY <1>1, <1>3, EmptySeq
<1>5. QED BY <1>1, <1>3, <1>4 DEF more

LEMMA WidenLast ==
  ASSUME NEW list, NEW m \in Nat, list # <<>>, End(list[Len(list)]) \in Nat,
         Good(list, End(list[Len(list)]))
  PROVE  /\ Good(Widened(list, m), End(list[Len(list)]) + m)
         /\ \A u \in Nat : Covers(Widened(list, m), u) <=>
                 \/ Covers(list, u)
                 \/ End(list[Len(list)]) <= u /\ u < End(list[Len(list)]) + m
<1> DEFINE i    == Len(list)
           top  == End(list[i])
           t    == top + m
           more == Widened(list, m)
           b    == Longer(list[i], m)
<1>1. /\ top \in Nat /\ Good(list, top) /\ i = Len(list) /\ End(list[i]) = top
      /\ more = Widened(list, m)
  OBVIOUS
<1>2. t \in Nat /\ t = top + m
  BY <1>1
<1> SUFFICES /\ Good(more, t)
             /\ \A u \in Nat : Covers(more, u) <=> Covers(list, u) \/ (top <= u /\ u < t)
  OBVIOUS
<1> HIDE DEF i, top, t, more
<1>3. list \in Seq(Block) /\ i \in Nat /\ i \in 1 .. i
  BY <1>1, GoodParts, EmptySeq
<1>4. /\ list[i] \in Block /\ list[i].addr \in Nat /\ list[i].addr < top
      /\ list[i].size \in Nat /\ list[i].size > 0
  BY <1>1, <1>3, GoodParts
<1>5. b \in Block /\ b.addr = list[i].addr /\ b.size = list[i].size + m /\ End(b) = t
  BY <1>1, <1>2, <1>4, LongerIs
<1>6. /\ more \in Seq(Block) /\ Len(more) = i /\ more[i] = b
      /\ \A j \in 1 .. i : j # i => more[j] = list[j]
  BY <1>1, <1>3, WidenedIs
<1> HIDE DEF b
<1>7. \A j \in 1 .. i : list[j].addr \in Nat /\ End(list[j]) \in Nat /\ list[j].size > 0
                        /\ End(list[j]) <= top
  BY <1>1, GoodParts
<1>8. \A j, k \in 1 .. i : j < k => End(list[j]) <= list[k].addr
  BY <1>1, GoodParts
<1>9. ASSUME NEW j \in 1 .. i PROVE more[j].size > 0 /\ End(more[j]) <= t
  <2>1. CASE j = i
    BY <2>1, <1>2, <1>4, <1>5, <1>6
  <2>2. CASE j # i
    BY <2>2, <1>1, <1>2, <1>6, <1>7
  <2>3. QED BY <2>1, <2>2
<1>10. ASSUME NEW j \in 1 .. i, NEW k \in 1 .. i, j < k PROVE End(more[j]) <= more[k].addr
  <2>1. j # i /\ more[j] = list[j]
    BY <1>3, <1>6, <1>10
  <2>2. more[k].addr = list[k].addr
    BY <1>5, <1>6
  <2>3. QED BY <2>1, <2>2, <1>8, <1>10
<1>11. ASSUME NEW u \in Nat
       PROVE  Covers(more, u) <=> Covers(list, u) \/ (top <= u /\ u < t)
  <2>1. In(u, b) <=> In(u, list[i]) \/ (top <= u /\ u < t)
    BY <1>1, <1>2, <1>4, <1>5 DEF In
  <2>2. QED BY <1>1, <1>3, <1>6, <2>1 DEF Covers
<1>12. Good(more, t)
  BY <1>6, <1>9, <1>10 DEF Good
<1>13. QED BY <1>11, <1>12

LEMMA ExtendedIs ==
  ASSUME brk \in Nat, Good(freeList, brk), NEW s \in Nat \ {0}, Fits(s) = {}
  PROVE  /\ Batch(s) \in Nat /\ Batch(s) * PageUnits \in Nat
         /\ Grown(freeList, Extended(s), brk, brk + Batch(s) * PageUnits, s)
<1> DEFINE n == Len(freeList)
<1>1. freeList \in Seq(Block) /\ n \in Nat
  BY GoodParts
<1>2. CASE freeList # <<>> /\ isConnectedToSbrk(Last(freeList))
  <2>1. n \in 1 .. n /\ n # 0
    BY <1>1, <1>2, EmptySeq
  <2>2. freeList[n] \in Block /\ freeList[n].size \in Nat /\ Last(freeList) = freeList[n]
    BY <2>1, GoodParts DEF Last
  <2>3. ~(freeList[n].size >= s)
    BY <1>1, <2>1 DEF Fits
  <2>4. s - freeList[n].size \in Nat \ {0}
    BY <2>2, <2>3
  <2>5. Batch(s) = Pages(s - freeList[n].size)
    BY <1>2, <2>2 DEF Batch
  <2> DEFINE m == Batch(s) * PageUnits
  <2>6. Batch(s) \in Nat /\ m \in Nat /\ m >= s - freeList[n].size
    BY <2>4, <2>5, PagesIs
  <2>7. Extended(s) = Widened(freeList, m)
    BY <1>2, <2>1, <2>2, <1>1 DEF Extended, Longer, Widened
  <2>8. End(freeList[n]) = brk
    BY <1>2, <2>2 DEF isConnectedToSbrk
  <2> HIDE DEF m
  <2> DEFINE t == brk + m
  <2>9. t \in Nat /\ t = brk + m
    BY <2>6
  <2> HIDE DEF t
  <2>10. /\ Good(Extended(s), t)
         /\ \A u \in Nat : Covers(Extended(s), u) <=>
                              Covers(freeList, u) \/ (brk <= u /\ u < t)
    <3>1. /\ End(freeList[Len(freeList)]) = brk /\ Good(freeList, brk) /\ brk \in Nat
          /\ freeList # <<>> /\ m \in Nat
      BY <1>2, <2>6, <2>8
    <3>2. /\ Good(Widened(freeList, m), brk + m)
          /\ \A u \in Nat : Covers(Widened(freeList, m), u) <=>
                               Covers(freeList, u) \/ (brk <= u /\ u < brk + m)
      BY <3>1, WidenLast
    <3>3. QED BY <3>2, <2>7, <2>9
  <2>11. /\ Extended(s) # <<>> /\ Len(Extended(s)) = n
         /\ Extended(s)[n] = Longer(freeList[n], m)
    BY <1>1, <1>2, <2>6, <2>7, WidenedIs
  <2>12. Longer(freeList[n], m).size >= s
    <3>1. Longer(freeList[n], m).size = freeList[n].size + m
      BY <2>2, <2>6, LongerIs
    <3>2. freeList[n].size + m >= s
      BY <2>2, <2>6
    <3>3. QED BY <3>1, <3>2
  <2>13. QED BY <2>6, <2>9, <2>10, <2>11, <2>12 DEF Grown, m
<1>3. CASE ~(freeList # <<>> /\ isConnectedToSbrk(Last(freeList)))
  <2> DEFINE m == Batch(s) * PageUnits
             b == [addr |-> brk, size |-> m - 1]
  <2>1. Batch(s) = Pages(s + 1)
    BY <1>3 DEF Batch
  <2>2. Batch(s) \in Nat /\ m \in Nat /\ m >= s + 1
    BY <2>1, PagesIs
  <2>3. Extended(s) = Append(freeList, b)
    BY <1>3 DEF Extended
  <2> HIDE DEF m
  <2>4. m - 1 \in Nat /\ m - 1 >= s /\ m - 1 > 0
    BY <2>2
  <2>5. b \in Block /\ b.addr = brk /\ b.size = m - 1 /\ End(b) = brk + m
    BY <2>2, <2>4, BlockFrom
  <2> HIDE DEF b
  <2>6. /\ Good(Extended(s), brk + m) /\ Extended(s) # <<>>
        /\ Extended(s)[Len(Extended(s))] = b
        /\ \A u \in Nat : Covers(Extended(s), u) <=> Covers(freeList, u) \/ In(u, b)
    BY <2>2, <2>3, <2>4, <2>5, AppendGood
  <2>7. \A u \in Nat : In(u, b) <=> brk <= u /\ u < brk + m
    BY <2>5 DEF In
  <2>8. QED BY <2>2, <2>4, <2>5, <2>6, <2>7 DEF Grown, m
<1>4. QED BY <1>2, <1>3

-----------------------------------------------------------------------------
(* The sorted insertion of free.                                            *)

LEMMA ApartMeansBefore ==
  ASSUME NEW a \in Block, NEW b \in Block, \A u \in Nat : ~(In(u, a) /\ In(u, b))
  PROVE  End(a) <= b.addr \/ End(b) <= a.addr
<1>1. /\ a.addr \in Nat /\ End(a) \in Nat /\ a.addr < End(a)
      /\ b.addr \in Nat /\ End(b) \in Nat /\ b.addr < End(b)
  BY BlockParts
<1>2. ~(In(a.addr, a) /\ In(a.addr, b)) /\ ~(In(b.addr, a) /\ In(b.addr, b))
  BY <1>1
<1>3. QED BY <1>1, <1>2 DEF In

\* r is the list with b at position p, behind all that lies below b.
Linked(list, b, p, r) ==
  /\ p \in 1 .. Len(list) + 1
  /\ r \in Seq(Block) /\ Len(r) = Len(list) + 1
  /\ \A j \in 1 .. Len(list) + 1 :
       r[j] = IF j < p THEN list[j] ELSE IF j = p THEN b ELSE list[j - 1]
  /\ \A j \in 1 .. Len(list) : j < p => End(list[j]) <= b.addr
  /\ \A j \in 1 .. Len(list) : p <= j => End(b) <= list[j].addr

LEMMA LinkedIsGood ==
  ASSUME NEW top \in Nat, NEW list, Good(list, top),
         NEW b \in Block, b.size > 0, End(b) <= top, NEW p, NEW r, Linked(list, b, p, r)
  PROVE  /\ Good(r, top) /\ r # <<>>
         /\ \A u \in Nat : Covers(r, u) <=> Covers(list, u) \/ In(u, b)
<1> DEFINE n == Len(list)
<1>1. list \in Seq(Block) /\ n \in Nat
  BY GoodParts
<1>2. /\ p \in 1 .. n + 1 /\ r \in Seq(Block) /\ Len(r) = n + 1
      /\ \A j \in 1 .. n + 1 : r[j] = IF j < p THEN list[j] ELSE IF j = p THEN b ELSE list[j - 1]
  BY DEF Linked
<1>3. /\ \A j \in 1 .. n : j < p => End(list[j]) <= b.addr
      /\ \A j \in 1 .. n : p <= j => End(b) <= list[j].addr
  BY DEF Linked
<1> HIDE DEF n
<1>4. \A j \in 1 .. n : list[j].addr \in Nat /\ End(list[j]) \in Nat /\ list[j].size > 0
                        /\ End(list[j]) <= top
  BY GoodParts DEF n
<1>5. \A j, k \in 1 .. n : j < k => End(list[j]) <= list[k].addr
  BY GoodParts DEF n
<1>6. b.addr \in Nat /\ End(b) \in Nat
  BY BlockParts
<1>7. ASSUME NEW j \in 1 .. n + 1
      PROVE  \/ j < p /\ j \in 1 .. n /\ r[j] = list[j]
             \/ j = p /\ r[j] = b
             \/ p < j /\ j - 1 \in 1 .. n /\ p <= j - 1 /\ r[j] = list[j - 1]
  BY <1>1, <1>2
<1>8. ASSUME NEW j \in 1 .. n + 1 PROVE r[j].size > 0 /\ End(r[j]) <= top
  BY <1>4, <1>7
<1>9. ASSUME NEW j \in 1 .. n + 1, NEW k \in 1 .. n + 1, j < k
      PROVE  End(r[j]) <= r[k].addr
  <2>1. CASE j < p
    <3>1. j \in 1 .. n /\ r[j] = list[j] /\ End(list[j]) <= b.addr
      BY <2>1, <1>7, <1>3, <1>2
    <3>2. CASE k < p
      BY <3>1, <3>2, <1>7, <1>9, <1>2, <1>5
    <3>3. CASE k = p
      BY <3>1, <3>3, <1>7, <1>2
    <3>4. CASE p < k
      <4>1. k - 1 \in 1 .. n /\ r[k] = list[k - 1] /\ j < k - 1
        BY <3>4, <2>1, <1>7, <1>2
      <4>2. QED BY <4>1, <3>1, <1>5
    <3>5. QED BY <3>2, <3>3, <3>4, <1>2
  <2>2. CASE j = p
    <3>1. k - 1 \in 1 .. n /\ p <= k - 1 /\ r[k] = list[k - 1] /\ r[j] = b
      BY <2>2, <1>9, <1>7, <1>2
    <3>2. QED BY <3>1, <1>3
  <2>3. CASE p < j
    <3>1. j - 1 \in 1 .. n /\ r[j] = list[j - 1]
      BY <2>3, <1>7, <1>2
    <3>2. k - 1 \in 1 .. n /\ r[k] = list[k - 1] /\ j - 1 < k - 1
      BY <2>3, <1>9, <1>7, <1>2
    <3>3. QED BY <3>1, <3>2, <1>5
  <2>4. QED BY <2>1, <2>2, <2>3, <1>2
<1>10. Good(r, top)
  BY <1>2, <1>8, <1>9 DEF Good
<1>11. ASSUME NEW u \in Nat, Covers(r, u) PROVE Covers(list, u) \/ In(u, b)
  <2>1. PICK j \in 1 .. n + 1 : In(u, r[j])
    BY <1>11, <1>2 DEF Covers
  <2>2. QED BY <2>1, <1>7 DEF Covers, n
<1>12. ASSUME NEW u \in Nat, Covers(list, u) PROVE Covers(r, u)
  <2>1. PICK j \in 1 .. n : In(u, list[j])
    BY <1>12 DEF Covers, n
  <2>2. CASE j < p
    <3>1. j \in 1 .. n + 1 /\ r[j] = list[j]
      BY <2>2, <1>1, <1>2
    <3>2. QED BY <3>1, <2>1, <1>2 DEF Covers
  <2>3. CASE ~(j < p)
    <3>1. j + 1 \in 1 .. n + 1 /\ p < j + 1 /\ (j + 1) - 1 = j
      BY <2>3, <1>1, <1>2
    <3>2. r[j + 1] = list[j]
      BY <3>1, <1>7, <1>2
    <3>3. QED BY <3>1, <3>2, <2>1, <1>2 DEF Covers
  <2>4. QED BY <2>2, <2>3
<1>13. ASSUME NEW u \in Nat, In(u, b) PROVE Covers(r, u)
  BY <1>13, <1>2, <1>7 DEF Covers
<1>14. r # <<>>
  BY <1>1, <1>2, EmptySeq
<1>15. QED BY <1>10, <1>11, <1>12, <1>13, <1>14

\* The walk ends: there is a first block with no successor below b.
LEMMA WalkedIs ==
  ASSUME NEW top, Good(freeList, top), freeList # <<>>, NEW b \in Block
  PROVE  /\ Walked(b) \in 1 .. Len(freeList)
         /\ \A j \in 2 .. Walked(b) : freeList[j].addr < b.addr
         /\ Walked(b) < Len(freeList) => freeList[Walked(b) + 1].addr >= b.addr
<1> DEFINE n == Len(freeList)
           T == {k \in 1 .. n : k < n => freeList[k + 1].addr >= b.addr}
<1>1. freeList \in Seq(Block) /\ n \in Nat /\ n # 0 /\ DOMAIN freeList = 1 .. n
  BY GoodParts, EmptySeq
<1> HIDE DEF n
<1>2. n \in T /\ T \in SUBSET Nat
  BY <1>1
<1>3. PICK k \in T : \A m \in T : k <= m
  BY <1>2, Smallest
<1>4. k \in 1 .. n /\ (k < n => freeList[k + 1].addr >= b.addr)
  BY <1>3
<1>5. ASSUME NEW j \in 2 .. k PROVE freeList[j].addr < b.addr
  <2>1. j - 1 \in 1 .. n /\ j - 1 < n /\ (j - 1) + 1 = j /\ j \in 1 .. n /\ ~(k <= j - 1)
    BY <1>1, <1>4
  <2>2. j - 1 \notin T
    BY <2>1, <1>3
  <2>3. ~(freeList[j].addr >= b.addr)
    BY <2>1, <2>2
  <2>4. freeList[j].addr \in Nat /\ b.addr \in Nat
    BY <2>1, GoodParts, BlockParts DEF n
  <2>5. QED BY <2>3, <2>4
<1>6. \E w \in DOMAIN freeList : /\ \A j \in 2 .. w : freeList[j].addr < b.addr
                                 /\ w < Len(freeList) => freeList[w + 1].addr >= b.addr
  BY <1>1, <1>4, <1>5 DEF n
<1>7. QED BY <1>1, <1>6 DEF Walked, n

LEMMA InsertedIs ==
  ASSUME NEW top \in Nat, Good(freeList, top), NEW b \in Block, b.size > 0, End(b) <= top,
         \A u \in Nat : ~(Covers(freeList, u) /\ In(u, b))
  PROVE  /\ Good(Inserted(b), top) /\ Inserted(b) # <<>>
         /\ \A u \in Nat : Covers(Inserted(b), u) <=> Covers(freeList, u) \/ In(u, b)
<1> DEFINE n == Len(freeList)
<1>1. freeList \in Seq(Block) /\ n \in Nat
  BY GoodParts
<1>2. b.addr \in Nat /\ End(b) \in Nat /\ b.addr < End(b)
  BY BlockParts
<1>3. \A j \in 1 .. n : freeList[j] \in Block
  BY <1>1
<1>4. \A j \in 1 .. n : \A u \in Nat : ~(In(u, freeList[j]) /\ In(u, b))
  BY DEF Covers
<1> HIDE DEF n
<1>5. \A j \in 1 .. n : End(freeList[j]) <= b.addr \/ End(b) <= freeList[j].addr
  BY <1>3, <1>4, ApartMeansBefore
<1>6. \A j \in 1 .. n : /\ freeList[j].addr \in Nat /\ End(freeList[j]) \in Nat
                        /\ freeList[j].addr < End(freeList[j])
  BY <1>3, BlockParts
<1>7. \A j, k \in 1 .. n : j < k => End(freeList[j]) <= freeList[k].addr
  BY GoodParts DEF n
<1>8. CASE freeList = <<>> \/ freeList[Walked(b)].addr > b.addr
  <2> DEFINE r == <<b>> \o freeList
  <2>1. Inserted(b) = r
    BY <1>8 DEF Inserted
  <2>2. r \in Seq(Block) /\ Len(r) = n + 1
        /\ \A j \in 1 .. n + 1 : r[j] = IF j <= 1 THEN <<b>>[j] ELSE freeList[j - 1]
    <3>1. <<b>> \in Seq(Block) /\ Len(<<b>>) = 1
      OBVIOUS
    <3>2. QED BY <3>1, <1>1, ConcatProperties DEF n
  <2> HIDE DEF r
  <2>3. \A j \in 1 .. n + 1 : r[j] = IF j < 1 THEN freeList[j]
                                     ELSE IF j = 1 THEN b ELSE freeList[j - 1]
    BY <2>2, <1>1
  <2>4. ASSUME NEW j \in 1 .. n PROVE End(b) <= freeList[j].addr
    <3>1. freeList # <<>> /\ freeList[Walked(b)].addr > b.addr
      BY <1>8, <1>1, EmptySeq DEF n
    <3>2. Walked(b) \in 1 .. n /\ \A i \in 2 .. Walked(b) : freeList[i].addr < b.addr
      BY <3>1, WalkedIs DEF n
    <3>3. Walked(b) = 1
      <4>1. ASSUME Walked(b) # 1 PROVE FALSE
        <5>1. Walked(b) \in 2 .. Walked(b)
          BY <4>1, <3>2, <1>1
        <5>2. freeList[Walked(b)].addr < b.addr
          BY <5>1, <3>2
        <5>3. QED BY <5>2, <3>1, <3>2, <1>2, <1>6
      <4>2. QED BY <4>1
    <3>4. freeList[1].addr > b.addr /\ 1 \in 1 .. n
      BY <3>1, <3>2, <3>3
    <3>5. freeList[j].addr > b.addr
      <4>1. CASE j = 1
        BY <4>1, <3>4
      <4>2. CASE j # 1
        <5>1. End(freeList[1]) <= freeList[j].addr
          BY <4>2, <3>4, <1>7
        <5>2. QED BY <5>1, <3>4, <1>2, <1>6
      <4>3. QED BY <4>1, <4>2
    <3>6. QED BY <3>5, <1>2, <1>5, <1>6
  <2>5. Linked(freeList, b, 1, r)
    BY <2>2, <2>3, <2>4, <1>1 DEF Linked, n
  <2>6. QED BY <2>1, <2>5, LinkedIsGood
<1>9. CASE ~(freeList = <<>> \/ freeList[Walked(b)].addr > b.addr)
  <2> DEFINE w == Walked(b)
             p == w + 1
             r == InsertAt(freeList, p, b)
  <2>1. Inserted(b) = r
    BY <1>9 DEF Inserted
  <2>2. w \in 1 .. n /\ (w < n => freeList[w + 1].addr >= b.addr)
    BY <1>9, WalkedIs DEF n
  <2>3. ~(freeList[w].addr > b.addr)
    BY <1>9
  <2> HIDE DEF w
  <2>4. p \in 1 .. n + 1 /\ p = w + 1
    BY <2>2, <1>1
  <2> HIDE DEF p
  <2>5. /\ r \in Seq(Block) /\ Len(r) = n + 1
        /\ \A j \in 1 .. n + 1 : r[j] = IF j < p THEN freeList[j]
                                        ELSE IF j = p THEN b ELSE freeList[j - 1]
    BY <2>4, <1>1, InsertAtIs DEF n
  <2> HIDE DEF r
  <2>6. End(freeList[w]) <= b.addr
    BY <2>2, <2>3, <1>2, <1>5, <1>6
  <2>7. ASSUME NEW j \in 1 .. n, j < w + 1 PROVE End(freeList[j]) <= b.addr
    <3>1. CASE j = w
      BY <3>1, <2>6
    <3>2. CASE j # w
      <4>1. End(freeList[j]) <= freeList[w].addr
        BY <3>2, <2>2, <2>7, <1>7
      <4>2. QED BY <4>1, <2>2, <2>6, <1>2, <1>6
    <3>3. QED BY <3>1, <3>2
  <2>8. ASSUME NEW j \in 1 .. n, w + 1 <= j PROVE End(b) <= freeList[j].addr
    <3>1. w + 1 \in 1 .. n /\ freeList[w + 1].addr >= b.addr
      BY <2>2, <2>8, <1>1
    <3>2. freeList[j].addr >= b.addr
      <4>1. CASE j = w + 1
        BY <4>1, <3>1
      <4>2. CASE j # w + 1
        <5>1. End(freeList[w + 1]) <= freeList[j].addr
          BY <4>2, <2>2, <2>8, <3>1, <1>7
        <5>2. QED BY <5>1, <3>1, <1>2, <1>6
      <4>3. QED BY <4>1, <4>2
    <3>3. QED BY <3>2, <1>2, <1>5, <1>6
  <2>9. Linked(freeList, b, p, r)
    BY <2>4, <2>5, <2>7, <2>8 DEF Linked, n
  <2>10. QED BY <2>1, <2>9, LinkedIsGood
<1>10. QED BY <1>8, <1>9

-----------------------------------------------------------------------------
(* merge.  The fold is a recursion over the sets of indices; what it needs  *)
(* of it is that it exists, and its values at 1 .. k.                       *)

LEMMA MaxIs ==
  ASSUME NEW n \in Nat, NEW s \in SUBSET (1 .. n), n \in s
  PROVE  Max(s) = n
<1>1. \A y \in s : y \in Nat /\ n >= y
  OBVIOUS
<1>2. \E x \in s : \A y \in s : x >= y
  BY <1>1
<1>3. Max(s) \in s /\ \A y \in s : Max(s) >= y
  BY <1>2 DEF Max
<1>4. Max(s) >= n /\ n >= Max(s) /\ Max(s) \in Nat
  BY <1>1, <1>3
<1>5. QED BY <1>4

Iter(list, n, g) ==
  g = [s \in SUBSET (1 .. n) |->
         IF s = {} THEN <<>> ELSE Absorb(g[s \ {Max(s)}], list[Max(s)])]

LEMMA IterExists ==
  ASSUME NEW list, NEW m \in Nat
  PROVE  \E g : Iter(list, m, g)
<1> DEFINE T == {n \in Nat : \E g : Iter(list, n, g)}
<1>1. 0 \in T
  <2> DEFINE g == [s \in SUBSET (1 .. 0) |-> <<>>]
  <2>1. \A s \in SUBSET (1 .. 0) : s = {}
    OBVIOUS
  <2>2. g = [s \in SUBSET (1 .. 0) |->
               IF s = {} THEN <<>> ELSE Absorb(g[s \ {Max(s)}], list[Max(s)])]
    BY <2>1
  <2>3. Iter(list, 0, g)
    BY <2>2 DEF Iter
  <2>4. QED BY <2>3
<1>2. ASSUME NEW n \in Nat, n \in T PROVE n + 1 \in T
  <2>1. PICK g : Iter(list, n, g)
    BY <1>2
  <2> DEFINE g2 == [s \in SUBSET (1 .. n + 1) |->
                      IF n + 1 \notin s THEN g[s]
                      ELSE Absorb(g[s \ {n + 1}], list[n + 1])]
             F(s) == IF s = {} THEN <<>> ELSE Absorb(g2[s \ {Max(s)}], list[Max(s)])
  <2>2. ASSUME NEW s \in SUBSET (1 .. n + 1) PROVE g2[s] = F(s)
    <3>1. CASE n + 1 \notin s
      <4>1. s \in SUBSET (1 .. n)
        BY <3>1
      <4>2. g[s] = IF s = {} THEN <<>> ELSE Absorb(g[s \ {Max(s)}], list[Max(s)])
        BY <2>1, <4>1 DEF Iter
      <4>3. s \ {Max(s)} \in SUBSET (1 .. n + 1) /\ n + 1 \notin s \ {Max(s)}
        BY <3>1
      <4>4. g2[s] = g[s] /\ g2[s \ {Max(s)}] = g[s \ {Max(s)}]
        BY <3>1, <4>3
      <4> HIDE DEF g2
      <4>5. QED BY <4>2, <4>4
    <3>2. CASE n + 1 \in s
      <4>1. Max(s) = n + 1 /\ s # {}
        BY <3>2, MaxIs
      <4>2. s \ {n + 1} \in SUBSET (1 .. n + 1) /\ n + 1 \notin s \ {n + 1}
        OBVIOUS
      <4>3. g2[s \ {n + 1}] = g[s \ {n + 1}]
        BY <4>2
      <4>4. g2[s] = Absorb(g[s \ {n + 1}], list[n + 1])
        BY <3>2
      <4> HIDE DEF g2
      <4>5. QED BY <4>1, <4>3, <4>4
    <3>3. QED BY <3>1, <3>2
  <2>3. g2 = [s \in SUBSET (1 .. n + 1) |-> g2[s]]
    OBVIOUS
  <2> HIDE DEF g2
  <2>4. g2 = [s \in SUBSET (1 .. n + 1) |-> F(s)]
    BY <2>2, <2>3
  <2>5. Iter(list, n + 1, g2)
    BY <2>4 DEF Iter
  <2>6. QED BY <2>5
<1> HIDE DEF T
<1>3. Nat \subseteq T
  BY <1>1, <1>2, Induction
<1>4. QED BY <1>3 DEF T

LEMMA MergeUnrolled ==
  ASSUME NEW list \in Seq(Block)
  PROVE  \E g : /\ g[{}] = <<>> /\ merge(list) = g[1 .. Len(list)]
                /\ \A k \in Nat : k + 1 <= Len(list) =>
                     g[1 .. k + 1] = Absorb(g[1 .. k], list[k + 1])
<1> DEFINE n == Len(list)
           h == CHOOSE g : Iter(list, n, g)
<1>1. n \in Nat /\ DOMAIN list = 1 .. n
  OBVIOUS
<1>2. merge(list) = h[1 .. n]
  BY <1>1 DEF merge, FoldLeft, MapThenFoldSet, Iter
<1> HIDE DEF n
<1>3. Iter(list, n, h)
  BY <1>1, IterExists
<1> HIDE DEF h
<1>4. \A s \in SUBSET (1 .. n) :
        h[s] = IF s = {} THEN <<>> ELSE Absorb(h[s \ {Max(s)}], list[Max(s)])
  BY <1>3 DEF Iter
<1>5. h[{}] = <<>>
  BY <1>4
<1>6. ASSUME NEW k \in Nat, k + 1 <= n
      PROVE  h[1 .. k + 1] = Absorb(h[1 .. k], list[k + 1])
  <2>1. 1 .. k + 1 \in SUBSET (1 .. n) /\ 1 .. k + 1 # {} /\ k + 1 \in 1 .. k + 1
    BY <1>1, <1>6
  <2>2. Max(1 .. k + 1) = k + 1
    BY <2>1, MaxIs
  <2>3. (1 .. k + 1) \ {k + 1} = 1 .. k
    OBVIOUS
  <2>4. QED BY <1>4, <2>1, <2>2, <2>3
<1>7. QED BY <1>2, <1>5, <1>6 DEF n

\* No block touches the next.
Spaced(list) == \A i, j \in 1 .. Len(list) : i < j => End(list[i]) < list[j].addr

\* What the walk has made of the first k blocks.
Merged(list, k, g) ==
  /\ Good(g, IF k = 0 THEN 0 ELSE End(list[k])) /\ Spaced(g)
  /\ k # 0 => g # <<>> /\ End(g[Len(g)]) = End(list[k])
  /\ \A u \in Nat : Covers(g, u) <=> \E i \in 1 .. k : In(u, list[i])

LEMMA AbsorbIs ==
  ASSUME NEW top \in Nat, NEW list, Good(list, top), NEW k \in Nat, k + 1 <= Len(list),
         NEW g, Merged(list, k, g)
  PROVE  Merged(list, k + 1, Absorb(g, list[k + 1]))
<1> DEFINE b == list[k + 1]
           t == IF k = 0 THEN 0 ELSE End(list[k])
           more == Absorb(g, b)
           n == Len(g)
<1>1. k + 1 \in 1 .. Len(list) /\ (k # 0 => k \in 1 .. Len(list))
  BY GoodParts
<1>2. b \in Block /\ b.addr \in Nat /\ b.size > 0 /\ End(b) \in Nat /\ b.size \in Nat
      /\ End(b) = b.addr + b.size + 1
  BY <1>1, GoodParts
<1>3. t \in Nat /\ t <= b.addr
  <2>1. k # 0 => End(list[k]) \in Nat /\ End(list[k]) <= list[k + 1].addr
    BY <1>1, GoodParts
  <2>2. QED BY <2>1, <1>2
<1> HIDE DEF t
<1>4. Good(g, t) /\ Spaced(g) /\ (k # 0 => g # <<>> /\ End(g[n]) = t)
  BY DEF Merged, t
<1>5. \A u \in Nat : (\E i \in 1 .. k + 1 : In(u, list[i])) <=> Covers(g, u) \/ In(u, b)
  <2>1. 1 .. k + 1 = (1 .. k) \cup {k + 1}
    OBVIOUS
  <2>2. QED BY <2>1 DEF Merged
<1>6. g # <<>> => k # 0
  <2>1. ASSUME k = 0, g # <<>> PROVE FALSE
    <3>1. g \in Seq(Block) /\ n \in Nat /\ n # 0
      BY <2>1, <1>4, GoodParts, EmptySeq
    <3>2. 1 \in 1 .. n
      BY <3>1
    <3>3. g[1] \in Block /\ g[1].addr \in Nat /\ In(g[1].addr, g[1])
      BY <3>2, <1>4, GoodParts DEF In
    <3>4. Covers(g, g[1].addr)
      BY <3>2, <3>3 DEF Covers
    <3>5. QED BY <2>1, <3>3, <3>4 DEF Merged
  <2>2. QED BY <2>1
<1> SUFFICES /\ Good(more, End(b)) /\ Spaced(more) /\ more # <<>>
             /\ End(more[Len(more)]) = End(b)
             /\ \A u \in Nat : Covers(more, u) <=> Covers(g, u) \/ In(u, b)
  BY <1>5 DEF Merged
<1>7. b = list[k + 1]
  OBVIOUS
<1> HIDE DEF b, n
<1>8. g \in Seq(Block) /\ n \in Nat /\ n = Len(g)
  BY <1>4, GoodParts DEF n
<1>9. \A i \in 1 .. n : End(g[i]) \in Nat /\ g[i].addr \in Nat /\ End(g[i]) <= t
  BY <1>4, <1>8, GoodParts
<1>10. \A i, j \in 1 .. n : i < j => End(g[i]) < g[j].addr
  BY <1>4, <1>8 DEF Spaced
<1>11. CASE g # <<>> /\ Touches(Last(g), b)
  <2> DEFINE m == b.size + 1
  <2>1. n \in 1 .. n /\ End(g[n]) = t /\ Last(g) = g[n] /\ t = b.addr
    BY <1>4, <1>6, <1>8, <1>11, EmptySeq DEF Last, Touches
  <2>2. m \in Nat /\ End(b) = t + m
    BY <2>1, <1>2
  <2>3. more = Widened(g, m)
    <3>1. g[n].size \in Nat
      BY <2>1, <1>4, <1>8, GoodParts
    <3>2. \A p, q, w \in Nat : w = q + 1 => p + q + 1 = p + w
      OBVIOUS
    <3>3. b.size \in Nat /\ m \in Nat /\ m = b.size + 1
      BY <1>2
    <3> HIDE DEF m
    <3>4. g[n].size + b.size + 1 = g[n].size + m
      BY <3>1, <3>2, <3>3
    <3>5. QED BY <3>4, <1>8, <1>11 DEF Absorb, Widened, Longer
  <2> HIDE DEF m, more
  <2>4. /\ Good(more, End(b))
        /\ \A u \in Nat : Covers(more, u) <=> Covers(g, u) \/ (t <= u /\ u < End(b))
    <3> DEFINE tb == End(b)
    <3>1. tb \in Nat /\ tb = t + m /\ m \in Nat
      BY <2>2, <1>2
    <3>2. End(g[n]) = t /\ Good(g, t) /\ t \in Nat /\ n = Len(g) /\ g # <<>>
      BY <2>1, <1>3, <1>4, <1>8, <1>11
    <3> HIDE DEF tb
    <3>3. End(g[Len(g)]) = t /\ m \in Nat
      BY <3>1, <3>2
    <3>4. /\ Good(Widened(g, m), t + m)
          /\ \A u \in Nat : Covers(Widened(g, m), u) <=>
                               Covers(g, u) \/ (t <= u /\ u < t + m)
      BY <3>2, <3>3, WidenLast
    <3>5. QED BY <3>1, <3>4, <2>3 DEF tb
  <2>5. /\ more # <<>> /\ Len(more) = n /\ more[n] = Longer(g[n], m)
        /\ \A j \in 1 .. n : j # n => more[j] = g[j]
    BY <2>2, <2>3, <1>8, <1>11, WidenedIs
  <2>6. End(more[n]) = End(b) /\ more[n].addr = g[n].addr
    <3>1. g[n] \in Block /\ End(g[n]) \in Nat
      BY <2>1, <1>8, BlockParts
    <3>2. Longer(g[n], m).addr = g[n].addr
      BY <3>1, <2>2, LongerIs
    <3>3. End(Longer(g[n], m)) = End(g[n]) + m
      BY <3>1, <2>2, LongerIs
    <3>4. QED BY <3>2, <3>3, <2>1, <2>2, <2>5
  <2>7. Spaced(more)
    <3>1. ASSUME NEW i \in 1 .. n, NEW j \in 1 .. n, i < j PROVE End(more[i]) < more[j].addr
      <4>1. i # n /\ more[i] = g[i]
        BY <3>1, <2>5, <1>8
      <4>2. more[j].addr = g[j].addr
        BY <2>5, <2>6
      <4>3. QED BY <4>1, <4>2, <3>1, <1>10
    <3>2. QED BY <3>1, <2>5, <1>8 DEF Spaced
  <2>8. QED BY <2>1, <2>4, <2>5, <2>6, <2>7 DEF In
<1>12. CASE ~(g # <<>> /\ Touches(Last(g), b))
  <2>1. more = Append(g, b)
    BY <1>12 DEF Absorb
  <2> HIDE DEF more
  <2>2. /\ Good(more, End(b)) /\ more # <<>> /\ more[Len(more)] = b
        /\ \A u \in Nat : Covers(more, u) <=> Covers(g, u) \/ In(u, b)
    BY <2>1, <1>2, <1>3, <1>4, AppendGood
  <2>3. Len(more) = n + 1 /\ more[n + 1] = b /\ \A i \in 1 .. n : more[i] = g[i]
    BY <2>1, <1>2, <1>8, AppendProperties
  <2>4. ASSUME NEW i \in 1 .. n PROVE End(g[i]) < b.addr
    <3>1. g # <<>> /\ n \in 1 .. n
      BY <1>8, EmptySeq
    <3>2. End(g[n]) = t /\ End(g[n]) # b.addr
      BY <3>1, <1>4, <1>6, <1>8, <1>12 DEF Last, Touches
    <3>3. QED BY <3>2, <1>2, <1>3, <1>9
  <2>5. ASSUME NEW i \in 1 .. n + 1, NEW j \in 1 .. n + 1, i < j
        PROVE  End(more[i]) < more[j].addr
    <3>1. i \in 1 .. n /\ more[i] = g[i]
      BY <2>5, <2>3, <1>8
    <3>2. CASE j = n + 1
      BY <3>1, <3>2, <2>3, <2>4
    <3>3. CASE j # n + 1
      <4>1. j \in 1 .. n /\ more[j] = g[j]
        BY <3>3, <2>3, <1>8
      <4>2. QED BY <4>1, <3>1, <2>5, <1>10
    <3>4. QED BY <3>2, <3>3
  <2>6. QED BY <2>2, <2>3, <2>5 DEF Spaced
<1>13. QED BY <1>11, <1>12

LEMMA MergeIs ==
  ASSUME NEW top \in Nat, NEW list, Good(list, top)
  PROVE  /\ Good(merge(list), top) /\ Spaced(merge(list))
         /\ list # <<>> => merge(list) # <<>>
         /\ \A u \in Nat : Covers(merge(list), u) <=> Covers(list, u)
<1> DEFINE n == Len(list)
<1>1. list \in Seq(Block) /\ n \in Nat
  BY GoodParts
<1>2. PICK g : /\ g[{}] = <<>> /\ merge(list) = g[1 .. n]
               /\ \A k \in Nat : k + 1 <= n => g[1 .. k + 1] = Absorb(g[1 .. k], list[k + 1])
  BY <1>1, MergeUnrolled
<1> DEFINE T == {k \in Nat : k <= n => Merged(list, k, g[1 .. k])}
<1>3. 0 \in T
  <2>1. 1 .. 0 = {}
    OBVIOUS
  <2>2. Merged(list, 0, <<>>)
    BY EmptySeq DEF Merged, Good, Spaced, Covers
  <2>3. QED BY <2>1, <2>2, <1>2
<1>4. ASSUME NEW k \in Nat, k \in T PROVE k + 1 \in T
  <2>1. ASSUME k + 1 <= n PROVE Merged(list, k + 1, g[1 .. k + 1])
    <3>1. Merged(list, k, g[1 .. k])
      BY <2>1, <1>1, <1>4
    <3>2. Merged(list, k + 1, Absorb(g[1 .. k], list[k + 1]))
      BY <2>1, <3>1, AbsorbIs
    <3>3. QED BY <2>1, <3>2, <1>2
  <2>2. QED BY <2>1
<1> HIDE DEF T
<1>5. Nat \subseteq T
  BY <1>3, <1>4, Induction
<1>6. Merged(list, n, merge(list))
  BY <1>1, <1>2, <1>5 DEF T
<1>7. Good(merge(list), IF n = 0 THEN 0 ELSE End(list[n]))
  BY <1>6 DEF Merged
<1> DEFINE t == IF n = 0 THEN 0 ELSE End(list[n])
<1>8. t \in Nat /\ t <= top
  BY <1>1, GoodParts
<1> HIDE DEF t
<1>9. Good(merge(list), top)
  <2>1. Good(merge(list), t)
    BY <1>7 DEF t
  <2>2. \A i \in 1 .. Len(merge(list)) : End(merge(list)[i]) \in Nat /\ End(merge(list)[i]) <= t
    BY <2>1, GoodParts
  <2>3. \A i \in 1 .. Len(merge(list)) : End(merge(list)[i]) <= top
    BY <2>2, <1>8
  <2>4. QED BY <2>1, <2>3 DEF Good
<1>10. list # <<>> => n # 0
  BY <1>1, EmptySeq
<1>11. QED BY <1>6, <1>9, <1>10 DEF Merged, Covers

-----------------------------------------------------------------------------
(* Giving the whole pages of the last block back.                           *)

Shortened(o) == [o EXCEPT !.size = PageUnits - 1]

LEMMA ShortenedIs ==
  ASSUME NEW o \in Block, o.size > PageUnits
  PROVE  /\ Shortened(o) \in Block /\ Shortened(o).addr = o.addr
         /\ Shortened(o).size > 0 /\ End(Shortened(o)) < End(o)
         /\ End(Shortened(o)) \in Nat /\ o.addr < End(Shortened(o))
BY HeapAssumption DEF Block, End, Shortened

LEMMA TrimmedIs ==
  ASSUME NEW top, NEW list, Good(list, top), list # <<>>, list[Len(list)].size > PageUnits
  PROVE  /\ Trimmed(list) \in Seq(Block) /\ Trimmed(list) # <<>>
         /\ Len(Trimmed(list)) = Len(list)
         /\ Trimmed(list)[Len(list)] = Shortened(list[Len(list)])
         /\ \A j \in 1 .. Len(list) : j # Len(list) => Trimmed(list)[j] = list[j]
<1> DEFINE i == Len(list)
           less == Trimmed(list)
<1>1. list \in Seq(Block) /\ i \in Nat /\ i \in 1 .. i /\ list[i] \in Block
  BY GoodParts, EmptySeq
<1>2. Shortened(list[i]) \in Block
  BY <1>1, ShortenedIs
<1>3. less = [list EXCEPT ![i] = Shortened(list[i])]
  BY DEF Trimmed, Shortened
<1>4. /\ less \in Seq(Block) /\ Len(less) = i
      /\ \A j \in 1 .. i : less[j] = IF j = i THEN Shortened(list[i]) ELSE list[j]
  BY <1>1, <1>2, <1>3, ReplacedIs
<1> HIDE DEF less
<1>5. less # <<>>
  BY <1>1, <1>4, EmptySeq
<1>6. QED BY <1>1, <1>4, <1>5 DEF less

LEMMA TrimmedSpaced ==
  ASSUME NEW top, NEW list, Good(list, top), list # <<>>, list[Len(list)].size > PageUnits,
         Spaced(list)
  PROVE  Spaced(Trimmed(list))
<1> DEFINE n == Len(list)
           less == Trimmed(list)
<1>1. n \in Nat /\ n \in 1 .. n /\ list[n] \in Block
  BY GoodParts, EmptySeq
<1>2. /\ Len(less) = n /\ less[n] = Shortened(list[n])
      /\ \A j \in 1 .. n : j # n => less[j] = list[j]
  BY TrimmedIs
<1>3. less[n].addr = list[n].addr
  BY <1>1, <1>2, ShortenedIs
<1>4. \A i, j \in 1 .. n : i < j => End(list[i]) < list[j].addr
  BY DEF Spaced
<1> HIDE DEF less, n
<1>5. ASSUME NEW i \in 1 .. n, NEW j \in 1 .. n, i < j PROVE End(less[i]) < less[j].addr
  <2>1. i # n /\ less[i] = list[i]
    BY <1>1, <1>2, <1>5
  <2>2. less[j].addr = list[j].addr
    BY <1>2, <1>3
  <2>3. QED BY <2>1, <2>2, <1>4, <1>5
<1>6. QED BY <1>2, <1>5 DEF Spaced, less

LEMMA TrimmedGood ==
  ASSUME NEW top, NEW list, Good(list, top), list # <<>>, list[Len(list)].size > PageUnits,
         NEW t, t = End(Trimmed(list)[Len(list)])
  PROVE  /\ Good(Trimmed(list), t)
         /\ \A u \in Nat : Covers(Trimmed(list), u) <=> Covers(list, u) /\ u < t
<1> DEFINE n == Len(list)
           less == Trimmed(list)
           b == Shortened(list[n])
<1>1. /\ n \in Nat /\ n \in 1 .. n /\ list[n] \in Block
      /\ list[n].addr \in Nat /\ End(list[n]) \in Nat
  BY GoodParts, EmptySeq
<1>2. /\ less \in Seq(Block) /\ Len(less) = n /\ less[n] = b
      /\ \A j \in 1 .. n : j # n => less[j] = list[j]
  BY TrimmedIs
<1>3. /\ b.addr = list[n].addr /\ b.size > 0
      /\ End(b) < End(list[n]) /\ End(b) \in Nat /\ list[n].addr < End(b)
  BY <1>1, ShortenedIs
<1>4. \A j \in 1 .. n : list[j].addr \in Nat /\ End(list[j]) \in Nat /\ list[j].size > 0
  BY GoodParts
<1>5. \A j, k \in 1 .. n : j < k => End(list[j]) <= list[k].addr
  BY GoodParts
<1>6. t = End(b)
  BY <1>2
<1> HIDE DEF less, n, b
<1>7. \A j \in 1 .. n : j # n => End(list[j]) <= list[n].addr
  BY <1>1, <1>5
<1>8. ASSUME NEW j \in 1 .. n PROVE less[j].size > 0 /\ End(less[j]) <= t
  <2>1. CASE j = n
    BY <2>1, <1>2, <1>3, <1>6
  <2>2. CASE j # n
    <3>1. End(list[j]) <= list[n].addr /\ End(list[j]) \in Nat /\ list[j].size > 0
      BY <2>2, <1>4, <1>7
    <3>2. QED BY <2>2, <3>1, <1>1, <1>2, <1>3, <1>6
  <2>3. QED BY <2>1, <2>2
<1>9. ASSUME NEW i \in 1 .. n, NEW j \in 1 .. n, i < j PROVE End(less[i]) <= less[j].addr
  <2>1. i # n /\ less[i] = list[i]
    BY <1>1, <1>2, <1>9
  <2>2. less[j].addr = list[j].addr
    BY <1>2, <1>3
  <2>3. QED BY <2>1, <2>2, <1>5, <1>9
<1>10. ASSUME NEW u \in Nat PROVE Covers(less, u) <=> Covers(list, u) /\ u < t
  <2>1. In(u, b) <=> In(u, list[n]) /\ u < t
    BY <1>1, <1>3, <1>6 DEF In
  <2>2. ASSUME NEW j \in 1 .. n, j # n, In(u, list[j]) PROVE u < t
    BY <2>2, <1>1, <1>3, <1>4, <1>6, <1>7 DEF In
  <2>3. Covers(less, u) <=> \E j \in 1 .. n : In(u, less[j])
    BY <1>2 DEF Covers
  <2>4. Covers(list, u) <=> \E j \in 1 .. n : In(u, list[j])
    BY DEF Covers, n
  <2>5. QED BY <1>1, <1>2, <2>1, <2>2, <2>3, <2>4
<1>11. Good(less, t)
  BY <1>2, <1>8, <1>9 DEF Good
<1>12. QED BY <1>10, <1>11 DEF less
-----------------------------------------------------------------------------
(* The blocks in use and the free list, together.                           *)

Apart(a, b) == \A u \in Nat : ~(In(u, a) /\ In(u, b))

\* Blocks in use: below top, apart from each other and from the free list.
UsedGood(list, U, top) ==
  /\ U \subseteq Block
  /\ \A b \in U : b.size > 0 /\ End(b) <= top
  /\ \A a, b \in U : a # b => Apart(a, b)
  /\ \A b \in U : \A u \in Nat : ~(Covers(list, u) /\ In(u, b))

LostCells(list, U) == {u \in Nat : ~Covers(list, u) /\ \A b \in U : ~In(u, b)}

\* Of each page below top, all cells are in the set or none.
WholePages(lost, top) ==
  \A u, v \in Nat :
    u < top /\ v < top /\ u \div PageUnits = v \div PageUnits /\ u \in lost => v \in lost

HeapTypes ==
  /\ freeList \in Seq(Block) /\ used \subseteq Block
  /\ frames \in 0 .. Frames /\ brk = (Frames - frames) * PageUnits
  /\ freesSinceMerge \in 0 .. MergeThreshold - 1
  /\ failed \in {"none", "connected"}

HeapInv ==
  /\ Good(freeList, brk)
  /\ UsedGood(freeList, used, brk)
  /\ WholePages(LostCells(freeList, used), brk)

CallTypes == call \in [Client -> {NoCall} \cup [todo : {"free"}, old : Block]]

\* What a realloc has still to free is in use, and no two free the same block.
CallInv ==
  /\ \A c \in Reallocating : call[c].old \in used
  /\ \A c, d \in Reallocating : c # d => call[c].old # call[d].old

\* The inductive invariant.  After a failed ASSERT only the types are left.
IInv ==
  /\ HeapTypes /\ CallTypes
  /\ failed = "none" => HeapInv /\ CallInv

-----------------------------------------------------------------------------
(* What each change of the list does to the blocks in use and to the cells  *)
(* that are lost.                                                           *)

\* A page lies below the break or above it: the break is on a page boundary.
LEMMA PageBelow ==
  ASSUME NEW u \in Nat, NEW k \in Nat
  PROVE  u < k * PageUnits <=> u \div PageUnits < k
BY HeapAssumption

LEMMA WholePagesKept ==
  ASSUME NEW A, NEW B, NEW k \in Nat, NEW top \in Nat, top = k * PageUnits, NEW t \in Nat,
         WholePages(A, top),
         \A u \in Nat : u < top /\ u < t => (u \in A <=> u \in B),
         \A u, v \in Nat : top <= u /\ u < t /\ top <= v /\ v < t /\ u \in B => v \in B
  PROVE  WholePages(B, t)
<1> SUFFICES ASSUME NEW u \in Nat, NEW v \in Nat, u < t, v < t,
                    u \div PageUnits = v \div PageUnits, u \in B
             PROVE  v \in B
  BY DEF WholePages
<1>1. u < top <=> v < top
  <2>1. (u < top <=> u \div PageUnits < k) /\ (v < top <=> v \div PageUnits < k)
    BY PageBelow
  <2>2. QED BY <2>1
<1>2. CASE u < top
  <2>1. u \in A /\ v < top
    BY <1>1, <1>2
  <2>2. v \in A
    BY <1>2, <2>1 DEF WholePages
  <2>3. QED BY <2>1, <2>2
<1>3. CASE ~(u < top)
  BY <1>1, <1>3
<1>4. QED BY <1>2, <1>3

LEMMA ServeKeeps ==
  ASSUME NEW top \in Nat, NEW list, NEW rest, NEW U, NEW b,
         UsedGood(list, U, top), Split(list, rest, b, top)
  PROVE  /\ UsedGood(rest, U \cup {b}, top)
         /\ LostCells(rest, U \cup {b}) = LostCells(list, U)
         /\ \A a \in U : Apart(a, b)
<1>1. \A u \in Nat : Covers(list, u) <=> Covers(rest, u) \/ In(u, b)
  BY DEF Split
<1>2. \A u \in Nat : ~(Covers(rest, u) /\ In(u, b))
  BY DEF Split
<1>3. b \in Block /\ b.size > 0 /\ End(b) <= top
  BY DEF Split
<1>4. \A a \in U : \A u \in Nat : ~(Covers(list, u) /\ In(u, a))
  BY DEF UsedGood
<1>5. \A a \in U : Apart(a, b) /\ Apart(b, a)
  BY <1>1, <1>4 DEF Apart
<1>6. ASSUME NEW a \in U \cup {b}, NEW u \in Nat PROVE ~(Covers(rest, u) /\ In(u, a))
  BY <1>1, <1>2, <1>4
<1>7. UsedGood(rest, U \cup {b}, top)
  BY <1>3, <1>5, <1>6 DEF UsedGood
<1>8. ASSUME NEW u \in Nat
      PROVE  u \in LostCells(rest, U \cup {b}) <=> u \in LostCells(list, U)
  BY <1>1 DEF LostCells
<1>9. LostCells(rest, U \cup {b}) = LostCells(list, U)
  BY <1>8 DEF LostCells
<1>10. QED BY <1>5, <1>7, <1>9

LEMMA GrowKeeps ==
  ASSUME NEW top \in Nat, NEW list, NEW more, NEW U, NEW t \in Nat, top <= t, NEW s,
         UsedGood(list, U, top), Grown(list, more, top, t, s)
  PROVE  /\ UsedGood(more, U, t)
         /\ \A u \in Nat : u < top => (u \in LostCells(list, U) <=> u \in LostCells(more, U))
         /\ \A u \in Nat : top <= u /\ u < t => u \notin LostCells(more, U)
<1>1. \A u \in Nat : Covers(more, u) <=> Covers(list, u) \/ (top <= u /\ u < t)
  BY DEF Grown
<1>2. ASSUME NEW b \in U
      PROVE  b \in Block /\ b.size > 0 /\ End(b) <= top /\ End(b) \in Nat
             /\ b.addr \in Nat /\ End(b) <= t
  <2>1. b \in Block /\ b.size > 0 /\ End(b) <= top
    BY DEF UsedGood
  <2>2. End(b) \in Nat /\ b.addr \in Nat
    BY <2>1, BlockParts
  <2>3. QED BY <2>1, <2>2
<1>3. ASSUME NEW b \in U, NEW u \in Nat, Covers(more, u), In(u, b) PROVE FALSE
  <2>1. ~Covers(list, u)
    BY <1>3 DEF UsedGood
  <2>2. top <= u
    BY <2>1, <1>1, <1>3
  <2>3. QED BY <2>2, <1>2, <1>3 DEF In
<1>4. UsedGood(more, U, t)
  BY <1>2, <1>3 DEF UsedGood
<1>5. QED BY <1>1, <1>4 DEF LostCells

LEMMA FreeKeepsUsed ==
  ASSUME NEW top \in Nat, NEW list, NEW r, NEW U, NEW b \in U, UsedGood(list, U, top),
         \A u \in Nat : Covers(r, u) <=> Covers(list, u) \/ In(u, b)
  PROVE  /\ UsedGood(r, U \ {b}, top)
         /\ LostCells(r, U \ {b}) = LostCells(list, U)
<1>1. ASSUME NEW a \in U \ {b}, NEW u \in Nat PROVE ~(Covers(r, u) /\ In(u, a))
  BY DEF UsedGood, Apart
<1>2. UsedGood(r, U \ {b}, top)
  BY <1>1 DEF UsedGood
<1>3. ASSUME NEW u \in Nat
      PROVE  u \in LostCells(r, U \ {b}) <=> u \in LostCells(list, U)
  BY DEF LostCells
<1>4. LostCells(r, U \ {b}) = LostCells(list, U)
  BY <1>3 DEF LostCells
<1>5. QED BY <1>2, <1>4

\* The blocks in use lie below what is given back: it was all one free block.
LEMMA TrimKeeps ==
  ASSUME NEW top \in Nat, NEW list, Good(list, top), list # <<>>,
         list[Len(list)].size > PageUnits, End(list[Len(list)]) = top,
         NEW t, t = End(Trimmed(list)[Len(list)]), NEW U, UsedGood(list, U, top)
  PROVE  /\ UsedGood(Trimmed(list), U, t)
         /\ \A u \in Nat : u < t => (u \in LostCells(list, U) <=>
                                       u \in LostCells(Trimmed(list), U))
<1> DEFINE n == Len(list)
           o == list[n]
<1>1. \A u \in Nat : Covers(Trimmed(list), u) <=> Covers(list, u) /\ u < t
  BY TrimmedGood
<1>2. n \in 1 .. n /\ o \in Block /\ o.addr \in Nat /\ End(o) \in Nat
  BY GoodParts, EmptySeq
<1>3. Trimmed(list)[n] = Shortened(o)
  BY TrimmedIs
<1>4. t \in Nat /\ o.addr < t
  BY <1>2, <1>3, ShortenedIs
<1>5. \A u \in Nat : In(u, o) => Covers(list, u)
  BY <1>2 DEF Covers
<1> HIDE DEF n, o
<1>6. End(o) = top
  BY DEF o, n
<1>7. ASSUME NEW b \in U PROVE End(b) <= t
  <2>1. b \in Block /\ End(b) <= top
    BY DEF UsedGood
  <2>2. \A u \in Nat : ~(In(u, o) /\ In(u, b))
    BY <1>5 DEF UsedGood
  <2>3. End(o) <= b.addr \/ End(b) <= o.addr
    BY <2>1, <2>2, <1>2, ApartMeansBefore
  <2>4. b.addr \in Nat /\ End(b) \in Nat /\ b.addr < End(b)
    BY <2>1, BlockParts
  <2>5. QED BY <2>1, <2>3, <2>4, <1>2, <1>4, <1>6
<1>8. ASSUME NEW b \in U, NEW u \in Nat PROVE ~(Covers(Trimmed(list), u) /\ In(u, b))
  BY <1>1 DEF UsedGood
<1>9. UsedGood(Trimmed(list), U, t)
  BY <1>7, <1>8 DEF UsedGood
<1>10. QED BY <1>1, <1>9 DEF LostCells

-----------------------------------------------------------------------------
(* malloc and free.                                                         *)

LEMMA BreakIs ==
  ASSUME HeapTypes
  PROVE  /\ brk \in Nat /\ frames \in Nat /\ Frames - frames \in Nat
         /\ brk = (Frames - frames) * PageUnits
<1>1. frames \in Nat /\ Frames - frames \in Nat
  BY HeapAssumption DEF HeapTypes
<1>2. \A k \in Nat : k * PageUnits \in Nat
  BY HeapAssumption
<1>3. QED BY <1>1, <1>2 DEF HeapTypes

LEMMA PagesUp ==
  ASSUME NEW f \in Nat, NEW n \in Nat, n <= f, NEW F \in Nat, f <= F
  PROVE  /\ (F - f) * PageUnits + n * PageUnits = (F - (f - n)) * PageUnits
         /\ n * PageUnits \in Nat
BY HeapAssumption

LEMMA PagesDown ==
  ASSUME NEW k \in Nat, NEW n \in Nat, n * PageUnits <= k * PageUnits
  PROVE  /\ n <= k /\ k * PageUnits - n * PageUnits = (k - n) * PageUnits
         /\ n * PageUnits \in Nat /\ (k - n) * PageUnits \in Nat
<1>1. n <= k
  <2>1. ASSUME k + 1 <= n PROVE FALSE
    <3>1. (k + 1) * PageUnits <= n * PageUnits
      BY <2>1, HeapAssumption
    <3>2. (k + 1) * PageUnits = k * PageUnits + PageUnits
      BY HeapAssumption
    <3>3. k * PageUnits \in Nat /\ n * PageUnits \in Nat
      BY HeapAssumption
    <3>4. QED BY <3>1, <3>2, <3>3, HeapAssumption
  <2>2. QED BY <2>1
<1>2. QED BY <1>1, HeapAssumption

LEMMA SBRKIs ==
  ASSUME HeapTypes, NEW n \in Nat, SBRK(n)
  PROVE  /\ frames' \in 0 .. Frames /\ brk' = (Frames - frames') * PageUnits
         /\ brk' \in Nat /\ brk <= brk'
         /\ n <= frames => brk' = brk + n * PageUnits
<1> DEFINE got == IF n <= frames THEN n ELSE frames
<1>1. frames \in Nat /\ frames <= Frames /\ brk \in Nat /\ brk = (Frames - frames) * PageUnits
  BY BreakIs, HeapAssumption DEF HeapTypes
<1>2. got \in Nat /\ got <= frames
  BY <1>1
<1>3. frames' = frames - got /\ brk' = brk + got * PageUnits
  BY DEF SBRK
<1> HIDE DEF got
<1>4. /\ (Frames - frames) * PageUnits + got * PageUnits = (Frames - (frames - got)) * PageUnits
      /\ got * PageUnits \in Nat
  BY <1>1, <1>2, PagesUp, HeapAssumption
<1>5. brk' = (Frames - frames') * PageUnits /\ brk' \in Nat /\ brk <= brk'
  BY <1>1, <1>3, <1>4
<1>6. frames' \in 0 .. Frames
  BY <1>1, <1>2, <1>3, HeapAssumption
<1>7. n <= frames => brk' = brk + n * PageUnits
  BY <1>3 DEF got
<1>8. QED BY <1>5, <1>6, <1>7

LEMMA UnitsIs ==
  ASSUME NEW n \in Nat
  PROVE  Units(n) \in Nat \ {0}
BY DEF Units

\* What malloc(s) hands out.
Handed(s) ==
  \E b \in used' : /\ used' = used \cup {b} /\ b.size >= s
                   /\ \A a \in used : Apart(a, b)

LEMMA ServeStep ==
  ASSUME NEW list, NEW i \in 1 .. Len(list), NEW s \in Nat \ {0}, brk' \in Nat,
         Good(list, brk'), UsedGood(list, used, brk'), list[i].size >= s, Serve(list, i, s)
  PROVE  /\ Good(freeList', brk') /\ UsedGood(freeList', used', brk')
         /\ LostCells(freeList', used') = LostCells(list, used)
         /\ Handed(s)
<1> DEFINE b == Served(list[i], s)
<1>1. freeList' = splitBlock(list, i, s) /\ used' = used \cup {b}
  BY DEF Serve
<1>2. Split(list, freeList', b, brk')
  BY <1>1, SplitIs
<1>3. list[i] \in Block /\ list[i].size \in Nat
  BY GoodParts
<1>4. b.size >= s
  BY <1>3, ServedIs
<1> HIDE DEF b
<1>5. /\ UsedGood(freeList', used \cup {b}, brk')
      /\ LostCells(freeList', used \cup {b}) = LostCells(list, used)
      /\ \A a \in used : Apart(a, b)
  BY <1>2, ServeKeeps
<1>6. Good(freeList', brk')
  BY <1>2 DEF Split
<1>7. Handed(s)
  BY <1>1, <1>4, <1>5 DEF Handed
<1>8. QED BY <1>1, <1>5, <1>6, <1>7

LEMMA FromListStep ==
  ASSUME HeapTypes, HeapInv, NEW s \in Nat \ {0}, MallocFromList(s)
  PROVE  HeapInv' /\ Handed(s)
<1>1. brk \in Nat /\ brk' = brk
  BY BreakIs DEF MallocFromList
<1>2. FirstFit(s) \in 1 .. Len(freeList) /\ freeList[FirstFit(s)].size >= s
  BY FirstFitIs DEF MallocFromList, HeapTypes
<1>3. Serve(freeList, FirstFit(s), s)
  BY DEF MallocFromList
<1>4. Good(freeList, brk') /\ UsedGood(freeList, used, brk')
  BY <1>1 DEF HeapInv
<1>5. /\ Good(freeList', brk') /\ UsedGood(freeList', used', brk')
      /\ LostCells(freeList', used') = LostCells(freeList, used)
      /\ Handed(s)
  BY <1>1, <1>2, <1>3, <1>4, ServeStep
<1>6. QED BY <1>1, <1>5 DEF HeapInv

LEMMA FromBatchStep ==
  ASSUME HeapTypes, HeapInv, NEW s \in Nat \ {0}, MallocFromBatch(s)
  PROVE  HeapInv' /\ Handed(s)
<1> DEFINE list == Extended(s)
           n == Len(list)
<1>1. Fits(s) = {} /\ Batch(s) <= frames /\ SBRK(Batch(s)) /\ Serve(list, n, s)
  BY DEF MallocFromBatch
<1>2. brk \in Nat /\ frames \in Nat /\ Frames - frames \in Nat
      /\ brk = (Frames - frames) * PageUnits
  BY BreakIs
<1>3. /\ Batch(s) \in Nat
      /\ Grown(freeList, list, brk, brk + Batch(s) * PageUnits, s)
  BY <1>1, <1>2, ExtendedIs DEF HeapInv
<1>4. brk' \in Nat /\ brk <= brk' /\ brk' = brk + Batch(s) * PageUnits
  BY <1>1, <1>3, SBRKIs
<1>5. Grown(freeList, list, brk, brk', s)
  BY <1>3, <1>4
<1> HIDE DEF list
<1>6. /\ UsedGood(list, used, brk')
      /\ \A u \in Nat : u < brk => (u \in LostCells(freeList, used) <=> u \in LostCells(list, used))
      /\ \A u \in Nat : brk <= u /\ u < brk' => u \notin LostCells(list, used)
  BY <1>2, <1>4, <1>5, GrowKeeps DEF HeapInv
<1>7. Good(list, brk') /\ list # <<>> /\ list[n].size >= s
  BY <1>5 DEF Grown
<1>8. n \in 1 .. n
  BY <1>7, GoodParts, EmptySeq
<1>9. /\ Good(freeList', brk') /\ UsedGood(freeList', used', brk')
      /\ LostCells(freeList', used') = LostCells(list, used)
      /\ Handed(s)
  BY <1>1, <1>4, <1>6, <1>7, <1>8, ServeStep
<1> DEFINE A == LostCells(freeList, used)
           B == LostCells(list, used)
           k == Frames - frames
<1>10. /\ WholePages(A, brk)
       /\ \A u \in Nat : u < brk /\ u < brk' => (u \in A <=> u \in B)
       /\ \A u, v \in Nat : brk <= u /\ u < brk' /\ brk <= v /\ v < brk' /\ u \in B => v \in B
  BY <1>6 DEF HeapInv
<1>11. k \in Nat /\ brk = k * PageUnits
  BY <1>2
<1> HIDE DEF A, B, k
<1>12. WholePages(B, brk')
  BY <1>2, <1>4, <1>10, <1>11, WholePagesKept
<1>13. QED BY <1>9, <1>12 DEF HeapInv, B

LEMMA FailsStep ==
  ASSUME HeapTypes, HeapInv, NEW s \in Nat \ {0}, MallocFails(s)
  PROVE  HeapInv' /\ used' = used
<1>1. Fits(s) = {} /\ SBRK(Batch(s)) /\ freeList' = freeList /\ used' = used
  BY DEF MallocFails
<1>2. brk \in Nat /\ frames \in Nat /\ Frames - frames \in Nat
      /\ brk = (Frames - frames) * PageUnits
  BY BreakIs
<1>3. Batch(s) \in Nat
  BY <1>1, <1>2, ExtendedIs DEF HeapInv
<1>4. brk' \in Nat /\ brk <= brk'
  BY <1>1, <1>3, SBRKIs
<1>5. \A i \in 1 .. Len(freeList) : End(freeList[i]) \in Nat /\ End(freeList[i]) <= brk
  BY GoodParts DEF HeapInv
<1>6. ASSUME NEW b \in used PROVE End(b) \in Nat /\ End(b) <= brk
  BY BlockParts DEF HeapInv, UsedGood
<1>7. Good(freeList, brk')
  BY <1>2, <1>4, <1>5 DEF HeapInv, Good
<1>8. UsedGood(freeList, used, brk')
  <2>1. \A b \in used : End(b) <= brk'
    BY <1>2, <1>4, <1>6
  <2>2. QED BY <2>1 DEF HeapInv, UsedGood
<1> DEFINE A == LostCells(freeList, used)
           k == Frames - frames
<1>9. \A u \in Nat : brk <= u => u \in A
  <2>1. ASSUME NEW u \in Nat, brk <= u, Covers(freeList, u) PROVE FALSE
    BY <2>1, <1>2, <1>5 DEF Covers, In
  <2>2. ASSUME NEW u \in Nat, brk <= u, NEW b \in used, In(u, b) PROVE FALSE
    BY <2>2, <1>2, <1>6 DEF In
  <2>3. QED BY <2>1, <2>2 DEF LostCells
<1>10. k \in Nat /\ brk = k * PageUnits /\ WholePages(A, brk)
  BY <1>2 DEF HeapInv
<1> HIDE DEF A, k
<1>11. WholePages(A, brk')
  BY <1>2, <1>4, <1>9, <1>10, WholePagesKept
<1>12. QED BY <1>1, <1>7, <1>8, <1>11 DEF HeapInv, A

\* The frames and the break move together.
LEMMA FramesKept ==
  ASSUME HeapTypes, HeapInv, NEW s \in Nat \ {0}, malloc(s)
  PROVE  frames' \in 0 .. Frames /\ brk' = (Frames - frames') * PageUnits
<1>1. CASE MallocFromList(s)
  BY <1>1 DEF MallocFromList, HeapTypes
<1>2. CASE MallocFromBatch(s) \/ MallocFails(s)
  <2>1. Fits(s) = {} /\ SBRK(Batch(s))
    BY <1>2 DEF MallocFromBatch, MallocFails
  <2>2. Batch(s) \in Nat
    BY <2>1, BreakIs, ExtendedIs DEF HeapInv
  <2>3. QED BY <2>1, <2>2, SBRKIs
<1>3. QED BY <1>1, <1>2 DEF malloc

LEMMA MallocStep ==
  ASSUME HeapTypes, failed = "none" => HeapInv, NEW s \in Nat \ {0}, malloc(s)
  PROVE  /\ HeapTypes' /\ HeapInv' /\ failed = "none" /\ failed' = "none"
         /\ freesSinceMerge' = freesSinceMerge
         /\ used' = used \/ Handed(s)
<1>1. failed = "none" /\ failed' = "none" /\ freesSinceMerge' = freesSinceMerge
  BY DEF malloc
<1>2. HeapInv' /\ (used' = used \/ Handed(s))
  BY <1>1, FromListStep, FromBatchStep, FailsStep DEF malloc
<1>3. freeList' \in Seq(Block) /\ used' \subseteq Block
  BY <1>2 DEF HeapInv, Good, UsedGood
<1>4. HeapTypes'
  BY <1>1, <1>3, FramesKept DEF HeapTypes
<1>5. QED BY <1>1, <1>2, <1>4

\* What the list is before the merge, and after it.
LEMMA FreedIs ==
  ASSUME HeapTypes, HeapInv, NEW b \in used, NEW r, r \in {Inserted(b), merge(Inserted(b))}
  PROVE  /\ Good(r, brk) /\ r # <<>>
         /\ UsedGood(r, used \ {b}, brk)
         /\ LostCells(r, used \ {b}) = LostCells(freeList, used)
<1>1. brk \in Nat
  BY BreakIs
<1>2. /\ b \in Block /\ b.size > 0 /\ End(b) <= brk
      /\ \A u \in Nat : ~(Covers(freeList, u) /\ In(u, b))
  BY DEF HeapInv, UsedGood
<1>3. /\ Good(Inserted(b), brk) /\ Inserted(b) # <<>>
      /\ \A u \in Nat : Covers(Inserted(b), u) <=> Covers(freeList, u) \/ In(u, b)
  BY <1>1, <1>2, InsertedIs DEF HeapInv
<1>4. /\ Good(r, brk) /\ r # <<>>
      /\ \A u \in Nat : Covers(r, u) <=> Covers(Inserted(b), u)
  BY <1>1, <1>3, MergeIs
<1>5. \A u \in Nat : Covers(r, u) <=> Covers(freeList, u) \/ In(u, b)
  BY <1>3, <1>4
<1>6. /\ UsedGood(r, used \ {b}, brk)
      /\ LostCells(r, used \ {b}) = LostCells(freeList, used)
  BY <1>1, <1>5, FreeKeepsUsed DEF HeapInv
<1>7. QED BY <1>4, <1>6

\* merge leaves a gap behind each block.
LEMMA MergedSpaced ==
  ASSUME HeapTypes, HeapInv, NEW b \in used
  PROVE  Spaced(merge(Inserted(b)))
<1>1. brk \in Nat
  BY BreakIs
<1>2. Good(Inserted(b), brk)
  BY FreedIs
<1>3. QED BY <1>1, <1>2, MergeIs

\* The free that only links its block, and the one that merges as well.
LEMMA KeepsStep ==
  ASSUME HeapTypes, HeapInv, NEW b \in used, FreeKeeps(b) \/ FreeMerges(b), used' = used \ {b}
  PROVE  HeapTypes' /\ HeapInv' /\ failed' = failed
<1>1. /\ freeList' \in {Inserted(b), merge(Inserted(b))}
      /\ brk' = brk /\ frames' = frames /\ failed' = failed
      /\ freesSinceMerge' = 0 \/ (freesSinceMerge' = freesSinceMerge + 1 /\ freesSinceMerge + 1 < MergeThreshold)
  BY DEF FreeKeeps, FreeMerges
<1>2. /\ Good(freeList', brk) /\ UsedGood(freeList', used \ {b}, brk)
      /\ LostCells(freeList', used \ {b}) = LostCells(freeList, used)
  BY <1>1, FreedIs
<1>3. HeapInv'
  BY <1>1, <1>2 DEF HeapInv
<1>4. freesSinceMerge' \in 0 .. MergeThreshold - 1
  BY <1>1, HeapAssumption DEF HeapTypes
<1>5. HeapTypes'
  BY <1>1, <1>2, <1>4 DEF HeapTypes, Good
<1>6. QED BY <1>1, <1>3, <1>5

LEMMA ReleasedIs ==
  ASSUME NEW n \in Nat
  PROVE  n \div PageUnits \in Nat /\ (n \div PageUnits) * PageUnits <= n
BY HeapAssumption

LEMMA TrimsStep ==
  ASSUME HeapTypes, HeapInv, NEW b \in used, FreeTrims(b), used' = used \ {b}
  PROVE  HeapTypes' /\ (failed' = "none" => HeapInv')
<1> DEFINE list == merge(Inserted(b))
           n == Len(list)
           rel == Released(list)
           t == End(Trimmed(list)[n])
           U == used \ {b}
           k == Frames - frames
<1>1. /\ freeList' = Trimmed(list) /\ brk' = brk - rel * PageUnits /\ frames' = frames + rel
      /\ failed' = IF End(Last(Trimmed(list))) = brk' THEN "none" ELSE "connected"
      /\ freesSinceMerge' = 0 /\ Trims(list)
  BY DEF FreeTrims
<1>2. /\ Good(list, brk) /\ list # <<>> /\ UsedGood(list, U, brk)
      /\ LostCells(list, U) = LostCells(freeList, used)
  BY FreedIs
<1>3. /\ brk \in Nat /\ frames \in Nat /\ k \in Nat /\ brk = k * PageUnits
      /\ frames <= Frames /\ Frames \in Nat
  BY BreakIs, HeapAssumption DEF HeapTypes
<1> HIDE DEF list, U
<1>4. n \in 1 .. n /\ Last(list) = list[n]
  BY <1>2, GoodParts, EmptySeq DEF Last
<1>5. End(list[n]) = brk /\ list[n].size > PageUnits
  BY <1>1, <1>4 DEF Trims, isConnectedToSbrk
<1>6. /\ list[n].size \in Nat /\ list[n].addr \in Nat
      /\ End(list[n]) = list[n].addr + list[n].size + 1
  BY <1>2, <1>4, GoodParts
<1>7. rel = list[n].size \div PageUnits
  BY <1>4 DEF Released
<1> HIDE DEF rel
<1>8. rel \in Nat /\ rel * PageUnits <= list[n].size
  BY <1>6, <1>7, ReleasedIs
<1>9. rel * PageUnits \in Nat
  BY <1>8, HeapAssumption
<1>10. rel * PageUnits <= k * PageUnits
  BY <1>3, <1>5, <1>6, <1>8, <1>9
<1> HIDE DEF k
<1>11. rel <= k /\ brk' = (k - rel) * PageUnits /\ brk' \in Nat
  BY <1>1, <1>3, <1>8, <1>10, PagesDown
<1>12. frames' \in 0 .. Frames /\ k - rel = Frames - frames'
  BY <1>1, <1>3, <1>8, <1>11 DEF k
<1>13. /\ Trimmed(list) \in Seq(Block) /\ Trimmed(list) # <<>> /\ Len(Trimmed(list)) = n
  BY <1>2, <1>5, TrimmedIs
<1>14. HeapTypes'
  <2>1. freesSinceMerge' \in 0 .. MergeThreshold - 1
    BY <1>1, HeapAssumption
  <2>2. used' \subseteq Block
    BY DEF HeapTypes
  <2>3. failed' \in {"none", "connected"}
    BY <1>1
  <2>4. QED BY <1>1, <1>11, <1>12, <1>13, <2>1, <2>2, <2>3 DEF HeapTypes
<1>15. ASSUME failed' = "none" PROVE HeapInv'
  <2>1. End(Last(Trimmed(list))) = brk'
    BY <1>1, <1>15
  <2>2. brk' = t
    BY <2>1, <1>13 DEF Last
  <2>3. brk' <= brk
    BY <1>1, <1>3, <1>9
  <2> HIDE DEF n, t
  <2>4. Good(Trimmed(list), brk')
    BY <2>2, <1>2, <1>5, TrimmedGood DEF n, t
  <2> DEFINE A == LostCells(list, U)
             B == LostCells(Trimmed(list), U)
  <2>5. /\ UsedGood(Trimmed(list), U, brk')
        /\ \A u \in Nat : u < brk' => (u \in A <=> u \in B)
    BY <2>2, <1>2, <1>3, <1>5, TrimKeeps DEF n, t
  <2>6. WholePages(A, brk)
    BY <1>2 DEF HeapInv
  <2> HIDE DEF A, B
  <2>7. \A u, v \in Nat : brk <= u /\ u < brk' /\ brk <= v /\ v < brk' /\ u \in B => v \in B
    BY <2>3, <1>3, <1>11
  <2>8. WholePages(B, brk')
    BY <2>5, <2>6, <2>7, <1>3, <1>11, WholePagesKept
  <2>9. QED BY <2>4, <2>5, <2>8, <1>1 DEF HeapInv, B, U
<1>16. QED BY <1>14, <1>15

LEMMA FreeStep ==
  ASSUME HeapTypes, failed = "none" => HeapInv, NEW b \in used, free(b)
  PROVE  /\ HeapTypes' /\ (failed' = "none" => HeapInv') /\ failed = "none"
         /\ used' = used \ {b}
<1>1. failed = "none" /\ used' = used \ {b}
  BY DEF free
<1>2. QED BY <1>1, KeepsStep, TrimsStep DEF free

-----------------------------------------------------------------------------
(* The contexts that call: the inductive invariant.                         *)

LEMMA InitIInv == CallsInit => IInv
<1> SUFFICES ASSUME CallsInit PROVE IInv
  OBVIOUS
<1>1. /\ freeList = <<>> /\ used = {} /\ brk = 0 /\ frames = Frames /\ failed = "none"
      /\ freesSinceMerge = 0 /\ call = [c \in Client |-> NoCall]
  BY DEF CallsInit, Init
<1>2. HeapTypes
  BY <1>1, HeapAssumption, EmptySeq DEF HeapTypes
<1>3. HeapInv
  <2>1. Good(<<>>, 0)
    BY EmptySeq DEF Good
  <2>2. UsedGood(<<>>, {}, 0)
    BY DEF UsedGood
  <2>3. WholePages(LostCells(<<>>, {}), 0)
    BY DEF WholePages
  <2>4. QED BY <1>1, <2>1, <2>2, <2>3 DEF HeapInv
<1>4. CallTypes /\ CallInv
  BY <1>1 DEF CallTypes, CallInv, Reallocating, Ready
<1>5. QED BY <1>2, <1>3, <1>4 DEF IInv

\* The header that free finds before the pointer of a realloc is that of the
\* block the pointer came from.
LEMMA HeaderIsOld ==
  ASSUME HeapInv, NEW b \in used
  PROVE  Header(b) = b
<1>1. \A u \in used : u.addr = b.addr => u = b
  <2>1. ASSUME NEW u \in used, u.addr = b.addr PROVE u = b
    <3>1. u \in Block /\ b \in Block
      BY DEF HeapInv, UsedGood
    <3>2. b.addr \in Nat /\ In(b.addr, b) /\ In(b.addr, u)
      BY <2>1, <3>1, BlockParts DEF In
    <3>3. QED BY <3>2 DEF HeapInv, UsedGood, Apart
  <2>2. QED BY <2>1
<1>2. QED BY <1>1 DEF Header

LEMMA MallocKeeps ==
  ASSUME IInv, NEW c \in Client, Malloc(c)
  PROVE  IInv'
<1>1. PICK n \in MallocSizes : malloc(Units(n))
  BY DEF Malloc
<1>2. Units(n) \in Nat \ {0}
  BY UnitsIs, HeapAssumption
<1>3. HeapTypes' /\ HeapInv' /\ failed = "none" /\ (used' = used \/ Handed(Units(n)))
  BY <1>1, <1>2, MallocStep DEF IInv
<1>4. used \subseteq used' /\ call' = call
  BY <1>3 DEF Handed, Malloc
<1>5. CallTypes' /\ CallInv'
  BY <1>3, <1>4 DEF IInv, CallTypes, CallInv, Reallocating, Ready
<1>6. QED BY <1>3, <1>5 DEF IInv

LEMMA FreeKeepsInv ==
  ASSUME IInv, NEW c \in Client, Free(c)
  PROVE  IInv'
<1>1. PICK b \in Owned : free(b)
  BY DEF Free
<1>2. b \in used /\ \A d \in Reallocating : call[d].old # b
  BY DEF Owned
<1>3. HeapTypes' /\ (failed' = "none" => HeapInv') /\ failed = "none" /\ used' = used \ {b}
  BY <1>1, <1>2, FreeStep DEF IInv
<1>4. call' = call
  BY DEF Free
<1>5. CallTypes' /\ CallInv'
  BY <1>2, <1>3, <1>4 DEF IInv, CallTypes, CallInv, Reallocating, Ready
<1>6. QED BY <1>3, <1>5 DEF IInv

LEMMA ReallocKeeps ==
  ASSUME IInv, NEW c \in Client, Realloc(c)
  PROVE  IInv'
<1>1. PICK b \in Owned, n \in ReallocSizes \ {0} :
        /\ malloc(Units(n))
        /\ call' = [call EXCEPT ![c] = [todo |-> "free", old |-> b]]
  BY DEF Realloc
<1>2. Units(n) \in Nat \ {0}
  BY UnitsIs, CallsAssumption
<1>3. HeapTypes' /\ HeapInv' /\ failed = "none" /\ (used' = used \/ Handed(Units(n)))
  BY <1>1, <1>2, MallocStep DEF IInv
<1>4. used \subseteq used'
  BY <1>3 DEF Handed
<1>5. b \in used /\ b \in Block /\ \A d \in Reallocating : call[d].old # b
  BY DEF Owned, IInv, HeapTypes
<1>6. call \in [Client -> {NoCall} \cup [todo : {"free"}, old : Block]]
  BY DEF IInv, CallTypes
<1>7. [todo |-> "free", old |-> b] \in [todo : {"free"}, old : Block]
  BY <1>5
<1>8. CallTypes'
  BY <1>1, <1>6, <1>7 DEF CallTypes
<1>9. call'[c].old = b /\ \A d \in Client \ {c} : call'[d] = call[d]
  BY <1>1, <1>6
<1>10. \A d \in Client \ {c} : call'[d] # NoCall => d \in Reallocating /\ call'[d].old = call[d].old
  BY <1>9 DEF Reallocating, Ready
<1>11. CallInv
  BY <1>3 DEF IInv
<1>12. ASSUME NEW d \in Client, call'[d] # NoCall PROVE call'[d].old \in used'
  BY <1>4, <1>5, <1>9, <1>10, <1>11, <1>12 DEF CallInv
<1>13. ASSUME NEW d \in Client, NEW e \in Client, call'[d] # NoCall, call'[e] # NoCall, d # e
       PROVE  call'[d].old # call'[e].old
  <2>1. CASE d = c
    BY <2>1, <1>5, <1>9, <1>10, <1>13
  <2>2. CASE e = c
    BY <2>2, <1>5, <1>9, <1>10, <1>13
  <2>3. CASE d # c /\ e # c
    BY <2>3, <1>10, <1>11, <1>13 DEF CallInv
  <2>4. QED BY <2>1, <2>2, <2>3
<1>14. CallInv'
  BY <1>12, <1>13 DEF CallInv, Reallocating, Ready
<1>15. QED BY <1>3, <1>8, <1>14 DEF IInv

LEMMA ReallocFreeKeeps ==
  ASSUME IInv, NEW c \in Client, ReallocFree(c)
  PROVE  IInv'
<1> DEFINE b == call[c].old
<1>1. c \in Reallocating /\ free(Header(b)) /\ call' = [call EXCEPT ![c] = NoCall]
  BY DEF ReallocFree, Reallocating
<1>2. failed = "none" /\ HeapInv /\ CallInv
  BY <1>1 DEF free, IInv
<1>3. b \in used /\ \A d \in Reallocating : d # c => call[d].old # b
  BY <1>1, <1>2 DEF CallInv
<1> HIDE DEF b
<1>4. free(b)
  BY <1>1, <1>2, <1>3, HeaderIsOld
<1>5. HeapTypes' /\ (failed' = "none" => HeapInv') /\ used' = used \ {b}
  BY <1>3, <1>4, FreeStep DEF IInv
<1>6. CallTypes' /\ \A d \in Client : call'[d] = IF d = c THEN NoCall ELSE call[d]
  BY <1>1 DEF IInv, CallTypes
<1>7. CallInv'
  BY <1>2, <1>3, <1>5, <1>6 DEF CallInv, Reallocating, Ready
<1>8. QED BY <1>5, <1>6, <1>7 DEF IInv

LEMMA NextIInv == IInv /\ [CallsNext]_vars => IInv'
<1> SUFFICES ASSUME IInv, [CallsNext]_vars PROVE IInv'
  OBVIOUS
<1>1. CASE UNCHANGED vars
  BY <1>1 DEF vars, heap, IInv, HeapTypes, HeapInv, CallTypes, CallInv, Reallocating, Ready
<1>2. ASSUME NEW c \in Client, Malloc(c) \/ Free(c) \/ Realloc(c) \/ ReallocFree(c)
      PROVE  IInv'
  BY <1>2, MallocKeeps, FreeKeepsInv, ReallocKeeps, ReallocFreeKeeps
<1>3. QED BY <1>1, <1>2 DEF CallsNext

-----------------------------------------------------------------------------
(* What follows from the invariant: the properties of HeapProperties.       *)

\* The cells of a block are those from its address to its end.
LEMMA CellsAre ==
  ASSUME NEW b \in Block
  PROVE  \A u \in Int : u \in Cells(b) <=> u \in Nat /\ In(u, b)
BY DEF Cells, In, Block, End

LEMMA FreeBlocksAre ==
  ASSUME freeList \in Seq(Block)
  PROVE  /\ FreeBlocks = {freeList[i] : i \in 1 .. Len(freeList)}
         /\ FreeBlocks \subseteq Block
         /\ \A u : Covers(freeList, u) <=> \E b \in FreeBlocks : In(u, b)
<1>1. FreeBlocks = {freeList[i] : i \in 1 .. Len(freeList)}
  BY DEF FreeBlocks
<1>2. QED BY <1>1 DEF Covers

LEMMA TypesFollow == IInv => TypeOK
<1> SUFFICES ASSUME IInv PROVE TypeOK
  OBVIOUS
<1>1. FreeBlocks \cup used \subseteq Block
  BY FreeBlocksAre DEF IInv, HeapTypes
<1>2. call \in [Client -> {NoCall} \cup [todo : {"malloc", "free"}, old : Block]]
  BY DEF IInv, CallTypes
<1>3. QED BY <1>1, <1>2 DEF IInv, HeapTypes, TypeOK

LEMMA NoOverlapFollows == IInv => NoOverlap
<1> SUFFICES ASSUME IInv, failed = "none" PROVE NoOverlap
  BY DEF NoOverlap
<1>1. Good(freeList, brk) /\ UsedGood(freeList, used, brk) /\ freeList \in Seq(Block)
  BY DEF IInv, HeapInv, HeapTypes
<1>2. brk \in Nat
  BY BreakIs DEF IInv
<1>3. FreeBlocks \subseteq Block /\ used \subseteq Block
  BY <1>1, FreeBlocksAre DEF UsedGood
<1>4. ASSUME NEW a \in FreeBlocks, NEW b \in used, NEW u \in Nat, In(u, a), In(u, b) PROVE FALSE
  <2>1. Covers(freeList, u)
    BY <1>1, <1>4, FreeBlocksAre
  <2>2. QED BY <2>1, <1>1, <1>4 DEF UsedGood
<1>5. ASSUME NEW a \in FreeBlocks, NEW b \in FreeBlocks, NEW u \in Nat, In(u, a), In(u, b)
      PROVE  a = b
  <2>1. PICK i \in 1 .. Len(freeList) : a = freeList[i]
    BY <1>1, FreeBlocksAre
  <2>2. PICK j \in 1 .. Len(freeList) : b = freeList[j]
    BY <1>1, FreeBlocksAre
  <2>3. /\ a.addr \in Nat /\ End(a) \in Nat /\ b.addr \in Nat /\ End(b) \in Nat
        /\ a.addr <= u /\ u < End(a) /\ b.addr <= u /\ u < End(b)
    BY <1>3, <1>5, BlockParts DEF In
  <2>4. ~(i < j) /\ ~(j < i)
    BY <2>1, <2>2, <2>3, <1>1 DEF Good
  <2>5. i = j
    BY <2>4
  <2>6. QED BY <2>1, <2>2, <2>5
<1>6. FreeBlocks \cap used = {}
  <2>1. ASSUME NEW b \in FreeBlocks, b \in used PROVE FALSE
    <3>1. b.addr \in Nat /\ In(b.addr, b)
      BY <1>3, BlockParts DEF In
    <3>2. QED BY <2>1, <3>1, <1>4
  <2>2. QED BY <2>1
<1>7. ASSUME NEW b \in FreeBlocks \cup used PROVE b.size > 0 /\ Cells(b) \subseteq 0 .. brk - 1
  <2>1. b.size > 0 /\ End(b) <= brk
    <3>1. CASE b \in used
      BY <3>1, <1>1 DEF UsedGood
    <3>2. CASE b \in FreeBlocks
      <4>1. PICK i \in 1 .. Len(freeList) : b = freeList[i]
        BY <3>2, <1>1, FreeBlocksAre
      <4>2. QED BY <4>1, <1>1 DEF Good
    <3>3. QED BY <3>1, <3>2
  <2>2. b.addr \in Nat /\ b.size \in Nat /\ End(b) = b.addr + b.size + 1
    BY <1>3, BlockParts
  <2>3. QED BY <2>1, <2>2, <1>2 DEF Cells
<1>8. ASSUME NEW a \in FreeBlocks \cup used, NEW b \in FreeBlocks \cup used, a # b
      PROVE  Cells(a) \cap Cells(b) = {}
  <2>1. ASSUME NEW u \in Cells(a), u \in Cells(b) PROVE FALSE
    <3>1. u \in Int
      BY <1>3, BlockParts DEF Cells
    <3>2. u \in Nat /\ In(u, a) /\ In(u, b)
      BY <2>1, <3>1, <1>3, CellsAre
    <3>3. CASE a \in used /\ b \in used
      BY <3>2, <3>3, <1>1, <1>8 DEF UsedGood, Apart
    <3>4. CASE a \in FreeBlocks /\ b \in FreeBlocks
      BY <3>2, <3>4, <1>5, <1>8
    <3>5. CASE a \in FreeBlocks /\ b \in used
      BY <3>2, <3>5, <1>4
    <3>6. CASE a \in used /\ b \in FreeBlocks
      BY <3>2, <3>6, <1>4
    <3>7. QED BY <3>3, <3>4, <3>5, <3>6
  <2>2. QED BY <2>1
<1>9. QED BY <1>6, <1>7, <1>8 DEF NoOverlap

LEMMA AscendsFollows == IInv => ListAscends
<1> SUFFICES ASSUME IInv, failed = "none" PROVE ListAscends
  BY DEF ListAscends
<1>1. Good(freeList, brk) /\ DOMAIN freeList = 1 .. Len(freeList)
  BY DEF IInv, HeapInv, Good
<1>2. \A i \in 1 .. Len(freeList) : /\ freeList[i].addr \in Nat /\ End(freeList[i]) \in Nat
                                    /\ freeList[i].addr + 1 < End(freeList[i])
  BY <1>1, GoodParts
<1>3. \A i, j \in 1 .. Len(freeList) : i < j => End(freeList[i]) <= freeList[j].addr
  BY <1>1, GoodParts
<1>4. ASSUME NEW i \in 1 .. Len(freeList), NEW j \in 1 .. Len(freeList), i < j
      PROVE  freeList[i].addr < freeList[j].addr
  BY <1>2, <1>3, <1>4
<1>5. QED BY <1>1, <1>4 DEF ListAscends

LEMMA NothingLostFollows == IInv => NothingLost
<1> SUFFICES ASSUME IInv, failed = "none" PROVE NothingLost
  BY DEF NothingLost
<1> DEFINE L == (0 .. brk - 1) \ UNION {Cells(b) : b \in FreeBlocks \cup used}
           M == LostCells(freeList, used)
<1>1. UsedGood(freeList, used, brk) /\ freeList \in Seq(Block) /\ WholePages(M, brk)
  BY DEF IInv, HeapInv, HeapTypes
<1>2. brk \in Nat
  BY BreakIs DEF IInv
<1>3. FreeBlocks \subseteq Block /\ used \subseteq Block
  BY <1>1, FreeBlocksAre DEF UsedGood
<1>4. ASSUME NEW u \in Nat
      PROVE  (\E b \in FreeBlocks \cup used : u \in Cells(b)) <=> u \notin M
  <2>1. \A b \in FreeBlocks \cup used : u \in Cells(b) <=> In(u, b)
    BY <1>3, CellsAre
  <2>2. Covers(freeList, u) <=> \E b \in FreeBlocks : In(u, b)
    BY <1>1, FreeBlocksAre
  <2>3. QED BY <2>1, <2>2 DEF LostCells
<1> HIDE DEF M
<1>5. \A u : u \in L <=> u \in 0 .. brk - 1 /\ u \in M
  BY <1>2, <1>4
<1> HIDE DEF L
<1>6. ASSUME NEW u \in L, NEW v \in 0 .. brk - 1, u \div PageUnits = v \div PageUnits
      PROVE  v \in L
  <2>1. u \in Nat /\ u < brk /\ u \in M /\ v \in Nat /\ v < brk
    BY <1>2, <1>5
  <2>2. QED BY <2>1, <1>1, <1>5, <1>6 DEF WholePages
<1>7. QED BY <1>6 DEF NothingLost, L

\* The free that merges, and it alone, makes freesSinceMerge smaller.
LEMMA MergeStep ==
  ASSUME HeapTypes, failed = "none" => HeapInv, NEW b \in used, free(b),
         freesSinceMerge' < freesSinceMerge
  PROVE  Spaced(freeList') /\ freeList' \in Seq(Block)
<1>1. HeapInv
  BY DEF free
<1>2. ~FreeKeeps(b)
  BY DEF FreeKeeps, HeapTypes
<1> DEFINE list == merge(Inserted(b))
<1>3. Good(list, brk) /\ list # <<>> /\ Spaced(list)
  BY <1>1, FreedIs, MergedSpaced
<1>4. CASE FreeMerges(b)
  BY <1>3, <1>4 DEF FreeMerges, Good
<1>5. CASE FreeTrims(b)
  <2>1. freeList' = Trimmed(list) /\ Trims(list)
    BY <1>5 DEF FreeTrims
  <2> HIDE DEF list
  <2>2. list[Len(list)].size > PageUnits
    BY <2>1 DEF Trims, Last
  <2>3. QED BY <2>1, <2>2, <1>3, TrimmedIs, TrimmedSpaced
<1>6. QED BY <1>2, <1>4, <1>5 DEF free

LEMMA SpacedIs ==
  ASSUME NEW list \in Seq(Block), Spaced(list), NEW i \in 1 .. Len(list), NEW j \in 1 .. Len(list)
  PROVE  list[i].addr + list[i].size + 1 # list[j].addr
<1>1. /\ list[i].addr \in Nat /\ list[i].size \in Nat
      /\ End(list[i]) = list[i].addr + list[i].size + 1
      /\ list[j].addr \in Nat /\ list[j].size \in Nat
      /\ End(list[j]) = list[j].addr + list[j].size + 1
  BY BlockParts
<1>2. CASE i < j
  BY <1>1, <1>2 DEF Spaced
<1>3. CASE i = j
  BY <1>1, <1>3
<1>4. CASE j < i
  <2>1. End(list[j]) < list[i].addr
    BY <1>4 DEF Spaced
  <2>2. QED BY <2>1, <1>1
<1>5. QED BY <1>2, <1>3, <1>4

\* Which heap operation a step is.
LEMMA StepIs ==
  ASSUME IInv, CallsNext
  PROVE  \/ \E n \in MallocSizes \cup ReallocSizes : malloc(Units(n))
         \/ \E b \in used : free(b)
<1>1. PICK c \in Client : Malloc(c) \/ Free(c) \/ Realloc(c) \/ ReallocFree(c)
  BY DEF CallsNext
<1>2. CASE Malloc(c) \/ Free(c) \/ Realloc(c)
  BY <1>2 DEF Malloc, Free, Realloc, Owned
<1>3. CASE ReallocFree(c)
  <2>1. c \in Reallocating /\ free(Header(call[c].old))
    BY <1>3 DEF ReallocFree, Reallocating
  <2>2. HeapInv /\ call[c].old \in used
    BY <2>1 DEF free, IInv, CallInv
  <2>3. QED BY <2>1, <2>2, HeaderIsOld
<1>4. QED BY <1>1, <1>2, <1>3

LEMMA MergeCompleteStep ==
  ASSUME IInv, [CallsNext]_vars, freesSinceMerge' < freesSinceMerge,
         NEW a \in {freeList'[i] : i \in DOMAIN freeList'},
         NEW b \in {freeList'[i] : i \in DOMAIN freeList'}
  PROVE  a.addr + a.size + 1 # b.addr
<1>1. ASSUME UNCHANGED vars PROVE FALSE
  BY <1>1 DEF vars, heap, IInv, HeapTypes
<1>2. ASSUME NEW n \in MallocSizes \cup ReallocSizes, malloc(Units(n)) PROVE FALSE
  BY <1>2 DEF malloc, IInv, HeapTypes
<1>3. PICK o \in used : free(o)
  BY <1>1, <1>2, StepIs
<1>4. Spaced(freeList') /\ freeList' \in Seq(Block)
  BY <1>3, MergeStep DEF IInv
<1>5. QED BY <1>4, SpacedIs

-----------------------------------------------------------------------------
(* The abstract allocator.                                                  *)

LEMMA BreakInMemory ==
  ASSUME NEW f \in 0 .. Frames
  PROVE  (Frames - f) * PageUnits \in Nat /\ (Frames - f) * PageUnits <= Frames * PageUnits
<1>1. f \in Nat /\ f <= Frames /\ Frames \in Nat /\ Frames - (f - f) = Frames
  BY HeapAssumption
<1>2. /\ (Frames - f) * PageUnits + f * PageUnits = (Frames - (f - f)) * PageUnits
      /\ f * PageUnits \in Nat
  BY <1>1, PagesUp
<1>3. (Frames - f) * PageUnits \in Nat
  BY <1>1, HeapAssumption
<1>4. QED BY <1>1, <1>2, <1>3

LEMMA BlockInMemory ==
  ASSUME NEW b \in Block, b.size > 0, NEW top \in Nat, End(b) <= top,
         NEW m \in Nat, m = Frames * PageUnits, top <= m
  PROVE  b \in AllocatorSpec!Blocks
<1>1. b.addr \in Nat /\ b.size \in Nat /\ End(b) = b.addr + b.size + 1
  BY BlockParts
<1>2. b.addr \in 0 .. m - 1 /\ b.size \in 1 .. m - 1 /\ b.addr + b.size < m
  BY <1>1
<1>3. b \in [addr : 0 .. m - 1, size : 1 .. m - 1]
  BY <1>2 DEF Block
<1>4. QED BY <1>2, <1>3 DEF AllocatorSpec!Blocks

LEMMA ApartCells ==
  ASSUME NEW a \in Block, NEW b \in Block, Apart(a, b)
  PROVE  AllocatorSpec!Cells(a) \cap AllocatorSpec!Cells(b) = {}
<1>1. ASSUME NEW u \in AllocatorSpec!Cells(a), u \in AllocatorSpec!Cells(b) PROVE FALSE
  <2>1. u \in Int /\ u \in Cells(a) /\ u \in Cells(b)
    BY <1>1, BlockParts DEF AllocatorSpec!Cells, Cells
  <2>2. u \in Nat /\ In(u, a) /\ In(u, b)
    BY <2>1, CellsAre
  <2>3. QED BY <2>2 DEF Apart
<1>2. QED BY <1>1

LEMMA AllocateStep ==
  ASSUME IInv, IInv', failed' = "none", NEW n \in MallocSizes \cup ReallocSizes,
         Handed(Units(n))
  PROVE  AllocatorSpec!Allocate
<1>1. PICK b \in used' : /\ used' = used \cup {b} /\ b.size >= Units(n)
                         /\ \A a \in used : Apart(a, b)
  BY DEF Handed
<1>2. HeapTypes' /\ UsedGood(freeList', used', brk')
  BY DEF IInv, HeapInv
<1>3. b \in AllocatorSpec!Blocks /\ b \in Block
  <2>1. b \in Block /\ b.size > 0 /\ End(b) <= brk'
    BY <1>2 DEF UsedGood
  <2>2. brk' \in Nat /\ brk' <= Frames * PageUnits
    BY <1>2, BreakInMemory DEF HeapTypes
  <2>3. Frames * PageUnits \in Nat
    BY HeapAssumption
  <2>4. QED BY <2>1, <2>2, <2>3, BlockInMemory
<1>4. \A a \in used : AllocatorSpec!Cells(a) \cap AllocatorSpec!Cells(b) = {}
  BY <1>1, <1>3, ApartCells DEF IInv, HeapTypes
<1>5. Units(n) \in {Units(m) : m \in MallocSizes \cup ReallocSizes}
  OBVIOUS
<1>6. QED BY <1>1, <1>3, <1>4, <1>5 DEF AllocatorSpec!Allocate

LEMMA RefinesStep ==
  ASSUME IInv, IInv', [CallsNext]_vars
  PROVE  [AllocatorSpec!Next]_used
<1>1. CASE UNCHANGED vars
  BY <1>1 DEF vars, heap
<1>2. ASSUME NEW n \in MallocSizes \cup ReallocSizes, malloc(Units(n))
      PROVE  [AllocatorSpec!Next]_used
  <2>1. Units(n) \in Nat \ {0}
    BY UnitsIs, HeapAssumption, CallsAssumption
  <2>2. failed' = "none" /\ (used' = used \/ Handed(Units(n)))
    BY <1>2, <2>1, MallocStep DEF IInv
  <2>3. QED BY <2>2, AllocateStep DEF AllocatorSpec!Next
<1>3. ASSUME NEW b \in used, free(b)
      PROVE  [AllocatorSpec!Next]_used
  <2>1. used' = used \ {b}
    BY <1>3 DEF free
  <2>2. QED BY <2>1 DEF AllocatorSpec!Next, AllocatorSpec!Release
<1>4. QED BY <1>1, <1>2, <1>3, StepIs

-----------------------------------------------------------------------------
(* The theorems.                                                            *)

LEMMA InvariantHolds == CallsSpec => []IInv
<1>1. QED BY InitIInv, NextIInv, PTL DEF CallsSpec

\* Blocks, frames, counters and calls have their types, and the break has moved
\* by the pages PMM has given, whatever the contexts call.
THEOREM TypesCorrect == CallsSpec => []TypeOK
<1>1. QED BY InvariantHolds, TypesFollow, PTL

\* Splitting, extending, merging and trimming never hand memory out twice: no two
\* blocks, free or in use, share a cell, and all lie below the break.
THEOREM BlocksNeverOverlap == CallsSpec => []NoOverlap
<1>1. QED BY InvariantHolds, NoOverlapFollows, PTL

\* free keeps the list in the order of the addresses, whatever is freed when.
THEOREM FreeListAscends == CallsSpec => []ListAscends
<1>1. QED BY InvariantHolds, AscendsFollows, PTL

\* Below the break nothing gets lost but the whole pages of a failed SBRK.
THEOREM NoMemoryLost == CallsSpec => []NothingLost
<1>1. QED BY InvariantHolds, NothingLostFollows, PTL

\* After the free that merges no two free blocks touch.
THEOREM MergesAll == CallsSpec => MergeIsComplete
<1>1. IInv /\ [CallsNext]_vars =>
        [freesSinceMerge' < freesSinceMerge =>
           \A a, b \in {freeList'[i] : i \in DOMAIN freeList'} :
             a.addr + a.size + 1 # b.addr]_vars
  BY MergeCompleteStep
<1>2. QED BY <1>1, InvariantHolds, PTL DEF CallsSpec, MergeIsComplete

\* The heap, with its reallocs in two halves, implements the abstract allocator.
THEOREM ImplementsAllocator == CallsSpec => RefinesAllocator
<1>1. CallsInit => AllocatorSpec!Init
  BY DEF CallsInit, Init, AllocatorSpec!Init
<1>2. IInv /\ IInv' /\ [CallsNext]_vars => [AllocatorSpec!Next]_used
  BY RefinesStep
<1>3. QED BY <1>1, <1>2, InvariantHolds, PTL
          DEF CallsSpec, RefinesAllocator, AllocatorSpec!Spec
=============================================================================
