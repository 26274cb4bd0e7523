----------------------------- MODULE PagingProofs -----------------------------
(****************************************************************************)
(* Proofs about the boot, the page managers and SBRK, for any number of     *)
(* entries of a page table, any memory and any screen that fit the layout   *)
(* of the address space: what PagingProperties says of pages and tables.    *)
(****************************************************************************)
EXTENDS PagingLayout, FiniteSetTheorems, NaturalsInduction, TLAPS

-----------------------------------------------------------------------------
(* Numbers.                                                                 *)

\* Min of the community modules finds the smallest of any numbers.
LEMMA Smallest ==
  ASSUME NEW T \in SUBSET Nat, T # {}
  PROVE  Min(T) \in T /\ \A m \in T : Min(T) <= m
<1> DEFINE R == {p \in Nat \X Nat : p[1] < p[2]}
<1>1. IsWellFoundedOn(R, Nat)
  BY NatLessThanWellFounded DEF OpToRel
<1> HIDE DEF R
<1>2. PICK n \in T : \A m \in T : <<m, n>> \notin R
  BY <1>1, WFMin
<1>3. ASSUME NEW m \in T, m < n PROVE FALSE
  <2>1. <<m, n>> \in R
    BY <1>3 DEF R
  <2>2. QED BY <1>2, <2>1
<1>4. \A m \in T : n <= m
  BY <1>3
<1>5. QED
  BY <1>4 DEF Min

\* What division leaves over.
LEMMA Quotient ==
  ASSUME NEW n \in Nat \ {0}, NEW a \in Nat
  PROVE  a \div n \in Nat /\ a % n \in 0 .. n - 1 /\ a = (a \div n) * n + (a % n)
  OBVIOUS

\* Dividing twice by n is dividing once by n squared.
LEMMA TwiceDivided ==
  ASSUME NEW n \in Nat \ {0}, NEW a \in Nat
  PROVE  a \div (n * n) = (a \div n) \div n
  OBVIOUS

\* The three indices of an address are indices of page tables.
LEMMA Indices ==
  ASSUME NEW v \in Virtual
  PROVE  /\ v \in Nat
         /\ P4INDEX(v) \in 0 .. Entries - 1
         /\ P3INDEX(v) \in 0 .. Entries - 1
         /\ P2INDEX(v) \in 0 .. Entries - 1
<1>1. Entries \in Nat \ {0} /\ v \in Nat /\ v < Entries * Entries * Entries
  BY PagingAssumption DEF Virtual
<1>2. v \div Entries \in Nat /\ P2INDEX(v) \in 0 .. Entries - 1
  BY <1>1, Quotient DEF P2INDEX
<1>3. P3INDEX(v) \in 0 .. Entries - 1
  BY <1>1, <1>2, Quotient DEF P3INDEX
<1>4. v \div (Entries * Entries) \in Nat /\ v \div (Entries * Entries) < Entries
  BY <1>1
<1>5. QED
  BY <1>1, <1>2, <1>3, <1>4 DEF P4INDEX

\* The indices of an address identify it.
LEMMA SameIndices ==
  ASSUME NEW v \in Virtual, NEW w \in Virtual,
         P4INDEX(v) = P4INDEX(w), P3INDEX(v) = P3INDEX(w), P2INDEX(v) = P2INDEX(w)
  PROVE  v = w
<1>1. Entries \in Nat \ {0} /\ v \in Nat /\ w \in Nat
  BY PagingAssumption DEF Virtual
<1>2. v \div Entries \in Nat /\ w \div Entries \in Nat
  BY <1>1, Quotient
<1>3. (v \div Entries) \div Entries = (w \div Entries) \div Entries
  BY <1>1, TwiceDivided DEF P4INDEX
<1>4. v \div Entries = w \div Entries
  BY <1>1, <1>2, <1>3, Quotient DEF P3INDEX
<1>5. QED
  BY <1>1, <1>4, Quotient DEF P2INDEX

-----------------------------------------------------------------------------
(* The invariant.                                                           *)

K4 == P4INDEX(KernelOffset)
K3 == P3INDEX(KernelOffset)

\* The contents T of n page tables more than three, of which those in P are taken.
TableType(n) == [0 .. 2 + n -> [0 .. Entries - 1 ->
                   [present : BOOLEAN, to : Physical \cup 0 .. 2 + n \cup {NoPage}]]]

NotSetUp(T, P, n) == P = {} /\ T = [t \in 0 .. 2 + n |-> [i \in 0 .. Entries - 1 |-> Absent]]

\* The topmost table has one entry, of the second one's entries the kernel's leads
\* to the table laid out for it, and the others to tables taken from the pool.
IsTree(T, P, n) ==
  /\ T \in TableType(n) /\ P \subseteq 0 .. n - 1 /\ 0 \in P
  /\ \A i \in 0 .. Entries - 1 : T[P4Table][i].present <=> i = K4
  /\ T[P4Table][K4].to = P3Table
  /\ T[P3Table][K3] = Present(P2Table)
  /\ \A i \in 0 .. Entries - 1 : T[P3Table][i].present =>
       T[P3Table][i].to = P2Table \/ \E k \in P \ {0} : T[P3Table][i].to = PoolTable(k)
  /\ \A i, j \in 0 .. Entries - 1 :
       T[P3Table][i].present /\ T[P3Table][j].present /\ T[P3Table][i].to = T[P3Table][j].to
         => i = j
  /\ \A k \in P \ {0} : \E i \in 0 .. Entries - 1 : T[P3Table][i] = Present(PoolTable(k))

\* The physical pages as the processor sees them, as a function.
Mapping == [v \in Virtual |-> GetPhysAddr(v)]

Kernel == 0 .. KernelPages - 1

Injective(M) == \A v, w \in Virtual : v # w /\ M[v] # NoPage => M[v] # M[w]

HeapMapped(M, top) == \A v \in HeapStart .. FrameBuffer - 1 : M[v] # NoPage <=> v < top

\* What lies where: the kernel, the heap up to top, x pages of the screen s and y
\* of its back buffer, all but the screen in the n pages PMM manages.
Places(M, top, x, y, s, n) ==
  /\ M[KernelOffset] = 0
  /\ \A v \in Virtual : v < HeapStart /\ v # KernelOffset => M[v] = NoPage
  /\ \A v \in HeapStart .. top - 1 : M[v] \in (0 .. n - 1) \ Kernel
  /\ \A v \in FrameBuffer .. BackBuffer - 1 :
       M[v] = IF v < FrameBuffer + x THEN s + (v - FrameBuffer) ELSE NoPage
  /\ \A v \in Virtual : v >= BackBuffer =>
       IF v < BackBuffer + y THEN M[v] \in ((0 .. n - 1) \ Kernel) \cup {NoPage}
       ELSE M[v] = NoPage

\* The locked pages are the kernel's and those mapped; of the n pages PMM manages all
\* of them, of the others those whose bits were clear.
Locked(M, B, n) ==
  /\ Kernel \cap (0 .. n - 1) \subseteq B
  /\ \A v \in Virtual : M[v] \in 0 .. n - 1 => M[v] \in B
  /\ \A q \in B : q \in Kernel \/ \E v \in Virtual : M[v] = q

Data(M, top, x, y, s, n, B) ==
  /\ M \in [Virtual -> Physical \cup {NoPage}]
  /\ Injective(M) /\ HeapMapped(M, top) /\ Places(M, top, x, y, s, n) /\ Locked(M, B, n)

\* What Graphics::Setup has mapped of the screen.
Shown == IF phase = "back" THEN drawn + 1 ELSE drawn

TagsRead ==
  IF phase = "tags"
    THEN /\ tags \in TagLists /\ tag \in Nat
         /\ area \in Areas(tags) /\ screen \in Screens(tags)
    ELSE Fits(area, screen)

\* What the counters say of the locked pages.
Counts(B, m, total) ==
  IsFiniteSet(B) /\ m.used = Cardinality(B) /\ m.used + m.free = total /\ m.free \in Int

Counted ==
  /\ bitmap \subseteq Physical
  /\ IF phase = "tags" THEN bitmap = {} /\ memory = [used |-> 0, free |-> 0]
     ELSE Counts(bitmap, memory, area.count)

Progress ==
  /\ phase \in {"tags", "paging", "graphics", "back", "run"}
  /\ drawn \in Nat /\ drawn <= screen.count
  /\ phase \in {"tags", "paging"} => drawn = 0
  /\ phase = "back" => drawn < screen.count
  /\ phase # "run" => KernelHeapEnd = HeapStart /\ moving = 0
  /\ phase \in {"tags", "paging"} => ~halted
  /\ KernelHeapEnd \in HeapStart .. FrameBuffer
  /\ moving \in -MaxMove .. MaxMove /\ halted \in BOOLEAN
  /\ tableCount \in TableCounts

Structure ==
  /\ tables \in TableType(tableCount) /\ pool \subseteq 0 .. tableCount - 1
  /\ phase \in {"tags", "paging"} => NotSetUp(tables, pool, tableCount)
  /\ phase \notin {"tags", "paging"} /\ ~halted => IsTree(tables, pool, tableCount)

Contents ==
  /\ phase = "paging" => bitmap \subseteq Kernel /\ Kernel \cap Managed \subseteq bitmap
  /\ Mapping \in [Virtual -> Physical \cup {NoPage}]
  /\ Injective(Mapping)
  /\ HeapMapped(Mapping, KernelHeapEnd)
  /\ phase \notin {"tags", "paging"} /\ ~halted =>
       Data(Mapping, KernelHeapEnd, Shown, drawn, screen.first, area.count, bitmap)

IInv == TagsRead /\ Counted /\ Progress /\ Structure /\ Contents

-----------------------------------------------------------------------------
(* Page tables.                                                             *)

\* TableOf and GetPhysAddr of the contents T.
Leads(T, v) ==
  LET e4 == T[P4Table][P4INDEX(v)]
      e3 == T[e4.to][P3INDEX(v)]
  IN  IF e4.present /\ e3.present THEN e3.to ELSE NoPage
Behind(T, v) ==
  IF Leads(T, v) # NoPage /\ T[Leads(T, v)][P2INDEX(v)].present
    THEN T[Leads(T, v)][P2INDEX(v)].to ELSE NoPage

\* The operators below are those of the model, for any contents of the tables.
LEMMA SameBehind ==
  \A v : TableOf(v) = Leads(tables, v) /\ GetPhysAddr(v) = Behind(tables, v)
BY DEF TableOf, Leads, GetPhysAddr, Behind

\* Addresses from the kernel's on share the entry of the topmost table.
Shares(v) == v \in Virtual /\ P4INDEX(v) = K4

\* What MapPage does, by what it finds: a P2 table, a free one, or none.
MapsInto(T, U, i, j, p) == U = [T EXCEPT ![T[P3Table][i].to][j] = Present(p)]
MapsFresh(T, U, i, j, p, k) ==
  U = [T EXCEPT ![P3Table] = [@ EXCEPT ![i] = Present(PoolTable(k))],
                ![PoolTable(k)] = [[l \in 0 .. Entries - 1 |-> Absent] EXCEPT ![j] = Present(p)]]
MapsNothing(T, U, i) == U = [T EXCEPT ![P3Table][i] = Present(NoPage)]

\* AllocatePageTable finds a table of the pool whose bit is not set, if any.
LEMMA FreshIs ==
  ASSUME NEW P, tableCount \in Nat
  PROVE  Fresh(P) = NoPage \/ Fresh(P) \in (0 .. tableCount - 1) \ P
<1>1. CASE 0 .. tableCount - 1 \subseteq P
  BY <1>1 DEF Fresh
<1>2. CASE ~(0 .. tableCount - 1 \subseteq P)
  <2> DEFINE R == (0 .. tableCount - 1) \ P
  <2>1. R \in SUBSET Nat /\ R # {}
    BY <1>2
  <2>2. Min(R) \in R
    BY <2>1, Smallest
  <2>3. Fresh(P) = Min(R)
    BY <1>2 DEF Fresh
  <2>4. QED BY <2>2, <2>3
<1>3. QED BY <1>1, <1>2

\* What of a tree the walk from the topmost table down relies on.
LEMMA TreeRows ==
  ASSUME NEW n \in Nat, NEW T, NEW P, IsTree(T, P, n)
  PROVE  /\ K4 \in 0 .. Entries - 1 /\ K3 \in 0 .. Entries - 1
         /\ T[P4Table][K4].present /\ T[P4Table][K4].to = P3Table
         /\ n # 0 /\ DOMAIN T = 0 .. 2 + n
         /\ \A t \in 0 .. 2 + n : DOMAIN T[t] = 0 .. Entries - 1
         /\ \A i \in 0 .. Entries - 1 : T[P3Table][i].present =>
              /\ T[P3Table][i].to \in 2 .. 2 + n
              /\ T[P3Table][i].to = P2Table \/ \E k \in P \ {0} : T[P3Table][i].to = PoolTable(k)
              
<1>1. KernelOffset \in Virtual
  BY PagingAssumption DEF Virtual
<1>2. K4 \in 0 .. Entries - 1 /\ K3 \in 0 .. Entries - 1
  BY <1>1, Indices DEF K4, K3
<1>3. P \subseteq 0 .. n - 1 /\ 0 \in P
  BY DEF IsTree
<1>4. \A k \in P \ {0} : PoolTable(k) \in 2 .. 2 + n
  BY <1>3 DEF PoolTable
<1>5. QED
  BY <1>2, <1>3, <1>4 DEF IsTree, TableType, P2Table, P3Table, P4Table

\* Below, of a record written out.
Walk(T, P, t) == [tables |-> T, pool |-> P, at |-> t]
Blind(T, t, i)    == [T EXCEPT ![t][i] = Present(NoPage)]
Grown(T, t, i, k) == [T EXCEPT ![t][i] = Present(PoolTable(k)),
                               ![PoolTable(k)] = [j \in 0 .. Entries - 1 |-> Absent]]

\* The walk follows an entry that is present.
LEMMA BelowPresent ==
  ASSUME NEW T, NEW P, NEW at, NEW t, NEW i, T[t][i].present
  PROVE  Below(Walk(T, P, at), t, i) = Walk(T, P, T[t][i].to)
BY DEF Below, Walk

\* With the pool empty, the walk writes an entry that leads nowhere.
LEMMA BelowNothing ==
  ASSUME NEW T, NEW P, NEW at, NEW t, NEW i, ~T[t][i].present, Fresh(P) = NoPage
  PROVE  Below(Walk(T, P, at), t, i) = Walk(Blind(T, t, i), P, NoPage)
<1> DEFINE s == Walk(T, P, at)
           X == Present(NoPage)
           Y == [T EXCEPT ![t][i] = X]
           s2 == Walk(T, P, NoPage)
<1>1. [s EXCEPT !.at = NoPage] = s2 /\ s2.tables = T
  BY DEF Walk
<1>2. [s2 EXCEPT !.tables = Y] = Walk(Y, P, NoPage)
  <2> HIDE DEF Y
  <2>1. QED BY DEF Walk
<1> HIDE DEF s2, X
<1>3. [s2 EXCEPT !.tables[t][i] = X] = [s2 EXCEPT !.tables = Y]
  BY <1>1
<1>4. [s EXCEPT !.at = NoPage, !.tables[t][i] = X] = [[s EXCEPT !.at = NoPage] EXCEPT !.tables[t][i] = X]
  <2> HIDE DEF s
  <2>1. QED OBVIOUS
<1>5. [s EXCEPT !.at = NoPage, !.tables[t][i] = Present(NoPage)] = Walk(Blind(T, t, i), P, NoPage)
  BY <1>1, <1>2, <1>3, <1>4 DEF X, Blind
<1>6. s.tables = T /\ s.pool = P
  BY DEF Walk
<1> HIDE DEF s
<1>7. QED BY <1>5, <1>6 DEF Below, s

\* The walk enters a table of the pool into an entry that is not present.
LEMMA BelowFresh ==
  ASSUME NEW T, NEW P, NEW at, NEW t, NEW i, ~T[t][i].present, Fresh(P) # NoPage
  PROVE  Below(Walk(T, P, at), t, i)
           = Walk(Grown(T, t, i, Fresh(P)), P \cup {Fresh(P)}, PoolTable(Fresh(P)))
BY DEF Below, Walk, Grown

\* MapPage does one of the three, and faults in the last.
LEMMA MapCases ==
  ASSUME NEW v, Shares(v), NEW p, tableCount \in Nat, IsTree(tables, pool, tableCount),
         MapPage(v, p),
         NEW i, i = P3INDEX(v), NEW j, j = P2INDEX(v), NEW k, k = Fresh(pool)
  PROVE  \/ /\ tables[P3Table][i].present /\ MapsInto(tables, tables', i, j, p)
            /\ pool' = pool /\ halted' = FALSE
         \/ /\ ~tables[P3Table][i].present /\ k # NoPage
            /\ MapsFresh(tables, tables', i, j, p, k)
            /\ pool' = pool \cup {k} /\ halted' = FALSE
         \/ /\ ~tables[P3Table][i].present /\ k = NoPage /\ MapsNothing(tables, tables', i)
            /\ pool' = pool /\ halted' = TRUE
<1> DEFINE e == tables[P3Table][i]
           root == Walk(tables, pool, P4Table)
           p3 == Below(root, P4Table, P4INDEX(v))
           p2 == IF p3.at = NoPage THEN p3 ELSE Below(p3, p3.at, P3INDEX(v))
<1>1. v \in Virtual /\ P4INDEX(v) = K4
  BY DEF Shares
<1>2. i \in 0 .. Entries - 1 /\ j \in 0 .. Entries - 1
  BY <1>1, Indices
<1>3. tables[P4Table][P4INDEX(v)].present /\ tables[P4Table][P4INDEX(v)].to = P3Table
  BY <1>1, TreeRows
<1>4. p3 = Walk(tables, pool, P3Table)
  BY <1>3, BelowPresent
<1>5. p2 = Below(Walk(tables, pool, P3Table), P3Table, i)
  <2>1. p3.at = P3Table /\ P3Table # NoPage
    BY <1>4 DEF Walk, P3Table, NoPage
  <2>2. QED BY <1>4, <2>1
<1>6. /\ pool' = p2.pool
      /\ halted' = (p2.at = NoPage)
      /\ tables' = IF p2.at = NoPage THEN p2.tables
                   ELSE [p2.tables EXCEPT ![p2.at][j] = Present(p)]
  BY DEF MapPage, Walk
<1>7. e.present => e.to \in 2 .. 2 + tableCount
  BY <1>2, TreeRows
<1> HIDE DEF p2, p3, e
<1>8. CASE e.present
  <2>1. p2 = Walk(tables, pool, e.to)
    BY <1>5, <1>8, BelowPresent DEF e
  <2>2. e.to # NoPage
    BY <1>7, <1>8 DEF NoPage
  <2>3. tables' = [tables EXCEPT ![e.to][j] = Present(p)] /\ pool' = pool /\ halted' = FALSE
    BY <1>6, <2>1, <2>2 DEF Walk
  <2>4. QED BY <1>8, <2>3 DEF MapsInto, e
<1>9. CASE ~e.present /\ k = NoPage
  <2>1. p2 = Walk([tables EXCEPT ![P3Table][i] = Present(NoPage)], pool, NoPage)
    <3>1. ~tables[P3Table][i].present /\ Fresh(pool) = NoPage
      BY <1>9 DEF e
    <3>2. p2 = Walk(Blind(tables, P3Table, i), pool, NoPage)
      BY <1>5, <3>1, BelowNothing
    <3>3. QED BY <3>2 DEF Blind
  <2>2. MapsNothing(tables, tables', i) /\ pool' = pool /\ halted' = TRUE
    <3> DEFINE M == [tables EXCEPT ![P3Table][i] = Present(NoPage)]
    <3>1. p2 = Walk(M, pool, NoPage)
      BY <2>1
    <3> HIDE DEF M
    <3>2. p2.tables = M /\ p2.pool = pool /\ p2.at = NoPage
      BY <3>1 DEF Walk
    <3>3. tables' = M /\ pool' = pool /\ halted' = TRUE
      BY <1>6, <3>2
    <3>4. QED BY <3>3 DEF M, MapsNothing
  <2>3. QED BY <1>9, <2>2 DEF e
<1>10. CASE ~e.present /\ k # NoPage
  <2> DEFINE E == [l \in 0 .. Entries - 1 |-> Absent]
             M == [tables EXCEPT ![P3Table][i] = Present(PoolTable(k)), ![PoolTable(k)] = E]
  <2>1. p2 = Walk(M, pool \cup {k}, PoolTable(k))
    <3>1. ~tables[P3Table][i].present /\ Fresh(pool) # NoPage
      BY <1>10 DEF e
    <3>2. p2 = Walk(Grown(tables, P3Table, i, k), pool \cup {k}, PoolTable(k))
      BY <1>5, <3>1, BelowFresh
    <3>3. QED BY <3>2 DEF Grown
  <2>2. k \in 0 .. tableCount - 1
    BY <1>10, FreshIs
  <2>3. PoolTable(k) # NoPage /\ PoolTable(k) \in 0 .. 2 + tableCount /\ PoolTable(k) # P3Table
    BY <2>2 DEF PoolTable, NoPage, P3Table
  <2>4. DOMAIN tables = 0 .. 2 + tableCount
    BY TreeRows
  <2>5. tables' = [M EXCEPT ![PoolTable(k)][j] = Present(p)] /\ halted' = FALSE /\ pool' = pool \cup {k}
    <3> HIDE DEF M
    <3>1. QED BY <1>6, <2>1, <2>3 DEF Walk
  <2>6. MapsFresh(tables, tables', i, j, p, k)
    <3> DEFINE R == [E EXCEPT ![j] = Present(p)]
               Q == [tables[P3Table] EXCEPT ![i] = Present(PoolTable(k))]
    <3>1. M = [[tables EXCEPT ![P3Table] = Q] EXCEPT ![PoolTable(k)] = E]
      OBVIOUS
    <3>2. M[PoolTable(k)] = E
      BY <2>3, <2>4
    <3>3. tables' = [M EXCEPT ![PoolTable(k)] = R]
      <4> HIDE DEF M
      <4>1. QED BY <2>5, <3>2
    <3>4. tables' = [[tables EXCEPT ![P3Table] = Q] EXCEPT ![PoolTable(k)] = R]
      <4> HIDE DEF Q, R
      <4>1. QED BY <3>1, <3>3
    <3>5. QED BY <3>4 DEF MapsFresh
  <2>7. QED BY <1>10, <2>5, <2>6 DEF e
<1>11. QED BY <1>8, <1>9, <1>10

\* The tables below the topmost one, and what lies behind an address.
LEMMA TreeLeads ==
  ASSUME NEW n \in Nat, NEW T, NEW P, IsTree(T, P, n)
  PROVE  /\ \A w \in Virtual : ~Shares(w) => Leads(T, w) = NoPage
         /\ \A w : Shares(w) =>
              /\ P3INDEX(w) \in 0 .. Entries - 1 /\ P2INDEX(w) \in 0 .. Entries - 1
              /\ ~T[P3Table][P3INDEX(w)].present => Leads(T, w) = NoPage
              /\ T[P3Table][P3INDEX(w)].present =>
                   /\ Leads(T, w) = T[P3Table][P3INDEX(w)].to
                   /\ Leads(T, w) \in 2 .. 2 + n /\ Leads(T, w) # NoPage
<1>1. ASSUME NEW w \in Virtual, ~Shares(w) PROVE Leads(T, w) = NoPage
  <2>1. P4INDEX(w) \in 0 .. Entries - 1 /\ P4INDEX(w) # K4
    BY <1>1, Indices DEF Shares
  <2>2. ~T[P4Table][P4INDEX(w)].present
    BY <2>1 DEF IsTree
  <2>3. QED BY <2>2 DEF Leads
<1>2. ASSUME NEW w, Shares(w)
      PROVE  /\ P3INDEX(w) \in 0 .. Entries - 1 /\ P2INDEX(w) \in 0 .. Entries - 1
             /\ Leads(T, w) = IF T[P3Table][P3INDEX(w)].present
                              THEN T[P3Table][P3INDEX(w)].to ELSE NoPage
  <2>1. w \in Virtual /\ P4INDEX(w) = K4
    BY <1>2 DEF Shares
  <2>2. T[P4Table][K4].present /\ T[P4Table][K4].to = P3Table
    BY TreeRows
  <2>3. QED BY <2>1, <2>2, Indices DEF Leads
<1>3. \A i \in 0 .. Entries - 1 : T[P3Table][i].present => T[P3Table][i].to \in 2 .. 2 + n
  BY TreeRows
<1>4. QED
  <2>1. ASSUME NEW w, Shares(w), T[P3Table][P3INDEX(w)].present
        PROVE  Leads(T, w) = T[P3Table][P3INDEX(w)].to /\ Leads(T, w) \in 2 .. 2 + n
               /\ Leads(T, w) # NoPage
    BY <1>2, <1>3, <2>1 DEF NoPage
  <2>2. QED BY <1>1, <1>2, <2>1

Rewrites(T, U, t, j, e) == U = [T EXCEPT ![t][j] = e]

\* Another entry in a P2 table: what is behind the other addresses stays.
LEMMA Rewritten ==
  ASSUME NEW n \in Nat, NEW T, NEW P, IsTree(T, P, n), NEW v, Shares(v),
         NEW e \in [present : BOOLEAN, to : Physical \cup 0 .. 2 + n \cup {NoPage}],
         T[P3Table][P3INDEX(v)].present,
         NEW U, Rewrites(T, U, T[P3Table][P3INDEX(v)].to, P2INDEX(v), e)
  PROVE  /\ IsTree(U, P, n)
         /\ Behind(U, v) = IF e.present THEN e.to ELSE NoPage
         /\ \A w \in Virtual : w # v => Behind(U, w) = Behind(T, w)
<1> DEFINE i == P3INDEX(v)
           j == P2INDEX(v)
           t == T[P3Table][i].to
<1>1. /\ i \in 0 .. Entries - 1 /\ j \in 0 .. Entries - 1
      /\ t \in 2 .. 2 + n
  BY TreeLeads
<1>2. T \in TableType(n)
  BY DEF IsTree
<1>3. t \in 0 .. 2 + n /\ t # P4Table /\ t # P3Table
      /\ P4Table \in 0 .. 2 + n /\ P3Table \in 0 .. 2 + n
  BY <1>1 DEF P4Table, P3Table
<1> HIDE DEF i, j, t
<1>4. U = [T EXCEPT ![t][j] = e]
  BY DEF Rewrites, i, j, t
<1>5. U \in TableType(n)
  BY <1>1, <1>2, <1>3, <1>4 DEF TableType
<1>6. U[P4Table] = T[P4Table] /\ U[P3Table] = T[P3Table]
  BY <1>2, <1>3, <1>4 DEF TableType
<1>7. \A s \in 0 .. 2 + n, l \in 0 .. Entries - 1 :
        U[s][l] = IF s = t /\ l = j THEN e ELSE T[s][l]
  BY <1>1, <1>2, <1>3, <1>4 DEF TableType
<1>8. IsTree(U, P, n)
  BY <1>5, <1>6 DEF IsTree
<1>9. ASSUME NEW w \in Virtual PROVE Leads(U, w) = Leads(T, w)
  <2>1. CASE ~Shares(w)
    BY <1>8, <2>1, TreeLeads
  <2>2. CASE Shares(w)
    <3>1. CASE T[P3Table][P3INDEX(w)].present
      BY <1>6, <1>8, <2>2, <3>1, TreeLeads
    <3>2. CASE ~T[P3Table][P3INDEX(w)].present
      BY <1>6, <1>8, <2>2, <3>2, TreeLeads
    <3>3. QED BY <3>1, <3>2
  <2>3. QED BY <2>1, <2>2
<1>10. Leads(T, v) = t /\ v \in Virtual
  BY TreeLeads DEF t, i, Shares
<1>11. Behind(U, v) = IF e.present THEN e.to ELSE NoPage
  <2>1. Leads(U, v) = t /\ t # NoPage
    BY <1>1, <1>9, <1>10 DEF NoPage
  <2>2. U[t][j] = e
    BY <1>1, <1>3, <1>7
  <2>3. QED BY <2>1, <2>2 DEF Behind, j
<1>12. ASSUME NEW w \in Virtual, w # v PROVE Behind(U, w) = Behind(T, w)
  <2> DEFINE l == Leads(T, w)
  <2>1. CASE l = NoPage
    BY <1>9, <2>1 DEF Behind
  <2>2. CASE l # NoPage
    <3>1. Shares(w) /\ T[P3Table][P3INDEX(w)].present /\ l = T[P3Table][P3INDEX(w)].to
          /\ l \in 2 .. 2 + n
      BY <2>2, <1>12, TreeLeads
    <3>2. P3INDEX(w) \in 0 .. Entries - 1 /\ P2INDEX(w) \in 0 .. Entries - 1
      BY <1>12, Indices
    <3>3. ~(l = t /\ P2INDEX(w) = j)
      <4>1. ASSUME l = t PROVE P3INDEX(w) = P3INDEX(v)
        BY <3>1, <3>2, <4>1, <1>1 DEF IsTree, t, i
      <4>2. P4INDEX(w) = P4INDEX(v)
        BY <3>1 DEF Shares
      <4>3. QED BY <4>1, <4>2, <1>10, <1>12, SameIndices DEF j
    <3>4. U[l][P2INDEX(w)] = T[l][P2INDEX(w)]
      BY <3>1, <3>2, <3>3, <1>7
    <3>5. QED BY <1>9, <1>12, <3>4 DEF Behind
  <2>3. QED BY <2>1, <2>2
<1>13. QED BY <1>8, <1>11, <1>12

\* A table taken from the pool.
LEMMA Opened ==
  ASSUME NEW n \in Nat, NEW T, NEW P, IsTree(T, P, n), NEW v, Shares(v),
         NEW p \in Physical \cup {NoPage}, NEW k \in (0 .. n - 1) \ P,
         NEW i, i = P3INDEX(v), NEW j, j = P2INDEX(v), ~T[P3Table][i].present,
         NEW U, MapsFresh(T, U, i, j, p, k), NEW Q0, Q0 = P \cup {k}
  PROVE  /\ IsTree(U, Q0, n)
         /\ Behind(U, v) = p
         /\ \A w \in Virtual : w # v => Behind(U, w) = Behind(T, w)
<1> DEFINE t == PoolTable(k)
           R == [[l \in 0 .. Entries - 1 |-> Absent] EXCEPT ![j] = Present(p)]
           Q == [T[P3Table] EXCEPT ![i] = Present(t)]
           rows == 0 .. Entries - 1
           Row == [rows -> [present : BOOLEAN, to : Physical \cup 0 .. 2 + n \cup {NoPage}]]
<1>1. i \in rows /\ j \in rows /\ v \in Virtual
  BY TreeLeads DEF Shares
<1>2. T \in [0 .. 2 + n -> Row] /\ P \subseteq 0 .. n - 1 /\ 0 \in P
  BY DEF IsTree, TableType
<1>3. t \in 0 .. 2 + n /\ t > P2Table /\ P4Table \in 0 .. 2 + n /\ P3Table \in 0 .. 2 + n
      /\ P4Table # P3Table /\ P4Table < P2Table /\ P3Table < P2Table /\ P2Table = 2
  <2>1. k \in 1 .. n - 1
    BY <1>2
  <2>2. QED BY <2>1 DEF PoolTable, P4Table, P3Table, P2Table
<1>4. /\ Present(t) \in [present : BOOLEAN, to : Physical \cup 0 .. 2 + n \cup {NoPage}]
      /\ Present(p) \in [present : BOOLEAN, to : Physical \cup 0 .. 2 + n \cup {NoPage}]
      /\ Absent \in [present : BOOLEAN, to : Physical \cup 0 .. 2 + n \cup {NoPage}]
      /\ Present(t).present /\ Present(t).to = t /\ Present(p).present /\ Present(p).to = p
      /\ ~Absent.present
  BY <1>3 DEF Present, Absent
<1> HIDE DEF t
<1>5. R \in Row /\ R[j] = Present(p) /\ \A l \in rows : l # j => R[l] = Absent
  BY <1>1, <1>4
<1>6. Q \in Row /\ Q[i] = Present(t) /\ \A l \in rows : l # i => Q[l] = T[P3Table][l]
  BY <1>1, <1>2, <1>3, <1>4
<1>7. U = [T EXCEPT ![P3Table] = Q, ![t] = R]
  BY DEF MapsFresh, t
<1> HIDE DEF R, Q, Row, rows
<1>8. U \in [0 .. 2 + n -> Row] /\ U[P3Table] = Q /\ U[t] = R
      /\ \A s \in 0 .. 2 + n : s # P3Table /\ s # t => U[s] = T[s]
  BY <1>2, <1>3, <1>5, <1>6, <1>7
<1>9. U[P4Table] = T[P4Table]
  BY <1>3, <1>8
<1>10. i # K3
  BY <1>4 DEF IsTree, Present
<1>11. \A l \in rows : T[P3Table][l].present => T[P3Table][l].to # t
  <2>1. ASSUME NEW l \in rows, T[P3Table][l].present, T[P3Table][l].to = t PROVE FALSE
    <3>1. T[P3Table][l].to = P2Table \/ \E q \in P \ {0} : T[P3Table][l].to = PoolTable(q)
      BY <2>1 DEF IsTree, rows
    <3>2. PICK q \in P : t = PoolTable(q)
      BY <2>1, <3>1, <1>3
    <3>3. q = k
      BY <3>2, <1>2 DEF t, PoolTable
    <3>4. QED BY <3>3
  <2>2. QED BY <2>1
<1>12. IsTree(U, P \cup {k}, n)
  <2>1. U \in TableType(n) /\ P \cup {k} \subseteq 0 .. n - 1 /\ 0 \in P \cup {k}
    BY <1>2, <1>8 DEF TableType, Row, rows
  <2>2. /\ \A l \in rows : U[P4Table][l].present <=> l = K4
        /\ U[P4Table][K4].to = P3Table
    BY <1>9 DEF IsTree, rows
  <2>3. U[P3Table][K3] = Present(P2Table)
    <3>1. K3 \in rows /\ T[P3Table][K3] = Present(P2Table)
      BY TreeRows DEF IsTree, rows
    <3>2. QED BY <3>1, <1>6, <1>8, <1>10
  <2>4. \A l \in rows : U[P3Table][l].present =>
          U[P3Table][l].to = P2Table \/ \E q \in (P \cup {k}) \ {0} : U[P3Table][l].to = PoolTable(q)
    <3>1. ASSUME NEW l \in rows, U[P3Table][l].present
          PROVE  U[P3Table][l].to = P2Table \/ \E q \in (P \cup {k}) \ {0} : U[P3Table][l].to = PoolTable(q)
      <4>1. CASE l = i
        <5>1. U[P3Table][l].to = PoolTable(k) /\ k # 0
          BY <4>1, <1>2, <1>4, <1>6, <1>8 DEF t
        <5>2. QED BY <5>1
      <4>2. CASE l # i
        <5>1. U[P3Table][l] = T[P3Table][l]
          BY <3>1, <4>2, <1>6, <1>8
        <5>2. T[P3Table][l].to = P2Table \/ \E q \in P \ {0} : T[P3Table][l].to = PoolTable(q)
          BY <3>1, <5>1 DEF IsTree, rows
        <5>3. QED BY <5>1, <5>2
      <4>3. QED BY <4>1, <4>2
    <3>2. QED BY <3>1
  <2>5. \A l, m \in rows :
          U[P3Table][l].present /\ U[P3Table][m].present /\ U[P3Table][l].to = U[P3Table][m].to
            => l = m
    <3>1. \A l, m \in rows :
            T[P3Table][l].present /\ T[P3Table][m].present /\ T[P3Table][l].to = T[P3Table][m].to
              => l = m
      BY DEF IsTree, rows
    <3>2. QED BY <3>1, <1>4, <1>6, <1>8, <1>11
  <2>6. \A q \in (P \cup {k}) \ {0} : \E l \in rows : U[P3Table][l] = Present(PoolTable(q))
    <3>1. \A q \in P \ {0} : \E l \in rows : T[P3Table][l] = Present(PoolTable(q))
      BY DEF IsTree, rows
    <3>2. ASSUME NEW q \in P \ {0} PROVE \E l \in rows : U[P3Table][l] = Present(PoolTable(q))
      <4>1. PICK l \in rows : T[P3Table][l] = Present(PoolTable(q))
        BY <3>1
      <4>2. T[P3Table][l].present
        BY <4>1 DEF Present
      <4>3. QED BY <4>1, <4>2, <1>6, <1>8
    <3>3. U[P3Table][i] = Present(PoolTable(k))
      BY <1>6, <1>8 DEF t
    <3>4. QED BY <3>2, <3>3, <1>1
  <2>7. QED BY <2>1, <2>2, <2>3, <2>4, <2>5, <2>6 DEF IsTree, rows
<1>13. Behind(U, v) = p
  <2>1. Leads(U, v) = t /\ t # NoPage
    BY <1>1, <1>3, <1>4, <1>6, <1>8, <1>12, TreeLeads DEF NoPage
  <2>2. QED BY <2>1, <1>4, <1>5, <1>8 DEF Behind
<1>14. ASSUME NEW w \in Virtual, w # v PROVE Behind(U, w) = Behind(T, w)
  <2>1. CASE ~Shares(w)
    BY <2>1, <1>12, TreeLeads DEF Behind
  <2>2. CASE Shares(w) /\ P3INDEX(w) = i
    <3>1. Behind(T, w) = NoPage
      BY <2>2, TreeLeads DEF Behind
    <3>2. P2INDEX(w) # j /\ P2INDEX(w) \in rows
      BY <2>2, <1>1, <1>14, SameIndices, Indices DEF Shares, rows
    <3>3. Leads(U, w) = t
      BY <2>2, <1>4, <1>6, <1>8, <1>12, TreeLeads
    <3>4. ~U[t][P2INDEX(w)].present
      BY <3>2, <1>4, <1>5, <1>8
    <3>5. QED BY <3>1, <3>3, <3>4 DEF Behind
  <2>3. CASE Shares(w) /\ P3INDEX(w) # i
    <3>1. P3INDEX(w) \in rows
      BY <1>14, Indices DEF rows
    <3>2. U[P3Table][P3INDEX(w)] = T[P3Table][P3INDEX(w)]
      BY <2>3, <3>1, <1>6, <1>8
    <3>3. CASE ~T[P3Table][P3INDEX(w)].present
      BY <2>3, <3>2, <3>3, <1>12, TreeLeads DEF Behind
    <3>4. CASE T[P3Table][P3INDEX(w)].present
      <4> DEFINE l == T[P3Table][P3INDEX(w)].to
      <4>1. Leads(T, w) = l /\ Leads(U, w) = l /\ l \in 2 .. 2 + n
        BY <2>3, <3>2, <3>4, <1>12, TreeLeads
      <4>2. l # t /\ l # P3Table
        BY <3>1, <3>4, <4>1, <1>3, <1>11
      <4>3. U[l] = T[l]
        BY <4>1, <4>2, <1>8
      <4>4. QED BY <4>1, <4>3 DEF Behind
    <3>5. QED BY <3>3, <3>4
  <2>4. QED BY <2>1, <2>2, <2>3
<1>15. QED BY <1>12, <1>13, <1>14, Zenon

\* An entry that leads nowhere.
LEMMA Blinded ==
  ASSUME NEW n \in Nat, NEW T, NEW P, IsTree(T, P, n), NEW v, Shares(v),
         NEW i, i = P3INDEX(v), ~T[P3Table][i].present,
         NEW U, MapsNothing(T, U, i)
  PROVE  /\ U \in TableType(n)
         /\ \A w \in Virtual : Behind(U, w) = Behind(T, w)
<1>1. i \in 0 .. Entries - 1
  BY TreeLeads
<1>2. T \in TableType(n) /\ P4Table \in 0 .. 2 + n /\ P3Table \in 0 .. 2 + n
      /\ P4Table # P3Table
  BY DEF IsTree, P4Table, P3Table
<1>3. Present(NoPage) \in [present : BOOLEAN, to : Physical \cup 0 .. 2 + n \cup {NoPage}]
  BY DEF Present
<1>4. U = [T EXCEPT ![P3Table][i] = Present(NoPage)]
  BY DEF MapsNothing
<1>5. U \in TableType(n)
  BY <1>1, <1>2, <1>3, <1>4 DEF TableType
<1>6. /\ \A s \in 0 .. 2 + n : s # P3Table => U[s] = T[s]
      /\ U[P3Table][i] = Present(NoPage)
      /\ \A l \in 0 .. Entries - 1 : l # i => U[P3Table][l] = T[P3Table][l]
  BY <1>1, <1>2, <1>4 DEF TableType
<1>7. ASSUME NEW w \in Virtual PROVE Behind(U, w) = Behind(T, w)
  <2>1. U[P4Table] = T[P4Table]
    BY <1>2, <1>6
  <2>2. P4INDEX(w) \in 0 .. Entries - 1 /\ P3INDEX(w) \in 0 .. Entries - 1
    BY <1>7, Indices
  <2>3. CASE ~Shares(w)
    <3>1. ~T[P4Table][P4INDEX(w)].present
      BY <2>2, <2>3 DEF IsTree, Shares
    <3>2. QED BY <2>1, <3>1 DEF Behind, Leads
  <2>4. CASE Shares(w)
    <3>1. U[P4Table][P4INDEX(w)] = T[P4Table][K4] /\ T[P4Table][K4].present
          /\ T[P4Table][K4].to = P3Table /\ P4INDEX(w) = K4
      BY <2>1, <2>4, TreeRows DEF Shares
    <3>2. Leads(U, w) = IF U[P3Table][P3INDEX(w)].present THEN U[P3Table][P3INDEX(w)].to ELSE NoPage
      BY <3>1 DEF Leads
    <3>3. CASE P3INDEX(w) = i
      <4>1. Leads(U, w) = NoPage
        BY <3>2, <3>3, <1>6 DEF Present
      <4>2. Leads(T, w) = NoPage
        BY <2>4, <3>3, TreeLeads
      <4>3. QED BY <4>1, <4>2 DEF Behind
    <3>4. CASE P3INDEX(w) # i
      <4>1. U[P3Table][P3INDEX(w)] = T[P3Table][P3INDEX(w)]
        BY <2>2, <3>4, <1>6
      <4>2. Leads(U, w) = Leads(T, w) /\ (Leads(T, w) # NoPage => Leads(T, w) \in 2 .. 2 + n)
        BY <2>4, <3>2, <4>1, TreeLeads
      <4>3. CASE Leads(T, w) = NoPage
        BY <4>2, <4>3 DEF Behind
      <4>4. CASE Leads(T, w) # NoPage
        <5>1. U[Leads(T, w)] = T[Leads(T, w)]
          BY <4>2, <4>4, <1>6 DEF P3Table
        <5>2. QED BY <4>2, <5>1 DEF Behind
      <4>5. QED BY <4>3, <4>4
    <3>5. QED BY <3>3, <3>4
  <2>5. QED BY <2>3, <2>4
<1>8. QED BY <1>5, <1>7

\* Mapping is read off the tables, before and after a step.
LEMMA MappingIs ==
  /\ Mapping = [v \in Virtual |-> Behind(tables, v)]
  /\ Mapping' = [v \in Virtual |-> Behind(tables', v)]
<1>1. \A v : GetPhysAddr(v) = Behind(tables, v)
  BY SameBehind
<1>2. \A v : GetPhysAddr(v)' = Behind(tables', v)
  BY DEF TableOf, Leads, GetPhysAddr, Behind
<1>3. QED BY <1>1, <1>2 DEF Mapping

\* Exactly the page behind v changes.
LEMMA OneBehind ==
  ASSUME NEW v \in Virtual, NEW p, Behind(tables', v) = p,
         \A w \in Virtual : w # v => Behind(tables', w) = Behind(tables, w)
  PROVE  Mapping' = [Mapping EXCEPT ![v] = p]
BY MappingIs

\* MapPage maps the page and no other, or maps none and faults.
LEMMA MapPageMaps ==
  ASSUME NEW v, Shares(v), NEW p \in Physical \cup {NoPage},
         tableCount \in Nat, IsTree(tables, pool, tableCount), MapPage(v, p)
  PROVE  /\ tables' \in TableType(tableCount) /\ pool' \subseteq 0 .. tableCount - 1
         /\ halted' \in BOOLEAN
         /\ ~halted' => IsTree(tables', pool', tableCount) /\ Mapping' = [Mapping EXCEPT ![v] = p]
         /\ halted' => Mapping' = Mapping
<1> DEFINE i == P3INDEX(v)
           j == P2INDEX(v)
           k == Fresh(pool)
<1>1. v \in Virtual
  BY DEF Shares
<1>2. \A U, Q : IsTree(U, Q, tableCount) => U \in TableType(tableCount) /\ Q \subseteq 0 .. tableCount - 1
  BY DEF IsTree
<1>3. CASE /\ tables[P3Table][i].present /\ MapsInto(tables, tables', i, j, p)
           /\ pool' = pool /\ halted' = FALSE
  <2>1. Present(p) \in [present : BOOLEAN, to : Physical \cup 0 .. 2 + tableCount \cup {NoPage}]
        /\ Present(p).present /\ Present(p).to = p
    BY DEF Present
  <2>2. Rewrites(tables, tables', tables[P3Table][P3INDEX(v)].to, P2INDEX(v), Present(p))
    BY <1>3 DEF MapsInto, Rewrites
  <2>3. /\ IsTree(tables', pool, tableCount) /\ Behind(tables', v) = p
        /\ \A w \in Virtual : w # v => Behind(tables', w) = Behind(tables, w)
    BY <1>3, <2>1, <2>2, Rewritten
  <2>4. Mapping' = [Mapping EXCEPT ![v] = p]
    BY <1>1, <2>3, OneBehind
  <2>5. QED BY <1>2, <1>3, <2>3, <2>4
<1>4. CASE /\ ~tables[P3Table][i].present /\ k # NoPage /\ MapsFresh(tables, tables', i, j, p, k)
           /\ pool' = pool \cup {k} /\ halted' = FALSE
  <2>1. k \in (0 .. tableCount - 1) \ pool
    BY <1>4, FreshIs
  <2>2. /\ IsTree(tables', pool', tableCount) /\ Behind(tables', v) = p
        /\ \A w \in Virtual : w # v => Behind(tables', w) = Behind(tables, w)
    BY <1>4, <2>1, Opened
  <2>3. Mapping' = [Mapping EXCEPT ![v] = p]
    BY <1>1, <2>2, OneBehind
  <2>4. QED BY <1>2, <1>4, <2>2, <2>3
<1>5. CASE /\ ~tables[P3Table][i].present /\ k = NoPage /\ MapsNothing(tables, tables', i)
           /\ pool' = pool /\ halted' = TRUE
  <2>1. tables' \in TableType(tableCount) /\ \A w \in Virtual : Behind(tables', w) = Behind(tables, w)
    BY <1>5, Blinded
  <2>2. Mapping' = Mapping
    BY <2>1, MappingIs
  <2>3. pool \subseteq 0 .. tableCount - 1
    BY <1>2
  <2>4. QED BY <1>5, <2>1, <2>2, <2>3
<1>7. \/ /\ tables[P3Table][i].present /\ MapsInto(tables, tables', i, j, p)
         /\ pool' = pool /\ halted' = FALSE
      \/ /\ ~tables[P3Table][i].present /\ k # NoPage /\ MapsFresh(tables, tables', i, j, p, k)
         /\ pool' = pool \cup {k} /\ halted' = FALSE
      \/ /\ ~tables[P3Table][i].present /\ k = NoPage /\ MapsNothing(tables, tables', i)
         /\ pool' = pool /\ halted' = TRUE
  BY MapCases
<1>8. QED BY <1>3, <1>4, <1>5, <1>7

\* UnmapPage takes away what is behind the page, and nothing else.
LEMMA UnmapPageUnmaps ==
  ASSUME NEW v, Shares(v), tableCount \in Nat, IsTree(tables, pool, tableCount), UnmapPage(v)
  PROVE  /\ IsTree(tables', pool, tableCount)
         /\ Mapping' = [Mapping EXCEPT ![v] = NoPage]
<1> DEFINE i == P3INDEX(v)
           j == P2INDEX(v)
           t == Leads(tables, v)
<1>1. v \in Virtual
  BY DEF Shares
<1>2. tables' = IF t = NoPage THEN tables ELSE [tables EXCEPT ![t][j].present = FALSE]
  BY SameBehind DEF UnmapPage
<1>3. CASE t = NoPage
  <2>1. tables' = tables
    BY <1>2, <1>3
  <2>2. Behind(tables', v) = NoPage
    BY <1>3, <2>1 DEF Behind
  <2>3. QED BY <1>1, <2>1, <2>2, OneBehind
<1>4. CASE t # NoPage
  <2> DEFINE e == [tables[t][j] EXCEPT !.present = FALSE]
  <2>1. /\ tables[P3Table][i].present /\ t = tables[P3Table][i].to /\ t \in 2 .. 2 + tableCount
        /\ j \in 0 .. Entries - 1
    BY <1>4, TreeLeads
  <2> HIDE DEF t, i, j, e
  <2>2. tables[t][j] \in [present : BOOLEAN, to : Physical \cup 0 .. 2 + tableCount \cup {NoPage}]
    <3>1. tables \in TableType(tableCount) /\ t \in 0 .. 2 + tableCount
      BY <2>1 DEF IsTree
    <3>2. QED BY <2>1, <3>1 DEF TableType
  <2> USE DEF e
  <2>3. e \in [present : BOOLEAN, to : Physical \cup 0 .. 2 + tableCount \cup {NoPage}] /\ ~e.present
    BY <2>2
  <2>4. tables' = [tables EXCEPT ![t][j] = e]
    BY <1>2, <1>4
  <2>5. Rewrites(tables, tables', tables[P3Table][P3INDEX(v)].to, P2INDEX(v), e)
    <3> HIDE DEF e
    <3>1. QED BY <2>1, <2>4 DEF Rewrites, i, j
  <2> HIDE DEF e
  <2>6. /\ IsTree(tables', pool, tableCount) /\ Behind(tables', v) = NoPage
        /\ \A w \in Virtual : w # v => Behind(tables', w) = Behind(tables, w)
    <3>1. tables[P3Table][P3INDEX(v)].present
      BY <2>1 DEF i
    <3>2. Behind(tables', v) = IF e.present THEN e.to ELSE NoPage
      BY <2>3, <2>5, <3>1, Rewritten
    <3>3. QED BY <2>3, <2>5, <3>1, <3>2, Rewritten
  <2>7. QED BY <1>1, <2>6, OneBehind
<1>5. QED BY <1>3, <1>4

\* Before SetupPaging no address is mapped.
LEMMA NothingMapped ==
  ASSUME NEW n \in Nat, NEW T, NotSetUp(T, {}, n)
  PROVE  \A v \in Virtual : Behind(T, v) = NoPage
<1>1. ASSUME NEW v \in Virtual PROVE Leads(T, v) = NoPage
  <2>1. P4INDEX(v) \in 0 .. Entries - 1 /\ P4Table \in 0 .. 2 + n
    BY Indices DEF P4Table
  <2>2. T[P4Table][P4INDEX(v)] = Absent
    BY <2>1 DEF NotSetUp
  <2>3. QED BY <2>2 DEF Leads, Absent
<1>2. QED BY <1>1 DEF Behind

\* SetupPaging lays the tables out and maps the kernel's page.
SetsUp(T, U) ==
  U = [T EXCEPT ![P4Table][P4INDEX(KernelOffset)] = Present(P3Table),
                ![P3Table][P3INDEX(KernelOffset)] = Present(P2Table),
                ![P2Table][P2INDEX(KernelOffset)] = Present(0)]

\* SetupPaging makes a tree that maps one page, the kernel's.
LEMMA LaidOut ==
  ASSUME NEW n \in Nat, n # 0, 0 \in Physical, NEW T, NotSetUp(T, {}, n), NEW U, SetsUp(T, U)
  PROVE  /\ IsTree(U, {0}, n)
         /\ \A v \in Virtual : Behind(U, v) = IF v = KernelOffset THEN 0 ELSE NoPage
<1> DEFINE rows == 0 .. Entries - 1
           K2 == P2INDEX(KernelOffset)
<1>1. KernelOffset \in Virtual /\ K4 \in rows /\ K3 \in rows /\ K2 \in rows
  <2>1. KernelOffset \in Virtual
    BY PagingAssumption DEF Virtual
  <2>2. QED BY <2>1, Indices DEF K4, K3
<1>2. P4Table = 0 /\ P3Table = 1 /\ P2Table = 2 /\ {0, 1, 2} \subseteq 0 .. 2 + n
  BY DEF P4Table, P3Table, P2Table
<1>3. T = [t \in 0 .. 2 + n |-> [l \in rows |-> Absent]]
  BY DEF NotSetUp
<1>4. U = [T EXCEPT ![0][K4] = Present(1), ![1][K3] = Present(2), ![2][K2] = Present(0)]
  BY <1>2 DEF SetsUp, K4, K3
<1> HIDE DEF K2, rows
<1> DEFINE Row == [rows -> [present : BOOLEAN, to : Physical \cup 0 .. 2 + n \cup {NoPage}]]
<1>7. /\ Present(1).present /\ Present(1).to = 1 /\ Present(2).present /\ Present(2).to = 2
      /\ Present(0).present /\ Present(0).to = 0 /\ ~Absent.present
      /\ {Absent, Present(0), Present(1), Present(2)} \subseteq
           [present : BOOLEAN, to : Physical \cup 0 .. 2 + n \cup {NoPage}]
  BY DEF Present, Absent
<1>5. T \in [0 .. 2 + n -> Row] /\ \A t \in 0 .. 2 + n, l \in rows : T[t][l] = Absent
  BY <1>3, <1>7
<1> HIDE DEF Row
<1>6. /\ U \in [0 .. 2 + n -> Row]
      /\ \A t \in 0 .. 2 + n, l \in rows :
        U[t][l] = IF t = 0 /\ l = K4 THEN Present(1) ELSE IF t = 1 /\ l = K3 THEN Present(2)
                  ELSE IF t = 2 /\ l = K2 THEN Present(0) ELSE Absent
  <2> DEFINE T1 == [T EXCEPT ![0][K4] = Present(1)]
             T2 == [T1 EXCEPT ![1][K3] = Present(2)]
             T3 == [T2 EXCEPT ![2][K2] = Present(0)]
  <2>1. /\ T1 \in [0 .. 2 + n -> Row]
        /\ \A t \in 0 .. 2 + n, l \in rows :
             T1[t][l] = IF t = 0 /\ l = K4 THEN Present(1) ELSE Absent
    BY <1>1, <1>2, <1>5, <1>7 DEF Row
  <2> HIDE DEF T1
  <2>2. /\ T2 \in [0 .. 2 + n -> Row]
        /\ \A t \in 0 .. 2 + n, l \in rows :
             T2[t][l] = IF t = 1 /\ l = K3 THEN Present(2) ELSE T1[t][l]
    BY <1>1, <1>2, <1>7, <2>1 DEF Row
  <2> HIDE DEF T2
  <2>3. /\ T3 \in [0 .. 2 + n -> Row]
        /\ \A t \in 0 .. 2 + n, l \in rows :
             T3[t][l] = IF t = 2 /\ l = K2 THEN Present(0) ELSE T2[t][l]
    BY <1>1, <1>2, <1>7, <2>2 DEF Row
  <2>4. U = T3
    BY <1>4 DEF T1, T2
  <2> HIDE DEF T3
  <2>5. QED BY <2>1, <2>2, <2>3, <2>4
<1>8. U \in TableType(n)
  BY <1>6 DEF TableType, Row, rows
<1>9. IsTree(U, {0}, n)
  <2>1. {0} \subseteq 0 .. n - 1 /\ 0 \in {0} /\ {0} \ {0} = {}
    OBVIOUS
  <2>2. \A i \in rows : U[P4Table][i].present <=> i = K4
    BY <1>2, <1>6, <1>7
  <2>3. U[P4Table][K4].to = P3Table /\ U[P3Table][K3] = Present(P2Table)
    BY <1>1, <1>2, <1>6, <1>7
  <2>4. \A i \in rows : U[P3Table][i].present => i = K3
    BY <1>2, <1>6, <1>7
  <2>5. U[P3Table][K3].to = P2Table
    BY <2>3, <1>2, <1>7
  <2>6. QED BY <1>8, <2>1, <2>2, <2>3, <2>4, <2>5 DEF IsTree, rows
<1>10. ASSUME NEW v \in Virtual PROVE Behind(U, v) = IF v = KernelOffset THEN 0 ELSE NoPage
  <2>1. /\ P4INDEX(v) \in rows /\ P3INDEX(v) \in rows /\ P2INDEX(v) \in rows
    BY Indices DEF rows
  <2>2. CASE v = KernelOffset
    <3>1. P4INDEX(v) = K4 /\ P3INDEX(v) = K3 /\ P2INDEX(v) = K2
      BY <2>2 DEF K4, K3, K2
    <3>2. U[P4Table][K4] = Present(1) /\ U[1][K3] = Present(2) /\ U[2][K2] = Present(0)
      BY <1>1, <1>2, <1>6
    <3>3. Leads(U, v) = 2
      BY <3>1, <3>2, <1>7 DEF Leads
    <3>4. QED BY <2>2, <3>1, <3>2, <3>3, <1>7 DEF Behind, NoPage
  <2>3. CASE v # KernelOffset
    <3>1. ~(P4INDEX(v) = K4 /\ P3INDEX(v) = K3 /\ P2INDEX(v) = K2)
      BY <2>3, <1>1, SameIndices DEF K4, K3, K2
    <3>2. CASE P4INDEX(v) # K4
      <4>1. U[P4Table][P4INDEX(v)] = Absent
        BY <2>1, <3>2, <1>2, <1>6
      <4>2. Leads(U, v) = NoPage
        BY <4>1, <1>7 DEF Leads
      <4>3. QED BY <4>2, <2>3 DEF Behind
    <3>3. CASE P4INDEX(v) = K4 /\ P3INDEX(v) # K3
      <4>1. U[P4Table][P4INDEX(v)] = Present(1) /\ U[1][P3INDEX(v)] = Absent
        BY <2>1, <3>3, <1>2, <1>6
      <4>2. Leads(U, v) = NoPage
        BY <4>1, <1>7 DEF Leads
      <4>3. QED BY <4>2, <2>3 DEF Behind
    <3>4. CASE P4INDEX(v) = K4 /\ P3INDEX(v) = K3 /\ P2INDEX(v) # K2
      <4>1. U[P4Table][P4INDEX(v)] = Present(1) /\ U[1][P3INDEX(v)] = Present(2)
            /\ U[2][P2INDEX(v)] = Absent
        BY <2>1, <3>4, <1>2, <1>6
      <4>2. Leads(U, v) = 2
        BY <4>1, <1>7 DEF Leads
      <4>3. QED BY <4>1, <4>2, <2>3, <1>7 DEF Behind
    <3>5. QED BY <3>1, <3>2, <3>3, <3>4
  <2>4. QED BY <2>2, <2>3
<1>11. QED BY <1>9, <1>10

-----------------------------------------------------------------------------
(* What lies where.                                                         *)

End == Entries * Entries * Entries

\* The parts of the address space in their order.
LEMMA Addresses ==
  ASSUME Layout
  PROVE  /\ End \in Nat /\ Virtual = 0 .. End - 1
         /\ {KernelOffset, HeapStart, FrameBuffer, BackBuffer} \subseteq Nat
         /\ KernelOffset < HeapStart /\ HeapStart <= FrameBuffer /\ FrameBuffer <= BackBuffer
         /\ BackBuffer < End
         /\ KernelPages \in Nat \ {0} /\ Physical \subseteq Nat /\ MaxMove \in Nat
         /\ \A v \in Virtual : v >= KernelOffset => Shares(v)
<1>1. Entries \in Nat \ {0}
  BY PagingAssumption
<1>2. End \in Nat
  BY <1>1 DEF End
<1>3. Virtual = 0 .. End - 1 /\ {KernelOffset, HeapStart, FrameBuffer, BackBuffer} \subseteq 0 .. End - 1
  BY PagingAssumption DEF Virtual, End
<1>4. ASSUME NEW v \in Virtual, v >= KernelOffset PROVE Shares(v)
  BY <1>2, <1>3, <1>4 DEF Layout, Shares, K4, End
<1>5. QED BY <1>2, <1>3, <1>4, PagingAssumption DEF Layout

\* A page taken for an address behind which there is none.
LEMMA OneMore ==
  ASSUME Layout, NEW M \in [Virtual -> Physical \cup {NoPage}], Injective(M),
         NEW v \in Virtual, NEW p \in Physical, \A w \in Virtual : M[w] # p,
         NEW N, N = [M EXCEPT ![v] = p]
  PROVE  /\ N \in [Virtual -> Physical \cup {NoPage}] /\ N[v] = p /\ Injective(N)
         /\ \A w \in Virtual : w # v => N[w] = M[w]
<1>1. N \in [Virtual -> Physical \cup {NoPage}] /\ N[v] = p /\ \A w \in Virtual : w # v => N[w] = M[w]
  OBVIOUS
<1>2. Injective(N)
  BY <1>1 DEF Injective
<1>3. QED BY <1>1, <1>2

\* A page that is locked as it is mapped, unless it is none of those managed and its
\* bit has been set already.
LEMMA OneMoreLocked ==
  ASSUME NEW n, NEW M \in [Virtual -> Physical \cup {NoPage}], NEW B \in SUBSET Physical,
         Locked(M, B, n),
         NEW v \in Virtual, M[v] = NoPage, NEW p \in Physical,
         NEW N \in [Virtual -> Physical \cup {NoPage}], N[v] = p,
         \A w \in Virtual : w # v => N[w] = M[w],
         NEW C, C = B \cup {p} \/ (C = B /\ p \notin 0 .. n - 1)
  PROVE  Locked(N, C, n)
<1>1. Kernel \cap (0 .. n - 1) \subseteq C /\ \A w \in Virtual : N[w] \in 0 .. n - 1 => N[w] \in C
  BY DEF Locked
<1>2. ASSUME NEW q \in C PROVE q \in Kernel \/ \E w \in Virtual : N[w] = q
  <2>1. CASE q = p
    BY <2>1
  <2>2. CASE q # p
    <3>1. q \in B /\ (q \in Kernel \/ \E w \in Virtual : M[w] = q)
      BY <1>2, <2>2 DEF Locked
    <3>2. CASE q \in Kernel
      BY <3>2
    <3>3. CASE q \notin Kernel
      <4>1. PICK w \in Virtual : M[w] = q
        BY <3>1, <3>3
      <4>2. q # NoPage
        BY <3>1, PagingAssumption DEF NoPage
      <4>3. QED BY <4>1, <4>2
    <3>4. QED BY <3>2, <3>3
  <2>3. QED BY <2>1, <2>2
<1>3. QED BY <1>1, <1>2 DEF Locked

\* A free page becomes the heap's.
LEMMA HeapGrows ==
  ASSUME Layout, NEW M, NEW top \in HeapStart .. FrameBuffer - 1, NEW x \in Nat, NEW y \in Nat,
         NEW s \in Nat, NEW n \in Nat, NEW B \in SUBSET Physical, Data(M, top, x, y, s, n, B),
         NEW p \in Physical, p \in 0 .. n - 1, p \notin B,
         NEW N, N = [M EXCEPT ![top] = p], NEW C, C = B \cup {p}
  PROVE  Data(N, top + 1, x, y, s, n, C)
<1>1. /\ End \in Nat /\ Virtual = 0 .. End - 1
      /\ KernelOffset \in Nat /\ HeapStart \in Nat /\ FrameBuffer \in Nat /\ BackBuffer \in Nat
      /\ KernelOffset < HeapStart /\ HeapStart <= FrameBuffer /\ FrameBuffer <= BackBuffer
      /\ BackBuffer < End /\ Physical \subseteq Nat
  BY Addresses
<1>2. top \in Virtual
  BY <1>1
<1>3. M \in [Virtual -> Physical \cup {NoPage}] /\ Injective(M) /\ HeapMapped(M, top)
      /\ Places(M, top, x, y, s, n) /\ Locked(M, B, n)
  BY DEF Data
<1>4. p # NoPage /\ p \notin Kernel
  BY <1>1, <1>3 DEF NoPage, Locked
<1>5. \A w \in Virtual : M[w] # p
  BY <1>3, <1>4 DEF Locked
<1>6. /\ N \in [Virtual -> Physical \cup {NoPage}] /\ N[top] = p /\ Injective(N)
      /\ \A w \in Virtual : w # top => N[w] = M[w]
  BY <1>2, <1>3, <1>5, OneMore
<1>7. M[top] = NoPage
  BY <1>1, <1>3 DEF HeapMapped
<1>8. Locked(N, C, n)
  BY <1>2, <1>3, <1>6, <1>7, OneMoreLocked
<1>9. HeapMapped(N, top + 1)
  BY <1>1, <1>3, <1>4, <1>6 DEF HeapMapped
<1>10. Places(N, top + 1, x, y, s, n)
  BY <1>1, <1>3, <1>4, <1>6 DEF Places
<1>11. QED BY <1>6, <1>8, <1>9, <1>10 DEF Data

\* The heap's last page is given back.
LEMMA HeapShrinks ==
  ASSUME Layout, NEW M, NEW top \in HeapStart .. FrameBuffer, top # HeapStart,
         NEW x \in Nat, NEW y \in Nat,
         NEW s \in Nat, NEW n \in Nat, NEW B \in SUBSET Physical, Data(M, top, x, y, s, n, B),
         NEW v, v = top - 1,
         NEW N, N = [M EXCEPT ![v] = NoPage], NEW C, C = B \ {M[v]}
  PROVE  Data(N, v, x, y, s, n, C) /\ M[v] \in B
<1>1. /\ End \in Nat /\ Virtual = 0 .. End - 1
      /\ KernelOffset \in Nat /\ HeapStart \in Nat /\ FrameBuffer \in Nat /\ BackBuffer \in Nat
      /\ KernelOffset < HeapStart /\ HeapStart <= FrameBuffer /\ FrameBuffer <= BackBuffer
      /\ BackBuffer < End /\ Physical \subseteq Nat
  BY Addresses
<1>2. v \in Virtual /\ v \in HeapStart .. top - 1 /\ v \in HeapStart .. FrameBuffer - 1 /\ v # KernelOffset
  BY <1>1
<1>3. M \in [Virtual -> Physical \cup {NoPage}] /\ Injective(M) /\ HeapMapped(M, top)
      /\ Places(M, top, x, y, s, n) /\ Locked(M, B, n)
  BY DEF Data
<1>4. M[v] \in 0 .. n - 1 /\ M[v] \notin Kernel /\ M[v] # NoPage
  BY <1>2, <1>3 DEF Places, NoPage
<1>5. M[v] \in B
  BY <1>2, <1>3, <1>4 DEF Locked
<1>6. N \in [Virtual -> Physical \cup {NoPage}] /\ N[v] = NoPage
      /\ \A w \in Virtual : w # v => N[w] = M[w]
  BY <1>2, <1>3
<1>7. Injective(N)
  BY <1>2, <1>3, <1>6 DEF Injective
<1>8. \A w \in Virtual : w # v => M[w] # M[v]
  BY <1>2, <1>3, <1>4 DEF Injective
<1>9. Locked(N, C, n)
  <2>1. Kernel \cap (0 .. n - 1) \subseteq C
    BY <1>3, <1>4 DEF Locked
  <2>2. \A w \in Virtual : N[w] \in 0 .. n - 1 => N[w] \in C
    <3>1. NoPage \notin 0 .. n - 1
      BY DEF NoPage
    <3>2. QED BY <3>1, <1>3, <1>6, <1>8 DEF Locked
  <2>3. ASSUME NEW q \in C PROVE q \in Kernel \/ \E w \in Virtual : N[w] = q
    BY <2>3, <1>3, <1>6 DEF Locked
  <2>4. QED BY <2>1, <2>2, <2>3 DEF Locked
<1>10. HeapMapped(N, v)
  BY <1>1, <1>2, <1>3, <1>6 DEF HeapMapped
<1>11. Places(N, v, x, y, s, n)
  BY <1>1, <1>2, <1>3, <1>6 DEF Places
<1>12. QED BY <1>5, <1>6, <1>7, <1>9, <1>10, <1>11 DEF Data

Adds(a, b, c) == a = b + c

\* The next page of the screen, whether its bit was clear or not.
LEMMA ScreenGrows ==
  ASSUME Layout, NEW M, NEW top \in HeapStart .. FrameBuffer, NEW x \in Nat, NEW y \in Nat,
         NEW s \in Nat, NEW n \in Nat, NEW B \in SUBSET Physical, Data(M, top, x, y, s, n, B),
         NEW p \in Physical, Adds(p, s, x), p >= n, p \notin Kernel,
         NEW v, Adds(v, FrameBuffer, x), v < BackBuffer,
         NEW N, N = [M EXCEPT ![v] = p], NEW C, C = B \cup {p} \/ C = B
  PROVE  Data(N, top, x + 1, y, s, n, C)
<1>1. /\ End \in Nat /\ Virtual = 0 .. End - 1
      /\ KernelOffset \in Nat /\ HeapStart \in Nat /\ FrameBuffer \in Nat /\ BackBuffer \in Nat
      /\ KernelOffset < HeapStart /\ HeapStart <= FrameBuffer /\ FrameBuffer <= BackBuffer
      /\ BackBuffer < End /\ Physical \subseteq Nat /\ KernelPages \in Nat \ {0}
  BY Addresses
<1>2. v \in Virtual /\ v \in FrameBuffer .. BackBuffer - 1
  BY <1>1 DEF Adds
<1>3. M \in [Virtual -> Physical \cup {NoPage}] /\ Injective(M) /\ HeapMapped(M, top)
      /\ Places(M, top, x, y, s, n) /\ Locked(M, B, n)
  BY DEF Data
<1>4. p # NoPage /\ 0 \in Kernel
  BY <1>1 DEF NoPage, Kernel
<1>5. ASSUME NEW w \in Virtual, M[w] = p PROVE FALSE
  <2>1. CASE w < HeapStart
    BY <2>1, <1>3, <1>4, <1>5 DEF Places
  <2>2. CASE w \in HeapStart .. FrameBuffer - 1
    <3>1. w < top
      BY <2>2, <1>3, <1>4, <1>5 DEF HeapMapped
    <3>2. M[w] \in 0 .. n - 1
      BY <2>2, <3>1, <1>1, <1>3 DEF Places
    <3>3. QED BY <3>2, <1>5
  <2>3. CASE w \in FrameBuffer .. BackBuffer - 1
    <3>1. M[w] = IF w < FrameBuffer + x THEN s + (w - FrameBuffer) ELSE NoPage
      BY <2>3, <1>3 DEF Places
    <3>2. QED BY <2>3, <3>1, <1>1, <1>4, <1>5 DEF Adds
  <2>4. CASE w >= BackBuffer
    <3>1. M[w] \in 0 .. n - 1 \/ M[w] = NoPage
      BY <2>4, <1>3 DEF Places
    <3>2. QED BY <3>1, <1>4, <1>5
  <2>5. QED BY <2>1, <2>2, <2>3, <2>4, <1>1, <1>5
<1>6. /\ N \in [Virtual -> Physical \cup {NoPage}] /\ N[v] = p /\ Injective(N)
      /\ \A w \in Virtual : w # v => N[w] = M[w]
  BY <1>2, <1>3, <1>5, OneMore
<1>7. M[v] = NoPage
  BY <1>1, <1>2, <1>3 DEF Places, Adds
<1>8. Locked(N, C, n)
  <2>1. p \notin 0 .. n - 1
    BY <1>1
  <2>2. QED BY <2>1, <1>2, <1>3, <1>6, <1>7, OneMoreLocked
<1>9. HeapMapped(N, top)
  BY <1>1, <1>2, <1>3, <1>4, <1>6 DEF HeapMapped
<1>10. Places(N, top, x + 1, y, s, n)
  <2>1. ASSUME NEW w \in FrameBuffer .. BackBuffer - 1
        PROVE  N[w] = IF w < FrameBuffer + (x + 1) THEN s + (w - FrameBuffer) ELSE NoPage
    <3>1. w \in Virtual /\ M[w] = IF w < FrameBuffer + x THEN s + (w - FrameBuffer) ELSE NoPage
      BY <2>1, <1>1, <1>3 DEF Places
    <3>2. CASE w = v
      <4>1. N[w] = p /\ w < FrameBuffer + (x + 1) /\ w - FrameBuffer = x
        BY <3>2, <1>1, <1>6 DEF Adds
      <4>2. QED BY <4>1 DEF Adds
    <3>3. CASE w # v
      BY <3>1, <3>3, <1>1, <1>6 DEF Adds
    <3>4. QED BY <3>2, <3>3
  <2>2. QED BY <2>1, <1>1, <1>2, <1>3, <1>6 DEF Places
<1>11. QED BY <1>6, <1>8, <1>9, <1>10 DEF Data

\* The next page of the back buffer, or none.
LEMMA BackGrows ==
  ASSUME Layout, NEW M, NEW top \in HeapStart .. FrameBuffer, NEW x \in Nat, NEW y \in Nat,
         NEW s \in Nat, NEW n \in Nat, NEW B \in SUBSET Physical, Data(M, top, x, y, s, n, B),
         NEW p \in Physical \cup {NoPage}, p # NoPage => p \in 0 .. n - 1 /\ p \notin B,
         NEW v, Adds(v, BackBuffer, y), v < End,
         NEW N, N = [M EXCEPT ![v] = p], NEW C, C = IF p = NoPage THEN B ELSE B \cup {p}
  PROVE  Data(N, top, x, y + 1, s, n, C)
<1>1. /\ End \in Nat /\ Virtual = 0 .. End - 1
      /\ KernelOffset \in Nat /\ HeapStart \in Nat /\ FrameBuffer \in Nat /\ BackBuffer \in Nat
      /\ KernelOffset < HeapStart /\ HeapStart <= FrameBuffer /\ FrameBuffer <= BackBuffer
      /\ BackBuffer < End /\ Physical \subseteq Nat
  BY Addresses
<1>2. v \in Virtual /\ v >= BackBuffer
  BY <1>1 DEF Adds
<1>3. M \in [Virtual -> Physical \cup {NoPage}] /\ Injective(M) /\ HeapMapped(M, top)
      /\ Places(M, top, x, y, s, n) /\ Locked(M, B, n)
  BY DEF Data
<1>4. M[v] = NoPage
  BY <1>1, <1>2, <1>3 DEF Places, Adds
<1>5. CASE p = NoPage
  <2>1. N = M /\ C = B
    BY <1>2, <1>3, <1>4, <1>5
  <2>2. ASSUME NEW w \in Virtual, w >= BackBuffer
        PROVE  IF w < BackBuffer + (y + 1) THEN M[w] \in ((0 .. n - 1) \ Kernel) \cup {NoPage}
               ELSE M[w] = NoPage
    BY <2>2, <1>1, <1>3 DEF Places
  <2>3. Places(M, top, x, y + 1, s, n)
    BY <2>2, <1>3 DEF Places
  <2>4. QED BY <2>1, <2>3, <1>3 DEF Data
<1>6. CASE p # NoPage
  <2>1. p \in Physical /\ p \in 0 .. n - 1 /\ p \notin B /\ C = B \cup {p}
    BY <1>6
  <2>2. p \notin Kernel /\ \A w \in Virtual : M[w] # p
    BY <2>1, <1>3, <1>6 DEF Locked
  <2>3. /\ N \in [Virtual -> Physical \cup {NoPage}] /\ N[v] = p /\ Injective(N)
        /\ \A w \in Virtual : w # v => N[w] = M[w]
    BY <2>1, <2>2, <1>2, <1>3, OneMore
  <2>4. Locked(N, C, n)
    <3>1. Locked(N, B \cup {p}, n)
      BY <2>1, <2>3, <1>2, <1>3, <1>4, OneMoreLocked
    <3>2. QED BY <2>1, <3>1
  <2>5. HeapMapped(N, top)
    BY <2>3, <1>1, <1>2, <1>3 DEF HeapMapped
  <2>6. ASSUME NEW w \in Virtual, w >= BackBuffer
        PROVE  IF w < BackBuffer + (y + 1) THEN N[w] \in ((0 .. n - 1) \ Kernel) \cup {NoPage}
               ELSE N[w] = NoPage
    <3>1. CASE w = v
      BY <3>1, <2>1, <2>2, <2>3, <1>1 DEF Adds
    <3>2. CASE w # v
      <4>1. N[w] = M[w] /\ w # BackBuffer + y
        BY <3>2, <2>3 DEF Adds
      <4>2. IF w < BackBuffer + y THEN M[w] \in ((0 .. n - 1) \ Kernel) \cup {NoPage}
            ELSE M[w] = NoPage
        BY <2>6, <1>3 DEF Places
      <4>3. QED BY <4>1, <4>2, <1>1
    <3>3. QED BY <3>1, <3>2
  <2>7. Places(N, top, x, y + 1, s, n)
    BY <2>3, <2>6, <1>1, <1>2, <1>3 DEF Places
  <2>8. QED BY <2>3, <2>4, <2>5, <2>7 DEF Data
<1>7. QED BY <1>5, <1>6

\* The first n pages are n pages.
LEMMA IntervalSize ==
  ASSUME NEW a \in Nat, NEW b \in Nat, a <= b, NEW S, S = a .. b - 1
  PROVE  IsFiniteSet(S) /\ Cardinality(S) = b - a
<1> DEFINE c == b - 1
<1>1. c \in Int /\ S = a .. c
  OBVIOUS
<1> HIDE DEF c
<1>2. IsFiniteSet(a .. c) /\ Cardinality(a .. c) = IF a > c THEN 0 ELSE c - a + 1
  BY <1>1, FS_Interval
<1>3. QED BY <1>1, <1>2 DEF c

\* While a page is free the heap has not reached the screen's addresses: each of
\* its pages has one of the others behind it.
LEMMA HeapHasRoom ==
  ASSUME Layout, NEW M, NEW top \in HeapStart .. FrameBuffer, NEW x \in Nat, NEW y \in Nat,
         NEW s \in Nat, NEW n \in Nat, HeapStart + n <= FrameBuffer + KernelPages,
         NEW B \in SUBSET Physical, Data(M, top, x, y, s, n, B),
         NEW p \in 0 .. n - 1, p \notin B
  PROVE  top < FrameBuffer
<1> DEFINE S == HeapStart .. top - 1
           R == KernelPages .. n - 1
           T == R \ {p}
           f == [v \in S |-> M[v]]
<1>1. /\ HeapStart \in Nat /\ FrameBuffer \in Nat /\ KernelPages \in Nat /\ KernelPages # 0
      /\ FrameBuffer < End /\ End \in Nat /\ Virtual = 0 .. End - 1 /\ HeapStart <= FrameBuffer
  BY Addresses
<1>2. M \in [Virtual -> Physical \cup {NoPage}] /\ Injective(M) /\ HeapMapped(M, top)
      /\ Places(M, top, x, y, s, n) /\ Locked(M, B, n)
  BY DEF Data
<1>3. p \in R
  BY <1>1, <1>2 DEF Locked, Kernel
<1>4. \A v \in S : v \in Virtual /\ v \in HeapStart .. FrameBuffer - 1 /\ v < top
  BY <1>1
<1>5. f \in [S -> T]
  <2>1. ASSUME NEW v \in S PROVE M[v] \in T
    <3>1. M[v] \in 0 .. n - 1 /\ M[v] \notin Kernel
      BY <1>2 DEF Places
    <3>2. M[v] \in R
      BY <3>1, <1>1 DEF Kernel
    <3>3. M[v] # p
      BY <1>2, <1>4, <3>1 DEF Locked, NoPage
    <3>4. QED BY <3>2, <3>3
  <2>2. QED BY <2>1
<1>6. \A v, w \in S : v # w => f[v] # f[w]
  BY <1>2, <1>4 DEF Injective, HeapMapped
<1>7. IsFiniteSet(S) /\ Cardinality(S) = top - HeapStart
  BY <1>1, IntervalSize
<1>8. IsFiniteSet(R) /\ Cardinality(R) = n - KernelPages
  <2>1. KernelPages <= n
    BY <1>1, <1>3
  <2>2. QED BY <2>1, <1>1, IntervalSize
<1>9. IsFiniteSet(T) /\ Cardinality(T) = n - KernelPages - 1
  <2> HIDE DEF R
  <2>1. IsFiniteSet(T) /\ Cardinality(T) = IF p \in R THEN Cardinality(R) - 1 ELSE Cardinality(R)
    BY <1>8, FS_RemoveElement
  <2>2. QED BY <2>1, <1>3, <1>8
<1> HIDE DEF S, T, f
<1>10. ~(Cardinality(T) < Cardinality(S))
  BY <1>5, <1>6, <1>7, <1>9, FS_PigeonHole
<1>11. QED BY <1>1, <1>7, <1>9, <1>10

-----------------------------------------------------------------------------
(* PMM.                                                                     *)

\* LockPages of one page sets its bit and counts it; of a page whose bit Initialize
\* has not cleared, it may do neither.
LEMMA LockOne ==
  ASSUME NEW p \in Nat, NEW total \in Nat, Counts(bitmap, memory, total), LockPages(p, 1)
  PROVE  /\ bitmap' = bitmap \cup {p} \/ (p \notin Cleared /\ bitmap' = bitmap)
         /\ Counts(bitmap', memory', total)
<1>1. PICK stray \in SUBSET Uncleared(p, 1) :
        /\ bitmap' = bitmap \cup Lockable(p, 1, bitmap \cup stray)
        /\ memory' = [used |-> memory.used + Cardinality(Lockable(p, 1, bitmap \cup stray)),
                      free |-> memory.free - Cardinality(Lockable(p, 1, bitmap \cup stray))]
  BY DEF LockPages
<1> DEFINE L == Lockable(p, 1, bitmap \cup stray)
<1>2. IsFiniteSet(bitmap) /\ Cardinality(bitmap) \in Nat /\ memory.used = Cardinality(bitmap)
      /\ memory.used + memory.free = total /\ memory.free \in Int
  BY FS_CardinalityType DEF Counts
<1>3. L = IF p \in bitmap \cup stray THEN {} ELSE {p}
  BY DEF Lockable
<1>4. stray = {} \/ p \notin Cleared
  BY DEF Uncleared
<1>5. bitmap' = bitmap \cup L /\ memory'.used = memory.used + Cardinality(L)
      /\ memory'.free = memory.free - Cardinality(L)
  BY <1>1
<1> HIDE DEF L
<1>6. Cardinality({}) = 0 /\ Cardinality({p}) = 1
  BY FS_EmptySet, FS_Singleton
<1>7. CASE L = {}
  <2>1. bitmap' = bitmap /\ memory'.used = memory.used /\ memory'.free = memory.free
    BY <1>2, <1>5, <1>6, <1>7
  <2>2. bitmap' = bitmap \cup {p} \/ p \notin Cleared
    BY <1>3, <1>4, <1>7, <2>1
  <2>3. QED BY <1>2, <2>1, <2>2 DEF Counts
<1>8. CASE L = {p}
  <2>1. p \notin bitmap /\ bitmap' = bitmap \cup {p}
    BY <1>3, <1>5, <1>8
  <2>2. IsFiniteSet(bitmap \cup {p}) /\ Cardinality(bitmap \cup {p}) = Cardinality(bitmap) + 1
    BY <1>2, <2>1, FS_AddElement
  <2>3. memory'.used = memory.used + 1 /\ memory'.free = memory.free - 1
    BY <1>5, <1>6, <1>8
  <2>4. QED BY <1>2, <2>1, <2>2, <2>3 DEF Counts
<1>9. QED BY <1>3, <1>7, <1>8

\* FreePages of one page clears its bit and counts it.
LEMMA FreeOne ==
  ASSUME NEW p \in Nat, NEW total \in Nat, Counts(bitmap, memory, total), FreePages(p, 1)
  PROVE  bitmap' = bitmap \ {p} /\ Counts(bitmap', memory', total)
<1> DEFINE L == Freeable(p, 1)
<1>1. IsFiniteSet(bitmap) /\ Cardinality(bitmap) \in Nat /\ memory.used = Cardinality(bitmap)
      /\ memory.used + memory.free = total /\ memory.free \in Int
  BY FS_CardinalityType DEF Counts
<1>2. L = IF p \in bitmap THEN {p} ELSE {}
  BY DEF Freeable
<1>3. bitmap' = bitmap \ L
      /\ memory' = [used |-> memory.used - Cardinality(L), free |-> memory.free + Cardinality(L)]
  BY DEF FreePages
<1> HIDE DEF L
<1>4. bitmap' = bitmap \ {p}
  BY <1>2, <1>3
<1>5. IsFiniteSet(bitmap \ {p})
      /\ Cardinality(bitmap \ {p}) = IF p \in bitmap THEN Cardinality(bitmap) - 1 ELSE Cardinality(bitmap)
  BY <1>1, FS_RemoveElement
<1>6. Cardinality({}) = 0 /\ Cardinality({p}) = 1
  BY FS_EmptySet, FS_Singleton
<1>7. Cardinality(L) = IF p \in bitmap THEN 1 ELSE 0
  BY <1>2, <1>6
<1>8. memory'.used = memory.used - Cardinality(L) /\ memory'.free = memory.free + Cardinality(L)
  BY <1>3
<1>9. QED BY <1>1, <1>4, <1>5, <1>7, <1>8 DEF Counts

\* What AllocatePage finds is a page PMM manages and nobody has locked.
LEMMA FirstFreeIs ==
  ASSUME area.count \in Nat
  PROVE  FirstFree = NoPage \/ (FirstFree \in 0 .. area.count - 1 /\ FirstFree \notin bitmap)
<1> DEFINE R == Managed \ bitmap
<1>1. CASE Managed \subseteq bitmap
  BY <1>1 DEF FirstFree
<1>2. CASE ~(Managed \subseteq bitmap)
  <2>1. R \in SUBSET Nat /\ R # {}
    BY <1>2 DEF Managed
  <2>2. Min(R) \in R
    BY <2>1, Smallest
  <2>3. FirstFree = Min(R)
    BY <1>2 DEF FirstFree
  <2>4. QED BY <2>2, <2>3 DEF Managed
<1>3. QED BY <1>1, <1>2

\* Initialize clears the bits of all the pages PMM manages.
LEMMA ManagedIsCleared ==
  ASSUME area.count \in Nat
  PROVE  Managed \subseteq Cleared
<1>1. ASSUME NEW c \in Nat PROVE 0 .. c - 1 \subseteq 0 .. 8 * (c \div 8 + 1) - 1
  OBVIOUS
<1>2. QED BY <1>1 DEF Managed, Cleared

\* The page AllocatePage returns, if any, is locked.
LEMMA AllocateOne ==
  ASSUME area.count \in Nat, NEW total \in Nat, Counts(bitmap, memory, total), AllocatePage
  PROVE  /\ bitmap' = IF FirstFree = NoPage THEN bitmap ELSE bitmap \cup {FirstFree}
         /\ Counts(bitmap', memory', total)
<1>1. CASE FirstFree = NoPage
  BY <1>1 DEF AllocatePage, pmm
<1>2. CASE FirstFree # NoPage
  <2>1. FirstFree \in Nat /\ FirstFree \in Cleared
    BY <1>2, FirstFreeIs, ManagedIsCleared DEF Managed
  <2>2. LockPages(FirstFree, 1)
    BY <1>2 DEF AllocatePage
  <2>3. QED BY <1>2, <2>1, <2>2, LockOne
<1>3. QED BY <1>1, <1>2

-----------------------------------------------------------------------------
(* The walk over the tags.  The fold is a recursion over the sets of        *)
(* indices; what is needed of it is that it exists, and its values at the   *)
(* sets 1 .. k.                                                             *)

\* Induction over the numbers, for a set of them.
LEMMA Induction ==
  ASSUME NEW T, 0 \in T, \A n \in Nat : n \in T => n + 1 \in T
  PROVE  Nat \subseteq T
<1> DEFINE R == Nat \ T
<1>1. ASSUME R # {} PROVE FALSE
  <2>1. Min(R) \in R /\ \A m \in R : Min(R) <= m
    BY <1>1, Smallest
  <2> DEFINE n == Min(R)
  <2> HIDE DEF n
  <2>2. n \in Nat /\ n \notin T /\ \A m \in Nat : m \notin T => n <= m
    BY <2>1 DEF n
  <2>3. n # 0 /\ n - 1 \in Nat
    BY <2>2
  <2>4. n - 1 \in T
    BY <2>2, <2>3
  <2>5. QED BY <2>2, <2>3, <2>4
<1>2. QED BY <1>1

\* Max of the community modules, of a set that has its bound.
LEMMA GreatestIs ==
  ASSUME NEW n \in Nat, NEW s \in SUBSET (1 .. n), n \in s
  PROVE  Max(s) = n
<1>1. \A y \in s : y \in Nat /\ n >= y
  OBVIOUS
<1>2. \E x \in s : \A y \in s : x >= y
  BY <1>1
<1>3. Max(s) \in s /\ \A y \in s : Max(s) >= y
  BY <1>2 DEF Max
<1>4. Max(s) >= n /\ n >= Max(s) /\ Max(s) \in Nat
  BY <1>1, <1>3
<1>5. QED BY <1>4

\* One turn of the loop over the sections.
Larger(e, largest) ==
  IF e.available /\ (largest = None \/ e.count >= largest.count)
    THEN [first |-> e.first, count |-> e.count] ELSE largest

Turns(entries, n, g) ==
  g = [s \in SUBSET (1 .. n) |->
         IF s = {} THEN None ELSE Larger(entries[Max(s)], g[s \ {Max(s)}])]

\* There is such a fold over any entries, one section more at a time.
LEMMA TurnsExist ==
  ASSUME NEW entries, NEW m \in Nat
  PROVE  \E g : Turns(entries, m, g)
<1> DEFINE T == {n \in Nat : \E g : Turns(entries, n, g)}
<1>1. 0 \in T
  <2> DEFINE g == [s \in SUBSET (1 .. 0) |-> None]
  <2>1. \A s \in SUBSET (1 .. 0) : s = {}
    OBVIOUS
  <2>2. g = [s \in SUBSET (1 .. 0) |->
               IF s = {} THEN None ELSE Larger(entries[Max(s)], g[s \ {Max(s)}])]
    BY <2>1
  <2>3. Turns(entries, 0, g)
    BY <2>2 DEF Turns
  <2>4. QED BY <2>3
<1>2. ASSUME NEW n \in Nat, n \in T PROVE n + 1 \in T
  <2>1. PICK g : Turns(entries, n, g)
    BY <1>2
  <2> DEFINE g2 == [s \in SUBSET (1 .. n + 1) |->
                      IF n + 1 \notin s THEN g[s]
                      ELSE Larger(entries[n + 1], g[s \ {n + 1}])]
             F(s) == IF s = {} THEN None ELSE Larger(entries[Max(s)], g2[s \ {Max(s)}])
  <2>2. ASSUME NEW s \in SUBSET (1 .. n + 1) PROVE g2[s] = F(s)
    <3>1. CASE n + 1 \notin s
      <4>1. s \in SUBSET (1 .. n)
        BY <3>1
      <4>2. g[s] = IF s = {} THEN None ELSE Larger(entries[Max(s)], g[s \ {Max(s)}])
        BY <2>1, <4>1 DEF Turns
      <4>3. s \ {Max(s)} \in SUBSET (1 .. n + 1) /\ n + 1 \notin s \ {Max(s)}
        BY <3>1
      <4>4. g2[s] = g[s] /\ g2[s \ {Max(s)}] = g[s \ {Max(s)}]
        BY <3>1, <4>3
      <4> HIDE DEF g2
      <4>5. QED BY <4>2, <4>4
    <3>2. CASE n + 1 \in s
      <4>1. Max(s) = n + 1 /\ s # {}
        BY <3>2, GreatestIs
      <4>2. s \ {n + 1} \in SUBSET (1 .. n + 1) /\ n + 1 \notin s \ {n + 1}
        OBVIOUS
      <4>3. g2[s \ {n + 1}] = g[s \ {n + 1}]
        BY <4>2
      <4>4. g2[s] = Larger(entries[n + 1], g[s \ {n + 1}])
        BY <3>2
      <4> HIDE DEF g2
      <4>5. QED BY <4>1, <4>3, <4>4
    <3>3. QED BY <3>1, <3>2
  <2>3. g2 = [s \in SUBSET (1 .. n + 1) |-> g2[s]]
    OBVIOUS
  <2> HIDE DEF g2
  <2>4. g2 = [s \in SUBSET (1 .. n + 1) |-> F(s)]
    BY <2>2, <2>3
  <2>5. Turns(entries, n + 1, g2)
    BY <2>4 DEF Turns
  <2>6. QED BY <2>5
<1> HIDE DEF T
<1>3. Nat \subseteq T
  BY <1>1, <1>2, Induction
<1>4. QED BY <1>3 DEF T

\* largestArea goes through the sections one by one.
LEMMA LargestUnrolled ==
  ASSUME NEW entries, NEW n \in Nat, DOMAIN entries = 1 .. n
  PROVE  \E g : /\ g[{}] = None /\ largestArea(entries) = g[1 .. n]
                /\ \A k \in Nat : k + 1 <= n => g[1 .. k + 1] = Larger(entries[k + 1], g[1 .. k])
<1> DEFINE h == CHOOSE g : Turns(entries, n, g)
<1>1. largestArea(entries) = h[1 .. n]
  BY DEF largestArea, FoldLeft, MapThenFoldSet, Turns, Larger
<1>2. Turns(entries, n, h)
  BY TurnsExist
<1> HIDE DEF h
<1>3. \A s \in SUBSET (1 .. n) :
        h[s] = IF s = {} THEN None ELSE Larger(entries[Max(s)], h[s \ {Max(s)}])
  BY <1>2 DEF Turns
<1>4. h[{}] = None
  BY <1>3
<1>5. ASSUME NEW k \in Nat, k + 1 <= n
      PROVE  h[1 .. k + 1] = Larger(entries[k + 1], h[1 .. k])
  <2>1. 1 .. k + 1 \in SUBSET (1 .. n) /\ 1 .. k + 1 # {} /\ k + 1 \in 1 .. k + 1
    <3>1. \A x \in 1 .. k + 1 : x \in 1 .. n
      BY <1>5
    <3>2. k + 1 \in 1 .. k + 1
      OBVIOUS
    <3>3. QED BY <3>1, <3>2
  <2>2. Max(1 .. k + 1) = k + 1
    BY <2>1, GreatestIs
  <2>3. (1 .. k + 1) \ {k + 1} = 1 .. k
    OBVIOUS
  <2>4. QED BY <1>3, <2>1, <2>2, <2>3
<1>6. QED BY <1>1, <1>4, <1>5

\* The largest of the first k sections, if one of them is available.
Largest(entries, k, a) ==
  /\ (\A i \in 1 .. k : ~entries[i].available) => a = None
  /\ (\E i \in 1 .. k : entries[i].available) =>
       \E i \in 1 .. k :
         /\ entries[i].available /\ a = [first |-> entries[i].first, count |-> entries[i].count]
         /\ \A j \in 1 .. k : entries[j].available => entries[i].count >= entries[j].count

\* A turn of the loop goes on from the largest so far.
LEMMA LargerIs ==
  ASSUME NEW entries, NEW n \in Nat, NEW k \in Nat, k + 1 <= n,
         \A i \in 1 .. n : entries[i].count \in Nat /\ entries[i].available \in BOOLEAN,
         NEW a, Largest(entries, k, a), NEW m, m = k + 1
  PROVE  Largest(entries, m, Larger(entries[m], a))
<1>1. m \in Nat /\ m \in 1 .. n /\ 1 .. m = 1 .. k \cup {m} /\ m \notin 1 .. k /\ 1 .. k \subseteq 1 .. n
  OBVIOUS
<1> DEFINE e == entries[m]
           r == [first |-> e.first, count |-> e.count]
<1>2. CASE ~e.available
  <2>1. Larger(e, a) = a
    BY <1>2 DEF Larger
  <2>2. QED BY <1>1, <1>2, <2>1 DEF Largest
<1>3. CASE e.available /\ \A i \in 1 .. k : ~entries[i].available
  <2>1. Larger(e, a) = r
    BY <1>3 DEF Largest, Larger
  <2>2. QED BY <1>1, <1>3, <2>1 DEF Largest
<1>4. CASE e.available /\ \E i \in 1 .. k : entries[i].available
  <2>1. PICK i \in 1 .. k :
          /\ entries[i].available /\ a = [first |-> entries[i].first, count |-> entries[i].count]
          /\ \A j \in 1 .. k : entries[j].available => entries[i].count >= entries[j].count
    BY <1>4 DEF Largest
  <2>2. a.count = entries[i].count /\ None.count = 0
    BY <2>1 DEF None
  <2>3. \A j \in 1 .. m : j \in 1 .. k \/ j = m
    BY <1>1
  <2>4. i \in 1 .. m /\ m \in 1 .. m /\ entries[i].count \in Nat /\ e.count \in Nat
    BY <1>1
  <2>5. CASE Larger(e, a) = r /\ e.count >= a.count
    <3>1. \A j \in 1 .. m : entries[j].available => e.count >= entries[j].count
      <4>1. ASSUME NEW j \in 1 .. k, entries[j].available PROVE e.count >= entries[j].count
        <5>1. entries[i].count >= entries[j].count /\ entries[j].count \in Nat
          BY <1>1, <2>1, <4>1
        <5>2. QED BY <2>2, <2>4, <2>5, <5>1
      <4>2. QED BY <2>3, <2>4, <4>1
    <3>2. QED BY <1>4, <2>4, <2>5, <3>1 DEF Largest
  <2>6. CASE Larger(e, a) = a /\ ~(e.count >= a.count)
    <3>1. \A j \in 1 .. m : entries[j].available => entries[i].count >= entries[j].count
      <4>1. entries[i].count >= e.count
        BY <2>2, <2>4, <2>6
      <4>2. QED BY <2>1, <2>3, <4>1
    <3> DEFINE b == Larger(e, a)
    <3>2. b = [first |-> entries[i].first, count |-> entries[i].count]
      BY <2>1, <2>6
    <3> HIDE DEF b
    <3>3. Largest(entries, m, b)
      BY <2>1, <2>4, <3>1, <3>2 DEF Largest
    <3>4. QED BY <3>3 DEF b
  <2>7. a = None => e.count >= a.count
    BY <2>2, <2>4
  <2>8. QED BY <1>4, <2>5, <2>6, <2>7 DEF Larger
<1>5. QED BY <1>1, <1>2, <1>3, <1>4

\* The loop finds a largest one.
LEMMA LargestAreaIs ==
  ASSUME NEW entries, NEW n \in Nat, DOMAIN entries = 1 .. n,
         \A i \in 1 .. n : entries[i].count \in Nat /\ entries[i].available \in BOOLEAN
  PROVE  Largest(entries, n, largestArea(entries))
<1>1. PICK g : /\ g[{}] = None /\ largestArea(entries) = g[1 .. n]
               /\ \A k \in Nat : k + 1 <= n => g[1 .. k + 1] = Larger(entries[k + 1], g[1 .. k])
  BY LargestUnrolled
<1> DEFINE T == {k \in Nat : k <= n => Largest(entries, k, g[1 .. k])}
<1>2. 0 \in T
  <2>1. 1 .. 0 = {}
    OBVIOUS
  <2>2. Largest(entries, 0, None)
    BY <2>1 DEF Largest
  <2>3. QED BY <1>1, <2>1, <2>2
<1>3. ASSUME NEW k \in Nat, k \in T PROVE k + 1 \in T
  <2>1. ASSUME k + 1 <= n PROVE Largest(entries, k + 1, g[1 .. k + 1])
    <3>1. Largest(entries, k, g[1 .. k])
      BY <1>3, <2>1
    <3> DEFINE m == k + 1
    <3>2. m \in Nat /\ m = k + 1
      OBVIOUS
    <3> HIDE DEF m
    <3>3. Largest(entries, m, Larger(entries[m], g[1 .. k]))
      BY <2>1, <3>1, <3>2, LargerIs
    <3>4. g[1 .. m] = Larger(entries[m], g[1 .. k])
      BY <1>1, <2>1, <3>2
    <3>5. QED BY <3>2, <3>3, <3>4
  <2>2. QED BY <2>1
<1> HIDE DEF T
<1>4. Nat \subseteq T
  BY <1>2, <1>3, Induction
<1>5. QED BY <1>1, <1>4 DEF T

\* What the walk takes from a memory map is one of the largest sections, if any is
\* available.
LEMMA AreaIs ==
  ASSUME NEW list, Reported(list), NEW i \in MemoryMaps(list)
  PROVE  /\ largestArea(list[i].entries) \in Areas(list)
         /\ (\E e \in ToSet(list[i].entries) : e.available) =>
              /\ \E e \in {f \in ToSet(list[i].entries) : f.available} :
                   largestArea(list[i].entries) = [first |-> e.first, count |-> e.count]
              /\ \A e \in {f \in ToSet(list[i].entries) : f.available} :
                   largestArea(list[i].entries).count >= e.count
<1> DEFINE entries == list[i].entries
           n == Len(entries)
           a == largestArea(entries)
<1>1. n \in Nat /\ DOMAIN entries = 1 .. n
      /\ \A k \in 1 .. n : entries[k].count \in Nat /\ entries[k].available \in BOOLEAN
  BY DEF Reported
<1> HIDE DEF n, a, entries
<1>2. Largest(entries, n, a)
  BY <1>1, LargestAreaIs DEF a
<1>3. \A e : e \in ToSet(entries) <=> \E k \in 1 .. n : e = entries[k]
  BY <1>1 DEF ToSet
<1>4. CASE \A k \in 1 .. n : ~entries[k].available
  <2>1. a = None
    BY <1>2, <1>4 DEF Largest
  <2>2. a \in Areas(list)
    BY <2>1 DEF Areas
  <2>3. QED BY <1>3, <1>4, <2>2 DEF a, entries
<1>5. CASE \E k \in 1 .. n : entries[k].available
  <2>1. PICK k \in 1 .. n :
          /\ entries[k].available /\ a = [first |-> entries[k].first, count |-> entries[k].count]
          /\ \A j \in 1 .. n : entries[j].available => entries[k].count >= entries[j].count
    BY <1>2, <1>5 DEF Largest
  <2> DEFINE e == entries[k]
             free == {f \in ToSet(entries) : f.available}
  <2>2. e \in free
    BY <1>3, <2>1
  <2>3. \A f \in free : e.count >= f.count
    BY <1>3, <2>1
  <2>4. a = [first |-> e.first, count |-> e.count] /\ a.count = e.count
    BY <2>1
  <2> HIDE DEF e
  <2>5. a \in LargestOf(entries)
    BY <2>2, <2>3, <2>4 DEF LargestOf
  <2>6. a \in Areas(list)
    BY <2>5 DEF Areas, entries
  <2>7. /\ \E f \in free : a = [first |-> f.first, count |-> f.count]
        /\ \A f \in free : a.count >= f.count
    BY <2>2, <2>3, <2>4
  <2>8. QED BY <2>6, <2>7 DEF a, entries
<1>6. QED BY <1>4, <1>5

-----------------------------------------------------------------------------
(* The steps.                                                               *)

\* The parts of Fits.
LEMMA FitsIs ==
  ASSUME Layout, NEW a, NEW s, Fits(a, s)
  PROVE  /\ a.first = 0 /\ a.count \in Nat /\ s.first \in Nat /\ s.count \in Nat
         /\ a.first \in Physical /\ s.first \in Physical
         /\ 0 .. a.count - 1 \subseteq Physical
         /\ \A q \in s.first .. s.first + s.count - 1 : q \in Physical /\ q >= a.count /\ q >= KernelPages
         /\ HeapStart + a.count <= FrameBuffer + KernelPages
         /\ FrameBuffer + s.count <= BackBuffer
         /\ BackBuffer + s.count <= End
BY DEF Fits, End

\* Whatever the tags have been read for fits.
LEMMA InfoFits ==
  ASSUME Layout, TagsRead
  PROVE  Fits(area, screen)
BY DEF Layout, TagsRead

\* What holds when MapPage or UnmapPage may be called.
LEMMA Live ==
  ASSUME Layout, IInv, phase \notin {"tags", "paging"}, ~halted
  PROVE  /\ Fits(area, screen) /\ tableCount \in Nat /\ bitmap \in SUBSET Physical
         /\ IsTree(tables, pool, tableCount)
         /\ Data(Mapping, KernelHeapEnd, Shown, drawn, screen.first, area.count, bitmap)
         /\ Counts(bitmap, memory, area.count)
         /\ KernelHeapEnd \in HeapStart .. FrameBuffer
BY DEF Layout, IInv, TagsRead, Counted, Progress, Structure, Contents

\* It suffices that what has been mapped is where it ought to be, or that the
\* fault has left everything as it was.
LEMMA ContentsKept ==
  ASSUME IInv, phase' \notin {"tags", "paging"},
         ~halted' => (Data(Mapping, KernelHeapEnd, Shown, drawn, screen.first, area.count, bitmap))',
         halted' => Mapping' = Mapping /\ KernelHeapEnd' = KernelHeapEnd
  PROVE  Contents'
<1>1. CASE ~halted'
  BY <1>1 DEF Contents, Data
<1>2. CASE halted'
  BY <1>2 DEF Contents, IInv
<1>3. QED BY <1>1, <1>2

\* The boot begins with empty tables and nothing locked.
LEMMA InitInv ==
  ASSUME Layout, Init
  PROVE  IInv
<1> USE DEF Init, BootInit
<1>1. TagsRead
  BY DEF TagsRead, Areas, Screens
<1>2. Fits(area, screen)
  BY <1>1, InfoFits
<1>3. Counted
  BY DEF Counted
<1>4. Progress
  <2>1. screen.count \in Nat
    BY <1>2, FitsIs
  <2>2. HeapStart \in Nat /\ FrameBuffer \in Nat /\ HeapStart <= FrameBuffer /\ MaxMove \in Nat
    BY Addresses
  <2>3. moving \in -MaxMove .. MaxMove
    <3>1. 0 \in -MaxMove .. MaxMove
      BY <2>2
    <3>2. QED BY <3>1
  <2>4. KernelHeapEnd \in HeapStart .. FrameBuffer
    BY <2>2
  <2>5. drawn \in Nat /\ drawn <= screen.count
    BY <2>1
  <2>6. phase = "tags" /\ drawn = 0 /\ halted = FALSE /\ KernelHeapEnd = HeapStart /\ moving = 0
        /\ tableCount \in TableCounts
    OBVIOUS
  <2> HIDE DEF Init, BootInit
  <2>7. QED BY <2>3, <2>4, <2>5, <2>6 DEF Progress
<1>5. NotSetUp(tables, {}, tableCount) /\ tableCount \in Nat
  BY PagingAssumption DEF NotSetUp, Tables
<1>6. Structure
  <2>1. Absent \in [present : BOOLEAN, to : Physical \cup 0 .. 2 + tableCount \cup {NoPage}]
    BY DEF Absent
  <2>2. tables \in TableType(tableCount)
    BY <1>5, <2>1 DEF NotSetUp, TableType
  <2>3. QED BY <1>5, <2>2 DEF Structure
<1>7. \A v \in Virtual : Mapping[v] = NoPage
  BY <1>5, NothingMapped, MappingIs
<1>8. Contents
  <2>1. Mapping \in [Virtual -> Physical \cup {NoPage}]
    BY <1>7 DEF Mapping
  <2>2. Injective(Mapping)
    BY <1>7 DEF Injective
  <2>3. HeapMapped(Mapping, KernelHeapEnd)
    BY <1>7, Addresses DEF HeapMapped
  <2>4. QED BY <2>1, <2>2, <2>3 DEF Contents
<1>9. QED BY <1>1, <1>3, <1>4, <1>6, <1>8 DEF IInv

\* What the steps of the boot leave alone.
LEMMA MappingKept ==
  ASSUME tables' = tables PROVE Mapping' = Mapping
BY MappingIs

\* The walk over the tags touches neither pages nor tables.
LEMMA ReadTagInv ==
  ASSUME Layout, IInv, ReadTag
  PROVE  IInv'
<1> USE DEF ReadTag, pmm, vmm
<1>1. TagsRead'
  <2>1. /\ phase' = "tags" /\ tags' = tags /\ tag' = tag + 1
        /\ tags \in TagLists /\ tag \in Nat /\ area \in Areas(tags) /\ screen \in Screens(tags)
    BY DEF IInv, TagsRead, ScreenTag, MemoryTag, OtherTag, Advance
  <2>2. CASE ScreenTag
    <3>1. screen' \in Screens(tags) /\ area' = area
      BY <2>2 DEF ScreenTag, At, Screens, ScreenTags
    <3>2. QED BY <2>1, <3>1 DEF TagsRead
  <2>3. CASE MemoryTag
    <3>1. area' \in Areas(tags)
      <4>1. tag \in MemoryMaps(tags) /\ area' = largestArea(tags[tag].entries)
        BY <2>3 DEF MemoryTag, At, MemoryMaps
      <4>2. Reported(tags)
        BY <2>1 DEF Layout
      <4>3. QED BY <4>1, <4>2, AreaIs
    <3>2. screen' \in Screens(tags)
      BY <2>3 DEF MemoryTag, Screens
    <3>3. QED BY <2>1, <3>1, <3>2 DEF TagsRead
  <2>4. CASE OtherTag
    BY <2>1, <2>4 DEF TagsRead, OtherTag, info
  <2>5. QED BY <2>2, <2>3, <2>4
<1>2. Counted'
  BY DEF IInv, Counted
<1>3. Progress'
  <2>1. Fits(area, screen)'
    BY <1>1 DEF Layout, TagsRead
  <2>2. screen'.count \in Nat
    BY <2>1, FitsIs
  <2>3. QED BY <2>2 DEF IInv, Progress
<1>4. Structure'
  BY DEF IInv, Structure
<1>5. Contents'
  BY MappingKept DEF IInv, Contents
<1>6. QED BY <1>1, <1>2, <1>3, <1>4, <1>5 DEF IInv

\* PMM::Initialize locks the kernel's pages, since the section begins at 0.
LEMMA PMMInitializeInv ==
  ASSUME Layout, IInv, PMMInitialize
  PROVE  IInv'
<1> USE DEF PMMInitialize, vmm, info
<1>1. Fits(area, screen)
  BY InfoFits DEF IInv
<1>2. area.first = 0 /\ area.count \in Nat /\ KernelPages \in Nat \ {0}
  BY <1>1, FitsIs, Addresses
<1>3. TagsRead'
  BY <1>1 DEF TagsRead
<1>4. /\ bitmap' \subseteq Kernel /\ Kernel \cap Managed \subseteq bitmap'
      /\ memory' = [used |-> Cardinality(bitmap'), free |-> area.count - Cardinality(bitmap')]
  <2>1. PICK stray \in SUBSET Uncleared(0, KernelPages) :
          /\ bitmap' = Lockable(0, KernelPages, stray)
          /\ memory' = [used |-> Cardinality(Lockable(0, KernelPages, stray)),
                        free |-> area.count - Cardinality(Lockable(0, KernelPages, stray))]
    BY <1>2
  <2>2. bitmap' \subseteq Kernel
    BY <2>1, <1>2 DEF Lockable, Kernel
  <2>3. \A q \in Kernel \cap Managed : \A p \in 0 .. q : p \notin stray
    BY <1>2, ManagedIsCleared DEF Uncleared, Managed
  <2>4. QED BY <2>1, <2>2, <2>3, <1>2 DEF Lockable, Kernel
<1>5. Counted'
  <2>1. IsFiniteSet(Kernel)
    BY <1>2, IntervalSize DEF Kernel
  <2>2. IsFiniteSet(bitmap') /\ Cardinality(bitmap') \in Nat
    BY <1>4, <2>1, FS_Subset, FS_CardinalityType
  <2>3. bitmap' \subseteq Physical
    BY <1>4 DEF Kernel, Layout
  <2>4. Counts(bitmap', memory', area.count)
    BY <1>2, <1>4, <2>2 DEF Counts
  <2>5. QED BY <2>3, <2>4 DEF Counted
<1>6. Progress'
  BY DEF IInv, Progress
<1>7. Structure'
  BY DEF IInv, Structure
<1>8. Contents'
  BY <1>4, MappingKept DEF IInv, Contents, Managed
<1>9. QED BY <1>3, <1>5, <1>6, <1>7, <1>8 DEF IInv

\* SetupPaging maps the kernel and nothing else.
LEMMA SetupPagingInv ==
  ASSUME Layout, IInv, SetupPaging
  PROVE  IInv'
<1> USE DEF SetupPaging, pmm, boot, info
<1>1. Fits(area, screen) /\ NotSetUp(tables, {}, tableCount) /\ tableCount \in Nat \ {0}
      /\ drawn = 0 /\ ~halted
  BY DEF IInv, TagsRead, Structure, Progress, Layout, NotSetUp
<1>2. area.first = 0 /\ area.count \in Nat /\ screen.first \in Nat /\ 0 \in Physical
  BY <1>1, FitsIs
<1>3. /\ End \in Nat /\ Virtual = 0 .. End - 1
      /\ KernelOffset \in Nat /\ HeapStart \in Nat /\ FrameBuffer \in Nat /\ BackBuffer \in Nat
      /\ KernelOffset < HeapStart /\ HeapStart <= FrameBuffer /\ FrameBuffer <= BackBuffer
      /\ BackBuffer < End /\ KernelPages \in Nat \ {0}
  BY Addresses
<1>4. /\ IsTree(tables', {0}, tableCount)
      /\ \A v \in Virtual : Behind(tables', v) = IF v = KernelOffset THEN 0 ELSE NoPage
  <2>1. SetsUp(tables, tables')
    BY DEF SetsUp
  <2>2. QED BY <1>1, <1>2, <2>1, LaidOut
<1>5. \A v \in Virtual : Mapping'[v] = IF v = KernelOffset THEN 0 ELSE NoPage
  BY <1>4, MappingIs
<1>6. Data(Mapping', HeapStart, 0, 0, screen.first, area.count, bitmap)
  <2> DEFINE M == Mapping'
  <2>1. M = [v \in Virtual |-> Behind(tables', v)]
    BY MappingIs
  <2>2. M \in [Virtual -> Physical \cup {NoPage}]
    BY <1>2, <1>5, <2>1
  <2> HIDE DEF M
  <2>3. \A v \in Virtual : M[v] = IF v = KernelOffset THEN 0 ELSE NoPage
    BY <1>5 DEF M
  <2>4. Injective(M)
    BY <2>3 DEF Injective
  <2>5. HeapMapped(M, HeapStart)
    BY <1>3, <2>3 DEF HeapMapped
  <2>6. Places(M, HeapStart, 0, 0, screen.first, area.count)
    BY <1>3, <2>3 DEF Places
  <2>7. Locked(M, bitmap, area.count)
    <3>1. bitmap \subseteq Kernel /\ Kernel \cap (0 .. area.count - 1) \subseteq bitmap
      BY DEF IInv, Contents, Managed
    <3>2. 0 \in Kernel
      BY <1>3 DEF Kernel
    <3>3. \A v \in Virtual : M[v] \in 0 .. area.count - 1 => M[v] = 0
      BY <1>2, <2>3 DEF NoPage
    <3>4. QED BY <3>1, <3>2, <3>3 DEF Locked
  <2>8. QED BY <2>2, <2>4, <2>5, <2>6, <2>7 DEF Data, M
<1>7. TagsRead'
  BY <1>1 DEF TagsRead
<1>8. Counted'
  BY DEF IInv, Counted
<1>9. Progress'
  BY <1>3 DEF IInv, Progress
<1>10. Structure'
  BY <1>1, <1>4 DEF Structure, IsTree
<1>11. Contents'
  <2>1. (Data(Mapping, KernelHeapEnd, Shown, drawn, screen.first, area.count, bitmap))'
    BY <1>1, <1>6 DEF IInv, Contents, Shown
  <2>2. ~halted'
    BY <1>1
  <2>3. QED BY <2>1, <2>2, ContentsKept
<1>12. QED BY <1>7, <1>8, <1>9, <1>10, <1>11 DEF IInv

\* The page fault of an AllocatePage at 2 GB leaves pages and tables as they are.
Faults == halted' = TRUE /\ UNCHANGED <<pmm, vmm>>
LEMMA FaultKeeps ==
  ASSUME Faults, IsTree(tables, pool, tableCount)
  PROVE  /\ tables' \in TableType(tableCount) /\ pool' \subseteq 0 .. tableCount - 1
         /\ halted' = TRUE /\ Mapping' = Mapping
BY MappingKept DEF Faults, pmm, vmm, IsTree

\* A turn of the loop of Graphics::Setup maps and locks a page of the screen, which
\* is neither memory nor the kernel's ...
LEMMA MapScreenInv ==
  ASSUME Layout, IInv, MapScreen
  PROVE  IInv'
<1> DEFINE v == FrameBuffer + drawn
           p == screen.first + drawn
<1>1. /\ phase = "graphics" /\ ~halted /\ drawn < screen.count /\ phase' = "back"
      /\ MapPage(v, p) /\ LockPages(p, 1)
      /\ UNCHANGED <<tags, tag, area, screen, tableCount, drawn, KernelHeapEnd, moving>>
  BY DEF MapScreen, Running, boot, bootInformation, info
<1>2. /\ Fits(area, screen) /\ tableCount \in Nat /\ bitmap \in SUBSET Physical
      /\ IsTree(tables, pool, tableCount)
      /\ Data(Mapping, KernelHeapEnd, drawn, drawn, screen.first, area.count, bitmap)
      /\ Counts(bitmap, memory, area.count)
      /\ KernelHeapEnd \in HeapStart .. FrameBuffer
  BY <1>1, Live DEF Shown
<1>3. Progress
  BY DEF IInv
<1>4. drawn \in Nat /\ screen.first \in Nat /\ screen.count \in Nat /\ area.count \in Nat
  BY <1>2, <1>3, FitsIs DEF Progress
<1>5. p \in Physical /\ p \in Nat /\ p >= area.count /\ p >= KernelPages
  <2>1. p \in screen.first .. screen.first + screen.count - 1
    BY <1>1, <1>4
  <2>2. QED BY <1>2, <1>4, <2>1, FitsIs
<1>6. v \in Virtual /\ v < BackBuffer /\ Shares(v)
  <2>1. FrameBuffer + screen.count <= BackBuffer
    BY <1>2, FitsIs
  <2>2. /\ FrameBuffer \in Nat /\ BackBuffer \in Nat /\ BackBuffer < End /\ End \in Nat
        /\ KernelOffset \in Nat /\ KernelOffset < FrameBuffer /\ Virtual = 0 .. End - 1
    BY Addresses
  <2>3. v \in Virtual /\ v < BackBuffer /\ v >= KernelOffset
    BY <2>1, <2>2, <1>1, <1>4
  <2>4. QED BY <2>3, Addresses
<1>7. p \notin Kernel
  BY <1>5, Addresses DEF Kernel
<1>8. Adds(v, FrameBuffer, drawn) /\ Adds(p, screen.first, drawn)
  BY DEF Adds
<1> HIDE DEF v, p
<1>9. /\ tables' \in TableType(tableCount) /\ pool' \subseteq 0 .. tableCount - 1
      /\ halted' \in BOOLEAN
      /\ ~halted' => IsTree(tables', pool', tableCount) /\ Mapping' = [Mapping EXCEPT ![v] = p]
      /\ halted' => Mapping' = Mapping
  BY <1>1, <1>2, <1>5, <1>6, MapPageMaps
<1>10. (bitmap' = bitmap \cup {p} \/ bitmap' = bitmap) /\ Counts(bitmap', memory', area.count)
  BY <1>1, <1>2, <1>4, <1>5, LockOne
<1>11. ASSUME ~halted'
       PROVE  Data(Mapping', KernelHeapEnd, drawn + 1, drawn, screen.first, area.count, bitmap')
  BY <1>2, <1>4, <1>5, <1>6, <1>7, <1>8, <1>9, <1>10, <1>11, ScreenGrows
<1>12. TagsRead'
  BY <1>1, <1>2 DEF TagsRead
<1>13. Counted'
  BY <1>1, <1>2, <1>5, <1>10 DEF Counted
<1>14. Progress'
  BY <1>1, <1>3, <1>9 DEF Progress
<1>15. Structure'
  BY <1>1, <1>9 DEF Structure
<1>16. Contents'
  <2>1. ASSUME ~halted'
        PROVE  (Data(Mapping, KernelHeapEnd, Shown, drawn, screen.first, area.count, bitmap))'
    BY <1>1, <1>11, <2>1 DEF Shown
  <2>2. QED BY <1>1, <1>9, <2>1, ContentsKept
<1>17. QED BY <1>12, <1>13, <1>14, <1>15, <1>16 DEF IInv

\* ... and a page of the back buffer, or none if all are locked.
LEMMA MapBackInv ==
  ASSUME Layout, IInv, MapBack
  PROVE  IInv'
<1> DEFINE v == BackBuffer + drawn
           p == FirstFree
<1>1. /\ phase = "back" /\ ~halted /\ phase' = "graphics" /\ drawn' = drawn + 1
      /\ (MapPage(v, p) /\ AllocatePage) \/ Faults
      /\ UNCHANGED <<tags, tag, area, screen, tableCount, KernelHeapEnd, moving>>
  BY DEF MapBack, MapAllocated, Faults, Running, boot, bootInformation, info
<1>2. /\ Fits(area, screen) /\ tableCount \in Nat /\ bitmap \in SUBSET Physical
      /\ IsTree(tables, pool, tableCount)
      /\ Data(Mapping, KernelHeapEnd, drawn + 1, drawn, screen.first, area.count, bitmap)
      /\ Counts(bitmap, memory, area.count)
      /\ KernelHeapEnd \in HeapStart .. FrameBuffer
  BY <1>1, Live DEF Shown
<1>3. Progress
  BY DEF IInv
<1>4. drawn \in Nat /\ screen.first \in Nat /\ screen.count \in Nat /\ area.count \in Nat
      /\ drawn < screen.count /\ 0 .. area.count - 1 \subseteq Physical
  BY <1>1, <1>2, <1>3, FitsIs DEF Progress
<1>5. p \in Physical \cup {NoPage} /\ (p # NoPage => p \in 0 .. area.count - 1 /\ p \notin bitmap)
  BY <1>4, FirstFreeIs
<1>6. v \in Virtual /\ v < End /\ Shares(v)
  <2>1. BackBuffer + screen.count <= End
    BY <1>2, FitsIs
  <2>2. /\ BackBuffer \in Nat /\ End \in Nat /\ KernelOffset \in Nat /\ KernelOffset < BackBuffer
        /\ Virtual = 0 .. End - 1
    BY Addresses
  <2>3. v \in Virtual /\ v < End /\ v >= KernelOffset
    BY <2>1, <2>2, <1>4
  <2>4. QED BY <2>3, Addresses
<1>7. Adds(v, BackBuffer, drawn)
  BY DEF Adds
<1>8. /\ \/ halted' = TRUE /\ bitmap' = bitmap
         \/ bitmap' = IF p = NoPage THEN bitmap ELSE bitmap \cup {p}
      /\ Counts(bitmap', memory', area.count)
  <2>1. CASE Faults
    BY <2>1, <1>2 DEF Faults, pmm
  <2>2. CASE AllocatePage
    BY <2>2, <1>2, <1>4, AllocateOne
  <2>3. QED BY <1>1, <2>1, <2>2
<1> HIDE DEF v, p
<1>9. /\ tables' \in TableType(tableCount) /\ pool' \subseteq 0 .. tableCount - 1
      /\ halted' \in BOOLEAN
      /\ ~halted' => IsTree(tables', pool', tableCount) /\ Mapping' = [Mapping EXCEPT ![v] = p]
      /\ halted' => Mapping' = Mapping
  <2>1. CASE Faults
    BY <2>1, <1>2, FaultKeeps
  <2>2. CASE MapPage(v, p)
    BY <2>2, <1>2, <1>5, <1>6, MapPageMaps
  <2>3. QED BY <1>1, <2>1, <2>2
<1>10. ASSUME ~halted'
       PROVE  Data(Mapping', KernelHeapEnd, drawn + 1, drawn + 1, screen.first, area.count, bitmap')
  <2> DEFINE x == drawn + 1
  <2>1. x \in Nat
    BY <1>4
  <2>2. Data(Mapping, KernelHeapEnd, x, drawn, screen.first, area.count, bitmap)
    BY <1>2
  <2> HIDE DEF x
  <2>3. Data(Mapping', KernelHeapEnd, x, drawn + 1, screen.first, area.count, bitmap')
    BY <1>2, <1>4, <1>5, <1>6, <1>7, <1>8, <1>9, <1>10, <2>1, <2>2, BackGrows
  <2>4. QED BY <2>3 DEF x
<1>11. TagsRead'
  BY <1>1, <1>2 DEF TagsRead
<1>12. Counted'
  BY <1>1, <1>2, <1>5, <1>8 DEF Counted
<1>13. Progress'
  BY <1>1, <1>3, <1>4, <1>9 DEF Progress
<1>14. Structure'
  BY <1>1, <1>9 DEF Structure
<1>15. Contents'
  <2>1. ASSUME ~halted'
        PROVE  (Data(Mapping, KernelHeapEnd, Shown, drawn, screen.first, area.count, bitmap))'
    BY <1>1, <1>10, <2>1 DEF Shown
  <2>2. QED BY <1>1, <1>9, <2>1, ContentsKept
<1>16. QED BY <1>11, <1>12, <1>13, <1>14, <1>15 DEF IInv

\* The steps that change neither pages nor tables.
LEMMA StillInv ==
  ASSUME IInv,
         UNCHANGED <<tags, tag, area, screen, tableCount, drawn, bitmap, memory, tables, pool,
                     KernelHeapEnd, halted>>,
         \/ phase' = phase /\ moving' \in -MaxMove .. MaxMove /\ (moving' # 0 => phase = "run")
         \/ phase = "graphics" /\ phase' = "run" /\ moving' = moving
  PROVE  IInv'
<1>1. TagsRead' /\ Counted' /\ Structure'
  BY DEF IInv, TagsRead, Counted, Structure
<1>2. Progress'
  BY DEF IInv, Progress
<1>3. Contents'
  BY MappingKept DEF IInv, Contents, Shown, Managed
<1>4. QED BY <1>1, <1>2, <1>3 DEF IInv

\* SBRK upwards maps the page at the break, which lies below the framebuffer, and
\* changes nothing else.
LEMMA UpInv ==
  ASSUME Layout, IInv, Up
  PROVE  IInv' /\ (\A w \in Virtual : w # KernelHeapEnd => Mapping'[w] = Mapping[w])
         /\ KernelHeapEnd \in HeapStart .. FrameBuffer - 1
<1> DEFINE p == FirstFree
           top == KernelHeapEnd
<1>1. /\ phase = "run" /\ ~halted /\ moving > 0 /\ p # NoPage
      /\ (MapPage(top, p) /\ AllocatePage) \/ Faults
      /\ IF halted' THEN UNCHANGED <<KernelHeapEnd, moving>>
         ELSE KernelHeapEnd' = KernelHeapEnd + 1 /\ moving' = moving - 1
      /\ UNCHANGED <<tags, tag, area, screen, tableCount, phase, drawn>>
  BY DEF Up, MapAllocated, Faults, Running, boot, bootInformation, info
<1>2. /\ Fits(area, screen) /\ tableCount \in Nat /\ bitmap \in SUBSET Physical
      /\ IsTree(tables, pool, tableCount)
      /\ Data(Mapping, top, drawn, drawn, screen.first, area.count, bitmap)
      /\ Counts(bitmap, memory, area.count)
      /\ top \in HeapStart .. FrameBuffer
  BY <1>1, Live DEF Shown
<1>3. Progress
  BY DEF IInv
<1>4. drawn \in Nat /\ screen.first \in Nat /\ area.count \in Nat /\ moving \in -MaxMove .. MaxMove
      /\ 0 .. area.count - 1 \subseteq Physical /\ HeapStart + area.count <= FrameBuffer + KernelPages
  BY <1>2, <1>3, FitsIs DEF Progress
<1>5. p \in Physical /\ p \in 0 .. area.count - 1 /\ p \notin bitmap
  BY <1>1, <1>4, FirstFreeIs
<1>6. /\ bitmap' = bitmap \cup {p} \/ (halted' = TRUE /\ bitmap' = bitmap)
      /\ Counts(bitmap', memory', area.count)
  <2>1. CASE Faults
    BY <2>1, <1>2 DEF Faults, pmm
  <2>2. CASE AllocatePage
    BY <2>2, <1>1, <1>2, <1>4, AllocateOne
  <2>3. QED BY <1>1, <2>1, <2>2
<1> HIDE DEF p, top
<1>7. top < FrameBuffer
  BY <1>2, <1>4, <1>5, HeapHasRoom
<1>8. top \in HeapStart .. FrameBuffer - 1 /\ top \in Virtual /\ Shares(top)
  <2>1. top \in HeapStart .. FrameBuffer - 1 /\ top \in Virtual /\ top >= KernelOffset
    BY <1>2, <1>7, Addresses
  <2>2. QED BY <2>1, Addresses
<1>9. /\ tables' \in TableType(tableCount) /\ pool' \subseteq 0 .. tableCount - 1
      /\ halted' \in BOOLEAN
      /\ ~halted' => IsTree(tables', pool', tableCount) /\ Mapping' = [Mapping EXCEPT ![top] = p]
      /\ halted' => Mapping' = Mapping
  <2>1. CASE Faults
    BY <2>1, <1>2, FaultKeeps
  <2>2. CASE MapPage(top, p)
    BY <2>2, <1>2, <1>5, <1>8, MapPageMaps
  <2>3. QED BY <1>1, <2>1, <2>2
<1>10. ASSUME ~halted'
       PROVE  Data(Mapping', top + 1, drawn, drawn, screen.first, area.count, bitmap')
  BY <1>2, <1>4, <1>5, <1>6, <1>8, <1>9, <1>10, HeapGrows
<1>11. TagsRead'
  BY <1>1, <1>2 DEF TagsRead
<1>12. Counted'
  BY <1>1, <1>2, <1>5, <1>6 DEF Counted
<1>13. Progress'
  <2>1. KernelHeapEnd' \in HeapStart .. FrameBuffer
    BY <1>1, <1>8, Addresses DEF top
  <2>2. moving' \in -MaxMove .. MaxMove
    BY <1>1, <1>4, Addresses
  <2>3. QED BY <1>1, <1>3, <1>9, <2>1, <2>2 DEF Progress
<1>14. Structure'
  BY <1>1, <1>9 DEF Structure
<1>15. Contents'
  <2>1. ASSUME ~halted'
        PROVE  (Data(Mapping, KernelHeapEnd, Shown, drawn, screen.first, area.count, bitmap))'
    BY <1>1, <1>10, <2>1 DEF Shown, top
  <2>2. QED BY <1>1, <1>9, <2>1, ContentsKept
<1>16. IInv'
  BY <1>11, <1>12, <1>13, <1>14, <1>15 DEF IInv
<1>17. \A w \in Virtual : w # top => Mapping'[w] = Mapping[w]
  BY <1>2, <1>9 DEF Data
<1>18. QED BY <1>8, <1>16, <1>17 DEF top

\* SBRK downwards unmaps and frees the page below the break, and changes nothing
\* else.
LEMMA DownInv ==
  ASSUME Layout, IInv, Down
  PROVE  IInv' /\ (\A w \in Virtual : w # Top => Mapping'[w] = Mapping[w])
         /\ Top \in HeapStart .. FrameBuffer - 1
<1> DEFINE v == Top
           p == GetPhysAddr(Top)
<1>1. /\ phase = "run" /\ ~halted /\ moving < 0 /\ KernelHeapEnd # HeapStart
      /\ KernelHeapEnd' = v /\ UnmapPage(v) /\ FreePages(p, 1) /\ moving' = moving + 1
      /\ UNCHANGED <<tags, tag, area, screen, tableCount, phase, drawn, pool, halted>>
  BY DEF Down, Running, boot, bootInformation, info, Top
<1>2. /\ Fits(area, screen) /\ tableCount \in Nat /\ bitmap \in SUBSET Physical
      /\ IsTree(tables, pool, tableCount)
      /\ Data(Mapping, KernelHeapEnd, drawn, drawn, screen.first, area.count, bitmap)
      /\ Counts(bitmap, memory, area.count)
      /\ KernelHeapEnd \in HeapStart .. FrameBuffer
  BY <1>1, Live DEF Shown
<1>3. Progress
  BY DEF IInv
<1>4. drawn \in Nat /\ screen.first \in Nat /\ area.count \in Nat /\ moving \in -MaxMove .. MaxMove
  BY <1>2, <1>3, FitsIs DEF Progress
<1>5. v \in HeapStart .. FrameBuffer - 1 /\ v \in Virtual /\ Shares(v) /\ v = KernelHeapEnd - 1
  <2>1. v \in HeapStart .. FrameBuffer - 1 /\ v \in Virtual /\ v >= KernelOffset /\ v = KernelHeapEnd - 1
    BY <1>1, <1>2, Addresses DEF Top
  <2>2. QED BY <2>1, Addresses
<1>6. p = Mapping[v]
  BY <1>5 DEF Mapping
<1> HIDE DEF v, p
<1>7. IsTree(tables', pool, tableCount) /\ Mapping' = [Mapping EXCEPT ![v] = NoPage]
  BY <1>1, <1>2, <1>5, UnmapPageUnmaps
<1>8. p \in bitmap
  <2>1. Mapping[v] \in (0 .. area.count - 1) \ Kernel
    BY <1>2, <1>5, Addresses DEF Data, Places
  <2>2. QED BY <1>2, <1>5, <1>6, <2>1 DEF Data, Locked, NoPage
<1>9. p \in Nat
  BY <1>2, <1>8, Addresses
<1>10. bitmap' = bitmap \ {p} /\ Counts(bitmap', memory', area.count)
  BY <1>1, <1>2, <1>4, <1>9, FreeOne
<1>11. Data(Mapping', v, drawn, drawn, screen.first, area.count, bitmap')
  BY <1>1, <1>2, <1>4, <1>5, <1>6, <1>7, <1>10, HeapShrinks
<1>12. TagsRead'
  BY <1>1, <1>2 DEF TagsRead
<1>13. Counted'
  BY <1>1, <1>2, <1>10 DEF Counted
<1>14. Progress'
  <2>1. KernelHeapEnd' \in HeapStart .. FrameBuffer
    BY <1>1, <1>5, Addresses
  <2>2. moving' \in -MaxMove .. MaxMove
    BY <1>1, <1>4, Addresses
  <2>3. QED BY <1>1, <1>3, <2>1, <2>2 DEF Progress
<1>15. Structure'
  <2>1. tables' \in TableType(tableCount) /\ pool \subseteq 0 .. tableCount - 1
    BY <1>7 DEF IsTree
  <2>2. QED BY <1>1, <1>7, <2>1 DEF Structure
<1>16. Contents'
  <2>1. (Data(Mapping, KernelHeapEnd, Shown, drawn, screen.first, area.count, bitmap))'
    BY <1>1, <1>11 DEF Shown
  <2>2. QED BY <1>1, <2>1, ContentsKept
<1>17. IInv'
  BY <1>12, <1>13, <1>14, <1>15, <1>16 DEF IInv
<1>18. \A w \in Virtual : w # v => Mapping'[w] = Mapping[w]
  BY <1>2, <1>7 DEF Data
<1>19. QED BY <1>5, <1>17, <1>18 DEF v

\* Every step of the boot and of SBRK keeps the invariant.
LEMMA NextInv ==
  ASSUME Layout, IInv, [Next]_vars
  PROVE  IInv'
<1>1. CASE ReadTag
  BY <1>1, ReadTagInv
<1>2. CASE PMMInitialize
  BY <1>2, PMMInitializeInv
<1>3. CASE SetupPaging
  BY <1>3, SetupPagingInv
<1>4. CASE MapScreen
  BY <1>4, MapScreenInv
<1>5. CASE MapBack
  BY <1>5, MapBackInv
<1>6. CASE SetupDone
  BY <1>6, StillInv DEF SetupDone, Running, boot, bootInformation, info, pmm, vmm
<1>7. ASSUME NEW n \in (-MaxMove .. MaxMove) \ {0}, Call(n) PROVE IInv'
  BY <1>7, StillInv DEF Call, Running, boot, bootInformation, info, pmm, vmm
<1>8. CASE Up
  BY <1>8, UpInv
<1>9. CASE Down
  BY <1>9, DownInv
<1>10. CASE OutOfPages \/ Empty
  <2>1. MaxMove \in Nat
    BY Addresses
  <2>2. 0 \in -MaxMove .. MaxMove
    BY <2>1
  <2>3. moving' = 0 /\ phase' = phase
        /\ UNCHANGED <<tags, tag, area, screen, tableCount, drawn, bitmap, memory, tables, pool,
                       KernelHeapEnd, halted>>
    BY <1>10 DEF OutOfPages, Empty, boot, bootInformation, info, pmm, vmm
  <2>4. moving' \in -MaxMove .. MaxMove
    BY <2>2, <2>3
  <2>5. QED BY <2>3, <2>4, StillInv
<1>11. CASE UNCHANGED vars
  <2>1. /\ UNCHANGED <<tags, tag, area, screen, tableCount, drawn, bitmap, memory, tables, pool,
                       KernelHeapEnd, halted>>
        /\ phase' = phase /\ moving' = moving
    BY <1>11 DEF vars, boot, bootInformation, info, pmm, vmm
  <2>2. moving \in -MaxMove .. MaxMove /\ (moving # 0 => phase = "run")
    BY DEF IInv, Progress
  <2>3. QED BY <2>1, <2>2, StillInv
<1>12. QED
  BY <1>1, <1>2, <1>3, <1>4, <1>5, <1>6, <1>7, <1>8, <1>9, <1>10, <1>11 DEF Next, SBRK

\* The invariant holds throughout.
LEMMA Invariant == Spec => []IInv
<1>1. Init => IInv
  BY LayoutAssumption, InitInv
<1>2. IInv /\ [Next]_vars => IInv'
  BY LayoutAssumption, NextInv
<1>3. QED BY <1>1, <1>2, PTL DEF Spec

-----------------------------------------------------------------------------
(* The theorems.                                                            *)

\* The tables, the bitmaps and the counters stay what they are meant to be: PMM's
\* counters always say how many bits are set, and the break never leaves the part
\* of the address space that is the heap's.
THEOREM TypesCorrect == Spec => []TypeOK
<1>1. IInv => TypeOK
  <2> SUFFICES ASSUME IInv PROVE TypeOK
    OBVIOUS
  <2>1. Fits(area, screen)
    BY LayoutAssumption, InfoFits DEF IInv
  <2>2. area.first \in Physical /\ screen.first \in Physical /\ area.count \in Nat /\ screen.count \in Nat
    BY LayoutAssumption, <2>1, FitsIs
  <2>3. Progress
    BY DEF IInv
  <2>4. tableCount \in TableCounts /\ phase \in {"tags", "paging", "graphics", "back", "run"}
        /\ drawn \in 0 .. screen.count /\ moving \in -MaxMove .. MaxMove /\ halted \in BOOLEAN
    BY <2>2, <2>3 DEF Progress
  <2>5. KernelHeapEnd \in Virtual
    <3>1. KernelHeapEnd \in HeapStart .. FrameBuffer
      BY <2>3 DEF Progress
    <3>2. QED BY <3>1, LayoutAssumption, Addresses
  <2>6. /\ bitmap \subseteq Physical /\ memory.used = Cardinality(bitmap)
        /\ phase # "tags" => memory.used + memory.free = area.count
    <3>1. Counted /\ Cardinality({}) = 0
      BY FS_EmptySet DEF IInv
    <3>2. CASE phase = "tags"
      BY <3>1, <3>2 DEF Counted
    <3>3. CASE phase # "tags"
      BY <3>1, <3>3 DEF Counted, Counts
    <3>4. QED BY <3>2, <3>3
  <2>7. /\ tables \in [Tables -> [0 .. Entries - 1 ->
                        [present : BOOLEAN, to : Physical \cup Tables \cup {NoPage}]]]
        /\ pool \subseteq 0 .. tableCount - 1
    BY DEF IInv, Structure, TableType, Tables
  <2>8. QED BY <2>2, <2>4, <2>5, <2>6, <2>7 DEF TypeOK
<1>2. QED BY <1>1, Invariant, PTL

\* No physical page is behind two virtual ones, in whatever order screen, back
\* buffer and heap got theirs, and also after a page fault.
THEOREM PagesHaveOneUse == Spec => []OnePageOneUse
<1>1. IInv => OnePageOneUse
  BY DEF IInv, Contents, Injective, OnePageOneUse, Mapping
<1>2. QED BY <1>1, Invariant, PTL

\* Once Graphics::Setup is done, the bits PMM has set are those of pages of the kernel
\* and of pages the page tables map; and of the pages it manages all of those are set.
THEOREM LockedMeansMapped == Spec => []LockedIsMapped
<1> DEFINE InUse == (0 .. KernelPages - 1) \cup ({GetPhysAddr(v) : v \in Virtual} \ {NoPage})
<1>1. IInv => LockedIsMapped
  <2> SUFFICES ASSUME IInv, phase = "run", ~halted
               PROVE  InUse \cap Managed \subseteq bitmap /\ bitmap \subseteq InUse
    BY DEF LockedIsMapped
  <2>1. Locked(Mapping, bitmap, area.count) /\ bitmap \in SUBSET Physical
    BY LayoutAssumption, Live DEF Data
  <2>2. \A v \in Virtual : Mapping[v] = GetPhysAddr(v)
    BY DEF Mapping
  <2>3. \A q \in bitmap : q # NoPage
    BY <2>1, LayoutAssumption, Addresses DEF NoPage
  <2>4. InUse \cap Managed \subseteq bitmap
    BY <2>1, <2>2 DEF Locked, Kernel, Managed
  <2>5. bitmap \subseteq InUse
    BY <2>1, <2>2, <2>3 DEF Locked, Kernel
  <2>6. QED BY <2>4, <2>5
<1>2. QED BY <1>1, Invariant, PTL

\* SBRK leaves no hole in the heap: exactly the pages from its start to the break
\* are mapped, up to the framebuffer.
THEOREM HeapHasNoHole == Spec => []HeapIsMapped
<1>1. IInv => HeapIsMapped
  <2> SUFFICES ASSUME IInv, NEW v \in HeapStart .. FrameBuffer - 1
               PROVE  GetPhysAddr(v) # NoPage <=> v \in HeapPages
    BY DEF HeapIsMapped
  <2>1. v \in Virtual /\ v \in Int /\ v >= HeapStart
    BY LayoutAssumption, Addresses
  <2>2. Mapping[v] # NoPage <=> v < KernelHeapEnd
    BY DEF IInv, Contents, HeapMapped
  <2>3. KernelHeapEnd \in HeapStart .. FrameBuffer
    BY DEF IInv, Progress
  <2>4. v \in HeapPages <=> v < KernelHeapEnd
    BY <2>1, <2>3, LayoutAssumption, Addresses DEF HeapPages
  <2>5. QED BY <2>1, <2>2, <2>4 DEF Mapping
<1>2. QED BY <1>1, Invariant, PTL

\* SBRK never changes what is behind an address of the kernel, the framebuffer or
\* the back buffer: the heap runs out of pages before it runs into them.
THEOREM SBRKKeepsToTheHeap == Spec => BootMappingsStay
<1> DEFINE Old == {KernelOffset} \cup FrameBuffer .. Entries * Entries * Entries - 1
<1>1. ASSUME IInv, [Next]_vars, phase = "run", NEW v \in Old
      PROVE  GetPhysAddr(v)' = GetPhysAddr(v)
  <2>1. v \in Virtual /\ v \notin HeapStart .. FrameBuffer - 1
    BY LayoutAssumption, Addresses DEF End
  <2>2. CASE Up
    BY <2>1, <2>2, <1>1, LayoutAssumption, UpInv DEF Mapping
  <2>3. CASE Down
    BY <2>1, <2>3, <1>1, LayoutAssumption, DownInv DEF Mapping
  <2>4. CASE tables' = tables
    BY <2>4 DEF GetPhysAddr, TableOf
  <2>5. QED
    BY <1>1, <2>2, <2>3, <2>4
    DEF Next, SBRK, ReadTag, PMMInitialize, SetupPaging, MapScreen, MapBack, SetupDone, Call,
        OutOfPages, Empty, Running, vars, vmm
<1>2. IInv /\ [Next]_vars
        => [phase = "run" =>
             \A v \in {KernelOffset} \cup FrameBuffer .. Entries * Entries * Entries - 1 :
               GetPhysAddr(v)' = GetPhysAddr(v)]_vars
  BY <1>1
<1>3. QED BY <1>2, Invariant, PTL DEF Spec, BootMappingsStay

\* The entries of the tables form a tree: MapPage never takes a table that is in
\* use, and keeps every table it has taken from the pool reachable.
THEOREM TablesFormATree == Spec => []TablesAreATree
<1>1. IInv => TablesAreATree
  <2> SUFFICES ASSUME IInv, ~halted PROVE TablesAreATree
    BY DEF TablesAreATree
  <2> DEFINE Used == {e \in {P4Table} \X (0 .. Entries - 1) : tables[e[1]][e[2]].present}
             Inner == {e \in {tables[d[1]][d[2]].to : d \in Used} \X (0 .. Entries - 1) :
                         tables[e[1]][e[2]].present}
             To(e) == tables[e[1]][e[2]].to
             Tree == /\ \A d, e \in Used \cup Inner : To(d) = To(e) => d = e
                     /\ {To(e) : e \in Used \cup Inner} \ {P3Table, P2Table}
                          = {PoolTable(i) : i \in pool \ {0}}
  <2>1. tableCount \in Nat
    BY PagingAssumption DEF IInv, Progress
  <2>2. CASE phase \in {"tags", "paging"}
    <3>1. NotSetUp(tables, pool, tableCount)
      BY <2>2 DEF IInv, Structure
    <3>2. \A i \in 0 .. Entries - 1 : ~tables[P4Table][i].present
      BY <2>1, <3>1 DEF NotSetUp, P4Table, Absent
    <3>3. Used = {}
      BY <3>2
    <3> HIDE DEF Used
    <3>4. Inner = {}
      BY <3>3
    <3>5. pool = {}
      BY <3>1 DEF NotSetUp
    <3> HIDE DEF Inner, To
    <3>6. Tree
      BY <3>3, <3>4, <3>5
    <3>7. QED BY <3>6 DEF TablesAreATree, Used, Inner, To
  <2>3. CASE phase \notin {"tags", "paging"}
    <3>1. IsTree(tables, pool, tableCount)
      BY <2>3 DEF IInv, Structure
    <3>2. /\ K4 \in 0 .. Entries - 1
          /\ \A i \in 0 .. Entries - 1 : tables[P4Table][i].present <=> i = K4
          /\ tables[P4Table][K4].to = P3Table
      BY <2>1, <3>1, TreeRows DEF IsTree
    <3> DEFINE root == <<P4Table, K4>>
               Row == {<<P3Table, i>> : i \in {l \in 0 .. Entries - 1 : tables[P3Table][l].present}}
    <3>3. Used = {root}
      BY <3>2
    <3>4. To(root) = P3Table
      BY <3>2
    <3> HIDE DEF Used
    <3>5. {tables[d[1]][d[2]].to : d \in Used} = {P3Table}
      BY <3>3, <3>4
    <3>6. Inner = Row
      BY <3>5
    <3> HIDE DEF Inner
    <3>7. \A e \in Row : \E i \in 0 .. Entries - 1 :
            e = <<P3Table, i>> /\ tables[P3Table][i].present /\ To(e) = tables[P3Table][i].to
      OBVIOUS
    <3>8. \A i \in 0 .. Entries - 1 : tables[P3Table][i].present =>
            <<P3Table, i>> \in Row /\ To(<<P3Table, i>>) = tables[P3Table][i].to
      OBVIOUS
    <3> HIDE DEF Row, To, root
    <3>9. /\ \A i \in 0 .. Entries - 1 : tables[P3Table][i].present =>
               tables[P3Table][i].to = P2Table \/ \E k \in pool \ {0} : tables[P3Table][i].to = PoolTable(k)
          /\ \A i, j \in 0 .. Entries - 1 :
               tables[P3Table][i].present /\ tables[P3Table][j].present
                 /\ tables[P3Table][i].to = tables[P3Table][j].to => i = j
          /\ \A k \in pool \ {0} : \E i \in 0 .. Entries - 1 : tables[P3Table][i] = Present(PoolTable(k))
      BY <3>1 DEF IsTree
    <3>10. /\ P2Table # P3Table
           /\ \A k \in pool \ {0} : PoolTable(k) # P2Table /\ PoolTable(k) # P3Table
      BY <3>1 DEF IsTree, P2Table, P3Table, PoolTable
    <3>11. \A d, e \in Used \cup Inner : To(d) = To(e) => d = e
      <4>1. \A e \in Row : To(e) # P3Table
        BY <3>7, <3>9, <3>10
      <4>2. \A d, e \in Row : To(d) = To(e) => d = e
        BY <3>7, <3>9
      <4>3. QED BY <3>3, <3>4, <3>6, <4>1, <4>2
    <3>12. \A k \in pool \ {0} : \E e \in Row : To(e) = PoolTable(k)
      <4>1. ASSUME NEW k \in pool \ {0} PROVE \E e \in Row : To(e) = PoolTable(k)
        <5>1. PICK i \in 0 .. Entries - 1 : tables[P3Table][i] = Present(PoolTable(k))
          BY <3>9
        <5>2. tables[P3Table][i].present /\ tables[P3Table][i].to = PoolTable(k)
          BY <5>1 DEF Present
        <5>3. QED BY <3>8, <5>2
      <4>2. QED BY <4>1
    <3>13. \A e \in Used \cup Inner :
             To(e) \in {P3Table, P2Table} \/ \E k \in pool \ {0} : To(e) = PoolTable(k)
      BY <3>3, <3>4, <3>6, <3>7, <3>9
    <3>14. {To(e) : e \in Used \cup Inner} \ {P3Table, P2Table} = {PoolTable(i) : i \in pool \ {0}}
      BY <3>6, <3>10, <3>12, <3>13
    <3>15. Tree
      BY <3>11, <3>14
    <3>16. QED BY <3>15 DEF TablesAreATree, Used, Inner, To
  <2>4. QED BY <2>2, <2>3
<1>2. QED BY <1>1, Invariant, PTL

-----------------------------------------------------------------------------
(* The walk over the tags.                                                  *)

\* Of the tags read so far, the memory map has given the section, and the last one
\* that is no other tag the screen.
WalkedOver ==
  phase = "tags" =>
    /\ tag \in 1 .. Len(tags) + 1
    /\ \A i \in 1 .. tag - 1 : tags[i].type = "mmap" => area = largestArea(tags[i].entries)
    /\ \A i \in 1 .. tag - 1 :
         /\ tags[i].type = "framebuffer"
         /\ \A j \in i + 1 .. tag - 1 : tags[j].type = "other"
         => screen = [first |-> tags[i].first, count |-> tags[i].count]

\* One tag more.
LEMMA ReadTagWalks ==
  ASSUME Layout, IInv, WalkedOver, ReadTag
  PROVE  WalkedOver'
<1>1. /\ phase = "tags" /\ phase' = "tags" /\ tags' = tags /\ tag' = tag + 1
      /\ tag \in DOMAIN tags /\ tags \in TagLists
  BY DEF ReadTag, ScreenTag, MemoryTag, OtherTag, At, Advance, IInv, TagsRead
<1>2. /\ Len(tags) \in Nat /\ DOMAIN tags = 1 .. Len(tags)
      /\ \A i, j \in MemoryMaps(tags) : i = j
  BY <1>1 DEF Layout, Reported
<1>3. /\ tag \in 1 .. Len(tags)
      /\ \A i \in 1 .. tag - 1 : tags[i].type = "mmap" => area = largestArea(tags[i].entries)
      /\ \A i \in 1 .. tag - 1 :
           /\ tags[i].type = "framebuffer"
           /\ \A j \in i + 1 .. tag - 1 : tags[j].type = "other"
           => screen = [first |-> tags[i].first, count |-> tags[i].count]
  BY <1>1, <1>2 DEF WalkedOver
<1>4. tag' \in 1 .. Len(tags) + 1 /\ 1 .. tag' - 1 = 1 .. tag - 1 \cup {tag}
  BY <1>1, <1>2, <1>3
<1>5. ASSUME NEW i \in 1 .. tag' - 1, tags[i].type = "mmap"
      PROVE  area' = largestArea(tags[i].entries)
  <2>1. i \in MemoryMaps(tags)
    <3>1. i \in 1 .. tag - 1 \/ i = tag
      BY <1>4, <1>5
    <3>2. i \in 1 .. Len(tags)
      BY <1>2, <1>3, <3>1
    <3>3. QED BY <1>2, <1>5, <3>2 DEF MemoryMaps
  <2>2. CASE tags[tag].type = "mmap"
    <3>1. tag \in MemoryMaps(tags)
      BY <1>1, <2>2 DEF MemoryMaps
    <3>2. i = tag
      BY <1>2, <2>1, <3>1
    <3>3. QED BY <2>2, <3>2 DEF ReadTag, ScreenTag, MemoryTag, OtherTag, At
  <2>3. CASE tags[tag].type # "mmap"
    <3>1. area' = area
      BY <2>3 DEF ReadTag, ScreenTag, MemoryTag, OtherTag, At, info
    <3>2. i \in 1 .. tag - 1
      BY <1>4, <1>5, <2>3
    <3>3. QED BY <1>3, <1>5, <3>1, <3>2
  <2>4. QED BY <2>2, <2>3
<1>6. ASSUME NEW i \in 1 .. tag' - 1, tags[i].type = "framebuffer",
             \A j \in i + 1 .. tag' - 1 : tags[j].type = "other"
      PROVE  screen' = [first |-> tags[i].first, count |-> tags[i].count]
  <2>1. CASE i = tag
    BY <1>6, <2>1 DEF ReadTag, ScreenTag, MemoryTag, OtherTag, At
  <2>2. CASE i \in 1 .. tag - 1
    <3>1. tag \in i + 1 .. tag' - 1 /\ \A j \in i + 1 .. tag - 1 : j \in i + 1 .. tag' - 1
      BY <1>1, <1>3, <2>2
    <3>2. tags[tag].type = "other" /\ \A j \in i + 1 .. tag - 1 : tags[j].type = "other"
      BY <1>6, <3>1
    <3>3. screen' = screen
      BY <3>2 DEF ReadTag, ScreenTag, MemoryTag, OtherTag, At, info
    <3>4. QED BY <1>3, <1>6, <2>2, <3>2, <3>3
  <2>3. QED BY <1>4, <1>6, <2>1, <2>2
<1>7. QED BY <1>1, <1>4, <1>5, <1>6 DEF WalkedOver

\* What has been read of the tags is what they say.
LEMMA TagsWalked == Spec => []WalkedOver
<1>1. Init => WalkedOver
  <2> SUFFICES ASSUME Init PROVE WalkedOver
    OBVIOUS
  <2>1. tag = 1 /\ tags \in TagLists
    BY DEF Init, BootInit
  <2>2. Len(tags) \in Nat
    BY <2>1, LayoutAssumption DEF Layout, Reported
  <2>3. 1 \in 1 .. Len(tags) + 1 /\ 1 .. 1 - 1 = {}
    BY <2>2
  <2>4. QED BY <2>1, <2>3 DEF WalkedOver
<1>2. ASSUME IInv, WalkedOver, [Next]_vars PROVE WalkedOver'
  <2>1. CASE ReadTag
    BY <1>2, <2>1, LayoutAssumption, ReadTagWalks
  <2>2. CASE UNCHANGED vars
    BY <1>2, <2>2 DEF WalkedOver, vars, boot, bootInformation, info
  <2>3. CASE ~ReadTag /\ ~UNCHANGED vars
    <3>1. phase' # "tags"
      BY <1>2, <2>3
      DEF Next, SBRK, PMMInitialize, SetupPaging, MapScreen, MapBack, SetupDone, Call,
          Up, Down, OutOfPages, Empty, Running
    <3>2. QED BY <3>1 DEF WalkedOver
  <2>4. QED BY <2>1, <2>2, <2>3
<1>3. QED BY <1>1, <1>2, Invariant, PTL DEF Spec

\* The loop over the memory map ends with an available section that no available
\* one exceeds, wherever in the map it is.
THEOREM LargestIsTaken == Spec => []SectionIsLargest
<1>1. IInv /\ WalkedOver => SectionIsLargest
  <2> SUFFICES ASSUME IInv, WalkedOver, phase = "tags",
                      NEW i \in 1 .. tag - 1, tags[i].type = "mmap"
               PROVE  LET available == {e \in ToSet(tags[i].entries) : e.available}
                      IN  /\ \E e \in available : area = [first |-> e.first, count |-> e.count]
                          /\ \A e \in available : area.count >= e.count
    BY DEF SectionIsLargest
  <2>1. tags \in TagLists /\ tag \in 1 .. Len(tags) + 1 /\ area = largestArea(tags[i].entries)
    BY DEF IInv, TagsRead, WalkedOver
  <2>2. Reported(tags)
    BY <2>1, LayoutAssumption DEF Layout
  <2>3. i \in MemoryMaps(tags)
    BY <2>1, <2>2 DEF Reported, MemoryMaps
  <2>4. PICK j \in DOMAIN tags :
          tags[j].type = "mmap" /\ \E e \in Range(tags[j].entries) : e.available
    BY <2>1, BootAssumption
  <2>5. j = i
    BY <2>2, <2>3, <2>4 DEF Reported, MemoryMaps
  <2>6. \E e \in ToSet(tags[i].entries) : e.available
    BY <2>4, <2>5 DEF Range, ToSet
  <2>7. QED BY <2>1, <2>2, <2>3, <2>6, AreaIs
<1>2. QED BY <1>1, Invariant, TagsWalked, PTL

\* A framebuffer tag that follows the memory map decides what the screen is: the
\* misreading of the map before it leaves no trace.
THEOREM ReportedScreenIsUsed == Spec => []ScreenIsReported
<1>1. IInv /\ WalkedOver => ScreenIsReported
  <2> SUFFICES ASSUME IInv, WalkedOver, phase = "tags", NEW i \in 1 .. tag - 1,
                      tags[i].type = "framebuffer",
                      \A j \in i + 1 .. Len(tags) : tags[j].type = "other"
               PROVE  screen = [first |-> tags[i].first, count |-> tags[i].count]
    BY DEF ScreenIsReported
  <2>1. tags \in TagLists /\ tag \in 1 .. Len(tags) + 1
    BY DEF IInv, TagsRead, WalkedOver
  <2>2. Len(tags) \in Nat
    BY <2>1, LayoutAssumption DEF Layout, Reported
  <2>3. \A j \in i + 1 .. tag - 1 : j \in i + 1 .. Len(tags)
    BY <2>1, <2>2
  <2>4. QED BY <2>3 DEF WalkedOver
<1>2. QED BY <1>1, Invariant, TagsWalked, PTL
=============================================================================
