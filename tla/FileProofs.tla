----------------------------- MODULE FileProofs -----------------------------
(***************************************************************************)
(* Proofs about the file allocation programs of Assignment6/Q1, for any    *)
(* number of files and blocks and any texts: the blocks of the files are   *)
(* apart and none is lost, the linked and the indexed program agree, and   *)
(* each program is a file store.                                           *)
(*                                                                         *)
(* The linked and the indexed program are one machine on a disk of inodes, *)
(* free blocks and a counter (Put, Drop, Blank): the linked one when its   *)
(* chains are taken for inodes.  The invariant (IInv) says that the disk   *)
(* is Good and that the chains are those the pointers give (PathsOf).      *)
(*                                                                         *)
(* Of contiguous.cpp the invariant (RunsInv) says that files are runs of   *)
(* allocated blocks; of modified_contiguous.cpp (ModInv) that there are    *)
(* chains with which consecutive parts and rests lie apart (Laid).         *)
(***************************************************************************)
EXTENDS FileAllocation, Sums, SequenceTheorems

-----------------------------------------------------------------------------
(* Blocks                                                                  *)

\* The available blocks.
Free(available) == {b \in Blocks : available[b]}

\* These are blocks of the disk, none of them twice.
Proper(s) == /\ s \in Seq(Blocks)
             /\ \A j, k \in DOMAIN s : s[j] = s[k] => j = k

\* There are as many blocks as the disk has.
LEMMA DiskSize ==
    ASSUME DiskAssumption
    PROVE  IsFiniteSet(Blocks) /\ Cardinality(Blocks) = NumBlocks
<1> DEFINE last == NumBlocks - 1
<1>1. last \in Int /\ 0 \in Int /\ ~(0 > last)
  BY DEF DiskAssumption
<1> HIDE DEF last
<1>2. IsFiniteSet(0..last) /\ Cardinality(0..last) = IF 0 > last THEN 0 ELSE last - 0 + 1
  BY <1>1, FS_Interval
<1> QED BY <1>1, <1>2 DEF DiskAssumption, Blocks, last

\* A proper sequence has as many blocks as its length says.
LEMMA ProperSize ==
    ASSUME NEW s, Proper(s)
    PROVE  /\ BlocksOf(s) \subseteq Blocks
           /\ IsFiniteSet(BlocksOf(s)) /\ Cardinality(BlocksOf(s)) = Len(s)
           /\ Len(s) \in Nat
<1>1. s \in Seq(Blocks) /\ Len(s) \in Nat /\ DOMAIN s = 1..Len(s)
  BY DEF Proper
<1>2. \A k \in 1..Len(s) : s[k] \in Blocks
  BY <1>1, ElementOfSeq
<1>3. BlocksOf(s) \subseteq Blocks
  BY <1>1, <1>2 DEF BlocksOf
<1> DEFINE n == Len(s)
<1>4. IsFiniteSet(1..n) /\ Cardinality(1..n) = n
  BY <1>1, FS_Interval
<1>5. s \in Bijection(1..n, BlocksOf(s))
  <2>1. s \in [1..n -> BlocksOf(s)] /\ \A b \in BlocksOf(s) : \E k \in 1..n : s[k] = b
    BY <1>1 DEF BlocksOf
  <2>2. \A j, k \in 1..n : s[j] = s[k] => j = k
    BY <1>1 DEF Proper
  <2> HIDE DEF n
  <2> QED BY <2>1, <2>2, Fun_IsBij
<1> HIDE DEF n
<1>6. IsFiniteSet(BlocksOf(s)) /\ Cardinality(BlocksOf(s)) = Cardinality(1..n)
  BY <1>4, <1>5, FS_Bijection DEF ExistsBijection
<1> QED BY <1>1, <1>3, <1>4, <1>6 DEF n

\* The search finds n blocks that are available, if there are so many.
LEMMA LowestFreeIsFree ==
    ASSUME DiskAssumption, NEW available \in [Blocks -> BOOLEAN],
           NEW n \in Nat, n <= Cardinality(Free(available))
    PROVE  /\ Proper(LowestFree(available, n))
           /\ BlocksOf(LowestFree(available, n)) \subseteq Free(available)
           /\ Len(LowestFree(available, n)) = n
<1> DEFINE A == Free(available)
           rank(b) == Cardinality({c \in 0..b : available[c]})
           g == [b \in A |-> rank(b)]
           size == Cardinality(A)
           s == LowestFree(available, n)
<1>1. IsFiniteSet(A) /\ size \in Nat /\ A \subseteq Blocks
  BY DiskSize, FS_Subset, FS_CardinalityType DEF Free
<1>2. \A b \in A : b \in Nat /\ b < NumBlocks /\ NumBlocks \in Nat
  BY DEF Free, Blocks, DiskAssumption
<1>3. ASSUME NEW b \in A
      PROVE  /\ IsFiniteSet({c \in 0..b : available[c]})
             /\ rank(b) \in 1..size
  <2> DEFINE U == {c \in 0..b : available[c]}
  <2>1. U \subseteq A /\ b \in U
    BY <1>2 DEF Free, Blocks
  <2> HIDE DEF A
  <2>2. IsFiniteSet(U) /\ Cardinality(U) <= size
    BY <1>1, <2>1, FS_Subset
  <2>3. Cardinality(U) \in Nat /\ Cardinality(U) # 0
    BY <2>1, <2>2, FS_EmptySet, FS_CardinalityType
  <2> QED BY <1>1, <2>2, <2>3
<1>4. ASSUME NEW b \in A, NEW c \in A, b < c
      PROVE  rank(b) < rank(c)
  <2> DEFINE U == {x \in 0..b : available[x]}
             V == {x \in 0..c : available[x]}
  <2>1. U \subseteq V /\ c \in V /\ c \notin U
    BY <1>2, <1>4 DEF Free
  <2>2. IsFiniteSet(V) /\ Cardinality(U) \in Nat /\ Cardinality(V) \in Nat
    <3>1. rank(b) \in 1..size /\ rank(c) \in 1..size
      BY <1>3
    <3> QED BY <1>1, <1>3, <3>1
  <2> HIDE DEF U, V
  <2>3. Cardinality(U) <= Cardinality(V) /\ Cardinality(U) # Cardinality(V)
    BY <2>1, <2>2, FS_Subset
  <2> QED BY <2>2, <2>3 DEF U, V
<1> HIDE DEF rank, size, A
<1>5. \A k \in 1..size : \E b \in A : rank(b) = k
  <2>1. \A b \in A : g[b] \in 1..size
    BY <1>3
  <2>2. \A b, c \in A : g[b] = g[c] => b = c
    <3> SUFFICES ASSUME NEW b \in A, NEW c \in A, b # c PROVE g[b] # g[c]
      OBVIOUS
    <3>1. b < c \/ c < b
      BY <1>2
    <3>2. rank(b) \in 1..size /\ rank(c) \in 1..size
      BY <1>3
    <3> QED BY <1>1, <1>4, <3>1, <3>2
  <2>3. g \in Injection(A, 1..size)
    BY <2>1, <2>2, Fun_IsInj
  <2>4. IsFiniteSet(1..size) /\ Cardinality(1..size) = size
    BY <1>1, FS_Interval
  <2>5. g \in Surjection(A, 1..size)
    BY <1>1, <2>3, <2>4, FS_Injection DEF size
  <2> QED BY <2>5 DEF Surjection
<1>6. ASSUME NEW k \in 1..n PROVE s[k] \in A /\ rank(s[k]) = k
  <2>1. s[k] = CHOOSE b \in Blocks : available[b] /\ rank(b) = k
    BY DEF LowestFree, rank
  <2>2. \E b \in Blocks : available[b] /\ rank(b) = k
    <3>1. k \in 1..size
      BY <1>1 DEF size, A
    <3> QED BY <1>5, <3>1 DEF A, Free
  <2>3. s[k] \in Blocks /\ available[s[k]] /\ rank(s[k]) = k
    BY <2>1, <2>2
  <2> QED BY <2>3 DEF A, Free
<1>7. DOMAIN s = 1..n /\ s \in [1..n -> Blocks]
  BY <1>1, <1>6 DEF LowestFree, s
<1>8. s \in Seq(Blocks) /\ Len(s) = n
  BY <1>7
<1> HIDE DEF s
<1>9. Proper(s)
  <2>1. \A j, k \in 1..n : s[j] = s[k] => j = k
    BY <1>6
  <2> QED BY <1>7, <1>8, <2>1 DEF Proper
<1>10. BlocksOf(s) \subseteq A
  BY <1>6, <1>7 DEF BlocksOf
<1> QED BY <1>8, <1>9, <1>10 DEF s, A

-----------------------------------------------------------------------------
(* Who has which blocks                                                    *)

\* No block is in two files.
Apart(inodes) ==
    \A f, g \in DOMAIN inodes : f # g => BlocksOf(inodes[f]) \cap BlocksOf(inodes[g]) = {}

\* The blocks of all the files.
InUse(inodes) == UNION {BlocksOf(inodes[f]) : f \in DOMAIN inodes}

\* The files have these blocks, the others are available and counted.
Kept(inodes, available, free) ==
    /\ available \in [Blocks -> BOOLEAN]
    /\ IsFiniteSet(DOMAIN inodes)
    /\ \A f \in DOMAIN inodes : Proper(inodes[f])
    /\ Apart(inodes)
    /\ {b \in Blocks : ~available[b]} = InUse(inodes)
    /\ free = Cardinality(Free(available))

\* A map with one entry less, or one more.
LEMMA WithoutEntry ==
    ASSUME NEW map, NEW f
    PROVE  /\ DOMAIN Without(map, f) = DOMAIN map \ {f}
           /\ \A g \in DOMAIN map \ {f} : Without(map, f)[g] = map[g]
  BY DEF Without

\* An entry more in a map, and the entries there were.
LEMMA WithEntry ==
    ASSUME NEW map, NEW f, NEW value
    PROVE  /\ DOMAIN With(map, f, value) = DOMAIN map \cup {f}
           /\ With(map, f, value)[f] = value
           /\ \A g \in DOMAIN map : g # f => With(map, f, value)[g] = map[g]
  BY DEF With

\* The number of free blocks is a number of blocks.
LEMMA FreeTyped ==
    ASSUME DiskAssumption, NEW available
    PROVE  /\ IsFiniteSet(Free(available)) /\ Cardinality(Free(available)) \in Nat
           /\ Cardinality(Free(available)) <= NumBlocks
<1>1. Free(available) \subseteq Blocks
  BY DEF Free
<1> QED BY <1>1, DiskSize, FS_Subset, FS_CardinalityType

\* An empty disk.
LEMMA KeptAtFirst ==
    ASSUME DiskAssumption
    PROVE  Kept(<<>>, [b \in Blocks |-> TRUE], NumBlocks)
<1>1. DOMAIN <<>> = {} /\ IsFiniteSet({})
  BY FS_EmptySet
<1>2. Free([b \in Blocks |-> TRUE]) = Blocks
  BY DEF Free
<1>3. InUse(<<>>) = {}
  BY <1>1 DEF InUse
<1> QED BY <1>1, <1>2, <1>3, DiskSize DEF Kept, Apart

\* The blocks of a file are given back.
LEMMA KeptWithout ==
    ASSUME DiskAssumption, NEW inodes, NEW available, NEW free, Kept(inodes, available, free),
           NEW f \in DOMAIN inodes, NEW now,
           now = [b \in Blocks |-> available[b] \/ b \in BlocksOf(inodes[f])]
    PROVE  Kept(Without(inodes, f), now, free + Len(inodes[f]))
<1> DEFINE rest == Without(inodes, f)
           B == BlocksOf(inodes[f])
<1>1. DOMAIN rest = DOMAIN inodes \ {f} /\ \A g \in DOMAIN inodes \ {f} : rest[g] = inodes[g]
  BY WithoutEntry
<1> HIDE DEF rest
<1>2. /\ available \in [Blocks -> BOOLEAN] /\ IsFiniteSet(DOMAIN inodes) /\ Apart(inodes)
      /\ \A g \in DOMAIN inodes : Proper(inodes[g])
      /\ {b \in Blocks : ~available[b]} = InUse(inodes)
      /\ free = Cardinality(Free(available))
  BY DEF Kept
<1>3. /\ B \subseteq Blocks /\ IsFiniteSet(B) /\ Cardinality(B) = Len(inodes[f])
      /\ Len(inodes[f]) \in Nat
  BY <1>2, ProperSize
<1> HIDE DEF B
<1>4. B \subseteq InUse(inodes)
  BY DEF InUse, B
<1>5. Free(now) = Free(available) \cup B /\ Free(available) \cap B = {}
  BY <1>2, <1>3, <1>4 DEF Free, B
<1>6. Cardinality(Free(now)) = free + Len(inodes[f])
  <2>1. Cardinality(Free(now)) = Cardinality(Free(available)) + Cardinality(B) - Cardinality({})
    BY <1>3, <1>5, FreeTyped, FS_Union
  <2> QED BY <1>2, <1>3, <2>1, FreeTyped, FS_EmptySet
<1>7. now \in [Blocks -> BOOLEAN] /\ IsFiniteSet(DOMAIN rest)
  BY <1>1, <1>2, FS_Subset
<1>8. Apart(rest) /\ \A g \in DOMAIN rest : Proper(rest[g])
  BY <1>1, <1>2 DEF Apart
<1>9. InUse(rest) = InUse(inodes) \ B
  <2>1. \A g \in DOMAIN rest : BlocksOf(rest[g]) \cap B = {}
    BY <1>1, <1>2 DEF Apart, B
  <2>2. InUse(inodes) = InUse(rest) \cup B
    BY <1>1 DEF InUse, B
  <2> QED BY <2>1, <2>2 DEF InUse
<1>10. {b \in Blocks : ~now[b]} = InUse(rest)
  BY <1>2, <1>9 DEF B
<1> QED BY <1>6, <1>7, <1>8, <1>10 DEF Kept, rest

\* A file gets available blocks.
LEMMA KeptWith ==
    ASSUME DiskAssumption, NEW inodes, NEW available, NEW free, Kept(inodes, available, free),
           NEW f, f \notin DOMAIN inodes, NEW s, Proper(s),
           BlocksOf(s) \subseteq Free(available), NEW now,
           now = [b \in Blocks |-> available[b] /\ b \notin BlocksOf(s)]
    PROVE  Kept(With(inodes, f, s), now, free - Len(s))
<1> DEFINE more == With(inodes, f, s)
           B == BlocksOf(s)
<1>1. /\ DOMAIN more = DOMAIN inodes \cup {f} /\ more[f] = s
      /\ \A g \in DOMAIN inodes : more[g] = inodes[g]
  BY DEF With
<1> HIDE DEF more
<1>2. /\ available \in [Blocks -> BOOLEAN] /\ IsFiniteSet(DOMAIN inodes) /\ Apart(inodes)
      /\ \A g \in DOMAIN inodes : Proper(inodes[g])
      /\ {b \in Blocks : ~available[b]} = InUse(inodes)
      /\ free = Cardinality(Free(available))
  BY DEF Kept
<1>3. /\ B \subseteq Blocks /\ IsFiniteSet(B) /\ Cardinality(B) = Len(s) /\ Len(s) \in Nat
  BY ProperSize
<1> HIDE DEF B
<1>4. B \cap InUse(inodes) = {} /\ B \subseteq Free(available)
  BY <1>2 DEF B, Free
<1>5. Free(now) = Free(available) \ B
  BY <1>2 DEF Free, B
<1>6. Cardinality(Free(now)) = free - Len(s)
  <2>1. Free(available) = Free(now) \cup B /\ Free(now) \cap B = {}
    BY <1>4, <1>5
  <2>2. Cardinality(Free(available)) = Cardinality(Free(now)) + Cardinality(B) - Cardinality({})
    BY <1>3, <2>1, FreeTyped, FS_Union
  <2> QED BY <1>2, <1>3, <2>2, FreeTyped, FS_EmptySet
<1>7. now \in [Blocks -> BOOLEAN] /\ IsFiniteSet(DOMAIN more)
  BY <1>1, <1>2, FS_AddElement
<1>8. \A g \in DOMAIN inodes : BlocksOf(inodes[g]) \cap B = {}
  BY <1>4 DEF InUse
<1>9. Apart(more) /\ \A g \in DOMAIN more : Proper(more[g])
  BY <1>1, <1>2, <1>8 DEF Apart, B
<1>10. InUse(more) = InUse(inodes) \cup B
  BY <1>1 DEF InUse, B
<1>11. {b \in Blocks : ~now[b]} = InUse(more)
  BY <1>2, <1>3, <1>10 DEF B
<1> QED BY <1>6, <1>7, <1>9, <1>11 DEF Kept, more

\* A file that gets no block.
LEMMA KeptEmpty ==
    ASSUME DiskAssumption, NEW inodes, NEW available, NEW free, Kept(inodes, available, free),
           NEW f, f \notin DOMAIN inodes
    PROVE  Kept(With(inodes, f, <<>>), available, free)
<1> DEFINE none == <<>>
<1>1. Proper(none) /\ BlocksOf(none) = {} /\ Len(none) = 0
  BY DEF Proper, BlocksOf
<1>2. available = [b \in Blocks |-> available[b] /\ b \notin BlocksOf(none)]
  BY <1>1 DEF Kept
<1>3. free \in Nat
  BY FreeTyped DEF Kept
<1> HIDE DEF none
<1>4. Kept(With(inodes, f, none), available, free - Len(none))
  <2>1. BlocksOf(none) \subseteq Free(available)
    BY <1>1
  <2> QED BY <1>1, <1>2, <2>1, KeptWith
<1>5. free - Len(none) = free
  BY <1>1, <1>3
<1> QED BY <1>4, <1>5 DEF none

\* The lengths of the files and the free blocks make up the disk.
LEMMA Space ==
    ASSUME DiskAssumption, NEW inodes, NEW available, NEW free, Kept(inodes, available, free)
    PROVE  /\ SumFunctionOnSet([f \in DOMAIN inodes |-> Len(inodes[f])], DOMAIN inodes)
                = NumBlocks - free
           /\ free \in Nat /\ free <= NumBlocks /\ NumBlocks \in Nat
<1> DEFINE D == DOMAIN inodes
           h == [f \in D |-> Len(inodes[f])]
           E == [f \in D |-> BlocksOf(inodes[f])]
<1>1. /\ IsFiniteSet(D) /\ Apart(inodes) /\ free = Cardinality(Free(available))
      /\ \A f \in D : Proper(inodes[f])
      /\ {b \in Blocks : ~available[b]} = InUse(inodes)
  BY DEF Kept
<1>2. Sizes(D, E, h)
  BY <1>1, ProperSize DEF Sizes, Apart
<1>3. Together(D, E) = {b \in Blocks : ~available[b]}
  BY <1>1 DEF Together, InUse
<1> HIDE DEF D, E, h
<1>4. SumFunctionOnSet(h, D) = Cardinality({b \in Blocks : ~available[b]})
  BY <1>1, <1>2, <1>3, SumOfSizes
<1> DEFINE T == {b \in Blocks : ~available[b]}
<1>5. Blocks = Free(available) \cup T /\ Free(available) \cap T = {} /\ T \subseteq Blocks
  BY DEF Free
<1> HIDE DEF T
<1>6. IsFiniteSet(T) /\ Cardinality(T) \in Nat
  BY <1>5, DiskSize, FS_Subset, FS_CardinalityType
<1>7. Cardinality(Blocks) = Cardinality(Free(available)) + Cardinality(T) - Cardinality({})
  BY <1>5, <1>6, FreeTyped, FS_Union
<1>8. NumBlocks = free + Cardinality(T) /\ NumBlocks \in Nat
  BY <1>1, <1>6, <1>7, FreeTyped, DiskSize, FS_EmptySet DEF DiskAssumption
<1> QED BY <1>1, <1>4, <1>6, <1>8, FreeTyped DEF T, D, h

-----------------------------------------------------------------------------
(* What the files hold                                                     *)

Reads(chars, s) == [k \in DOMAIN s |-> chars[s[k]]]
Shown(chars, inodes) == [f \in DOMAIN inodes |-> Reads(chars, inodes[f])]

\* The characters after text was written to the blocks s.
Overwritten(chars, s, text) ==
    [b \in Blocks |-> IF b \in BlocksOf(s) THEN text[CHOOSE k \in 1..Len(text) : s[k] = b]
                      ELSE chars[b]]

\* The texts are sequences that are not empty.
LEMMA TextTyped ==
    ASSUME DiskAssumption, NEW text \in Texts
    PROVE  text \in Seq(Char) /\ Len(text) \in Nat \ {0}
<1>1. text \in Seq(Char) /\ text # <<>>
  BY DEF DiskAssumption
<1> QED BY <1>1

\* A text can be read where it was written,
LEMMA ReadsBack ==
    ASSUME NEW text \in Seq(Char), NEW s, Proper(s), Len(s) = Len(text), NEW chars
    PROVE  Reads(Overwritten(chars, s, text), s) = text
<1>1. s \in Seq(Blocks) /\ Len(s) \in Nat /\ DOMAIN s = 1..Len(text)
  BY DEF Proper
<1>2. ASSUME NEW k \in 1..Len(text)
      PROVE  Overwritten(chars, s, text)[s[k]] = text[k]
  <2>1. s[k] \in Blocks /\ s[k] \in BlocksOf(s)
    BY <1>1 DEF BlocksOf
  <2>2. (CHOOSE j \in 1..Len(text) : s[j] = s[k]) = k
    BY <1>1 DEF Proper
  <2> QED BY <2>1, <2>2 DEF Overwritten
<1>3. Reads(Overwritten(chars, s, text), s) = [k \in 1..Len(text) |-> text[k]]
  BY <1>1, <1>2 DEF Reads
<1> QED BY <1>3

\* and what is elsewhere stays.
LEMMA ReadsOther ==
    ASSUME NEW text, NEW s, NEW chars, NEW t, Proper(t), BlocksOf(t) \cap BlocksOf(s) = {}
    PROVE  Reads(Overwritten(chars, s, text), t) = Reads(chars, t)
<1>1. \A k \in DOMAIN t : t[k] \in Blocks /\ t[k] \in BlocksOf(t)
  BY DEF Proper, BlocksOf
<1> QED BY <1>1 DEF Reads, Overwritten

\* Without a file, the others hold what they held.
LEMMA ShownWithout ==
    ASSUME NEW inodes, NEW f, NEW chars
    PROVE  Shown(chars, Without(inodes, f)) = Without(Shown(chars, inodes), f)
  BY DEF Shown, Without

\* The same of a file that is made empty.
LEMMA ShownEmpty ==
    ASSUME NEW inodes, NEW f, NEW chars
    PROVE  Shown(chars, With(inodes, f, <<>>)) = With(Shown(chars, inodes), f, <<>>)
<1>1. Reads(chars, <<>>) = <<>>
  BY DEF Reads
<1> DEFINE more == With(inodes, f, <<>>)
<1>2. /\ DOMAIN more = DOMAIN inodes \cup {f} /\ more[f] = <<>>
      /\ \A g \in DOMAIN inodes : g # f => more[g] = inodes[g]
  BY DEF With
<1> HIDE DEF more
<1>3. Shown(chars, more) = [g \in DOMAIN inodes \cup {f} |->
                              IF g = f THEN <<>> ELSE Shown(chars, inodes)[g]]
  BY <1>1, <1>2 DEF Shown
<1> QED BY <1>3 DEF With, Shown, more

\* A text that fits is stored where the search finds space.
Found(available, text) == LowestFree(available, Len(text))

\* The blocks found for a text that fits are free ones, as many as the text has
\* characters, and so no other file's.
LEMMA FoundFits ==
    ASSUME DiskAssumption, NEW inodes, NEW available, NEW free, Kept(inodes, available, free),
           NEW text \in Texts, Len(text) <= free, NEW s, s = Found(available, text)
    PROVE  /\ Proper(s) /\ Len(s) = Len(text) /\ BlocksOf(s) \subseteq Free(available)
           /\ \A g \in DOMAIN inodes : BlocksOf(inodes[g]) \cap BlocksOf(s) = {}
<1>1. /\ available \in [Blocks -> BOOLEAN] /\ free = Cardinality(Free(available))
      /\ {b \in Blocks : ~available[b]} = InUse(inodes)
  BY DEF Kept
<1>2. Proper(s) /\ BlocksOf(s) \subseteq Free(available) /\ Len(s) = Len(text)
  <2> DEFINE n == Len(text)
  <2>1. n \in Nat /\ n <= Cardinality(Free(available)) /\ s = LowestFree(available, n)
    BY <1>1, TextTyped DEF Found
  <2> HIDE DEF n
  <2> QED BY <1>1, <2>1, LowestFreeIsFree DEF n
<1>3. \A g \in DOMAIN inodes : BlocksOf(inodes[g]) \cap BlocksOf(s) = {}
  BY <1>1, <1>2 DEF InUse, Free
<1> QED BY <1>2, <1>3

\* Then the file holds the text, and the others what they held.
LEMMA ShownWith ==
    ASSUME NEW inodes, NEW f, f \notin DOMAIN inodes, NEW s, Proper(s),
           NEW text \in Seq(Char), Len(s) = Len(text), NEW chars,
           \A g \in DOMAIN inodes : Proper(inodes[g]),
           \A g \in DOMAIN inodes : BlocksOf(inodes[g]) \cap BlocksOf(s) = {}
    PROVE  Shown(Overwritten(chars, s, text), With(inodes, f, s)) =
             With(Shown(chars, inodes), f, text)
<1> DEFINE more == With(inodes, f, s)
           new == Overwritten(chars, s, text)
<1>1. /\ DOMAIN more = DOMAIN inodes \cup {f} /\ more[f] = s
      /\ \A g \in DOMAIN inodes : g # f => more[g] = inodes[g]
  BY DEF With
<1>2. Reads(new, s) = text
  BY ReadsBack
<1>3. \A g \in DOMAIN inodes : Reads(new, inodes[g]) = Reads(chars, inodes[g])
  BY ReadsOther
<1> HIDE DEF more, new
<1>4. Shown(new, more) = [g \in DOMAIN inodes \cup {f} |->
                              IF g = f THEN text ELSE Shown(chars, inodes)[g]]
  BY <1>1, <1>2, <1>3 DEF Shown
<1> QED BY <1>4 DEF With, Shown, more, new

\* The texts take up the blocks that are not free.
LEMMA UsedSpace ==
    ASSUME DiskAssumption, NEW inodes, NEW available, NEW free, Kept(inodes, available, free),
           NEW chars, NEW held, held = Shown(chars, inodes)
    PROVE  SumFunctionOnSet([f \in DOMAIN held |-> Len(held[f])], DOMAIN held)
             = NumBlocks - free
<1>1. DOMAIN held = DOMAIN inodes
  BY DEF Shown
<1>2. ASSUME NEW f \in DOMAIN inodes PROVE Len(held[f]) = Len(inodes[f])
  <2> DEFINE s == inodes[f]
  <2>1. s \in Seq(Blocks)
    BY DEF Kept, Proper
  <2>2. held[f] = [k \in 1..Len(s) |-> chars[s[k]]] /\ Len(s) \in Nat
    BY <2>1 DEF Shown, Reads
  <2> HIDE DEF s
  <2> QED BY <2>2 DEF s
<1>3. [f \in DOMAIN held |-> Len(held[f])] = [f \in DOMAIN inodes |-> Len(inodes[f])]
  BY <1>1, <1>2
<1> QED BY <1>1, <1>3, Space

-----------------------------------------------------------------------------
(* The indexed program                                                     *)

\* It has the disk of this module.
LEMMA IndexedDisk ==
    /\ Indexed!Blocks = Blocks
    /\ \A s : Indexed!BlocksOf(s) = BlocksOf(s)
    /\ \A map, f, value : Indexed!With(map, f, value) = With(map, f, value)
    /\ \A map, f : Indexed!Without(map, f) = Without(map, f)
    /\ \A S : Indexed!Cardinality(S) = Cardinality(S)
    /\ \A available, n : Indexed!LowestFree(available, n) = LowestFree(available, n)
<1>1. \A S : Indexed!Cardinality(S) = Cardinality(S)
  BY DEF Indexed!Cardinality, Indexed!IsFiniteSet, Cardinality, IsFiniteSet
<1>2. Indexed!Blocks = Blocks
  BY DEF Indexed!Blocks, Blocks
<1>3. \A s : Indexed!BlocksOf(s) = BlocksOf(s)
  BY DEF Indexed!BlocksOf, BlocksOf
<1>4. \A map, f, value : Indexed!With(map, f, value) = With(map, f, value)
  BY DEF Indexed!With, With
<1>5. \A map, f : Indexed!Without(map, f) = Without(map, f)
  BY DEF Indexed!Without, Without
<1>6. \A available, n : Indexed!LowestFree(available, n) = LowestFree(available, n)
  BY DEF Indexed!LowestFree, LowestFree, Indexed!Blocks, Blocks,
         Indexed!Cardinality, Cardinality, Indexed!IsFiniteSet, IsFiniteSet
<1> QED BY <1>1, <1>2, <1>3, <1>4, <1>5, <1>6

-----------------------------------------------------------------------------
(* Commands, for both programs                                             *)

\* The files' blocks, their texts, and the free space, as one program sees it.
DiskOf(inodes, texts, available, free) ==
    [inodes |-> inodes, texts |-> texts, available |-> available, free |-> free]

Good(d) == Kept(d.inodes, d.available, d.free)

\* A file is deleted.
Drop(f, d) == DiskOf(Without(d.inodes, f), Without(d.texts, f),
                     [b \in Blocks |-> d.available[b] \/ b \in BlocksOf(d.inodes[f])],
                     d.free + Len(d.inodes[f]))

\* A text is written to the blocks the search finds.
Put(f, text, d) ==
    LET s == Found(d.available, text)
    IN  DiskOf(With(d.inodes, f, s), With(d.texts, f, text),
               [b \in Blocks |-> d.available[b] /\ b \notin BlocksOf(s)],
               d.free - Len(text))

\* A file is made without a block.
Blank(f, d) == DiskOf(With(d.inodes, f, <<>>), With(d.texts, f, <<>>), d.available, d.free)

\* They leave good disks.
LEMMA GoodDrop ==
    ASSUME DiskAssumption, NEW d, Good(d), NEW f \in DOMAIN d.inodes
    PROVE  Good(Drop(f, d)) /\ f \notin DOMAIN Drop(f, d).inodes
<1> DEFINE e == Drop(f, d)
<1>1. /\ e.inodes = Without(d.inodes, f) /\ e.free = d.free + Len(d.inodes[f])
      /\ e.available = [b \in Blocks |-> d.available[b] \/ b \in BlocksOf(d.inodes[f])]
  BY DEF Drop, DiskOf
<1>2. Kept(d.inodes, d.available, d.free)
  BY DEF Good
<1> HIDE DEF e
<1>3. Kept(e.inodes, e.available, e.free)
  BY <1>1, <1>2, KeptWithout
<1>4. f \notin DOMAIN e.inodes
  BY <1>1 DEF Without
<1> QED BY <1>3, <1>4 DEF Good, e

\* A text that fits is put on a good disk: the disk is a good one afterwards.
LEMMA GoodPut ==
    ASSUME DiskAssumption, NEW d, Good(d), NEW f, f \notin DOMAIN d.inodes,
           NEW text \in Texts, Len(text) <= d.free
    PROVE  Good(Put(f, text, d))
<1> DEFINE e == Put(f, text, d)
           s == Found(d.available, text)
<1>1. /\ e.inodes = With(d.inodes, f, s) /\ e.free = d.free - Len(text)
      /\ e.available = [b \in Blocks |-> d.available[b] /\ b \notin BlocksOf(s)]
  BY DEF Put, DiskOf
<1>2. Kept(d.inodes, d.available, d.free)
  BY DEF Good
<1> HIDE DEF e, s
<1>3. Proper(s) /\ Len(s) = Len(text) /\ BlocksOf(s) \subseteq Free(d.available)
  BY <1>2, FoundFits DEF s
<1>4. Kept(e.inodes, e.available, e.free)
  BY <1>1, <1>2, <1>3, KeptWith
<1> QED BY <1>4 DEF Good, e

\* An empty file leaves a disk good.
LEMMA GoodBlank ==
    ASSUME DiskAssumption, NEW d, Good(d), NEW f, f \notin DOMAIN d.inodes
    PROVE  Good(Blank(f, d))
  BY KeptEmpty DEF Good, Blank, DiskOf

-----------------------------------------------------------------------------
(* The commands of the indexed program                                     *)

iDisk == DiskOf(i_files, Shown(i_data, i_files), i_available, i_free)

\* What writing leaves, on a disk that may have been freed of the file.
LEMMA IndexedWrite ==
    ASSUME DiskAssumption, NEW f, NEW text \in Texts, NEW d, Good(d),
           d.texts = Shown(i_data, d.inodes), f \notin DOMAIN d.inodes,
           Indexed!WriteFile(f, text, d.available, d.free, d.inodes)
    PROVE  iDisk' = IF Len(text) <= d.free THEN Put(f, text, d) ELSE Blank(f, d)
<1>1. d.free \in Nat /\ Len(text) \in Nat
  BY TextTyped, Space DEF Good
<1>2. CASE Len(text) > d.free
  <2>1. /\ i_files' = With(d.inodes, f, <<>>) /\ i_data' = i_data
        /\ i_available' = d.available /\ i_free' = d.free
    BY <1>1, <1>2, IndexedDisk DEF Indexed!WriteFile
  <2>2. Shown(i_data, With(d.inodes, f, <<>>)) = With(d.texts, f, <<>>)
    BY ShownEmpty
  <2>3. ~(Len(text) <= d.free)
    BY <1>1, <1>2
  <2> QED BY <2>1, <2>2, <2>3 DEF iDisk, Blank, DiskOf
<1>3. CASE Len(text) <= d.free
  <2> DEFINE s == Found(d.available, text)
  <2>1. /\ i_files' = With(d.inodes, f, s)
        /\ i_data' = Overwritten(i_data, s, text)
        /\ i_available' = [b \in Blocks |-> d.available[b] /\ b \notin BlocksOf(s)]
        /\ i_free' = d.free - Len(text)
    <3>1. ~(Len(text) > d.free) /\ s = Indexed!LowestFree(d.available, Len(text))
      BY <1>1, <1>3, IndexedDisk DEF Found
    <3> HIDE DEF s
    <3>2. /\ i_files' = Indexed!With(d.inodes, f, s)
          /\ i_data' = [b \in Indexed!Blocks |->
                          IF b \in Indexed!BlocksOf(s)
                          THEN text[CHOOSE k \in 1..Len(text) : s[k] = b] ELSE i_data[b]]
          /\ i_available' = Indexed!Taken(d.available, s)
          /\ i_free' = d.free - Len(text)
      BY <3>1 DEF Indexed!WriteFile
    <3> QED BY <3>2, IndexedDisk DEF Indexed!Taken, Overwritten
  <2>2. /\ Proper(s) /\ Len(s) = Len(text)
        /\ \A g \in DOMAIN d.inodes : BlocksOf(d.inodes[g]) \cap BlocksOf(s) = {}
    <3> HIDE DEF s
    <3>1. Kept(d.inodes, d.available, d.free) /\ s = Found(d.available, text)
      BY DEF Good, s
    <3> QED BY <1>3, <3>1, FoundFits
  <2>3. text \in Seq(Char) /\ \A g \in DOMAIN d.inodes : Proper(d.inodes[g])
    BY TextTyped DEF Good, Kept
  <2> HIDE DEF s
  <2>4. Shown(Overwritten(i_data, s, text), With(d.inodes, f, s)) = With(d.texts, f, text)
    BY <2>2, <2>3, ShownWith
  <2> QED BY <1>3, <2>1, <2>4 DEF iDisk, Put, DiskOf, s
<1> QED BY <1>1, <1>2, <1>3

\* A file that was deleted.
LEMMA IndexedFreed ==
    ASSUME NEW f
    PROVE  LET d == Drop(f, iDisk)
           IN  /\ d.inodes = Without(i_files, f) /\ d.texts = Shown(i_data, d.inodes)
               /\ d.available = Indexed!Freed(f) /\ d.free = Indexed!FreeAfter(f)
  BY IndexedDisk, ShownWithout DEF Drop, iDisk, DiskOf, Indexed!Freed, Indexed!FreeAfter,
     Indexed!inode

\* The three commands.
LEMMA IndexedCreates ==
    ASSUME DiskAssumption, Good(iDisk), NEW f, NEW text \in Texts, Indexed!Create(f, text)
    PROVE  /\ f \notin DOMAIN i_files
           /\ iDisk' = IF Len(text) <= i_free THEN Put(f, text, iDisk) ELSE Blank(f, iDisk)
<1> DEFINE d == iDisk
<1>1. /\ d.inodes = i_files /\ d.available = i_available /\ d.free = i_free
      /\ d.texts = Shown(i_data, i_files)
  BY DEF iDisk, DiskOf
<1>2. f \notin DOMAIN i_files /\ Indexed!WriteFile(f, text, i_available, i_free, i_files)
  BY DEF Indexed!Create, Indexed!Exists
<1> HIDE DEF d
<1>3. iDisk' = IF Len(text) <= d.free THEN Put(f, text, d) ELSE Blank(f, d)
  <2>1. Good(d) /\ f \notin DOMAIN d.inodes /\ d.texts = Shown(i_data, d.inodes)
    BY <1>1, <1>2 DEF d
  <2>2. Indexed!WriteFile(f, text, d.available, d.free, d.inodes)
    BY <1>1, <1>2
  <2> QED BY <2>1, <2>2, IndexedWrite
<1> QED BY <1>1, <1>2, <1>3 DEF d

\* The indexed program's update (lines 107-128): the file goes first, then the
\* text is put on the disk, or an empty file if it does not fit.
LEMMA IndexedUpdates ==
    ASSUME DiskAssumption, Good(iDisk), NEW f, NEW text \in Texts, Indexed!Update(f, text)
    PROVE  /\ f \in DOMAIN i_files
           /\ LET d == Drop(f, iDisk)
              IN  iDisk' = IF Len(text) <= d.free THEN Put(f, text, d) ELSE Blank(f, d)
<1> DEFINE d == Drop(f, iDisk)
<1>1. /\ d.inodes = Without(i_files, f) /\ d.texts = Shown(i_data, d.inodes)
      /\ d.available = Indexed!Freed(f) /\ d.free = Indexed!FreeAfter(f)
  BY IndexedFreed
<1>2. f \in DOMAIN i_files /\ iDisk.inodes = i_files
  BY DEF Indexed!Update, Indexed!Exists, iDisk, DiskOf
<1>3. Indexed!WriteFile(f, text, Indexed!Freed(f), Indexed!FreeAfter(f), Without(i_files, f))
  BY IndexedDisk DEF Indexed!Update
<1>4. Good(d) /\ f \notin DOMAIN d.inodes
  BY <1>2, GoodDrop
<1> HIDE DEF d
<1>5. Indexed!WriteFile(f, text, d.available, d.free, d.inodes)
  BY <1>1, <1>3
<1> QED BY <1>1, <1>2, <1>4, <1>5, IndexedWrite DEF d

\* The indexed program's delete (lines 130-155) takes the file off the disk.
LEMMA IndexedDeletes ==
    ASSUME NEW f, Indexed!Delete(f)
    PROVE  f \in DOMAIN i_files /\ iDisk' = Drop(f, iDisk)
<1>1. /\ f \in DOMAIN i_files /\ i_data' = i_data /\ i_files' = Without(i_files, f)
      /\ i_available' = Indexed!Freed(f) /\ i_free' = Indexed!FreeAfter(f)
  BY IndexedDisk DEF Indexed!Delete, Indexed!Exists
<1>2. iDisk' = DiskOf(Without(i_files, f), Shown(i_data, Without(i_files, f)),
                      Indexed!Freed(f), Indexed!FreeAfter(f))
  BY <1>1 DEF iDisk
<1> DEFINE d == Drop(f, iDisk)
<1>3. d = DiskOf(d.inodes, d.texts, d.available, d.free)
  BY DEF Drop, DiskOf
<1> QED BY <1>1, <1>2, <1>3, IndexedFreed

-----------------------------------------------------------------------------
(* Chains                                                                  *)

\* The pointers lead from start along the blocks of s, and end there.
IsPath(s, ptr, start) ==
    /\ Proper(s) /\ Len(s) # 0 /\ s[1] = start
    /\ \A k \in 1..(Len(s) - 1) : ptr[s[k]] = s[k + 1]
    /\ ptr[s[Len(s)]] = Linked!NoBlock

\* One round of the loops after those in at.
Round(at, k, ptr, start) ==
    IF k = 0 THEN start
    ELSE IF at[k - 1] = Linked!NoBlock THEN Linked!NoBlock ELSE ptr[at[k - 1]]

\* The walk, along any pointers.
IsWalk(at, ptr, start) == at = [k \in 0..NumBlocks |-> Round(at, k, ptr, start)]
WalkIn(ptr, start) == CHOOSE at : IsWalk(at, ptr, start)

\* The blocks on the way.
ChainIn(at) == [k \in 1..Cardinality({j \in 0..(NumBlocks - 1) : at[j] # Linked!NoBlock})
                  |-> at[k - 1]]

\* The walk along a path visits its blocks, and no more.
LEMMA WalkAlong ==
    ASSUME DiskAssumption, NEW s, NEW ptr, NEW start, IsPath(s, ptr, start)
    PROVE  LET at == WalkIn(ptr, start)
           IN  at[NumBlocks] = Linked!NoBlock /\ ChainIn(at) = s
<1> DEFINE n == Len(s)
           w == [k \in 0..NumBlocks |-> IF k < n THEN s[k + 1] ELSE Linked!NoBlock]
<1>1. /\ s \in Seq(Blocks) /\ n \in Nat /\ DOMAIN s = 1..n /\ NumBlocks \in Nat \ {0}
      /\ n # 0 /\ s[1] = start /\ ptr[s[n]] = Linked!NoBlock
      /\ \A k \in 1..(n - 1) : ptr[s[k]] = s[k + 1]
  BY DEF IsPath, Proper, DiskAssumption
<1>2. \A k \in 1..n : s[k] \in Blocks /\ s[k] # Linked!NoBlock
  BY <1>1 DEF Blocks, Linked!NoBlock
<1>3. n <= NumBlocks
  <2>1. Cardinality(BlocksOf(s)) = n /\ BlocksOf(s) \subseteq Blocks
    BY ProperSize DEF IsPath
  <2> QED BY <2>1, DiskSize, FS_Subset
<1> HIDE DEF n
<1>4. ASSUME NEW k \in 0..NumBlocks, k # 0, NEW at, at[k - 1] = w[k - 1]
      PROVE  w[k] = Round(at, k, ptr, start)
  <2>1. k - 1 \in 0..NumBlocks
    BY <1>1, <1>4
  <2>2. CASE k < n
    <3>1. w[k - 1] = s[k] /\ w[k] = s[k + 1] /\ k \in 1..(n - 1)
      BY <1>1, <1>4, <2>1, <2>2
    <3> QED BY <1>1, <1>2, <1>4, <3>1 DEF Round
  <2>3. CASE k = n
    <3>1. w[k - 1] = s[n] /\ w[k] = Linked!NoBlock
      BY <1>1, <1>4, <2>1, <2>3
    <3> QED BY <1>1, <1>4, <3>1 DEF Round
  <2>4. CASE k > n
    <3>1. w[k - 1] = Linked!NoBlock /\ w[k] = Linked!NoBlock
      BY <1>1, <1>4, <2>1, <2>4
    <3> QED BY <1>4, <3>1 DEF Round
  <2> QED BY <1>1, <2>2, <2>3, <2>4
<1>5. w[0] = start /\ \A at : w[0] = Round(at, 0, ptr, start)
  <2>1. 0 \in 0..NumBlocks /\ 0 < n /\ 0 + 1 = 1
    BY <1>1
  <2> QED BY <1>1, <2>1 DEF Round
<1>6. IsWalk(w, ptr, start)
  <2>1. \A k \in 0..NumBlocks : w[k] = Round(w, k, ptr, start)
    BY <1>4, <1>5
  <2> QED BY <2>1 DEF IsWalk
<1>7. ASSUME NEW at, IsWalk(at, ptr, start) PROVE at = w
  <2>1. /\ DOMAIN at = 0..NumBlocks /\ at = [k \in 0..NumBlocks |-> at[k]]
        /\ \A k \in 0..NumBlocks : at[k] = Round(at, k, ptr, start)
    BY <1>7 DEF IsWalk
  <2> DEFINE T == {k \in 0..NumBlocks : at[k] # w[k]}
  <2>2. T = {}
    <3>1. SUFFICES ASSUME T # {} PROVE FALSE
      OBVIOUS
    <3>2. T \subseteq Nat
      BY <1>1
    <3>3. PICK k \in T : \A j \in T : k <= j
      <4> HIDE DEF T
      <4> QED BY <3>1, <3>2, LeastNat
    <3>4. k \in 0..NumBlocks /\ at[k] # w[k]
      OBVIOUS
    <3>5. k # 0
      BY <1>5, <2>1, <3>4
    <3>6. at[k - 1] = w[k - 1]
      <4>1. k - 1 \in 0..NumBlocks /\ ~(k <= k - 1)
        BY <1>1, <3>4, <3>5
      <4> QED BY <3>3, <4>1
    <3> QED BY <1>4, <2>1, <3>4, <3>5, <3>6
  <2> HIDE DEF w
  <2>3. \A k \in 0..NumBlocks : at[k] = w[k]
    BY <2>2
  <2>4. w = [k \in 0..NumBlocks |-> w[k]]
    BY DEF w
  <2> QED BY <2>1, <2>3, <2>4
<1>8. WalkIn(ptr, start) = w
  <2> HIDE DEF w
  <2> QED BY <1>6, <1>7 DEF WalkIn
<1>9. w[NumBlocks] = Linked!NoBlock
  BY <1>1, <1>3
<1>10. {j \in 0..(NumBlocks - 1) : w[j] # Linked!NoBlock} = 0..(n - 1)
  BY <1>1, <1>2, <1>3
<1>11. Cardinality(0..(n - 1)) = n
  <2> DEFINE last == n - 1
  <2>1. last \in Int /\ 0 \in Int /\ ~(0 > last) /\ last - 0 + 1 = n
    BY <1>1
  <2> HIDE DEF last
  <2>2. Cardinality(0..last) = IF 0 > last THEN 0 ELSE last - 0 + 1
    BY <2>1, FS_Interval
  <2> QED BY <2>1, <2>2 DEF last
<1>12. \A k \in 1..n : w[k - 1] = s[k]
  BY <1>1, <1>3
<1> HIDE DEF w
<1>13. ChainIn(w) = s
  <2>1. ChainIn(w) = [k \in 1..n |-> w[k - 1]]
    BY <1>10, <1>11 DEF ChainIn
  <2>2. s = [k \in 1..n |-> s[k]]
    BY <1>1
  <2> QED BY <1>12, <2>1, <2>2
<1> QED BY <1>8, <1>9, <1>13

\* The linked program walks the same way.
LEMMA LinkedWalk ==
    ASSUME NEW start
    PROVE  /\ Linked!Walk(start) = WalkIn(l_next, start)
           /\ Linked!Chain(start) = ChainIn(Linked!Walk(start))
           /\ Linked!Chain(start)' = ChainIn(WalkIn(l_next', start))
  BY DEF Linked!Walk, Linked!Chain, WalkIn, ChainIn, IsWalk, Round,
         Linked!Cardinality, Cardinality, Linked!IsFiniteSet, IsFiniteSet

-----------------------------------------------------------------------------
(* The commands of the linked program                                      *)

\* Its disk is the one of this module, too.
LEMMA LinkedDisk ==
    /\ Linked!Blocks = Blocks
    /\ \A s : Linked!BlocksOf(s) = BlocksOf(s)
    /\ \A map, f, value : Linked!With(map, f, value) = With(map, f, value)
    /\ \A map, f : Linked!Without(map, f) = Without(map, f)
    /\ \A S : Linked!Cardinality(S) = Cardinality(S)
    /\ \A available, n : Linked!LowestFree(available, n) = LowestFree(available, n)
<1>1. \A S : Linked!Cardinality(S) = Cardinality(S)
  BY DEF Linked!Cardinality, Linked!IsFiniteSet, Cardinality, IsFiniteSet
<1>2. Linked!Blocks = Blocks
  BY DEF Linked!Blocks, Blocks
<1>3. \A s : Linked!BlocksOf(s) = BlocksOf(s)
  BY DEF Linked!BlocksOf, BlocksOf
<1>4. \A map, f, value : Linked!With(map, f, value) = With(map, f, value)
  BY DEF Linked!With, With
<1>5. \A map, f : Linked!Without(map, f) = Without(map, f)
  BY DEF Linked!Without, Without
<1>6. \A available, n : Linked!LowestFree(available, n) = LowestFree(available, n)
  BY DEF Linked!LowestFree, LowestFree, Linked!Blocks, Blocks,
         Linked!Cardinality, Cardinality, Linked!IsFiniteSet, IsFiniteSet
<1> QED BY <1>1, <1>2, <1>3, <1>4, <1>5, <1>6

chains == [f \in DOMAIN l_files |-> Linked!ChainOf(f)]
lDisk == DiskOf(chains, Shown(l_data, chains), l_available, l_free)

\* These are the paths from the first blocks of the files.
PathsOf(inodes, ptr, first) ==
    /\ inodes = [f \in DOMAIN first |-> inodes[f]]
    /\ \A f \in DOMAIN first : IsPath(inodes[f], ptr, first[f])

\* A path is not disturbed by what happens to other blocks.
LEMMA PathKept ==
    ASSUME NEW s, NEW ptr, NEW start, IsPath(s, ptr, start), NEW now,
           \A b \in BlocksOf(s) : now[b] = ptr[b]
    PROVE  IsPath(s, now, start)
<1>1. /\ Len(s) \in Nat /\ DOMAIN s = 1..Len(s) /\ Len(s) # 0
      /\ Proper(s) /\ s[1] = start /\ ptr[s[Len(s)]] = Linked!NoBlock
      /\ \A k \in 1..(Len(s) - 1) : ptr[s[k]] = s[k + 1]
  BY DEF IsPath, Proper
<1>2. \A k \in 1..Len(s) : now[s[k]] = ptr[s[k]]
  BY <1>1 DEF BlocksOf
<1>3. now[s[Len(s)]] = Linked!NoBlock
  BY <1>1, <1>2
<1>4. \A k \in 1..(Len(s) - 1) : now[s[k]] = s[k + 1]
  BY <1>1, <1>2
<1> QED BY <1>1, <1>3, <1>4 DEF IsPath

\* The chains are the paths,
LEMMA ChainsArePaths ==
    ASSUME DiskAssumption, NEW inodes, PathsOf(inodes, l_next, l_files)
    PROVE  chains = inodes
<1>1. ASSUME NEW f \in DOMAIN l_files PROVE Linked!ChainOf(f) = inodes[f]
  <2>1. IsPath(inodes[f], l_next, l_files[f])
    BY DEF PathsOf
  <2> QED BY <2>1, WalkAlong, LinkedWalk DEF Linked!ChainOf
<1>2. chains = [f \in DOMAIN l_files |-> inodes[f]]
  BY <1>1 DEF chains
<1> QED BY <1>2 DEF PathsOf

\* also after a step.
LEMMA ChainsStayPaths ==
    ASSUME DiskAssumption, NEW inodes, PathsOf(inodes, l_next', l_files')
    PROVE  chains' = inodes
<1>1. ASSUME NEW f \in DOMAIN l_files' PROVE Linked!ChainOf(f)' = inodes[f]
  <2>1. IsPath(inodes[f], l_next', l_files'[f])
    BY DEF PathsOf
  <2>2. Linked!ChainOf(f)' = ChainIn(WalkIn(l_next', l_files'[f]))
    BY DEF Linked!ChainOf, Linked!Walk, Linked!Chain, WalkIn, ChainIn, IsWalk, Round,
           Linked!Cardinality, Cardinality, Linked!IsFiniteSet, IsFiniteSet
  <2> QED BY <2>1, <2>2, WalkAlong
<1>2. chains' = [f \in DOMAIN l_files' |-> inodes[f]]
  BY <1>1 DEF chains
<1> QED BY <1>2 DEF PathsOf

\* What the writing of a text leaves in the blocks: the text, and a path.
LEMMA LinkedPlace ==
    ASSUME NEW text \in Seq(Char), Len(text) # 0, NEW s, Proper(s), Len(s) = Len(text), NEW f,
           Linked!Place(f, text, s)
    PROVE  /\ l_data' = Overwritten(l_data, s, text)
           /\ IsPath(s, l_next', s[1])
           /\ \A b \in Blocks \ BlocksOf(s) : l_next'[b] = l_next[b]
<1> DEFINE n == Len(text)
           pos == [b \in BlocksOf(s) |-> CHOOSE k \in 1..n : s[k] = b]
<1>1. /\ s \in Seq(Blocks) /\ n \in Nat /\ n # 0 /\ DOMAIN s = 1..n
      /\ \A j, k \in 1..n : s[j] = s[k] => j = k
  BY DEF Proper
<1>2. /\ l_data' = [b \in Blocks |-> IF b \in BlocksOf(s) THEN text[pos[b]] ELSE l_data[b]]
      /\ l_next' = [b \in Blocks |-> IF b \notin BlocksOf(s) THEN l_next[b]
                                     ELSE IF pos[b] = n THEN Linked!NoBlock ELSE s[pos[b] + 1]]
  BY LinkedDisk DEF Linked!Place, Linked!BlocksOf, BlocksOf
<1>3. l_data' = Overwritten(l_data, s, text)
  BY <1>2 DEF Overwritten
<1>4. \A k \in 1..n : s[k] \in Blocks /\ s[k] \in BlocksOf(s) /\ pos[s[k]] = k
  BY <1>1 DEF BlocksOf
<1> HIDE DEF pos, n
<1>5. l_next'[s[n]] = Linked!NoBlock
  BY <1>1, <1>2, <1>4
<1>6. \A k \in 1..(n - 1) : l_next'[s[k]] = s[k + 1]
  BY <1>1, <1>2, <1>4
<1>7. IsPath(s, l_next', s[1])
  BY <1>1, <1>5, <1>6 DEF IsPath, n
<1> QED BY <1>2, <1>3, <1>7

\* What write_file leaves, on a disk that may have been freed of the file.
LEMMA LinkedWrite ==
    ASSUME DiskAssumption, NEW f, NEW text \in Texts, NEW d, Good(d),
           d = DiskOf(d.inodes, Shown(l_data, d.inodes), d.available, d.free),
           NEW first, f \notin DOMAIN first, PathsOf(d.inodes, l_next, first),
           Linked!WriteFile(f, text, d.available, d.free, first)
    PROVE  LET e == IF Len(text) <= d.free THEN Put(f, text, d) ELSE d
           IN  lDisk' = e /\ PathsOf(e.inodes, l_next', l_files')
<1>1. d.free \in Nat /\ Len(text) \in Nat \ {0} /\ text \in Seq(Char)
  BY TextTyped, Space DEF Good
<1>2. /\ DOMAIN d.inodes = DOMAIN first /\ d.texts = Shown(l_data, d.inodes)
      /\ \A g \in DOMAIN d.inodes : Proper(d.inodes[g])
  BY DEF PathsOf, Good, Kept, DiskOf
<1>3. CASE Len(text) > d.free
  <2>1. /\ l_files' = first /\ l_data' = l_data /\ l_next' = l_next
        /\ l_available' = d.available /\ l_free' = d.free
    BY <1>1, <1>3 DEF Linked!WriteFile
  <2>2. PathsOf(d.inodes, l_next', l_files')
    BY <2>1
  <2>3. chains' = d.inodes
    BY <2>2, ChainsStayPaths
  <2>4. lDisk' = d
    BY <2>1, <2>3 DEF lDisk
  <2> QED BY <1>1, <1>3, <2>2, <2>4
<1>4. CASE Len(text) <= d.free
  <2> DEFINE s == Found(d.available, text)
             more == With(d.inodes, f, s)
  <2>1. /\ Linked!Place(f, text, s)
        /\ l_files' = With(first, f, s[1])
        /\ l_available' = [b \in Blocks |-> d.available[b] /\ b \notin BlocksOf(s)]
        /\ l_free' = d.free - Len(text)
    <3>1. ~(Len(text) > d.free) /\ s = Linked!LowestFree(d.available, Len(text))
      BY <1>1, <1>4, LinkedDisk DEF Found
    <3> HIDE DEF s
    <3>2. /\ Linked!Place(f, text, s)
          /\ l_files' = Linked!With(first, f, s[1])
          /\ l_available' = [b \in Linked!Blocks |->
                               d.available[b] /\ b \notin Linked!BlocksOf(s)]
          /\ l_free' = d.free - Len(text)
      BY <3>1 DEF Linked!WriteFile
    <3> QED BY <3>2, LinkedDisk
  <2>2. /\ Proper(s) /\ Len(s) = Len(text)
        /\ \A g \in DOMAIN d.inodes : BlocksOf(d.inodes[g]) \cap BlocksOf(s) = {}
    <3> HIDE DEF s
    <3>1. Kept(d.inodes, d.available, d.free) /\ s = Found(d.available, text)
      BY DEF Good, s
    <3> QED BY <1>4, <3>1, FoundFits
  <2> HIDE DEF s
  <2>3. /\ l_data' = Overwritten(l_data, s, text) /\ IsPath(s, l_next', s[1])
        /\ \A b \in Blocks \ BlocksOf(s) : l_next'[b] = l_next[b]
    BY <1>1, <2>1, <2>2, LinkedPlace
  <2>4. /\ DOMAIN more = DOMAIN first \cup {f} /\ more[f] = s
        /\ more = [g \in DOMAIN first \cup {f} |-> more[g]]
        /\ \A g \in DOMAIN first : more[g] = d.inodes[g]
    BY <1>2 DEF With
  <2>5. /\ DOMAIN l_files' = DOMAIN first \cup {f} /\ l_files'[f] = s[1]
        /\ \A g \in DOMAIN first : l_files'[g] = first[g]
    BY <2>1 DEF With
  <2> HIDE DEF more
  <2>6. ASSUME NEW g \in DOMAIN first
        PROVE  IsPath(d.inodes[g], l_next', first[g])
    <3>1. IsPath(d.inodes[g], l_next, first[g])
      BY DEF PathsOf
    <3>2. BlocksOf(d.inodes[g]) \subseteq Blocks \ BlocksOf(s)
      BY <1>2, <2>2, ProperSize
    <3> QED BY <2>3, <3>1, <3>2, PathKept
  <2>7. PathsOf(more, l_next', l_files')
    BY <2>3, <2>4, <2>5, <2>6 DEF PathsOf
  <2>8. chains' = more
    BY <2>7, ChainsStayPaths
  <2>9. Shown(l_data', more) = With(d.texts, f, text)
    BY <1>1, <1>2, <2>2, <2>3, ShownWith DEF more
  <2>10. Put(f, text, d) = DiskOf(more, Shown(l_data', more), l_available', l_free')
    BY <2>1, <2>9 DEF Put, more, s
  <2>11. lDisk' = Put(f, text, d) /\ Put(f, text, d).inodes = more
    BY <2>8, <2>10 DEF lDisk, DiskOf
  <2> QED BY <1>4, <2>7, <2>11
<1> QED BY <1>1, <1>3, <1>4

LinkedInv == Good(lDisk) /\ PathsOf(chains, l_next, l_files)

\* The three commands.
LEMMA LinkedCreates ==
    ASSUME DiskAssumption, LinkedInv, NEW f, NEW text \in Texts, Linked!Create(f, text)
    PROVE  /\ f \notin DOMAIN l_files
           /\ lDisk' = IF Len(text) <= l_free THEN Put(f, text, lDisk) ELSE lDisk
           /\ LinkedInv'
<1> DEFINE d == lDisk
           e == IF Len(text) <= d.free THEN Put(f, text, d) ELSE d
<1>1. /\ d.inodes = chains /\ d.available = l_available /\ d.free = l_free
      /\ d = DiskOf(d.inodes, Shown(l_data, d.inodes), d.available, d.free)
  BY DEF lDisk, DiskOf
<1>2. f \notin DOMAIN l_files /\ Linked!WriteFile(f, text, l_available, l_free, l_files)
  BY DEF Linked!Create, Linked!Exists
<1>3. Good(d) /\ PathsOf(chains, l_next, l_files) /\ f \notin DOMAIN chains
  BY <1>2 DEF LinkedInv, chains
<1> HIDE DEF d
<1>4. lDisk' = e /\ PathsOf(e.inodes, l_next', l_files')
  <2>1. /\ PathsOf(d.inodes, l_next, l_files)
        /\ Linked!WriteFile(f, text, d.available, d.free, l_files)
    BY <1>1, <1>2, <1>3
  <2> QED BY <1>1, <1>2, <1>3, <2>1, LinkedWrite
<1>5. Good(e)
  BY <1>1, <1>3, GoodPut
<1>6. chains' = e.inodes
  BY <1>4 DEF lDisk, DiskOf
<1>7. LinkedInv'
  BY <1>4, <1>5, <1>6 DEF LinkedInv
<1> QED BY <1>1, <1>2, <1>4, <1>7 DEF d

\* What the loops at 140-148 free is the chain of the file, and the chains that
\* are left go on as before.
LEMMA LinkedFreed ==
    ASSUME DiskAssumption, LinkedInv, NEW f \in DOMAIN l_files
    PROVE  LET d == Drop(f, lDisk)
           IN  /\ d = DiskOf(Without(chains, f), Shown(l_data, Without(chains, f)),
                             Linked!Freed(f), Linked!FreeAfter(f))
               /\ PathsOf(Without(chains, f), l_next, Without(l_files, f))
<1>1. chains[f] = Linked!ChainOf(f)
  BY DEF chains
<1>2. Drop(f, lDisk) = DiskOf(Without(chains, f), Shown(l_data, Without(chains, f)),
                              Linked!Freed(f), Linked!FreeAfter(f))
  BY <1>1, LinkedDisk, ShownWithout DEF Drop, lDisk, DiskOf, Linked!Freed, Linked!FreeAfter
<1>3. PathsOf(Without(chains, f), l_next, Without(l_files, f))
  BY DEF LinkedInv, PathsOf, Without
<1> QED BY <1>2, <1>3

\* The linked program's update (lines 110-128): the file goes first, then the
\* text is put on the disk if it fits.
LEMMA LinkedUpdates ==
    ASSUME DiskAssumption, LinkedInv, NEW f, NEW text \in Texts, Linked!Update(f, text)
    PROVE  /\ f \in DOMAIN l_files
           /\ LET d == Drop(f, lDisk)
              IN  lDisk' = IF Len(text) <= d.free THEN Put(f, text, d) ELSE d
           /\ LinkedInv'
<1> DEFINE d == Drop(f, lDisk)
           e == IF Len(text) <= d.free THEN Put(f, text, d) ELSE d
           first == Without(l_files, f)
<1>1. f \in DOMAIN l_files /\ lDisk.inodes = chains /\ f \in DOMAIN chains
  BY DEF Linked!Update, Linked!Exists, lDisk, DiskOf, chains
<1>2. Linked!WriteFile(f, text, Linked!Freed(f), Linked!FreeAfter(f), first)
  BY LinkedDisk DEF Linked!Update
<1>3. /\ d = DiskOf(Without(chains, f), Shown(l_data, Without(chains, f)),
                    Linked!Freed(f), Linked!FreeAfter(f))
      /\ PathsOf(Without(chains, f), l_next, first)
  BY <1>1, LinkedFreed
<1>4. Good(d) /\ f \notin DOMAIN d.inodes
  BY <1>1, GoodDrop DEF LinkedInv
<1>5. f \notin DOMAIN first
  BY DEF Without
<1> HIDE DEF d, first
<1>6. /\ d.inodes = Without(chains, f)
      /\ d.available = Linked!Freed(f) /\ d.free = Linked!FreeAfter(f)
  BY <1>3 DEF DiskOf
<1>7. lDisk' = e /\ PathsOf(e.inodes, l_next', l_files')
  <2>1. /\ d = DiskOf(d.inodes, Shown(l_data, d.inodes), d.available, d.free)
        /\ PathsOf(d.inodes, l_next, first)
        /\ Linked!WriteFile(f, text, d.available, d.free, first)
    BY <1>2, <1>3, <1>6
  <2> QED BY <1>4, <1>5, <2>1, LinkedWrite
<1>8. Good(e)
  BY <1>4, GoodPut
<1>9. chains' = e.inodes
  BY <1>7 DEF lDisk, DiskOf
<1>10. LinkedInv'
  BY <1>7, <1>8, <1>9 DEF LinkedInv
<1> QED BY <1>1, <1>7, <1>10 DEF d

\* The linked program's delete (lines 130-152) takes the file off the disk.
LEMMA LinkedDeletes ==
    ASSUME DiskAssumption, LinkedInv, NEW f, Linked!Delete(f)
    PROVE  f \in DOMAIN l_files /\ lDisk' = Drop(f, lDisk) /\ LinkedInv'
<1> DEFINE rest == Without(chains, f)
<1>1. /\ f \in DOMAIN l_files /\ l_data' = l_data /\ l_next' = l_next
      /\ l_files' = Without(l_files, f)
      /\ l_available' = Linked!Freed(f) /\ l_free' = Linked!FreeAfter(f)
  BY LinkedDisk DEF Linked!Delete, Linked!Exists
<1>2. /\ Drop(f, lDisk) = DiskOf(rest, Shown(l_data, rest), Linked!Freed(f), Linked!FreeAfter(f))
      /\ PathsOf(rest, l_next, Without(l_files, f))
  BY <1>1, LinkedFreed
<1> HIDE DEF rest
<1>3. PathsOf(rest, l_next', l_files')
  BY <1>1, <1>2
<1>4. chains' = rest
  BY <1>3, ChainsStayPaths
<1>5. lDisk' = Drop(f, lDisk)
  BY <1>1, <1>2, <1>4 DEF lDisk
<1>6. Good(Drop(f, lDisk))
  <2>1. f \in DOMAIN lDisk.inodes
    BY <1>1 DEF lDisk, DiskOf, chains
  <2> QED BY <2>1, GoodDrop DEF LinkedInv
<1>7. LinkedInv'
  BY <1>3, <1>4, <1>5, <1>6 DEF LinkedInv
<1> QED BY <1>1, <1>5, <1>7

-----------------------------------------------------------------------------
(* The two programs on the same input                                      *)

\* Until a write fails, the two disks are the same.
SameDisks == ~failed => lDisk = iDisk

IInv == LinkedInv /\ Good(iDisk) /\ SameDisks /\ failed \in BOOLEAN

\* A program that refuses leaves its disk as it is.
LEMMA NothingHappens ==
    /\ UNCHANGED Linked!vars => lDisk' = lDisk /\ (LinkedInv => LinkedInv')
    /\ UNCHANGED Indexed!vars => iDisk' = iDisk
<1>1. ASSUME UNCHANGED Linked!vars PROVE chains' = chains /\ lDisk' = lDisk
  BY <1>1 DEF Linked!vars, lDisk, chains, Linked!ChainOf, Linked!Chain, Linked!Walk
<1>2. ASSUME UNCHANGED Linked!vars, LinkedInv PROVE LinkedInv'
  <2>1. Good(lDisk') /\ PathsOf(chains', l_next', l_files')
    BY <1>1, <1>2 DEF Linked!vars, LinkedInv
  <2> QED BY <2>1 DEF LinkedInv
<1>3. ASSUME UNCHANGED Indexed!vars PROVE iDisk' = iDisk
  BY <1>3 DEF Indexed!vars, iDisk
<1> QED BY <1>1, <1>2, <1>3

\* The two disks have the files of the programs.
LEMMA DiskFiles ==
    /\ DOMAIN lDisk.inodes = DOMAIN l_files /\ DOMAIN iDisk.inodes = DOMAIN i_files
    /\ lDisk'.inodes = chains' /\ DOMAIN chains' = DOMAIN l_files'
    /\ iDisk'.inodes = i_files'
    /\ lDisk.free = l_free /\ iDisk.free = i_free
  BY DEF lDisk, iDisk, DiskOf, chains

\* What a disk is after a text is written on d, by each of the programs.
lAfter(f, text, d) == IF Len(text) <= d.free THEN Put(f, text, d) ELSE d
iAfter(f, text, d) == IF Len(text) <= d.free THEN Put(f, text, d) ELSE Blank(f, d)

\* What a command does to the two disks.
LEMMA CreateStep ==
    ASSUME DiskAssumption, LinkedInv, Good(iDisk), NEW f, NEW text \in Texts, Create(f, text)
    PROVE  /\ lDisk' = IF f \in DOMAIN l_files THEN lDisk ELSE lAfter(f, text, lDisk)
           /\ iDisk' = IF f \in DOMAIN i_files THEN iDisk ELSE iAfter(f, text, iDisk)
           /\ LinkedInv'
<1>1. /\ lDisk' = IF f \in DOMAIN l_files THEN lDisk ELSE lAfter(f, text, lDisk)
      /\ LinkedInv'
  <2>1. CASE Linked!Create(f, text)
    BY <2>1, LinkedCreates, DiskFiles DEF lAfter
  <2>2. CASE Linked!RefuseCreate(f)
    BY <2>2, NothingHappens DEF Linked!RefuseCreate, Linked!Exists
  <2> QED BY <2>1, <2>2 DEF Create
<1>2. iDisk' = IF f \in DOMAIN i_files THEN iDisk ELSE iAfter(f, text, iDisk)
  <2>1. CASE Indexed!Create(f, text)
    BY <2>1, IndexedCreates, DiskFiles DEF iAfter
  <2>2. CASE Indexed!RefuseCreate(f)
    BY <2>2, NothingHappens DEF Indexed!RefuseCreate, Indexed!Exists
  <2> QED BY <2>1, <2>2 DEF Create
<1> QED BY <1>1, <1>2

\* An update on both disks.
LEMMA UpdateStep ==
    ASSUME DiskAssumption, LinkedInv, Good(iDisk), NEW f, NEW text \in Texts, Update(f, text)
    PROVE  /\ lDisk' = IF f \in DOMAIN l_files THEN lAfter(f, text, Drop(f, lDisk)) ELSE lDisk
           /\ iDisk' = IF f \in DOMAIN i_files THEN iAfter(f, text, Drop(f, iDisk)) ELSE iDisk
           /\ LinkedInv'
<1>1. /\ lDisk' = IF f \in DOMAIN l_files THEN lAfter(f, text, Drop(f, lDisk)) ELSE lDisk
      /\ LinkedInv'
  <2>1. CASE Linked!Update(f, text)
    BY <2>1, LinkedUpdates DEF lAfter
  <2>2. CASE Linked!RefuseMissing(f)
    BY <2>2, NothingHappens DEF Linked!RefuseMissing, Linked!Exists
  <2> QED BY <2>1, <2>2 DEF Update
<1>2. iDisk' = IF f \in DOMAIN i_files THEN iAfter(f, text, Drop(f, iDisk)) ELSE iDisk
  <2>1. CASE Indexed!Update(f, text)
    BY <2>1, IndexedUpdates DEF iAfter
  <2>2. CASE Indexed!RefuseMissing(f)
    BY <2>2, NothingHappens DEF Indexed!RefuseMissing, Indexed!Exists
  <2> QED BY <2>1, <2>2 DEF Update
<1> QED BY <1>1, <1>2

\* A delete on both disks.
LEMMA DeleteStep ==
    ASSUME DiskAssumption, LinkedInv, Good(iDisk), NEW f, Delete(f)
    PROVE  /\ lDisk' = IF f \in DOMAIN l_files THEN Drop(f, lDisk) ELSE lDisk
           /\ iDisk' = IF f \in DOMAIN i_files THEN Drop(f, iDisk) ELSE iDisk
           /\ LinkedInv'
<1>1. /\ lDisk' = IF f \in DOMAIN l_files THEN Drop(f, lDisk) ELSE lDisk
      /\ LinkedInv'
  <2>1. CASE Linked!Delete(f)
    BY <2>1, LinkedDeletes
  <2>2. CASE Linked!RefuseMissing(f)
    BY <2>2, NothingHappens DEF Linked!RefuseMissing, Linked!Exists
  <2> QED BY <2>1, <2>2 DEF Delete
<1>2. iDisk' = IF f \in DOMAIN i_files THEN Drop(f, iDisk) ELSE iDisk
  <2>1. CASE Indexed!Delete(f)
    BY <2>1, IndexedDeletes
  <2>2. CASE Indexed!RefuseMissing(f)
    BY <2>2, NothingHappens DEF Indexed!RefuseMissing, Indexed!Exists
  <2> QED BY <2>1, <2>2 DEF Delete
<1> QED BY <1>1, <1>2

\* A disk is good after a write, and has the file if it says so.
LEMMA AfterWrite ==
    ASSUME DiskAssumption, NEW d, Good(d), NEW f, f \notin DOMAIN d.inodes,
           NEW text \in Texts
    PROVE  /\ Good(lAfter(f, text, d)) /\ Good(iAfter(f, text, d))
           /\ f \in DOMAIN lAfter(f, text, d).inodes => lAfter(f, text, d) = iAfter(f, text, d)
<1>1. CASE Len(text) <= d.free
  BY <1>1, GoodPut DEF lAfter, iAfter
<1>2. CASE ~(Len(text) <= d.free)
  BY <1>2, GoodBlank DEF lAfter, iAfter
<1> QED BY <1>1, <1>2

\* Every command leaves two good disks, and the same ones if it succeeds.
LEMMA NextKeeps ==
    ASSUME DiskAssumption, IInv, [Next]_vars
    PROVE  IInv'
<1>1. LinkedInv /\ Good(lDisk) /\ Good(iDisk) /\ SameDisks /\ failed \in BOOLEAN
  BY DEF IInv, LinkedInv
<1>2. CASE UNCHANGED vars
  <2>1. UNCHANGED Linked!vars /\ UNCHANGED Indexed!vars /\ failed' = failed
    BY <1>2 DEF vars, Linked!vars, Indexed!vars
  <2>2. lDisk' = lDisk /\ iDisk' = iDisk /\ LinkedInv'
    BY <1>1, <2>1, NothingHappens
  <2> QED BY <1>1, <2>1, <2>2 DEF IInv, SameDisks
<1>3. ASSUME NEW f \in Files, NEW text \in Texts, Create(f, text) PROVE IInv'
  <2>1. /\ lDisk' = IF f \in DOMAIN l_files THEN lDisk ELSE lAfter(f, text, lDisk)
        /\ iDisk' = IF f \in DOMAIN i_files THEN iDisk ELSE iAfter(f, text, iDisk)
        /\ LinkedInv'
    BY <1>1, <1>3, CreateStep
  <2>2. Good(iDisk')
    BY <1>1, <2>1, AfterWrite, DiskFiles
  <2>3. failed' = (failed \/ ~Written(f))
    BY <1>3 DEF Create
  <2>4. ASSUME ~failed' PROVE lDisk' = iDisk'
    <3>1. lDisk = iDisk /\ f \in DOMAIN lDisk'.inodes
      BY <1>1, <2>3, <2>4, DiskFiles DEF Written, SameDisks
    <3> QED BY <1>1, <2>1, <3>1, AfterWrite, DiskFiles
  <2> QED BY <1>1, <2>1, <2>2, <2>3, <2>4 DEF IInv, SameDisks
<1>4. ASSUME NEW f \in Files, NEW text \in Texts, Update(f, text) PROVE IInv'
  <2>1. /\ lDisk' = IF f \in DOMAIN l_files THEN lAfter(f, text, Drop(f, lDisk)) ELSE lDisk
        /\ iDisk' = IF f \in DOMAIN i_files THEN iAfter(f, text, Drop(f, iDisk)) ELSE iDisk
        /\ LinkedInv'
    BY <1>1, <1>4, UpdateStep
  <2>2. Good(iDisk')
    BY <1>1, <2>1, AfterWrite, GoodDrop, DiskFiles
  <2>3. failed' = (failed \/ (f \in DOMAIN i_files /\ ~Written(f)))
    BY <1>4 DEF Update
  <2>4. ASSUME ~failed' PROVE lDisk' = iDisk'
    <3>1. lDisk = iDisk /\ (f \in DOMAIN i_files => f \in DOMAIN lDisk'.inodes)
      BY <1>1, <2>3, <2>4, DiskFiles DEF Written, SameDisks
    <3>2. CASE f \in DOMAIN i_files
      <4>1. Good(Drop(f, lDisk)) /\ f \notin DOMAIN Drop(f, lDisk).inodes
        BY <1>1, <3>1, <3>2, GoodDrop, DiskFiles
      <4> QED BY <2>1, <3>1, <3>2, <4>1, AfterWrite, DiskFiles
    <3>3. CASE f \notin DOMAIN i_files
      BY <2>1, <3>1, <3>3, DiskFiles
    <3> QED BY <3>2, <3>3
  <2> QED BY <1>1, <2>1, <2>2, <2>3, <2>4 DEF IInv, SameDisks
<1>5. ASSUME NEW f \in Files, Delete(f) PROVE IInv'
  <2>1. /\ lDisk' = IF f \in DOMAIN l_files THEN Drop(f, lDisk) ELSE lDisk
        /\ iDisk' = IF f \in DOMAIN i_files THEN Drop(f, iDisk) ELSE iDisk
        /\ LinkedInv'
    BY <1>1, <1>5, DeleteStep
  <2>2. Good(iDisk')
    BY <1>1, <2>1, GoodDrop, DiskFiles
  <2>3. failed' = failed
    BY <1>5 DEF Delete
  <2>4. ASSUME ~failed' PROVE lDisk' = iDisk'
    BY <1>1, <2>1, <2>3, <2>4, DiskFiles DEF SameDisks
  <2> QED BY <1>1, <2>1, <2>2, <2>3, <2>4 DEF IInv, SameDisks
<1> QED BY <1>2, <1>3, <1>4, <1>5 DEF Next

\* The disks are good at the start.
LEMMA InitIInv == ASSUME DiskAssumption, Init PROVE IInv
<1>1. /\ l_files = <<>> /\ l_data = [b \in Blocks |-> NUL] /\ l_free = NumBlocks
      /\ l_available = [b \in Blocks |-> TRUE]
  BY LinkedDisk DEF Init, Linked!Init
<1>2. /\ i_files = <<>> /\ i_data = [b \in Blocks |-> NUL] /\ i_free = NumBlocks
      /\ i_available = [b \in Blocks |-> TRUE]
  BY IndexedDisk DEF Init, Indexed!Init
<1>3. DOMAIN l_files = {} /\ chains = <<>> /\ i_files = <<>>
  BY <1>1, <1>2 DEF chains
<1>4. PathsOf(chains, l_next, l_files)
  BY <1>3 DEF PathsOf
<1>5. lDisk = iDisk
  BY <1>1, <1>2, <1>3 DEF lDisk, iDisk
<1>6. Good(iDisk)
  <2>1. /\ iDisk.inodes = <<>> /\ iDisk.available = [b \in Blocks |-> TRUE]
        /\ iDisk.free = NumBlocks
    BY <1>2 DEF iDisk, DiskOf
  <2> QED BY <2>1, KeptAtFirst DEF Good
<1> QED BY <1>4, <1>5, <1>6 DEF IInv, LinkedInv, SameDisks, Init

\* So they are always.
THEOREM DisksInvariance == ASSUME DiskAssumption PROVE Spec => []IInv
<1>1. Init => IInv
  BY InitIInv
<1>2. IInv /\ [Next]_vars => IInv'
  BY NextKeeps
<1> QED BY <1>1, <1>2, PTL DEF Spec

\* On a good disk of the indexed program no block is used twice or lost.
LEMMA IndexedIsSound == Good(iDisk) => Indexed!Sound
<1> SUFFICES ASSUME Good(iDisk) PROVE Indexed!Sound
  OBVIOUS
<1>1. /\ Apart(i_files) /\ \A f \in DOMAIN i_files : Proper(i_files[f])
      /\ {b \in Blocks : ~i_available[b]} = InUse(i_files)
      /\ i_free = Cardinality(Free(i_available))
  BY DEF Good, Kept, iDisk, DiskOf
<1>2. ASSUME NEW f \in DOMAIN i_files, NEW g \in DOMAIN i_files,
             NEW i \in DOMAIN i_files[f], NEW j \in DOMAIN i_files[g],
             i_files[f][i] = i_files[g][j]
      PROVE  f = g /\ i = j
  <2>1. i_files[f][i] \in BlocksOf(i_files[f]) /\ i_files[g][j] \in BlocksOf(i_files[g])
    BY DEF BlocksOf
  <2>2. f = g
    BY <1>1, <1>2, <2>1 DEF Apart
  <2> QED BY <1>1, <1>2, <2>2 DEF Proper
<1>3. {b \in Indexed!Blocks : ~i_available[b]}
        = UNION {Indexed!BlocksOf(Indexed!inode(f)) : f \in DOMAIN i_files}
  BY <1>1, IndexedDisk DEF InUse, Indexed!inode
<1>4. i_free = Indexed!Cardinality({b \in Indexed!Blocks : i_available[b]})
  BY <1>1, IndexedDisk DEF Free
<1> QED BY <1>2, <1>3, <1>4 DEF Indexed!Sound, Indexed!inode

\* On a good disk of the linked program the chains end, too.
LEMMA LinkedIsSound == ASSUME DiskAssumption PROVE LinkedInv => Linked!Sound
<1> SUFFICES ASSUME LinkedInv PROVE Linked!Sound
  OBVIOUS
<1>1. /\ Apart(chains) /\ l_free = Cardinality(Free(l_available))
      /\ {b \in Blocks : ~l_available[b]} = InUse(chains)
  BY DEF LinkedInv, Good, Kept, lDisk, DiskOf
<1>2. DOMAIN chains = DOMAIN l_files /\ \A f \in DOMAIN l_files : chains[f] = Linked!ChainOf(f)
  BY DEF chains
<1>3. ASSUME NEW f \in DOMAIN l_files PROVE Linked!Walk(l_files[f])[NumBlocks] = Linked!NoBlock
  <2>1. IsPath(chains[f], l_next, l_files[f])
    BY DEF LinkedInv, PathsOf
  <2> QED BY <2>1, WalkAlong, LinkedWalk
<1>4. \A f, g \in DOMAIN l_files :
        f # g => Linked!BlocksOf(Linked!ChainOf(f)) \cap Linked!BlocksOf(Linked!ChainOf(g)) = {}
  BY <1>1, <1>2, LinkedDisk DEF Apart
<1>5. {b \in Linked!Blocks : ~l_available[b]}
        = UNION {Linked!BlocksOf(Linked!ChainOf(f)) : f \in DOMAIN l_files}
  BY <1>1, <1>2, LinkedDisk DEF InUse
<1>6. l_free = Linked!Cardinality({b \in Linked!Blocks : l_available[b]})
  BY <1>1, LinkedDisk DEF Free
<1> QED BY <1>3, <1>4, <1>5, <1>6 DEF Linked!Sound

\* Both disks are sound, after any commands.
THEOREM DisksAreSound == ASSUME DiskAssumption PROVE Spec => []DisksSound
<1>1. IInv => DisksSound
  BY IndexedIsSound, LinkedIsSound DEF IInv, DisksSound
<1> QED BY <1>1, DisksInvariance, PTL

\* What the programs read is what is on their disks.
LEMMA Readings ==
    /\ [f \in DOMAIN l_files |-> Linked!Contents(f)] = lDisk.texts
    /\ [f \in DOMAIN i_files |-> Indexed!Contents(f)] = iDisk.texts
  BY DEF lDisk, iDisk, DiskOf, Shown, Reads, chains, Linked!Contents, Indexed!Contents,
     Indexed!inode

\* The two programs agree until a write fails.
THEOREM ProgramsAgree == ASSUME DiskAssumption PROVE Spec => []AgreeUntilFailure
<1>1. IInv => AgreeUntilFailure
  <2> SUFFICES ASSUME IInv, ~failed
               PROVE  /\ l_available = i_available /\ l_free = i_free
                      /\ DOMAIN l_files = DOMAIN i_files
                      /\ \A f \in DOMAIN l_files :
                           /\ Linked!ChainOf(f) = Indexed!inode(f)
                           /\ Linked!Contents(f) = Indexed!Contents(f)
    BY DEF AgreeUntilFailure
  <2>1. lDisk = iDisk
    BY DEF IInv, SameDisks
  <2>2. l_available = i_available /\ l_free = i_free /\ chains = i_files
    BY <2>1 DEF lDisk, iDisk, DiskOf
  <2>3. \A f \in DOMAIN l_files : Linked!ChainOf(f) = i_files[f] /\ DOMAIN l_files = DOMAIN i_files
    BY <2>2 DEF chains
  <2>4. DOMAIN l_files = DOMAIN i_files
    BY <2>2 DEF chains
  <2>5. \A f \in DOMAIN l_files : Linked!Contents(f) = Indexed!Contents(f)
    <3>1. \A f \in DOMAIN l_files :
            /\ [g \in DOMAIN l_files |-> Linked!Contents(g)][f] = Linked!Contents(f)
            /\ [g \in DOMAIN i_files |-> Indexed!Contents(g)][f] = Indexed!Contents(f)
      BY <2>4
    <3> QED BY <2>1, <3>1, Readings
  <2> QED BY <2>2, <2>3, <2>4, <2>5 DEF Indexed!inode
<1> QED BY <1>1, DisksInvariance, PTL

-----------------------------------------------------------------------------
(* The store                                                               *)

\* A text fits next to the texts of a good disk if there are blocks for it.
LEMMA FitsFree ==
    ASSUME DiskAssumption, NEW d, Good(d), NEW chars, d.texts = Shown(chars, d.inodes),
           NEW text \in Texts
    PROVE  SumFunctionOnSet([g \in DOMAIN d.texts |-> Len(d.texts[g])], DOMAIN d.texts)
             + Len(text) <= NumBlocks
           <=> Len(text) <= d.free
<1> DEFINE sum == SumFunctionOnSet([g \in DOMAIN d.texts |-> Len(d.texts[g])], DOMAIN d.texts)
<1>1. sum = NumBlocks - d.free
  BY UsedSpace DEF Good
<1>2. d.free \in Nat /\ NumBlocks \in Nat /\ Len(text) \in Nat
  BY Space, TextTyped DEF Good
<1> HIDE DEF sum
<1>3. sum + Len(text) <= NumBlocks <=> Len(text) <= d.free
  BY <1>1, <1>2
<1> QED BY <1>3 DEF sum

\* A file that is written needs not be taken out first, one that is not there
\* needs not be taken out.
LEMMA MapFacts ==
    ASSUME NEW map, NEW f
    PROVE  /\ \A value : With(Without(map, f), f, value) = With(map, f, value)
           /\ map = [g \in DOMAIN map |-> map[g]] /\ f \notin DOMAIN map => Without(map, f) = map
<1>1. ASSUME NEW value PROVE With(Without(map, f), f, value) = With(map, f, value)
  <2>1. (DOMAIN map \ {f}) \cup {f} = DOMAIN map \cup {f}
    OBVIOUS
  <2> QED BY <2>1 DEF With, Without
<1>2. ASSUME map = [g \in DOMAIN map |-> map[g]], f \notin DOMAIN map
      PROVE  Without(map, f) = map
  <2>1. DOMAIN map \ {f} = DOMAIN map
    BY <1>2
  <2> QED BY <1>2, <2>1 DEF Without
<1> QED BY <1>1, <1>2

\* What the linked program shows of its files.
lTexts == [f \in DOMAIN l_files |-> Linked!Contents(f)]

\* The store has the operators of this module.
LEMMA LinkedStore ==
    /\ \A map, f, value : Linked!Store!With(map, f, value) = With(map, f, value)
    /\ \A map, f : Linked!Store!Without(map, f) = Without(map, f)
    /\ \A h, S : Linked!Store!SumFunctionOnSet(h, S) = SumFunctionOnSet(h, S)
    /\ lTexts = lDisk.texts
<1>1. \A map, f, value : Linked!Store!With(map, f, value) = With(map, f, value)
  BY DEF Linked!Store!With, With
<1>2. \A map, f : Linked!Store!Without(map, f) = Without(map, f)
  BY DEF Linked!Store!Without, Without
<1>3. \A h, S : Linked!Store!SumFunctionOnSet(h, S) = SumFunctionOnSet(h, S)
  BY DEF Linked!Store!SumFunctionOnSet, Linked!Store!FoldFunctionOnSet,
         Linked!Store!MapThenFoldSet, SumFunctionOnSet, FoldFunctionOnSet, MapThenFoldSet
<1> QED BY <1>1, <1>2, <1>3, Readings DEF lTexts

\* It finds that a text fits when the program does.
LEMMA LinkedFits ==
    ASSUME DiskAssumption, NEW f, NEW text \in Texts, NEW d, Good(d),
           d.texts = Shown(l_data, d.inodes), d.texts = Without(lTexts, f)
    PROVE  Linked!Store!Fits(f, text) <=> Len(text) <= d.free
<1>1. Linked!Store!Without(lTexts, f) = d.texts
  BY LinkedStore
<1>2. Linked!Store!Used(d.texts)
        = SumFunctionOnSet([g \in DOMAIN d.texts |-> Len(d.texts[g])], DOMAIN d.texts)
  BY LinkedStore DEF Linked!Store!Used
<1>3. Linked!Store!Fits(f, text)
        <=> Linked!Store!Used(Linked!Store!Without(lTexts, f)) + Len(text) <= NumBlocks
  BY DEF Linked!Store!Fits, lTexts
<1> QED BY <1>1, <1>2, <1>3, FitsFree

\* A write to a disk without the file is a write to the store.
LEMMA LinkedWrites ==
    ASSUME DiskAssumption, NEW f \in Files, NEW text \in Texts, NEW d, Good(d),
           d.texts = Shown(l_data, d.inodes), d.texts = Without(lTexts, f),
           lDisk' = lAfter(f, text, d)
    PROVE  Linked!Store!Write(f, text)
<1>1. Linked!Store!Fits(f, text) <=> Len(text) <= d.free
  BY LinkedFits
<1>2. lTexts' = lDisk'.texts
  BY DEF lTexts, lDisk, DiskOf, Shown, Reads, chains, Linked!Contents
<1>3. \A value : With(d.texts, f, value) = With(lTexts, f, value)
  BY MapFacts
<1>4. CASE Len(text) <= d.free
  <2>1. lTexts' = With(lTexts, f, text)
    BY <1>2, <1>3, <1>4 DEF lAfter, Put, DiskOf
  <2> QED BY <1>1, <1>4, <2>1, LinkedStore
          DEF Linked!Store!Write, Linked!Store!Holds, lTexts
<1>5. CASE ~(Len(text) <= d.free)
  <2>1. lTexts' = Without(lTexts, f)
    BY <1>2, <1>5 DEF lAfter
  <2> QED BY <1>1, <1>5, <2>1, LinkedStore
          DEF Linked!Store!Write, Linked!Store!Fail, Linked!Store!Holds, Linked!Store!Delete, lTexts
<1> QED BY <1>4, <1>5

\* Every command is one of the store, or changes nothing there.
LEMMA LinkedStoreStep ==
    ASSUME DiskAssumption, IInv, [Next]_vars
    PROVE  [Linked!Store!Next]_lTexts
<1>1. LinkedInv /\ Good(lDisk) /\ Good(iDisk)
  BY DEF IInv, LinkedInv
<1>2. ASSUME lDisk' = lDisk PROVE lTexts' = lTexts
  <2>1. lTexts' = lDisk'.texts
    BY DEF lTexts, lDisk, DiskOf, Shown, Reads, chains, Linked!Contents
  <2> QED BY <1>2, <2>1, LinkedStore
<1>3. CASE UNCHANGED vars
  BY <1>2, <1>3, NothingHappens DEF vars, Linked!vars, Indexed!vars
<1>4. ASSUME NEW f \in Files, NEW text \in Texts, Create(f, text)
      PROVE  [Linked!Store!Next]_lTexts
  <2>1. lDisk' = IF f \in DOMAIN l_files THEN lDisk ELSE lAfter(f, text, lDisk)
    BY <1>1, <1>4, CreateStep
  <2>2. CASE f \in DOMAIN l_files
    BY <1>2, <2>1, <2>2
  <2>3. CASE f \notin DOMAIN l_files
    <3>1. lDisk.texts = Shown(l_data, lDisk.inodes)
      BY DEF lDisk, DiskOf
    <3>2. lDisk.texts = Without(lTexts, f)
      <4>1. lTexts = [g \in DOMAIN lTexts |-> lTexts[g]] /\ f \notin DOMAIN lTexts
        BY <2>3 DEF lTexts
      <4> QED BY <4>1, MapFacts, LinkedStore
    <3>3. Linked!Store!Write(f, text)
      BY <1>1, <2>1, <2>3, <3>1, <3>2, LinkedWrites
    <3> QED BY <3>3 DEF Linked!Store!Next
  <2> QED BY <2>2, <2>3
<1>5. ASSUME NEW f \in Files, NEW text \in Texts, Update(f, text)
      PROVE  [Linked!Store!Next]_lTexts
  <2> DEFINE d == Drop(f, lDisk)
  <2>1. lDisk' = IF f \in DOMAIN l_files THEN lAfter(f, text, d) ELSE lDisk
    BY <1>1, <1>5, UpdateStep
  <2>2. CASE f \notin DOMAIN l_files
    BY <1>2, <2>1, <2>2
  <2>3. CASE f \in DOMAIN l_files
    <3>1. Good(d)
      BY <1>1, <2>3, GoodDrop, DiskFiles
    <3>2. d.texts = Shown(l_data, d.inodes)
      BY ShownWithout DEF Drop, lDisk, DiskOf
    <3>3. d.texts = Without(lTexts, f)
      BY LinkedStore DEF Drop, DiskOf
    <3> HIDE DEF d
    <3>4. Linked!Store!Write(f, text)
      BY <2>1, <2>3, <3>1, <3>2, <3>3, LinkedWrites
    <3> QED BY <3>4 DEF Linked!Store!Next
  <2> QED BY <2>2, <2>3
<1>6. ASSUME NEW f \in Files, Delete(f)
      PROVE  [Linked!Store!Next]_lTexts
  <2>1. lDisk' = IF f \in DOMAIN l_files THEN Drop(f, lDisk) ELSE lDisk
    BY <1>1, <1>6, DeleteStep
  <2>2. CASE f \notin DOMAIN l_files
    BY <1>2, <2>1, <2>2
  <2>3. CASE f \in DOMAIN l_files
    <3>1. lTexts' = lDisk'.texts
      BY DEF lTexts, lDisk, DiskOf, Shown, Reads, chains, Linked!Contents
    <3>2. lTexts' = Without(lTexts, f)
      BY <2>1, <2>3, <3>1, LinkedStore DEF Drop, DiskOf
    <3>3. Linked!Store!Delete(f)
      BY <3>2, LinkedStore DEF Linked!Store!Delete, lTexts
    <3> QED BY <3>3 DEF Linked!Store!Next
  <2> QED BY <2>2, <2>3
<1> QED BY <1>3, <1>4, <1>5, <1>6 DEF Next

\* A write that fails deletes the file, one that fits stores the text, and no
\* command touches another file: linked_allocation.cpp is the store.
THEOREM LinkedIsStore == ASSUME DiskAssumption PROVE Spec => LinkedImplementsStore
<1>1. Init => Linked!Store!Init
  BY DEF Init, Linked!Init, Linked!Store!Init
<1>2. IInv /\ [Next]_vars => [Linked!Store!Next]_lTexts
  BY LinkedStoreStep
<1> QED BY <1>1, <1>2, DisksInvariance, PTL
        DEF Spec, LinkedImplementsStore, Linked!Store!Spec, lTexts

\* What the indexed program shows of its files.
iTexts == [f \in DOMAIN i_files |-> Indexed!Contents(f)]

\* The store has the operators of this module.
LEMMA IndexedStore ==
    /\ \A map, f, value : Indexed!Store!With(map, f, value) = With(map, f, value)
    /\ \A map, f : Indexed!Store!Without(map, f) = Without(map, f)
    /\ \A h, S : Indexed!Store!SumFunctionOnSet(h, S) = SumFunctionOnSet(h, S)
    /\ iTexts = iDisk.texts
<1>1. \A map, f, value : Indexed!Store!With(map, f, value) = With(map, f, value)
  BY DEF Indexed!Store!With, With
<1>2. \A map, f : Indexed!Store!Without(map, f) = Without(map, f)
  BY DEF Indexed!Store!Without, Without
<1>3. \A h, S : Indexed!Store!SumFunctionOnSet(h, S) = SumFunctionOnSet(h, S)
  BY DEF Indexed!Store!SumFunctionOnSet, Indexed!Store!FoldFunctionOnSet,
         Indexed!Store!MapThenFoldSet, SumFunctionOnSet, FoldFunctionOnSet, MapThenFoldSet
<1> QED BY <1>1, <1>2, <1>3, Readings DEF iTexts

\* It finds that a text fits when the program does.
LEMMA IndexedFits ==
    ASSUME DiskAssumption, NEW f, NEW text \in Texts, NEW d, Good(d),
           d.texts = Shown(i_data, d.inodes), d.texts = Without(iTexts, f)
    PROVE  Indexed!Store!Fits(f, text) <=> Len(text) <= d.free
<1>1. Indexed!Store!Without(iTexts, f) = d.texts
  BY IndexedStore
<1>2. Indexed!Store!Used(d.texts)
        = SumFunctionOnSet([g \in DOMAIN d.texts |-> Len(d.texts[g])], DOMAIN d.texts)
  BY IndexedStore DEF Indexed!Store!Used
<1>3. Indexed!Store!Fits(f, text)
        <=> Indexed!Store!Used(Indexed!Store!Without(iTexts, f)) + Len(text) <= NumBlocks
  BY DEF Indexed!Store!Fits, iTexts
<1> QED BY <1>1, <1>2, <1>3, FitsFree

\* A write to a disk without the file is a write to the store.
LEMMA IndexedWrites ==
    ASSUME DiskAssumption, NEW f \in Files, NEW text \in Texts, NEW d, Good(d),
           d.texts = Shown(i_data, d.inodes), d.texts = Without(iTexts, f),
           iDisk' = iAfter(f, text, d)
    PROVE  Indexed!Store!Write(f, text)
<1>1. Indexed!Store!Fits(f, text) <=> Len(text) <= d.free
  BY IndexedFits
<1>2. iTexts' = iDisk'.texts
  BY DEF iTexts, iDisk, DiskOf, Shown, Reads, chains, Indexed!Contents, Indexed!inode
<1>3. \A value : With(d.texts, f, value) = With(iTexts, f, value)
  BY MapFacts
<1>4. CASE Len(text) <= d.free
  <2>1. iTexts' = With(iTexts, f, text)
    BY <1>2, <1>3, <1>4 DEF iAfter, Put, DiskOf
  <2> QED BY <1>1, <1>4, <2>1, IndexedStore
          DEF Indexed!Store!Write, Indexed!Store!Holds, iTexts
<1>5. CASE ~(Len(text) <= d.free)
  <2>1. iTexts' = With(iTexts, f, <<>>)
    BY <1>2, <1>3, <1>5 DEF iAfter, Blank, DiskOf
  <2> QED BY <1>1, <1>5, <2>1, IndexedStore
          DEF Indexed!Store!Write, Indexed!Store!Fail, Indexed!Store!Holds,
              Indexed!Store!Delete, iTexts
<1> QED BY <1>4, <1>5

\* Every command is one of the store, or changes nothing there.
LEMMA IndexedStoreStep ==
    ASSUME DiskAssumption, IInv, [Next]_vars
    PROVE  [Indexed!Store!Next]_iTexts
<1>1. LinkedInv /\ Good(lDisk) /\ Good(iDisk)
  BY DEF IInv, LinkedInv
<1>2. ASSUME iDisk' = iDisk PROVE iTexts' = iTexts
  <2>1. iTexts' = iDisk'.texts
    BY DEF iTexts, iDisk, DiskOf, Shown, Reads, chains, Indexed!Contents, Indexed!inode
  <2> QED BY <1>2, <2>1, IndexedStore
<1>3. CASE UNCHANGED vars
  BY <1>2, <1>3, NothingHappens DEF vars, Linked!vars, Indexed!vars
<1>4. ASSUME NEW f \in Files, NEW text \in Texts, Create(f, text)
      PROVE  [Indexed!Store!Next]_iTexts
  <2>1. iDisk' = IF f \in DOMAIN i_files THEN iDisk ELSE iAfter(f, text, iDisk)
    BY <1>1, <1>4, CreateStep
  <2>2. CASE f \in DOMAIN i_files
    BY <1>2, <2>1, <2>2
  <2>3. CASE f \notin DOMAIN i_files
    <3>1. iDisk.texts = Shown(i_data, iDisk.inodes)
      BY DEF iDisk, DiskOf
    <3>2. iDisk.texts = Without(iTexts, f)
      <4>1. iTexts = [g \in DOMAIN iTexts |-> iTexts[g]] /\ f \notin DOMAIN iTexts
        BY <2>3 DEF iTexts
      <4> QED BY <4>1, MapFacts, IndexedStore
    <3>3. Indexed!Store!Write(f, text)
      BY <1>1, <2>1, <2>3, <3>1, <3>2, IndexedWrites
    <3> QED BY <3>3 DEF Indexed!Store!Next
  <2> QED BY <2>2, <2>3
<1>5. ASSUME NEW f \in Files, NEW text \in Texts, Update(f, text)
      PROVE  [Indexed!Store!Next]_iTexts
  <2> DEFINE d == Drop(f, iDisk)
  <2>1. iDisk' = IF f \in DOMAIN i_files THEN iAfter(f, text, d) ELSE iDisk
    BY <1>1, <1>5, UpdateStep
  <2>2. CASE f \notin DOMAIN i_files
    BY <1>2, <2>1, <2>2
  <2>3. CASE f \in DOMAIN i_files
    <3>1. Good(d)
      BY <1>1, <2>3, GoodDrop, DiskFiles
    <3>2. d.texts = Shown(i_data, d.inodes)
      BY ShownWithout DEF Drop, iDisk, DiskOf
    <3>3. d.texts = Without(iTexts, f)
      BY IndexedStore DEF Drop, DiskOf
    <3> HIDE DEF d
    <3>4. Indexed!Store!Write(f, text)
      BY <2>1, <2>3, <3>1, <3>2, <3>3, IndexedWrites
    <3> QED BY <3>4 DEF Indexed!Store!Next
  <2> QED BY <2>2, <2>3
<1>6. ASSUME NEW f \in Files, Delete(f)
      PROVE  [Indexed!Store!Next]_iTexts
  <2>1. iDisk' = IF f \in DOMAIN i_files THEN Drop(f, iDisk) ELSE iDisk
    BY <1>1, <1>6, DeleteStep
  <2>2. CASE f \notin DOMAIN i_files
    BY <1>2, <2>1, <2>2
  <2>3. CASE f \in DOMAIN i_files
    <3>1. iTexts' = iDisk'.texts
      BY DEF iTexts, iDisk, DiskOf, Shown, Reads, chains, Indexed!Contents, Indexed!inode
    <3>2. iTexts' = Without(iTexts, f)
      BY <2>1, <2>3, <3>1, IndexedStore DEF Drop, DiskOf
    <3>3. Indexed!Store!Delete(f)
      BY <3>2, IndexedStore DEF Indexed!Store!Delete, iTexts
    <3> QED BY <3>3 DEF Indexed!Store!Next
  <2> QED BY <2>2, <2>3
<1> QED BY <1>3, <1>4, <1>5, <1>6 DEF Next

\* indexed_allocation.cpp is the store that keeps an empty file when a write
\* fails.
THEOREM IndexedIsStore == ASSUME DiskAssumption PROVE Spec => IndexedImplementsStore
<1>1. Init => Indexed!Store!Init
  BY DEF Init, Indexed!Init, Indexed!Store!Init
<1>2. IInv /\ [Next]_vars => [Indexed!Store!Next]_iTexts
  BY IndexedStoreStep
<1> QED BY <1>1, <1>2, DisksInvariance, PTL
        DEF Spec, IndexedImplementsStore, Indexed!Store!Spec, iTexts

-----------------------------------------------------------------------------
(* contiguous.cpp                                                          *)

\* It counts blocks as this module does.
LEMMA ContiguousCounts == \A S : Contiguous!Cardinality(S) = Cardinality(S)
  BY DEF Contiguous!Cardinality, Contiguous!IsFiniteSet, Cardinality, IsFiniteSet

-----------------------------------------------------------------------------
(* Files in runs of blocks                                                 *)

\* An entry of the file list that is inside of the disk.
IsEntry(e) == /\ e \in [first : Contiguous!Blocks, second : 1..NumBlocks]
              /\ Contiguous!Run(e.first, e.second) \subseteq Contiguous!Blocks

\* Every file has allocated blocks of its own.
Placed(taken, list) ==
    /\ \A f \in DOMAIN list : /\ IsEntry(list[f])
                              /\ \A b \in Contiguous!Run(list[f].first, list[f].second) : taken[b]
    /\ \A f, g \in DOMAIN list :
         f # g => Contiguous!Run(list[f].first, list[f].second)
           \cap Contiguous!Run(list[g].first, list[g].second) = {}

\* No other block is allocated.
NoneLost(taken, list) ==
    \A b \in Contiguous!Blocks :
      taken[b] => \E f \in DOMAIN list : b \in Contiguous!Run(list[f].first, list[f].second)

\* The map with one entry less, and with one more.
LEMMA EntryLess ==
    ASSUME NEW map, NEW f
    PROVE  /\ DOMAIN Contiguous!Without(map, f) = DOMAIN map \ {f}
           /\ \A g \in DOMAIN map \ {f} : Contiguous!Without(map, f)[g] = map[g]
  BY DEF Contiguous!Without

\* The same of a map with an entry more.
LEMMA EntryMore ==
    ASSUME NEW map, NEW f, NEW value
    PROVE  /\ DOMAIN Contiguous!With(map, f, value) = DOMAIN map \cup {f}
           /\ Contiguous!With(map, f, value)[f] = value
           /\ \A g \in DOMAIN map : g # f => Contiguous!With(map, f, value)[g] = map[g]
  BY DEF Contiguous!With

\* A file is taken off the disk.
LEMMA TakeOff ==
    ASSUME NEW taken \in [Contiguous!Blocks -> BOOLEAN], NEW list, Placed(taken, list),
           NEW f \in DOMAIN list,
           NEW now \in [Contiguous!Blocks -> BOOLEAN],
           \A b \in Contiguous!Blocks : now[b] <=>
             taken[b] /\ b \notin Contiguous!Run(list[f].first, list[f].second)
    PROVE  /\ Placed(now, Contiguous!Without(list, f))
           /\ NoneLost(taken, list) => NoneLost(now, Contiguous!Without(list, f))
<1> DEFINE rest == Contiguous!Without(list, f)
<1>1. DOMAIN rest = DOMAIN list \ {f} /\ \A g \in DOMAIN list \ {f} : rest[g] = list[g]
  BY EntryLess
<1> HIDE DEF rest
<1>2. ASSUME NEW g \in DOMAIN rest, NEW b \in Contiguous!Run(rest[g].first, rest[g].second)
      PROVE  now[b]
  <2>1. g \in DOMAIN list /\ g # f /\ rest[g] = list[g]
    BY <1>1
  <2>2. taken[b] /\ b \in Contiguous!Blocks
          /\ b \notin Contiguous!Run(list[f].first, list[f].second)
    BY <1>2, <2>1 DEF Placed, IsEntry
  <2> QED BY <2>2
<1>3. \A g \in DOMAIN rest : IsEntry(rest[g])
  BY <1>1 DEF Placed
<1>4. \A g, h \in DOMAIN rest :
        g # h => Contiguous!Run(rest[g].first, rest[g].second)
          \cap Contiguous!Run(rest[h].first, rest[h].second) = {}
  BY <1>1 DEF Placed
<1>5. Placed(now, rest)
  BY <1>2, <1>3, <1>4 DEF Placed
<1>6. ASSUME NoneLost(taken, list), NEW b \in Contiguous!Blocks, now[b]
      PROVE  \E g \in DOMAIN rest : b \in Contiguous!Run(rest[g].first, rest[g].second)
  <2>1. PICK g \in DOMAIN list : b \in Contiguous!Run(list[g].first, list[g].second)
    BY <1>6 DEF NoneLost
  <2>2. g # f
    BY <1>6, <2>1
  <2> QED BY <1>1, <2>1, <2>2
<1> QED BY <1>5, <1>6 DEF NoneLost, rest

\* A file gets blocks nobody has.
LEMMA PutOn ==
    ASSUME NEW taken \in [Contiguous!Blocks -> BOOLEAN], NEW list, Placed(taken, list),
           NEW f, f \notin DOMAIN list, NEW e, IsEntry(e),
           \A b \in Contiguous!Run(e.first, e.second) : ~taken[b],
           NEW now \in [Contiguous!Blocks -> BOOLEAN],
           \A b \in Contiguous!Blocks : now[b] <=>
             taken[b] \/ b \in Contiguous!Run(e.first, e.second)
    PROVE  /\ Placed(now, Contiguous!With(list, f, e))
           /\ NoneLost(taken, list) => NoneLost(now, Contiguous!With(list, f, e))
<1> DEFINE more == Contiguous!With(list, f, e)
<1>1. /\ DOMAIN more = DOMAIN list \cup {f} /\ more[f] = e
      /\ \A g \in DOMAIN list : more[g] = list[g]
  BY DEF Contiguous!With
<1> HIDE DEF more
<1>2. ASSUME NEW g \in DOMAIN more, NEW b \in Contiguous!Run(more[g].first, more[g].second)
      PROVE  now[b]
  <2>1. CASE g = f
    BY <1>1, <1>2, <2>1 DEF IsEntry
  <2>2. CASE g \in DOMAIN list
    BY <1>1, <1>2, <2>2 DEF Placed, IsEntry
  <2> QED BY <1>1, <2>1, <2>2
<1>3. \A g \in DOMAIN more : IsEntry(more[g])
  BY <1>1 DEF Placed
<1>4. \A g \in DOMAIN list :
        Contiguous!Run(list[g].first, list[g].second) \cap Contiguous!Run(e.first, e.second) = {}
  BY DEF Placed
<1>5. \A g, h \in DOMAIN more :
        g # h => Contiguous!Run(more[g].first, more[g].second)
          \cap Contiguous!Run(more[h].first, more[h].second) = {}
  BY <1>1, <1>4 DEF Placed
<1>6. Placed(now, more)
  BY <1>2, <1>3, <1>5 DEF Placed
<1>7. ASSUME NoneLost(taken, list), NEW b \in Contiguous!Blocks, now[b]
      PROVE  \E g \in DOMAIN more : b \in Contiguous!Run(more[g].first, more[g].second)
  <2>1. CASE taken[b]
    BY <1>1, <1>7, <2>1 DEF NoneLost
  <2>2. CASE b \in Contiguous!Run(e.first, e.second)
    BY <1>1, <2>2
  <2> QED BY <1>7, <2>1, <2>2
<1> QED BY <1>6, <1>7 DEF NoneLost, more

-----------------------------------------------------------------------------
(* First fit                                                               *)

\* First fit finds a hole if there is one.
LEMMA FirstFitFinds ==
    ASSUME NEW taken, NEW size, Contiguous!Holes(taken, size) # {}
    PROVE  Contiguous!FirstFit(taken, size) \in Contiguous!Holes(taken, size)
<1> DEFINE H == Contiguous!Holes(taken, size)
<1>1. H \subseteq Int /\ \A b \in H : 0 <= b
  BY DEF Contiguous!Holes, Contiguous!Blocks
<1>2. \E b \in H : \A c \in H : b <= c
  <2> HIDE DEF H
  <2> QED BY <1>1, LeastInt DEF H
<1> QED BY <1>2 DEF Contiguous!FirstFit

\* The texts are sequences that are not empty.
LEMMA WordTyped ==
    ASSUME Contiguous!DiskAssumption, NEW text \in ContiguousTexts
    PROVE  /\ text \in Seq(Char) /\ Len(text) \in Nat \ {0}
           /\ \A k \in 1..Len(text) : text[k] \in Char
<1>1. text \in Seq(Char) /\ text # <<>>
  BY DEF Contiguous!DiskAssumption
<1> QED BY <1>1

\* The file list is this one, up to the entry of f.
IsListBut(f, list) == \A e : Contiguous!With(c_flist, f, e) = Contiguous!With(list, f, e)

\* The text is in blocks that were not taken, and the files of the list are
\* where they were.
PutInHole(f, text, taken, list) ==
    /\ c_allocated' \in [Contiguous!Blocks -> BOOLEAN] /\ c_val' \in [Contiguous!Blocks -> Char]
    /\ Placed(c_allocated', c_flist')
    /\ NoneLost(taken, list) => NoneLost(c_allocated', c_flist')
    /\ DOMAIN c_flist' = DOMAIN list \cup {f}
    /\ IsEntry(c_flist'[f]) /\ c_flist'[f].second = Len(text)
    /\ \A g \in DOMAIN list : c_flist'[g] = list[g]
    /\ \A k \in 1..Len(text) : c_val'[c_flist'[f].first + k - 1] = text[k]
    /\ \A b \in Contiguous!Blocks : taken[b] => c_val'[b] = c_val[b]

\* A text that is placed gets a hole, and no other file changes.
LEMMA PlaceIn ==
    ASSUME Contiguous!DiskAssumption, NEW taken \in [Contiguous!Blocks -> BOOLEAN], NEW list,
           Placed(taken, list),
           NEW f, f \notin DOMAIN list, NEW text \in ContiguousTexts,
           Contiguous!Holes(taken, Len(text)) # {},
           c_val \in [Contiguous!Blocks -> Char],
           Contiguous!Place(f, text, taken), IsListBut(f, list)
    PROVE  PutInHole(f, text, taken, list)
<1> DEFINE b0 == Contiguous!FirstFit(taken, Len(text))
           n == Len(text)
           e == [first |-> b0, second |-> n]
<1>1. n \in Nat \ {0} /\ NumBlocks \in Nat \ {0} /\ \A k \in 1..n : text[k] \in Char
  BY WordTyped DEF Contiguous!DiskAssumption
<1>2. b0 \in Contiguous!Holes(taken, n)
  BY FirstFitFinds
<1>3. /\ c_allocated' = [k \in Contiguous!Blocks |-> taken[k] \/ k \in Contiguous!Run(b0, n)]
      /\ c_val' = [k \in Contiguous!Blocks |-> IF k \in Contiguous!Run(b0, n)
           THEN text[k - b0 + 1] ELSE c_val[k]]
      /\ c_flist' = Contiguous!With(c_flist, f, e)
  BY DEF Contiguous!Place, Contiguous!Fill
<1>4. c_flist' = Contiguous!With(list, f, e)
  BY <1>3 DEF IsListBut
<1>5. c_flist'[f] = e
  BY <1>4 DEF Contiguous!With
<1> HIDE DEF b0, n
<1>6. b0 \in Contiguous!Blocks /\ b0 + n <= NumBlocks /\ \A k \in Contiguous!Run(b0, n) : ~taken[k]
  BY <1>2 DEF Contiguous!Holes, Contiguous!isempty
<1>7. IsEntry(e) /\ e.first = b0 /\ e.second = n
  BY <1>1, <1>6 DEF IsEntry, Contiguous!Run, Contiguous!Blocks
<1> HIDE DEF e
<1>8. c_allocated' \in [Contiguous!Blocks -> BOOLEAN] /\
      \A b \in Contiguous!Blocks : c_allocated'[b] <=> taken[b] \/ b \in Contiguous!Run(b0, n)
  BY <1>3
<1>9. /\ Placed(c_allocated', c_flist')
      /\ NoneLost(taken, list) => NoneLost(c_allocated', c_flist')
  <2> DEFINE now == c_allocated'
  <2>1. now \in [Contiguous!Blocks -> BOOLEAN] /\
        \A b \in Contiguous!Blocks : now[b] <=> taken[b] \/ b \in Contiguous!Run(e.first, e.second)
    BY <1>7, <1>8
  <2> HIDE DEF now
  <2>2. /\ Placed(now, Contiguous!With(list, f, e))
        /\ NoneLost(taken, list) => NoneLost(now, Contiguous!With(list, f, e))
    BY <1>6, <1>7, <2>1, PutOn
  <2> QED BY <1>4, <2>2 DEF now
<1>10. \A k \in Contiguous!Run(b0, n) : k \in Contiguous!Blocks /\ k - b0 + 1 \in 1..n
  BY <1>1, <1>6 DEF Contiguous!Run, Contiguous!Blocks
<1>11. c_val' \in [Contiguous!Blocks -> Char]
  <2>1. \A k \in Contiguous!Blocks :
          (IF k \in Contiguous!Run(b0, n) THEN text[k - b0 + 1] ELSE c_val[k]) \in Char
    BY <1>1, <1>10
  <2> QED BY <1>3, <2>1
<1>12. \A k \in 1..n : c_val'[b0 + k - 1] = text[k]
  <2>1. SUFFICES ASSUME NEW k \in 1..n PROVE c_val'[b0 + k - 1] = text[k]
    OBVIOUS
  <2>2. b0 + k - 1 \in Contiguous!Run(b0, n) /\ b0 + k - 1 \in Contiguous!Blocks
          /\ (b0 + k - 1) - b0 + 1 = k
    BY <1>1, <1>6 DEF Contiguous!Run, Contiguous!Blocks
  <2> QED BY <1>3, <2>2
<1>13. \A b \in Contiguous!Blocks : taken[b] => c_val'[b] = c_val[b]
  BY <1>3, <1>6
<1>14. /\ DOMAIN c_flist' = DOMAIN list \cup {f}
       /\ \A g \in DOMAIN list : c_flist'[g] = list[g]
  <2>1. \A g \in DOMAIN list : g # f
    OBVIOUS
  <2> HIDE DEF e
  <2> QED BY <1>4, <2>1 DEF Contiguous!With
<1> QED BY <1>5, <1>7, <1>8, <1>9, <1>11, <1>12, <1>13, <1>14 DEF n, PutInHole

\* The text is in the blocks it was written to, and in no other one.
LEMMA FillAt ==
    ASSUME Contiguous!DiskAssumption, NEW text \in ContiguousTexts, NEW b0 \in Contiguous!Blocks,
           Contiguous!Run(b0, Len(text)) \subseteq Contiguous!Blocks,
           c_val \in [Contiguous!Blocks -> Char],
           Contiguous!Fill(b0, text)
    PROVE  /\ c_val' \in [Contiguous!Blocks -> Char]
           /\ \A k \in 1..Len(text) : c_val'[b0 + k - 1] = text[k]
           /\ \A b \in Contiguous!Blocks : b \notin Contiguous!Run(b0, Len(text)) =>
                c_val'[b] = c_val[b]
<1> DEFINE n == Len(text)
<1>1. n \in Nat \ {0} /\ \A k \in 1..n : text[k] \in Char
  BY WordTyped
<1>2. c_val' = [k \in Contiguous!Blocks |-> IF k \in Contiguous!Run(b0, n) THEN text[k - b0 + 1]
        ELSE c_val[k]]
  BY DEF Contiguous!Fill
<1> HIDE DEF n
<1>3. \A k \in Contiguous!Run(b0, n) : k \in Contiguous!Blocks /\ k - b0 + 1 \in 1..n
  BY <1>1 DEF Contiguous!Run, Contiguous!Blocks, n
<1>4. c_val' \in [Contiguous!Blocks -> Char]
  <2>1. \A k \in Contiguous!Blocks :
          (IF k \in Contiguous!Run(b0, n) THEN text[k - b0 + 1] ELSE c_val[k]) \in Char
    BY <1>1, <1>3
  <2> QED BY <1>2, <2>1
<1>5. \A k \in 1..n : c_val'[b0 + k - 1] = text[k]
  <2>1. SUFFICES ASSUME NEW k \in 1..n PROVE c_val'[b0 + k - 1] = text[k]
    OBVIOUS
  <2>2. b0 + k - 1 \in Contiguous!Run(b0, n) /\ (b0 + k - 1) - b0 + 1 = k
    BY <1>1 DEF Contiguous!Run, Contiguous!Blocks
  <2>3. b0 + k - 1 \in Contiguous!Blocks
    BY <1>3, <2>2
  <2> QED BY <1>2, <2>2, <2>3
<1> QED BY <1>2, <1>4, <1>5 DEF n

-----------------------------------------------------------------------------
(* The invariant                                                           *)

RunsInv == /\ Contiguous!TypeOK /\ IsFiniteSet(DOMAIN c_flist)
           /\ Placed(c_allocated, c_flist)
           /\ ~c_leaked => NoneLost(c_allocated, c_flist)

\* What a command does to file f and the others: f holds the text, and is
\* where no other file was; the disk is as sound as it was before.
Stored(f, text) ==
    /\ DOMAIN c_flist' = DOMAIN c_flist \cup {f}
    /\ c_flist'[f].second = Len(text)
    /\ \A k \in 1..Len(text) : c_val'[c_flist'[f].first + k - 1] = text[k]

\* The other files are where they were, with what they had.
OthersKept(f) ==
    \A g \in DOMAIN c_flist \ {f} :
      /\ c_flist'[g] = c_flist[g]
      /\ \A b \in Contiguous!Extent(g) : c_val'[b] = c_val[b]

Gone(f) == DOMAIN c_flist' = DOMAIN c_flist \ {f}

\* The sound state after a command about f.
SoundAfter == /\ c_allocated' \in [Contiguous!Blocks -> BOOLEAN]
              /\ c_val' \in [Contiguous!Blocks -> Char]
              /\ Placed(c_allocated', c_flist')
              /\ ~c_leaked' => NoneLost(c_allocated', c_flist')

\* A create (lines 47-82) stores the text, touches no other file, and leaves the
\* disk sound.
LEMMA CreateEffect ==
    ASSUME Contiguous!DiskAssumption, RunsInv, NEW f \in Files, NEW text \in ContiguousTexts,
           Contiguous!Create_File(f, text)
    PROVE  Stored(f, text) /\ OthersKept(f) /\ SoundAfter
<1>1. f \notin DOMAIN c_flist /\ Contiguous!Holes(c_allocated, Len(text)) # {}
        /\ c_leaked' = c_leaked
      /\ Contiguous!Place(f, text, c_allocated)
  BY DEF Contiguous!Create_File, Contiguous!Exists
<1>2. /\ c_allocated \in [Contiguous!Blocks -> BOOLEAN] /\ c_val \in [Contiguous!Blocks -> Char]
      /\ Placed(c_allocated, c_flist) /\ IsListBut(f, c_flist)
  BY DEF RunsInv, Contiguous!TypeOK, IsListBut
<1>3. PutInHole(f, text, c_allocated, c_flist)
  BY <1>1, <1>2, PlaceIn
<1>4. \A g \in DOMAIN c_flist : \A b \in Contiguous!Extent(g) :
        b \in Contiguous!Blocks /\ c_allocated[b]
  BY <1>2 DEF Placed, Contiguous!Extent, IsEntry
<1> QED BY <1>1, <1>3, <1>4 DEF PutInHole, Stored, OthersKept, SoundAfter, RunsInv

\* The blocks of a file, freed.
LEMMA FreedSound ==
    ASSUME RunsInv, NEW f \in DOMAIN c_flist
    PROVE  /\ Contiguous!Freed(f) \in [Contiguous!Blocks -> BOOLEAN]
           /\ Placed(Contiguous!Freed(f), Contiguous!Without(c_flist, f))
           /\ ~c_leaked => NoneLost(Contiguous!Freed(f), Contiguous!Without(c_flist, f))
           /\ \A b \in Contiguous!Blocks : Contiguous!Freed(f)[b] <=>
                c_allocated[b] /\ b \notin Contiguous!Extent(f)
           /\ \A g \in DOMAIN c_flist \ {f} : \A b \in Contiguous!Extent(g) :
                b \in Contiguous!Blocks /\ Contiguous!Freed(f)[b]
<1> DEFINE now == Contiguous!Freed(f)
<1>1. c_allocated \in [Contiguous!Blocks -> BOOLEAN] /\ Placed(c_allocated, c_flist)
  BY DEF RunsInv, Contiguous!TypeOK
<1>2. now \in [Contiguous!Blocks -> BOOLEAN] /\
      \A b \in Contiguous!Blocks : now[b] <=> c_allocated[b]
        /\ b \notin Contiguous!Run(c_flist[f].first, c_flist[f].second)
  BY <1>1 DEF Contiguous!Freed, Contiguous!Extent
<1> HIDE DEF now
<1>3. /\ Placed(now, Contiguous!Without(c_flist, f))
      /\ NoneLost(c_allocated, c_flist) => NoneLost(now, Contiguous!Without(c_flist, f))
  BY <1>1, <1>2, TakeOff
<1>4. \A g \in DOMAIN c_flist \ {f} : \A b \in Contiguous!Extent(g) :
        b \in Contiguous!Blocks /\ now[b]
  BY <1>1, <1>2 DEF Placed, IsEntry, Contiguous!Extent
<1> QED BY <1>2, <1>3, <1>4 DEF RunsInv, now, Contiguous!Extent

\* A delete (lines 83-99) takes the file away and touches no other one.
LEMMA DeleteEffect ==
    ASSUME RunsInv, NEW f, Contiguous!Delete_File(f)
    PROVE  Gone(f) /\ OthersKept(f) /\ SoundAfter
<1>1. /\ f \in DOMAIN c_flist /\ c_allocated' = Contiguous!Freed(f)
      /\ c_flist' = Contiguous!Without(c_flist, f)
      /\ c_val' = c_val /\ c_leaked' = c_leaked
  BY DEF Contiguous!Delete_File, Contiguous!Exists
<1>2. /\ Contiguous!Freed(f) \in [Contiguous!Blocks -> BOOLEAN]
      /\ Placed(Contiguous!Freed(f), Contiguous!Without(c_flist, f))
      /\ ~c_leaked => NoneLost(Contiguous!Freed(f), Contiguous!Without(c_flist, f))
  BY <1>1, FreedSound
<1>3. /\ DOMAIN Contiguous!Without(c_flist, f) = DOMAIN c_flist \ {f}
      /\ \A g \in DOMAIN c_flist \ {f} : Contiguous!Without(c_flist, f)[g] = c_flist[g]
  BY EntryLess
<1>4. c_val \in [Contiguous!Blocks -> Char]
  BY DEF RunsInv, Contiguous!TypeOK
<1> QED BY <1>1, <1>2, <1>3, <1>4 DEF Gone, OthersKept, SoundAfter

\* So does the update that is too large (136-142); the blocks are lost, and
\* leaked says so.
LEMMA TooBigEffect ==
    ASSUME RunsInv, NEW f, NEW text, Contiguous!UpdateTooBig(f, text)
    PROVE  Gone(f) /\ OthersKept(f) /\ SoundAfter
<1>1. /\ f \in DOMAIN c_flist /\ c_allocated' = c_allocated
      /\ c_flist' = Contiguous!Without(c_flist, f)
      /\ c_val' = c_val /\ c_leaked' = TRUE
  BY DEF Contiguous!UpdateTooBig, Contiguous!Exists
<1> DEFINE rest == Contiguous!Without(c_flist, f)
<1>2. DOMAIN rest = DOMAIN c_flist \ {f} /\ \A g \in DOMAIN c_flist \ {f} : rest[g] = c_flist[g]
  BY EntryLess
<1> HIDE DEF rest
<1>3. Placed(c_allocated, rest)
  BY <1>2 DEF RunsInv, Placed
<1>4. c_allocated \in [Contiguous!Blocks -> BOOLEAN] /\ c_val \in [Contiguous!Blocks -> Char]
  BY DEF RunsInv, Contiguous!TypeOK
<1> QED BY <1>1, <1>2, <1>3, <1>4 DEF Gone, OthersKept, SoundAfter, rest

\* An update that does not grow (143-175) stores the text where the old one was.
LEMMA InPlaceEffect ==
    ASSUME Contiguous!DiskAssumption, RunsInv, NEW f \in Files, NEW text \in ContiguousTexts,
           Contiguous!UpdateInPlace(f, text)
    PROVE  Stored(f, text) /\ OthersKept(f) /\ SoundAfter
<1> DEFINE n == Len(text)
           b0 == c_flist[f].first
           e == [first |-> b0, second |-> n]
           rest == Contiguous!Without(c_flist, f)
<1>1. /\ f \in DOMAIN c_flist /\ c_leaked' = c_leaked /\ n - c_flist[f].second <= 0
      /\ c_allocated' = [b \in Contiguous!Blocks |-> c_allocated[b]
           /\ b \notin Contiguous!Extent(f) \ Contiguous!Run(b0, n)]
      /\ Contiguous!Fill(b0, text)
      /\ c_flist' = [c_flist EXCEPT ![f].second = n]
  BY DEF Contiguous!UpdateInPlace, Contiguous!Exists, Contiguous!diff
<1>2. n \in Nat \ {0} /\ NumBlocks \in Nat \ {0}
  BY WordTyped DEF Contiguous!DiskAssumption
<1>3. /\ b0 \in Contiguous!Blocks /\ c_flist[f].second \in 1..NumBlocks
      /\ Contiguous!Extent(f) \subseteq Contiguous!Blocks
      /\ \A b \in Contiguous!Extent(f) : c_allocated[b]
      /\ c_allocated \in [Contiguous!Blocks -> BOOLEAN] /\ c_val \in [Contiguous!Blocks -> Char]
  BY <1>1 DEF RunsInv, Contiguous!TypeOK, Placed, Contiguous!Extent
<1>4. Contiguous!Run(b0, n) \subseteq Contiguous!Extent(f) /\ n \in 1..NumBlocks
  BY <1>1, <1>2, <1>3 DEF Contiguous!Run, Contiguous!Extent, Contiguous!Blocks
<1>5. IsEntry(e) /\ e.first = b0 /\ e.second = n
  BY <1>3, <1>4 DEF IsEntry
<1>6. /\ Contiguous!Freed(f) \in [Contiguous!Blocks -> BOOLEAN] /\ Placed(Contiguous!Freed(f), rest)
      /\ ~c_leaked => NoneLost(Contiguous!Freed(f), rest)
      /\ \A b \in Contiguous!Blocks : Contiguous!Freed(f)[b] <=>
           c_allocated[b] /\ b \notin Contiguous!Extent(f)
      /\ \A g \in DOMAIN c_flist \ {f} : \A b \in Contiguous!Extent(g) :
           b \in Contiguous!Blocks /\ Contiguous!Freed(f)[b]
  BY <1>1, FreedSound
<1>7. c_allocated' \in [Contiguous!Blocks -> BOOLEAN]
      /\ \A b \in Contiguous!Blocks : c_allocated'[b] <=>
           Contiguous!Freed(f)[b] \/ b \in Contiguous!Run(b0, n)
  BY <1>1, <1>3, <1>4, <1>6
<1>8. /\ DOMAIN c_flist' = DOMAIN c_flist /\ c_flist'[f] = e
      /\ \A g \in DOMAIN c_flist \ {f} : c_flist'[g] = c_flist[g]
  <2>1. c_flist[f] \in [first : Contiguous!Blocks, second : 1..NumBlocks]
    BY <1>1 DEF RunsInv, Contiguous!TypeOK
  <2>2. c_flist'[f] = [c_flist[f] EXCEPT !.second = n]
    BY <1>1
  <2> QED BY <1>1, <2>1, <2>2
<1>9. DOMAIN rest = DOMAIN c_flist \ {f} /\ \A g \in DOMAIN c_flist \ {f} : rest[g] = c_flist[g]
  BY EntryLess
<1>10. c_flist' = Contiguous!With(rest, f, e)
  <2>1. DOMAIN c_flist' = DOMAIN rest \cup {f}
    BY <1>1, <1>8, <1>9
  <2>2. \A g \in DOMAIN c_flist' : c_flist'[g] = IF g = f THEN e ELSE rest[g]
    BY <1>8, <1>9
  <2>3. c_flist' = [g \in DOMAIN c_flist' |-> c_flist'[g]]
    BY <1>1
  <2> HIDE DEF e, rest
  <2> QED BY <2>1, <2>2, <2>3 DEF Contiguous!With
<1> HIDE DEF e, rest, b0, n
<1>11. /\ Placed(c_allocated', c_flist')
       /\ ~c_leaked => NoneLost(c_allocated', c_flist')
  <2> DEFINE now == c_allocated'
             free == Contiguous!Freed(f)
  <2>1. now \in [Contiguous!Blocks -> BOOLEAN] /\ free \in [Contiguous!Blocks -> BOOLEAN]
          /\ Placed(free, rest) /\
        \A b \in Contiguous!Blocks : now[b] <=> free[b] \/ b \in Contiguous!Run(e.first, e.second)
    BY <1>5, <1>6, <1>7
  <2>2. \A b \in Contiguous!Run(e.first, e.second) : ~free[b]
    BY <1>3, <1>4, <1>5, <1>6
  <2>3. f \notin DOMAIN rest
    BY <1>9
  <2> HIDE DEF now, free
  <2>4. /\ Placed(now, Contiguous!With(rest, f, e))
        /\ NoneLost(free, rest) => NoneLost(now, Contiguous!With(rest, f, e))
    BY <1>5, <2>1, <2>2, <2>3, PutOn
  <2> QED BY <1>6, <1>10, <2>4 DEF now, free
<1>12. /\ c_val' \in [Contiguous!Blocks -> Char]
       /\ \A k \in 1..n : c_val'[b0 + k - 1] = text[k]
       /\ \A b \in Contiguous!Blocks : b \notin Contiguous!Run(b0, n) => c_val'[b] = c_val[b]
  <2>1. Contiguous!Run(b0, n) \subseteq Contiguous!Blocks
    BY <1>3, <1>4
  <2> QED BY <1>1, <1>3, <2>1, FillAt DEF n
<1>13. \A g \in DOMAIN c_flist \ {f} : \A b \in Contiguous!Extent(g) :
         b \in Contiguous!Blocks /\ b \notin Contiguous!Run(b0, n)
  BY <1>4, <1>6
<1>14. Stored(f, text)
  BY <1>1, <1>5, <1>8, <1>12 DEF Stored, n
<1>15. OthersKept(f)
  BY <1>8, <1>12, <1>13 DEF OthersKept
<1> QED BY <1>1, <1>7, <1>11, <1>12, <1>14, <1>15 DEF SoundAfter

\* An update that grows (176-207) moves the file to a hole, or takes it away when
\* there is none.
LEMMA GrowEffect ==
    ASSUME Contiguous!DiskAssumption, RunsInv, NEW f \in Files, NEW text \in ContiguousTexts,
           Contiguous!UpdateGrow(f, text)
    PROVE  /\ Stored(f, text) \/ (Gone(f) /\ reply'.msg = "no space")
           /\ OthersKept(f) /\ SoundAfter
<1> DEFINE rest == Contiguous!Without(c_flist, f)
<1>1. f \in DOMAIN c_flist /\ c_leaked' = c_leaked
  BY DEF Contiguous!UpdateGrow, Contiguous!Exists
<1>2. /\ Contiguous!Freed(f) \in [Contiguous!Blocks -> BOOLEAN] /\ Placed(Contiguous!Freed(f), rest)
      /\ ~c_leaked => NoneLost(Contiguous!Freed(f), rest)
      /\ \A g \in DOMAIN c_flist \ {f} : \A b \in Contiguous!Extent(g) :
           b \in Contiguous!Blocks /\ Contiguous!Freed(f)[b]
  BY <1>1, FreedSound
<1>3. DOMAIN rest = DOMAIN c_flist \ {f} /\ \A g \in DOMAIN c_flist \ {f} : rest[g] = c_flist[g]
  BY EntryLess
<1>4. c_val \in [Contiguous!Blocks -> Char]
  BY DEF RunsInv, Contiguous!TypeOK
<1>5. CASE Contiguous!Holes(Contiguous!Freed(f), Len(text)) # {}
  <2>1. Contiguous!Place(f, text, Contiguous!Freed(f))
    BY <1>5 DEF Contiguous!UpdateGrow
  <2>2. IsListBut(f, rest)
    <3>1. ASSUME NEW e PROVE Contiguous!With(c_flist, f, e) = Contiguous!With(rest, f, e)
      <4>1. DOMAIN c_flist \cup {f} = DOMAIN rest \cup {f}
        BY <1>3
      <4>2. \A g \in DOMAIN c_flist \cup {f} :
              (IF g = f THEN e ELSE c_flist[g]) = (IF g = f THEN e ELSE rest[g])
        BY <1>3
      <4> HIDE DEF rest
      <4> QED BY <4>1, <4>2 DEF Contiguous!With
    <3> QED BY <3>1 DEF IsListBut
  <2> DEFINE free == Contiguous!Freed(f)
  <2>3. free \in [Contiguous!Blocks -> BOOLEAN] /\ Placed(free, rest) /\ f \notin DOMAIN rest
        /\ Contiguous!Place(f, text, free) /\ Contiguous!Holes(free, Len(text)) # {}
    BY <1>2, <1>3, <1>5, <2>1
  <2> HIDE DEF free, rest
  <2>4. PutInHole(f, text, free, rest)
    BY <1>4, <2>2, <2>3, PlaceIn
  <2>5. Stored(f, text)
    BY <1>1, <1>3, <2>4 DEF PutInHole, Stored
  <2>6. OthersKept(f)
    BY <1>2, <1>3, <2>4 DEF PutInHole, OthersKept, free
  <2> QED BY <1>1, <1>2, <2>4, <2>5, <2>6 DEF PutInHole, SoundAfter, free
<1>6. CASE Contiguous!Holes(Contiguous!Freed(f), Len(text)) = {}
  <2>1. /\ c_allocated' = Contiguous!Freed(f) /\ c_flist' = rest /\ c_val' = c_val
        /\ reply'.msg = "no space"
    <3>1. ~(Contiguous!Holes(Contiguous!Freed(f), Len(text)) # {})
      BY <1>6
    <3>2. /\ c_allocated' = Contiguous!Freed(f) /\ c_flist' = rest /\ UNCHANGED c_val
          /\ Contiguous!Says("no space", Len(text))
      BY <3>1 DEF Contiguous!UpdateGrow
    <3>3. reply'.msg = "no space"
      BY <3>2 DEF Contiguous!Says
    <3> QED BY <3>2, <3>3
  <2> HIDE DEF rest
  <2> QED BY <1>1, <1>2, <1>3, <1>4, <2>1 DEF Gone, OthersKept, SoundAfter
<1> QED BY <1>5, <1>6

\* The disk and the files are as they were.
DiskKept == UNCHANGED <<c_allocated, c_val, c_flist, c_leaked>>

\* Every command stores a text, removes a file or leaves the disk alone.
LEMMA CommandEffect ==
    ASSUME Contiguous!DiskAssumption, RunsInv, Contiguous!Next
    PROVE  \/ DiskKept
           \/ \E f \in Files :
                /\ OthersKept(f) /\ SoundAfter
                /\ Gone(f) \/ \E text \in ContiguousTexts : Stored(f, text)
<1>1. PICK f \in Files : \/ Contiguous!Delete(f)
                         \/ \E text \in ContiguousTexts : Contiguous!Create(f, text)
                              \/ Contiguous!Update(f, text)
  BY DEF Contiguous!Next
<1>2. CASE Contiguous!Delete(f)
  <2>1. CASE Contiguous!Delete_File(f)
    BY <2>1, DeleteEffect
  <2>2. CASE Contiguous!DeleteRefused(f)
    BY <2>2 DEF Contiguous!DeleteRefused, Contiguous!Refuse, DiskKept
  <2> QED BY <1>2, <2>1, <2>2 DEF Contiguous!Delete
<1>3. ASSUME NEW text \in ContiguousTexts, Contiguous!Create(f, text) \/ Contiguous!Update(f, text)
      PROVE  \/ DiskKept
             \/ /\ OthersKept(f) /\ SoundAfter
                /\ Gone(f) \/ Stored(f, text)
  <2>1. CASE Contiguous!Create_File(f, text)
    BY <2>1, CreateEffect
  <2>2. CASE Contiguous!CreateRefused(f, text)
    BY <2>2 DEF Contiguous!CreateRefused, Contiguous!Refuse, DiskKept
  <2>3. CASE Contiguous!UpdateTooBig(f, text)
    BY <2>3, TooBigEffect
  <2>4. CASE Contiguous!UpdateInPlace(f, text)
    BY <2>4, InPlaceEffect
  <2>5. CASE Contiguous!UpdateGrow(f, text)
    BY <2>5, GrowEffect
  <2>6. CASE Contiguous!UpdateLost(f, text)
    BY <2>6 DEF Contiguous!UpdateLost, DiskKept
  <2>7. CASE Contiguous!UpdateRefused(f, text)
    BY <2>7 DEF Contiguous!UpdateRefused, Contiguous!Refuse, DiskKept
  <2> QED BY <1>3, <2>1, <2>2, <2>3, <2>4, <2>5, <2>6, <2>7 DEF Contiguous!Create, Contiguous!Update
<1> QED BY <1>1, <1>2, <1>3

\* After "No Contiguous Space" there is none: the message is about the disk
\* as it is now.
SpaceIsShort ==
    reply.msg = "no space" => /\ reply.size \in Nat \ {0}
                              /\ Contiguous!Holes(c_allocated, reply.size) = {}

\* The flags and the reply.
RunsOthers == reply.size \in Nat /\ c_leaked \in BOOLEAN /\ lost \in BOOLEAN /\ SpaceIsShort

\* A reply about something else says nothing of the space.
LEMMA SizeReplied ==
    ASSUME NEW msg, NEW size \in Nat, Contiguous!Says(msg, size), msg # "no space",
           c_leaked' \in BOOLEAN, lost' \in BOOLEAN
    PROVE  RunsOthers'
<1>1. reply'.msg = msg /\ reply'.size = size
  BY DEF Contiguous!Says
<1>2. SpaceIsShort'
  BY <1>1 DEF SpaceIsShort
<1> QED BY <1>1, <1>2 DEF RunsOthers

\* The last reply and the flags keep their types, and "no space" is only said
\* when there is none.
LEMMA OthersInv ==
    ASSUME Contiguous!DiskAssumption, RunsInv, RunsOthers, Contiguous!Next
    PROVE  RunsOthers'
<1>1. PICK f \in Files : \/ Contiguous!Delete(f)
                         \/ \E text \in ContiguousTexts : Contiguous!Create(f, text)
                              \/ Contiguous!Update(f, text)
  BY DEF Contiguous!Next
<1>2. CASE Contiguous!Delete(f)
  <2>1. c_leaked' \in BOOLEAN /\ lost' \in BOOLEAN
    BY <1>2
       DEF Contiguous!Delete, Contiguous!Delete_File, Contiguous!DeleteRefused,
           Contiguous!Refuse, RunsOthers
  <2>2. Contiguous!Says("deleted", 0) \/ Contiguous!Says("not found", 0)
    BY <1>2
       DEF Contiguous!Delete, Contiguous!Delete_File, Contiguous!DeleteRefused,
           Contiguous!Refuse
  <2> QED BY <2>1, <2>2, SizeReplied
<1>3. ASSUME NEW text \in ContiguousTexts, Contiguous!Create(f, text) \/ Contiguous!Update(f, text)
      PROVE  RunsOthers'
  <2>1. Len(text) \in Nat \ {0}
    BY WordTyped
  <2> DEFINE n == Len(text)
  <2>2. CASE \/ Contiguous!Create_File(f, text) \/ Contiguous!UpdateTooBig(f, text)
             \/ Contiguous!UpdateInPlace(f, text)
             \/ Contiguous!UpdateRefused(f, text)
    <3>1. \/ Contiguous!Says("created", n) \/ Contiguous!Says("too big", n)
          \/ Contiguous!Says("updated", n)
          \/ Contiguous!Says("not found", n)
      BY <2>2
         DEF Contiguous!Create_File, Contiguous!UpdateTooBig, Contiguous!UpdateInPlace,
             Contiguous!UpdateRefused, Contiguous!Refuse
    <3>2. c_leaked' \in BOOLEAN /\ lost' \in BOOLEAN
      BY <2>2
         DEF Contiguous!Create_File, Contiguous!UpdateTooBig, Contiguous!UpdateInPlace,
             Contiguous!UpdateRefused, Contiguous!Refuse, RunsOthers
    <3> QED BY <2>1, <3>1, <3>2, SizeReplied
  <2>3. CASE Contiguous!CreateRefused(f, text)
    <3>1. /\ UNCHANGED <<c_allocated, c_leaked, lost>>
          /\ \/ Contiguous!Says("exists", n) \/ Contiguous!Says("too big", n)
             \/ Contiguous!Says("no space", n) /\ Contiguous!Holes(c_allocated, n) = {}
      BY <2>3 DEF Contiguous!CreateRefused, Contiguous!Refuse
    <3>2. CASE Contiguous!Says("exists", n) \/ Contiguous!Says("too big", n)
      BY <2>1, <3>1, <3>2, SizeReplied DEF RunsOthers
    <3>3. CASE Contiguous!Says("no space", n) /\ Contiguous!Holes(c_allocated, n) = {}
      <4>1. reply'.size = n
        BY <3>3 DEF Contiguous!Says
      <4>2. Contiguous!Holes(c_allocated', n) = {}
        BY <3>1, <3>3
      <4>3. Contiguous!Holes(c_allocated', reply'.size) = {}
        BY <4>1, <4>2
      <4> QED BY <2>1, <3>1, <4>1, <4>3
                 DEF RunsOthers, SpaceIsShort, Contiguous!Holes, Contiguous!isempty,
                     Contiguous!Run
    <3> QED BY <3>1, <3>2, <3>3
  <2>4. CASE Contiguous!UpdateGrow(f, text)
    <3>1. /\ UNCHANGED <<c_leaked, lost>>
          /\ \/ Contiguous!Says("updated", n)
             \/ Contiguous!Says("no space", n) /\ c_allocated' = Contiguous!Freed(f)
                  /\ Contiguous!Holes(Contiguous!Freed(f), n) = {}
      <4>1. CASE Contiguous!Holes(Contiguous!Freed(f), n) # {}
        BY <2>4, <4>1 DEF Contiguous!UpdateGrow
      <4>2. CASE ~(Contiguous!Holes(Contiguous!Freed(f), n) # {})
        BY <2>4, <4>2 DEF Contiguous!UpdateGrow
      <4> QED BY <4>1, <4>2
    <3>2. CASE Contiguous!Says("updated", n)
      BY <2>1, <3>1, <3>2, SizeReplied DEF RunsOthers
    <3>3. CASE Contiguous!Says("no space", n) /\ Contiguous!Holes(c_allocated', n) = {}
      <4>1. reply'.size = n /\ Contiguous!Holes(c_allocated', reply'.size) = {}
        BY <3>3 DEF Contiguous!Says
      <4> QED BY <2>1, <3>1, <4>1
                 DEF RunsOthers, SpaceIsShort, Contiguous!Holes, Contiguous!isempty,
                     Contiguous!Run
    <3> QED BY <3>1, <3>2, <3>3
  <2>5. CASE Contiguous!UpdateLost(f, text)
    BY <2>5
       DEF Contiguous!UpdateLost, RunsOthers, SpaceIsShort, Contiguous!Holes,
           Contiguous!isempty, Contiguous!Run
  <2> QED BY <1>3, <2>2, <2>3, <2>4, <2>5 DEF Contiguous!Create, Contiguous!Update
<1> QED BY <1>1, <1>2, <1>3

\* Every step keeps the invariant.
LEMMA RunsStep ==
    ASSUME Contiguous!DiskAssumption, RunsInv, RunsOthers, [Contiguous!Next]_(Contiguous!vars)
    PROVE  RunsInv' /\ RunsOthers'
<1>1. CASE UNCHANGED Contiguous!vars
  BY <1>1
     DEF Contiguous!vars, RunsInv, RunsOthers, Contiguous!TypeOK, Placed, NoneLost,
         SpaceIsShort, Contiguous!Extent,
              Contiguous!Holes, Contiguous!isempty, Contiguous!Run
<1>2. CASE Contiguous!Next
  <2>1. RunsOthers'
    BY <1>2, OthersInv
  <2>2. CASE DiskKept
    BY <2>1, <2>2
       DEF DiskKept, RunsInv, RunsOthers, Contiguous!TypeOK, Placed, NoneLost, Contiguous!Extent
  <2>3. ASSUME NEW f \in Files, SoundAfter, DOMAIN c_flist' \subseteq DOMAIN c_flist \cup {f}
        PROVE  RunsInv'
    <3>1. IsFiniteSet(DOMAIN c_flist') /\ DOMAIN c_flist' \subseteq Files
      <4>1. IsFiniteSet(DOMAIN c_flist \cup {f})
        BY FS_AddElement DEF RunsInv
      <4> QED BY <2>3, <4>1, FS_Subset DEF RunsInv, Contiguous!TypeOK
    <3>2. Contiguous!TypeOK'
      BY <2>1, <2>3, <3>1
         DEF SoundAfter, Contiguous!TypeOK, Placed, IsEntry, Contiguous!Extent, RunsOthers
    <3> QED BY <2>3, <3>1, <3>2 DEF SoundAfter, RunsInv, Placed, NoneLost
  <2>4. CASE \E f \in Files : /\ OthersKept(f) /\ SoundAfter
                              /\ Gone(f) \/ \E text \in ContiguousTexts : Stored(f, text)
    <3>1. PICK f \in Files : /\ SoundAfter
                             /\ Gone(f) \/ \E text \in ContiguousTexts : Stored(f, text)
      BY <2>4
    <3>2. DOMAIN c_flist' \subseteq DOMAIN c_flist \cup {f}
      BY <3>1 DEF Gone, Stored
    <3> QED BY <2>1, <2>3, <3>1, <3>2
  <2> QED BY <1>2, <2>1, <2>2, <2>4, CommandEffect
<1> QED BY <1>1, <1>2

\* The invariant of contiguous.cpp, for any number of files and blocks and any
\* texts.
THEOREM ContiguousInvariance ==
    ASSUME Contiguous!DiskAssumption
    PROVE  Contiguous!Spec => [](RunsInv /\ RunsOthers)
<1>1. Contiguous!Init => RunsInv /\ RunsOthers
  <2> SUFFICES ASSUME Contiguous!Init PROVE RunsInv /\ RunsOthers
    OBVIOUS
  <2>1. DOMAIN c_flist = {} /\ IsFiniteSet(DOMAIN c_flist)
    BY FS_EmptySet DEF Contiguous!Init
  <2>2. NUL \in Char /\ NumBlocks \in Nat \ {0}
    BY DEF Contiguous!DiskAssumption
  <2> QED BY <2>1, <2>2
             DEF Contiguous!Init, RunsInv, RunsOthers, Contiguous!TypeOK, Placed, NoneLost,
                 SpaceIsShort
<1>2. (RunsInv /\ RunsOthers) /\ [Contiguous!Next]_(Contiguous!vars) => (RunsInv /\ RunsOthers)'
  BY RunsStep
<1> QED BY <1>1, <1>2, PTL DEF Contiguous!Spec

\* No block belongs to two files, and none is lost until an update forgets a
\* file (line 139), in every run of contiguous.cpp.
THEOREM ExtentsAreSound ==
    ASSUME Contiguous!DiskAssumption
    PROVE  Contiguous!Spec => []Contiguous!ExtentsSound
<1>1. RunsInv => Contiguous!ExtentsSound
  <2> SUFFICES ASSUME RunsInv PROVE Contiguous!ExtentsSound
    OBVIOUS
  <2>1. \A f \in DOMAIN c_flist : Contiguous!Extent(f)
          \subseteq {b \in Contiguous!Blocks : c_allocated[b]}
    BY DEF RunsInv, Placed, IsEntry, Contiguous!Extent
  <2>2. \A f, g \in DOMAIN c_flist : f # g => Contiguous!Extent(f) \cap Contiguous!Extent(g) = {}
    BY DEF RunsInv, Placed, Contiguous!Extent
  <2>3. ~c_leaked => {b \in Contiguous!Blocks : c_allocated[b]} =
          UNION {Contiguous!Extent(f) : f \in DOMAIN c_flist}
    BY <2>1 DEF RunsInv, NoneLost, Contiguous!Extent
  <2> QED BY <2>1, <2>2, <2>3 DEF Contiguous!ExtentsSound
<1> QED BY <1>1, ContiguousInvariance, PTL

-----------------------------------------------------------------------------
(* Space in pieces                                                         *)

\* A larger number of pieces of the same size is more.
LEMMA ProductMonotone ==
    ASSUME NEW a \in Nat, NEW d \in Nat, NEW m \in Nat, a <= d
    PROVE  a * m <= d * m
<1>1. d = a + (d - a) /\ d - a \in Nat
  OBVIOUS
<1>2. d * m = a * m + (d - a) * m /\ (d - a) * m \in Nat
  BY <1>1
<1> QED BY <1>2

\* When there is no hole for size blocks, every free block is less than size
\* behind the disk's first block or the end of a file.
LEMMA ShortPieces ==
    ASSUME Contiguous!DiskAssumption, RunsInv, ~c_leaked, NEW size \in Nat \ {0},
           Contiguous!Holes(c_allocated, size) = {}
    PROVE  Cardinality({b \in Contiguous!Blocks : ~c_allocated[b]})
             <= (Cardinality(DOMAIN c_flist) + 1) * (size - 1)
<1> DEFINE B == {b \in Contiguous!Blocks : ~c_allocated[b]}
           D == DOMAIN c_flist
           E == [f \in D |-> c_flist[f].first + c_flist[f].second]
           Ends == {E[f] : f \in D}
           A == Ends \cup {0}
           g == [a \in A |-> a]
           m == size - 1
<1>1. /\ NumBlocks \in Nat \ {0} /\ c_allocated \in [Contiguous!Blocks -> BOOLEAN]
      /\ IsFiniteSet(D) /\ NoneLost(c_allocated, c_flist) /\ Placed(c_allocated, c_flist)
  BY DEF Contiguous!DiskAssumption, RunsInv, Contiguous!TypeOK
<1>2. \A f \in D : /\ c_flist[f].first \in Contiguous!Blocks /\ c_flist[f].second \in 1..NumBlocks
                   /\ \A b \in Contiguous!Run(c_flist[f].first, c_flist[f].second) :
                        b \in Contiguous!Blocks /\ c_allocated[b]
  BY <1>1 DEF Placed, IsEntry
<1>3. \A b \in Contiguous!Blocks : b + size <= NumBlocks =>
        \E k \in Contiguous!Run(b, size) : c_allocated[k]
  BY DEF Contiguous!Holes, Contiguous!isempty
<1>4. \A f \in D : E[f] = c_flist[f].first + c_flist[f].second /\ E[f] \in Int
  BY <1>2 DEF Contiguous!Blocks
<1>5. IsFiniteSet(Ends) /\ Cardinality(Ends) <= Cardinality(D)
  <2>1. E \in Surjection(D, Ends)
    BY DEF Surjection
  <2> HIDE DEF E, Ends, D
  <2> QED BY <1>1, <2>1, FS_Surjection
<1>6. IsFiniteSet(A) /\ Cardinality(A) <= Cardinality(D) + 1
  <2> HIDE DEF Ends, D
  <2>1. /\ IsFiniteSet(Ends \cup {0})
        /\ Cardinality(Ends \cup {0}) = IF 0 \in Ends THEN Cardinality(Ends)
                                        ELSE Cardinality(Ends) + 1
    BY <1>5, FS_AddElement
  <2>2. Cardinality(Ends) \in Nat /\ Cardinality(D) \in Nat
    BY <1>1, <1>5, FS_CardinalityType
  <2> QED BY <1>5, <2>1, <2>2
<1>7. A \subseteq Int /\ g \in [A -> Int] /\ \A a \in A : g[a] = a
  BY <1>4
<1>8. \A b \in B : \E a \in A : b - a \in 0..(m - 1)
  <2>1. SUFFICES ASSUME NEW b \in B PROVE \E a \in A : b - a \in 0..(size - 2)
    OBVIOUS
  <2> DEFINE U == {x \in 0..b : c_allocated[x]}
  <2>2. b \in Nat /\ b < NumBlocks /\ ~c_allocated[b] /\ 0 \in A
    BY <1>1 DEF Contiguous!Blocks
  <2> HIDE DEF A, B
  <2>3. CASE U = {}
    <3>1. b < size - 1
      <4>1. SUFFICES ASSUME b >= size - 1 PROVE FALSE
        BY <2>2
      <4>2. 0 \in Contiguous!Blocks /\ 0 + size <= NumBlocks
        BY <1>1, <2>2, <4>1 DEF Contiguous!Blocks
      <4>3. PICK k \in Contiguous!Run(0, size) : c_allocated[k]
        BY <1>3, <4>2
      <4> QED BY <2>2, <2>3, <4>1, <4>3 DEF Contiguous!Run
    <3> QED BY <2>2, <3>1
  <2>4. CASE U # {}
    <3>1. PICK u \in U : \A x \in U : x <= u
      <4>1. U \subseteq Int /\ b \in Int /\ \A x \in U : x <= b
        BY <2>2
      <4> HIDE DEF U
      <4> QED BY <2>4, <4>1, GreatestInt
    <3>2. u \in Nat /\ u < b /\ c_allocated[u] /\ u \in Contiguous!Blocks
      <4>1. u \in 0..b /\ c_allocated[u]
        OBVIOUS
      <4> QED BY <1>1, <2>2, <4>1 DEF Contiguous!Blocks
    <3>3. \A x \in (u + 1)..b : ~c_allocated[x]
      BY <2>2, <3>1, <3>2
    <3>4. PICK f \in D : u \in Contiguous!Run(c_flist[f].first, c_flist[f].second)
      BY <1>1, <3>2 DEF NoneLost
    \* The block behind u is free, so u is the last one of its file.
    <3>5. u + 1 = E[f]
      <4>1. SUFFICES ASSUME u + 1 # c_flist[f].first + c_flist[f].second PROVE FALSE
        OBVIOUS
      <4>2. u + 1 \in Contiguous!Run(c_flist[f].first, c_flist[f].second)
        BY <1>1, <1>2, <3>2, <3>4, <4>1 DEF Contiguous!Run, Contiguous!Blocks
      <4>3. c_allocated[u + 1]
        BY <1>2, <4>2
      <4> QED BY <2>2, <3>2, <3>3, <4>3
    <3>6. b - (u + 1) < size - 1
      <4>1. SUFFICES ASSUME b - (u + 1) >= size - 1 PROVE FALSE
        BY <2>2, <3>2
      <4>2. u + 1 \in Contiguous!Blocks /\ u + 1 + size <= NumBlocks
        BY <1>1, <2>2, <3>2, <4>1 DEF Contiguous!Blocks
      <4>3. PICK k \in Contiguous!Run(u + 1, size) : c_allocated[k]
        BY <1>3, <4>2
      <4> QED BY <2>2, <3>2, <3>3, <4>1, <4>3 DEF Contiguous!Run
    <3>7. u + 1 \in A
      BY <3>5 DEF A
    <3>8. b - (u + 1) \in 0..(size - 2)
      BY <2>2, <3>2, <3>6
    <3> QED BY <3>7, <3>8
  <2> QED BY <2>3, <2>4
<1>9. Cardinality(B) <= Cardinality(A) * m
  <2>1. B \subseteq Int /\ m \in Nat
    BY <1>1 DEF Contiguous!Blocks
  <2>2. \A b \in B : \E a \in A : b - g[a] \in 0..(m - 1)
    BY <1>7, <1>8
  <2> HIDE DEF A, B, g, m
  <2> QED BY <1>6, <1>7, <2>1, <2>2, CountByAnchor
<1>10. Cardinality(A) * m <= (Cardinality(D) + 1) * m
  <2>1. m \in Nat /\ Cardinality(A) \in Nat /\ Cardinality(D) + 1 \in Nat
    BY <1>1, <1>6, FS_CardinalityType
  <2> HIDE DEF m, A, D
  <2> QED BY <1>6, <2>1, ProductMonotone
<1>11. Cardinality(B) \in Nat
  <2>1. IsFiniteSet(Contiguous!Blocks)
    BY <1>1, FS_Interval DEF Contiguous!Blocks
  <2> QED BY <2>1, FS_Subset, FS_CardinalityType
<1> DEFINE x == Cardinality(A) * m
           y == (Cardinality(D) + 1) * m
<1>12. x \in Int /\ y \in Int
  BY <1>1, <1>6, FS_CardinalityType
<1> HIDE DEF A, B, D, m
<1> QED BY <1>9, <1>10, <1>11, <1>12 DEF B, D, m

\* The first-fit loop (lines 60-64, 184-188) says "No Contiguous Space" only when
\* the free blocks could all be in pieces that are too short.
THEOREM SpaceIsFragmented ==
    ASSUME Contiguous!DiskAssumption
    PROVE  Contiguous!Spec => []NoSpaceIsFragmented
<1>1. RunsInv /\ RunsOthers => NoSpaceIsFragmented
  BY ShortPieces, ContiguousCounts
  DEF NoSpaceIsFragmented, RunsOthers, SpaceIsShort,
      Contiguous!NoSpaceIsFragmented
<1> QED BY <1>1, ContiguousInvariance, PTL

-----------------------------------------------------------------------------
(* The store                                                               *)

\* The store adds up lengths as this module does.
LEMMA RunsStoreSums ==
    \A h, S : Contiguous!Store!SumFunctionOnSet(h, S) = SumFunctionOnSet(h, S)
  BY DEF Contiguous!Store!SumFunctionOnSet, Contiguous!Store!FoldFunctionOnSet,
         Contiguous!Store!MapThenFoldSet,
         SumFunctionOnSet, FoldFunctionOnSet, MapThenFoldSet

\* What the store holds.
runTexts == [f \in DOMAIN c_flist |-> Contiguous!Contents(f)]

\* A file's text is as long as its run.
LEMMA ContentsLength ==
    ASSUME Contiguous!DiskAssumption, RunsInv, NEW f \in DOMAIN c_flist
    PROVE  Len(Contiguous!Contents(f)) = c_flist[f].second /\ c_flist[f].second \in Nat
<1>1. c_flist[f].second \in Nat
  BY DEF Contiguous!DiskAssumption, RunsInv, Contiguous!TypeOK
<1> QED BY <1>1 DEF Contiguous!Contents

\* The runs of all files fit on the disk.
LEMMA RunsFit ==
    ASSUME Contiguous!DiskAssumption, NEW taken, NEW list, IsFiniteSet(DOMAIN list),
           Placed(taken, list)
    PROVE  SumFunctionOnSet([f \in DOMAIN list |-> list[f].second], DOMAIN list) <= NumBlocks
<1> DEFINE D == DOMAIN list
           h == [f \in D |-> list[f].second]
           E == [f \in D |-> Contiguous!Run(list[f].first, list[f].second)]
           U == UNION {E[f] : f \in D}
<1>1. /\ IsFiniteSet(D) /\ NumBlocks \in Nat \ {0} /\ Placed(taken, list)
  BY DEF Contiguous!DiskAssumption
<1>2. ASSUME NEW f \in D
      PROVE  IsFiniteSet(E[f]) /\ h[f] = Cardinality(E[f]) /\ E[f] \subseteq Contiguous!Blocks
  <2> DEFINE a == list[f].first
             n == list[f].second
             last == a + n - 1
  <2>1. a \in Int /\ n \in Nat \ {0} /\ Contiguous!Run(a, n) \subseteq Contiguous!Blocks
    BY <1>1 DEF Placed, IsEntry, Contiguous!Blocks
  <2>2. E[f] = a..last /\ h[f] = n
    BY DEF Contiguous!Run
  <2>3. last \in Int /\ ~(a > last) /\ last - a + 1 = n
    BY <2>1
  <2> HIDE DEF a, n, last, E, h
  <2>4. IsFiniteSet(a..last) /\ Cardinality(a..last) = IF a > last THEN 0 ELSE last - a + 1
    BY <2>1, <2>3, FS_Interval
  <2>5. E[f] \subseteq Contiguous!Blocks
    BY <2>1, <2>2 DEF last, Contiguous!Run
  <2> QED BY <2>1, <2>2, <2>3, <2>4, <2>5
<1>3. \A f, k \in D : f # k => E[f] \cap E[k] = {}
  BY <1>1 DEF Placed
<1>4. U \subseteq Contiguous!Blocks
  BY <1>2
<1> HIDE DEF h, E, D
<1>5. IsFiniteSet(U) /\ SumFunctionOnSet(h, D) = Cardinality(U)
  <2>1. IsFiniteSet(D)
    BY <1>1
  <2>2. Sizes(D, E, h)
    BY <1>2, <1>3 DEF Sizes
  <2>3. U = Together(D, E)
    BY DEF Together
  <2> HIDE DEF U
  <2> QED BY <2>1, <2>2, <2>3, SumOfSizes
<1>6. IsFiniteSet(Contiguous!Blocks) /\ Cardinality(Contiguous!Blocks) = NumBlocks
  <2> DEFINE last == NumBlocks - 1
  <2>1. last \in Int /\ 0 \in Int /\ ~(0 > last)
    BY <1>1
  <2> HIDE DEF last
  <2>2. IsFiniteSet(0..last) /\ Cardinality(0..last) = IF 0 > last THEN 0 ELSE last - 0 + 1
    BY <2>1, FS_Interval
  <2> QED BY <1>1, <2>1, <2>2 DEF Contiguous!Blocks, last
<1>7. Cardinality(U) <= NumBlocks
  BY <1>4, <1>6, FS_Subset
<1> QED BY <1>5, <1>7 DEF h, D

\* A text that was stored fits next to the others.
LEMMA StoredFits ==
    ASSUME Contiguous!DiskAssumption, RunsInv, RunsInv', NEW f \in Files,
           NEW text \in ContiguousTexts,
           Stored(f, text), OthersKept(f)
    PROVE  Contiguous!Store!Fits(f, text)
<1> DEFINE D == DOMAIN c_flist
           R == D \ {f}
           h == [g \in DOMAIN c_flist' |-> c_flist'[g].second]
           l == [g \in R |-> Len(runTexts[g])]
<1>1. /\ DOMAIN c_flist' = D \cup {f} /\ h[f] = Len(text)
      /\ \A g \in R : g \in D /\ h[g] = c_flist[g].second
  BY DEF Stored, OthersKept
<1>2. IsFiniteSet(D) /\ IsFiniteSet(D \cup {f}) /\ IsFiniteSet(R)
  BY FS_AddElement, FS_Subset DEF RunsInv
<1>3. \A g \in R : l[g] = c_flist[g].second /\ c_flist[g].second \in Int
  BY ContentsLength DEF runTexts
<1>4. \A g \in D \cup {f} : h[g] \in Int
  BY <1>1, <1>3, WordTyped
<1>5. SumFunctionOnSet(h, D \cup {f}) <= NumBlocks
  <2> DEFINE taken == c_allocated'
             list == c_flist'
  <2>1. IsFiniteSet(DOMAIN list) /\ Placed(taken, list)
    BY DEF RunsInv
  <2>2. DOMAIN list = D \cup {f} /\ h = [g \in DOMAIN list |-> list[g].second]
    BY <1>1
  <2> HIDE DEF taken, list, h, D
  <2>3. SumFunctionOnSet([g \in DOMAIN list |-> list[g].second], DOMAIN list) <= NumBlocks
    BY <2>1, RunsFit
  <2> QED BY <2>2, <2>3
<1> HIDE DEF h
<1>6. SumFunctionOnSet(h, D \cup {f}) = h[f] + SumFunctionOnSet(h, R)
  <2>1. (D \cup {f}) \ {f} = R
    OBVIOUS
  <2> HIDE DEF D, R
  <2> QED BY <1>2, <1>4, <2>1, SumRemove
<1>7. SumFunctionOnSet(h, R) = SumFunctionOnSet(l, R)
  <2> HIDE DEF D, R, l
  <2> QED BY <1>1, <1>2, <1>3, SumSame
<1>8. Contiguous!Store!Used(Contiguous!Store!Without(runTexts, f)) = SumFunctionOnSet(l, R)
  <2> DEFINE rest == Contiguous!Store!Without(runTexts, f)
  <2>1. DOMAIN rest = R /\ \A g \in R : rest[g] = runTexts[g]
    BY DEF Contiguous!Store!Without, runTexts
  <2>2. Contiguous!Store!Used(rest) = Contiguous!Store!SumFunctionOnSet(
          [g \in DOMAIN rest |-> Len(rest[g])], DOMAIN rest)
    BY DEF Contiguous!Store!Used
  <2> HIDE DEF rest
  <2>3. [g \in DOMAIN rest |-> Len(rest[g])] = l
    BY <2>1
  <2> QED BY <2>1, <2>2, <2>3, RunsStoreSums DEF rest
<1>9. SumFunctionOnSet(l, R) \in Int /\ Len(text) \in Int /\ NumBlocks \in Int
  <2>1. SumFunctionOnSet(l, R) \in Int
    <3> HIDE DEF l, R, D
    <3> QED BY <1>2, <1>3, SumInt
  <2> QED BY <2>1, WordTyped DEF Contiguous!DiskAssumption
<1>10. SumFunctionOnSet(l, R) + Len(text) <= NumBlocks
  BY <1>1, <1>5, <1>6, <1>7, <1>9
<1> QED BY <1>8, <1>10 DEF Contiguous!Store!Fits, runTexts

\* The blocks of a file that was not touched hold its text.
LEMMA KeptText ==
    ASSUME Contiguous!DiskAssumption, RunsInv, NEW g \in DOMAIN c_flist, c_flist'[g] = c_flist[g],
           \A b \in Contiguous!Extent(g) : c_val'[b] = c_val[b]
    PROVE  Contiguous!Contents(g)' = Contiguous!Contents(g)
<1> DEFINE a == c_flist[g].first
           n == c_flist[g].second
<1>1. a \in Int /\ n \in Nat
  BY DEF Contiguous!DiskAssumption, RunsInv, Contiguous!TypeOK, Contiguous!Blocks
<1>2. \A k \in 1..n : c_val'[a + k - 1] = c_val[a + k - 1]
  BY <1>1 DEF Contiguous!Extent, Contiguous!Run
<1>3. Contiguous!Contents(g)' = [k \in 1..n |-> c_val'[a + k - 1]]
  BY DEF Contiguous!Contents
<1>4. Contiguous!Contents(g) = [k \in 1..n |-> c_val[a + k - 1]]
  BY DEF Contiguous!Contents
<1> HIDE DEF a, n
<1> QED BY <1>2, <1>3, <1>4

\* Every command is a command of the store, or changes nothing there.
LEMMA RunsStoreStep ==
    ASSUME Contiguous!DiskAssumption, RunsInv, RunsInv', [Contiguous!Next]_(Contiguous!vars)
    PROVE  [Contiguous!Store!Next]_(runTexts)
<1>1. CASE UNCHANGED Contiguous!vars
  BY <1>1 DEF Contiguous!vars, runTexts, Contiguous!Contents
<1>2. CASE Contiguous!Next
  <2>1. CASE DiskKept
    BY <2>1 DEF DiskKept, runTexts, Contiguous!Contents
  <2>2. ASSUME NEW f \in Files, OthersKept(f)
        PROVE  \A g \in DOMAIN c_flist \ {f} : Contiguous!Contents(g)' = Contiguous!Contents(g)
    BY <2>2, KeptText DEF OthersKept
  <2>3. ASSUME NEW f \in Files, OthersKept(f), Gone(f)
        PROVE  Contiguous!Store!Next
    <3>1. runTexts' = [g \in DOMAIN c_flist' |-> Contiguous!Contents(g)']
      BY DEF runTexts
    <3>2. DOMAIN c_flist' = DOMAIN c_flist \ {f}
      BY <2>3 DEF Gone
    <3>3. runTexts' = [g \in DOMAIN c_flist \ {f} |-> Contiguous!Contents(g)]
      BY <2>2, <2>3, <3>1, <3>2
    <3>4. runTexts' = Contiguous!Store!Without(runTexts, f)
      BY <3>3 DEF Contiguous!Store!Without, runTexts
    <3> QED BY <3>4 DEF Contiguous!Store!Next, Contiguous!Store!Delete, runTexts
  <2>4. ASSUME NEW f \in Files, OthersKept(f), NEW text \in ContiguousTexts, Stored(f, text)
        PROVE  Contiguous!Store!Next
    <3>1. runTexts' = [g \in DOMAIN c_flist' |-> Contiguous!Contents(g)']
      BY DEF runTexts
    <3>2. Contiguous!Contents(f)' = text
      <4>1. Contiguous!Contents(f)' = [k \in 1..c_flist'[f].second |->
              c_val'[c_flist'[f].first + k - 1]]
        BY DEF Contiguous!Contents
      <4>2. Contiguous!Contents(f)' = [k \in 1..Len(text) |-> text[k]]
        BY <2>4, <4>1 DEF Stored
      <4> QED BY <4>2, WordTyped
    <3>3. DOMAIN c_flist' = DOMAIN c_flist \cup {f}
      BY <2>4 DEF Stored
    <3>4. runTexts' = Contiguous!Store!With(runTexts, f, text)
      <4>1. \A g \in DOMAIN c_flist \cup {f} :
              Contiguous!Contents(g)' = IF g = f THEN text ELSE runTexts[g]
        BY <2>2, <2>4, <3>2 DEF runTexts
      <4> QED BY <3>1, <3>3, <4>1 DEF Contiguous!Store!With, runTexts
    <3>5. Contiguous!Store!Fits(f, text)
      BY <2>4, StoredFits
    <3> QED BY <3>4, <3>5
               DEF Contiguous!Store!Next, Contiguous!Store!Write, Contiguous!Store!Holds,
                   runTexts
  <2>5. CASE \E f \in Files : /\ OthersKept(f) /\ SoundAfter
                              /\ Gone(f) \/ \E text \in ContiguousTexts : Stored(f, text)
    BY <2>3, <2>4, <2>5
  <2> QED BY <1>2, <2>1, <2>5, CommandEffect
<1> QED BY <1>1, <1>2

\* What contiguous.cpp reads of a file (lines 109-125) is what was last written to
\* it, whatever was done to the others in between.
THEOREM ContiguousIsStore ==
    ASSUME Contiguous!DiskAssumption
    PROVE  Contiguous!Spec => Contiguous!ImplementsStore
<1>1. Contiguous!Init => Contiguous!Store!Init
  BY DEF Contiguous!Init, Contiguous!Store!Init
<1>2. RunsInv /\ RunsInv' /\ [Contiguous!Next]_(Contiguous!vars) =>
        [Contiguous!Store!Next]_(runTexts)
  BY RunsStoreStep
<1> QED BY <1>1, <1>2, ContiguousInvariance, PTL
           DEF Contiguous!Spec, Contiguous!ImplementsStore, Contiguous!Store!Spec, runTexts

-----------------------------------------------------------------------------
(* modified_contiguous.cpp                                                 *)

\* It has the disk of this module.
LEMMA ModifiedDisk ==
    /\ Modified!Blocks = Blocks
    /\ \A s : Modified!BlocksOf(s) = BlocksOf(s)
    /\ \A map, f, value : Modified!With(map, f, value) = With(map, f, value)
    /\ \A map, f : Modified!Without(map, f) = Without(map, f)
    /\ \A S : Modified!Cardinality(S) = Cardinality(S)
    /\ \A available, n : Modified!LowestFree(available, n) = LowestFree(available, n)
<1>1. \A S : Modified!Cardinality(S) = Cardinality(S)
  BY DEF Modified!Cardinality, Modified!IsFiniteSet, Cardinality, IsFiniteSet
<1>2. Modified!Blocks = Blocks
  BY DEF Modified!Blocks, Blocks
<1>3. \A s : Modified!BlocksOf(s) = BlocksOf(s)
  BY DEF Modified!BlocksOf, BlocksOf
<1>4. \A map, f, value : Modified!With(map, f, value) = With(map, f, value)
  BY DEF Modified!With, With
<1>5. \A map, f : Modified!Without(map, f) = Without(map, f)
  BY DEF Modified!Without, Without
<1>6. \A available, n : Modified!LowestFree(available, n) = LowestFree(available, n)
  BY DEF Modified!LowestFree, LowestFree, Modified!Blocks, Blocks,
         Modified!Cardinality, Cardinality, Modified!IsFiniteSet, IsFiniteSet
<1> QED BY <1>1, <1>2, <1>3, <1>4, <1>5, <1>6

\* What main takes for granted.
Given == DiskAssumption /\ Modified!DiskAssumption /\ Modified!ConAssumption

\* Nothing, or the path from start.
RestFrom(t, ptr, start) == IF start = Linked!NoBlock THEN t = <<>> ELSE IsPath(t, ptr, start)

\* A walk from nowhere stays there.
LEMMA WalkNowhere ==
    ASSUME DiskAssumption, NEW ptr
    PROVE  LET at == WalkIn(ptr, Linked!NoBlock)
           IN  at[NumBlocks] = Linked!NoBlock /\ ChainIn(at) = <<>>
<1> DEFINE end == Linked!NoBlock
           w == [k \in 0..NumBlocks |-> end]
<1>1. NumBlocks \in Nat \ {0}
  BY DEF DiskAssumption
<1> HIDE DEF end
<1>2. ASSUME NEW k \in 0..NumBlocks, NEW at, k # 0 => at[k - 1] = end
      PROVE  Round(at, k, ptr, end) = end
  BY <1>2 DEF Round, end
<1>3. IsWalk(w, ptr, end)
  <2>1. ASSUME NEW k \in 0..NumBlocks PROVE Round(w, k, ptr, end) = end
    <3>1. k # 0 => k - 1 \in 0..NumBlocks
      BY <1>1
    <3> QED BY <1>2, <3>1
  <2> QED BY <2>1 DEF IsWalk
<1>4. ASSUME NEW at, IsWalk(at, ptr, end) PROVE at = w
  <2>1. /\ at = [k \in 0..NumBlocks |-> at[k]]
        /\ \A k \in 0..NumBlocks : at[k] = Round(at, k, ptr, end)
    BY <1>4 DEF IsWalk
  <2> DEFINE T == {k \in 0..NumBlocks : at[k] # end}
  <2>2. T = {}
    <3>1. SUFFICES ASSUME T # {} PROVE FALSE
      OBVIOUS
    <3>2. T \subseteq Nat
      BY <1>1
    <3>3. PICK k \in T : \A j \in T : k <= j
      <4> HIDE DEF T
      <4> QED BY <3>1, <3>2, LeastNat
    <3>4. k # 0 => at[k - 1] = end
      <4>1. ASSUME k # 0 PROVE k - 1 \in 0..NumBlocks /\ ~(k <= k - 1)
        BY <1>1, <4>1
      <4> QED BY <3>3, <4>1
    <3> QED BY <1>2, <2>1, <3>4
  <2> QED BY <2>1, <2>2
<1>5. WalkIn(ptr, end) = w
  <2> HIDE DEF w
  <2> QED BY <1>3, <1>4 DEF WalkIn
<1>6. {j \in 0..(NumBlocks - 1) : w[j] # end} = {} /\ w[NumBlocks] = end
  BY <1>1
<1> HIDE DEF w
<1>7. ChainIn(w) = <<>>
  <2>1. {j \in 0..(NumBlocks - 1) : w[j] # Linked!NoBlock} = {} /\ Cardinality({}) = 0
    BY <1>6, FS_EmptySet DEF end
  <2>2. ChainIn(w) = [k \in 1..0 |-> w[k - 1]]
    BY <2>1 DEF ChainIn
  <2> QED BY <2>2
<1> QED BY <1>5, <1>6, <1>7 DEF end

\* The chain of a file, when the pointers after its consecutive part are a
\* tail.
LEMMA TailWalk ==
    ASSUME DiskAssumption, NEW t, NEW ptr, NEW start, RestFrom(t, ptr, start)
    PROVE  LET at == WalkIn(ptr, start)
           IN  at[NumBlocks] = Linked!NoBlock /\ ChainIn(at) = t
<1>1. CASE start = Linked!NoBlock
  BY <1>1, WalkNowhere DEF RestFrom
<1>2. CASE start # Linked!NoBlock
  BY <1>2, WalkAlong DEF RestFrom
<1> QED BY <1>1, <1>2

\* The program follows the pointers this way (lines 151-156, 195-201).
LEMMA ModifiedWalk ==
    ASSUME DiskAssumption, NEW f
    PROVE  LET last == m_flist[f].first + ConSize - 1
               at == WalkIn(next, next[last])
           IN  /\ Modified!Hop(f) = at
               /\ at[NumBlocks] = Linked!NoBlock => Modified!Chain(f) = ChainIn(at)
<1>1. NumBlocks \in Nat
  BY DEF DiskAssumption
<1> DEFINE at == WalkIn(next, next[m_flist[f].first + ConSize - 1])
<1>2. Modified!Hop(f) = at
  BY DEF Modified!Hop, Modified!LastCon, Modified!End, WalkIn, IsWalk, Round, Linked!NoBlock
<1>3. ASSUME at[NumBlocks] = Linked!NoBlock PROVE Modified!Chain(f) = ChainIn(at)
  <2>1. Modified!Chain(f) =
          [k \in 1..Modified!Cardinality({n \in 0..NumBlocks : at[n] # Modified!End}) |-> at[k - 1]]
    BY <1>2 DEF Modified!Chain
  <2> HIDE DEF at
  <2>2. {n \in 0..NumBlocks : at[n] # Modified!End} =
          {j \in 0..(NumBlocks - 1) : at[j] # Linked!NoBlock}
    BY <1>1, <1>3 DEF Modified!End, Linked!NoBlock
  <2> QED BY <2>1, <2>2, ModifiedDisk DEF ChainIn
<1> QED BY <1>2, <1>3

\* A path that may meet the blocks of another one, when only the pointers of
\* these are changed, leads on along that one: it still ends.
LEMMA PathRejoins ==
    ASSUME NEW t, NEW ptr, NEW start, IsPath(t, ptr, start),
           NEW s, NEW now, IsPath(s, now, s[1]),
           \A b \in Blocks \ BlocksOf(s) : now[b] = ptr[b]
    PROVE  \E u : IsPath(u, now, start)
<1>1. /\ Proper(t) /\ t \in Seq(Blocks) /\ Len(t) \in Nat \ {0} /\ DOMAIN t = 1..Len(t)
      /\ \A j, k \in 1..Len(t) : t[j] = t[k] => j = k
      /\ t[1] = start /\ \A k \in 1..(Len(t) - 1) : ptr[t[k]] = t[k + 1]
  BY DEF IsPath, Proper
<1>2. /\ Proper(s) /\ s \in Seq(Blocks) /\ Len(s) \in Nat \ {0} /\ DOMAIN s = 1..Len(s)
      /\ \A j, k \in 1..Len(s) : s[j] = s[k] => j = k
      /\ \A k \in 1..(Len(s) - 1) : now[s[k]] = s[k + 1]
      /\ now[s[Len(s)]] = Linked!NoBlock
  BY DEF IsPath, Proper
<1> DEFINE n == Len(t)
           m == Len(s)
           T == {k \in 1..n : t[k] \in BlocksOf(s)}
<1>3. CASE T = {}
  <2>1. \A b \in BlocksOf(t) : b \in Blocks \ BlocksOf(s)
    BY <1>1, <1>3 DEF BlocksOf
  <2> QED BY <2>1, PathKept
<1>4. CASE T # {}
  <2>1. T \subseteq Nat
    BY <1>1
  <2>2. PICK k \in T : \A j \in T : k <= j
    <3> HIDE DEF T
    <3> QED BY <1>4, <2>1, LeastNat
  <2>3. k \in 1..n /\ \A j \in 1..(k - 1) : t[j] \in Blocks /\ t[j] \notin BlocksOf(s)
    <3>1. ASSUME NEW j \in 1..(k - 1) PROVE j \in 1..n /\ ~(k <= j)
      BY <1>1
    <3> QED BY <1>1, <2>2, <3>1
  <2>4. PICK i \in 1..m : s[i] = t[k]
    BY <1>2 DEF BlocksOf
  <2> DEFINE size == k - 1 + (m - i + 1)
             u == [j \in 1..size |-> IF j < k THEN t[j] ELSE s[i + j - k]]
  <2> HIDE DEF n, m, T
  <2>5. n \in Nat \ {0} /\ m \in Nat \ {0} /\ k \in 1..n /\ i \in 1..m /\ size \in Nat /\ k <= size
    BY <1>1, <1>2, <2>3 DEF n, m
  <2>6. \A j \in 1..size : j >= k => i + j - k \in 1..m
    BY <2>5
  <2>7. \A j \in 1..size : j < k => j \in 1..n /\ j \in 1..(k - 1)
    BY <2>5
  <2>8. u \in Seq(Blocks) /\ Len(u) = size /\ DOMAIN u = 1..size
    <3>1. ASSUME NEW j \in 1..size PROVE u[j] \in Blocks
      <4>1. CASE j < k
        <5>1. u[j] = t[j] /\ j \in 1..n
          BY <2>7, <4>1
        <5> QED BY <1>1, <5>1 DEF n
      <4>2. CASE ~(j < k)
        <5>1. u[j] = s[i + j - k] /\ i + j - k \in 1..m
          BY <2>5, <2>6, <4>2
        <5> QED BY <1>2, <5>1 DEF m
      <4> QED BY <4>1, <4>2
    <3> QED BY <2>5, <3>1
  <2>9. \A j \in 1..size : u[j] = IF j < k THEN t[j] ELSE s[i + j - k]
    OBVIOUS
  <2> HIDE DEF u, size
  <2>10. \A j, l \in 1..size : u[j] = u[l] => j = l
    <3>1. SUFFICES ASSUME NEW j \in 1..size, NEW l \in 1..size, u[j] = u[l] PROVE j = l
      OBVIOUS
    <3>2. CASE j < k /\ l < k
      BY <1>1, <2>7, <2>9, <3>1, <3>2 DEF n
    <3>3. CASE ~(j < k) /\ ~(l < k)
      <4>1. i + j - k \in 1..m /\ i + l - k \in 1..m /\ s[i + j - k] = s[i + l - k]
        BY <2>5, <2>6, <2>9, <3>1, <3>3
      <4>2. i + j - k = i + l - k
        BY <1>2, <4>1 DEF m
      <4> QED BY <2>5, <4>2
    <3>4. ASSUME NEW x \in 1..size, NEW y \in 1..size, x < k, ~(y < k) PROVE u[x] # u[y]
      <4>1. t[x] \notin BlocksOf(s) /\ u[x] = t[x]
        BY <2>3, <2>7, <2>9, <3>4
      <4>2. u[y] = s[i + y - k] /\ i + y - k \in 1..m
        BY <2>5, <2>6, <2>9, <3>4
      <4>3. u[y] \in BlocksOf(s)
        BY <1>2, <4>2 DEF BlocksOf, m
      <4> QED BY <4>1, <4>3
    <3> QED BY <3>1, <3>2, <3>3, <3>4
  <2>11. u[1] = start
    <3>1. CASE 1 < k
      BY <1>1, <2>5, <2>9, <3>1
    <3>2. CASE k = 1
      <4>1. u[1] = s[i + 1 - 1] /\ i + 1 - 1 = i
        BY <2>5, <2>9, <3>2
      <4> QED BY <1>1, <2>4, <3>2, <4>1
    <3> QED BY <2>5, <3>1, <3>2
  <2>12. ASSUME NEW j \in 1..(size - 1) PROVE now[u[j]] = u[j + 1]
    <3>1. j \in 1..size /\ j + 1 \in 1..size /\ j \in Int
      BY <2>5
    <3>2. CASE j + 1 < k
      <4>1. u[j] = t[j] /\ u[j + 1] = t[j + 1] /\ j \in 1..(k - 1) /\ j \in 1..(n - 1)
        BY <2>5, <2>9, <3>1, <3>2
      <4> QED BY <1>1, <2>3, <4>1 DEF n
    <3>3. CASE j + 1 = k
      <4>1. u[j] = t[j] /\ j \in 1..(k - 1) /\ j \in 1..(n - 1)
        BY <2>5, <2>9, <3>1, <3>3
      <4>2. now[t[j]] = t[k]
        BY <1>1, <2>3, <3>3, <4>1 DEF n
      <4>3. u[j + 1] = s[i + k - k] /\ i + k - k = i
        BY <2>5, <2>9, <3>1, <3>3
      <4> QED BY <2>4, <4>1, <4>2, <4>3
    <3>4. CASE j >= k
      <4>1. u[j] = s[i + j - k] /\ u[j + 1] = s[i + (j + 1) - k]
        BY <2>5, <2>9, <3>1, <3>4
      <4>2. i + j - k \in 1..(m - 1) /\ i + (j + 1) - k = (i + j - k) + 1
        BY <2>5, <3>4 DEF size
      <4> QED BY <1>2, <4>1, <4>2 DEF m
    <3> QED BY <2>5, <3>1, <3>2, <3>3, <3>4
  <2>13. now[u[size]] = Linked!NoBlock
    <3>1. size \in 1..size /\ ~(size < k) /\ i + size - k = m
      BY <2>5 DEF size
    <3>2. u[size] = s[m]
      BY <2>9, <3>1
    <3> QED BY <1>2, <3>2 DEF m
  <2>14. IsPath(u, now, start)
    BY <2>5, <2>8, <2>10, <2>11, <2>12, <2>13 DEF IsPath, Proper
  <2> QED BY <2>14
<1> QED BY <1>3, <1>4

\* So does every tail.
LEMMA TailRejoins ==
    ASSUME NEW t, NEW ptr, NEW start, RestFrom(t, ptr, start),
           NEW s, NEW now, IsPath(s, now, s[1]),
           \A b \in Blocks \ BlocksOf(s) : now[b] = ptr[b]
    PROVE  \E u : RestFrom(u, now, start)
<1>1. CASE start = Linked!NoBlock
  BY <1>1 DEF RestFrom
<1>2. CASE start # Linked!NoBlock
  <2>1. IsPath(t, ptr, start)
    BY <1>2 DEF RestFrom
  <2>2. \E u : IsPath(u, now, start)
    BY <2>1, PathRejoins
  <2> QED BY <1>2, <2>2 DEF RestFrom
<1> QED BY <1>1, <1>2

\* The consecutive part that starts at a block,
ConOf(first) == first..(first + ConSize - 1)
ConSeq(first) == [k \in 1..ConSize |-> first + k - 1]

\* and all the blocks of a file with the chain t, in their order.
Whole(e, t) == ConSeq(e.first) \o (IF e.second > ConSize THEN t ELSE <<>>)
Wholes(list, rests) == [f \in DOMAIN list |-> Whole(list[f], rests[f])]

\* The entry of a file, and the chain that hangs on its consecutive part.  A
\* short file may still have one, of blocks that are no longer its own.
Fit(e, ptr, t) ==
    /\ e \in [first : Blocks, second : Nat] /\ e.first + ConSize - 1 \in Blocks
    /\ e.second >= ConSize
    /\ RestFrom(t, ptr, ptr[e.first + ConSize - 1])
    /\ e.second > ConSize => /\ Proper(t) /\ Len(t) = e.second - ConSize
                             /\ BlocksOf(t) \cap ConOf(e.first) = {}

\* The files of the list lie apart in blocks that are taken, and no other block
\* is unless one is lost.
Laid(list, ptr, taken, lose, rests) ==
    /\ IsFiniteSet(DOMAIN list) /\ DOMAIN rests = DOMAIN list
    /\ taken \in [Blocks -> BOOLEAN]
    /\ \A f \in DOMAIN list : Fit(list[f], ptr, rests[f])
    /\ Apart(Wholes(list, rests))
    /\ \A f \in DOMAIN list : \A b \in BlocksOf(Wholes(list, rests)[f]) : taken[b]
    /\ ~lose => \A b \in Blocks : taken[b] => b \in InUse(Wholes(list, rests))

\* The consecutive part, followed by blocks that are not in it.
LEMMA Joined ==
    ASSUME Given, NEW first \in Blocks, first + ConSize - 1 \in Blocks,
           NEW t, Proper(t), BlocksOf(t) \cap ConOf(first) = {}
    PROVE  LET s == ConSeq(first) \o t
           IN  /\ Proper(s) /\ Len(s) = ConSize + Len(t) /\ DOMAIN s = 1..Len(s)
               /\ BlocksOf(s) = ConOf(first) \cup BlocksOf(t)
               /\ \A k \in 1..ConSize : s[k] = first + k - 1
               /\ \A k \in 1..Len(t) : s[ConSize + k] = t[k]
<1> DEFINE con == ConSeq(first)
           s == con \o t
<1>1. /\ ConSize \in Nat \ {0} /\ NumBlocks \in Nat /\ first \in Nat
      /\ first + ConSize - 1 < NumBlocks
  BY DEF Given, Modified!ConAssumption, Blocks, DiskAssumption
<1>2. /\ con \in Seq(Blocks) /\ Len(con) = ConSize /\ DOMAIN con = 1..ConSize
      /\ \A k \in 1..ConSize : con[k] = first + k - 1 /\ con[k] \in ConOf(first)
  BY <1>1 DEF ConSeq, ConOf, Blocks
<1>3. t \in Seq(Blocks) /\ Len(t) \in Nat /\ DOMAIN t = 1..Len(t)
  BY DEF Proper
<1> HIDE DEF con
<1>10. /\ s \in Seq(Blocks) /\ Len(s) = ConSize + Len(t)
       /\ \A i \in 1..(ConSize + Len(t)) : s[i] = IF i <= ConSize THEN con[i] ELSE t[i - ConSize]
  <2>1. con \in Seq(Blocks) /\ t \in Seq(Blocks)
    BY <1>2, <1>3
  <2>2. /\ con \o t \in Seq(Blocks) /\ Len(con \o t) = Len(con) + Len(t)
        /\ \A i \in 1..Len(con) + Len(t) :
             (con \o t)[i] = IF i <= Len(con) THEN con[i] ELSE t[i - Len(con)]
    BY <2>1, ConcatProperties
  <2>3. s = con \o t /\ Len(con) = ConSize
    BY <1>2
  <2> HIDE DEF s
  <2> QED BY <2>2, <2>3
<1> HIDE DEF s
<1>4. /\ s \in Seq(Blocks) /\ Len(s) = ConSize + Len(t) /\ DOMAIN s = 1..Len(s)
      /\ \A k \in 1..ConSize : s[k] = con[k]
      /\ \A k \in 1..Len(t) : s[ConSize + k] = t[k]
  <2>1. ASSUME NEW k \in 1..Len(t) PROVE s[ConSize + k] = t[k]
    <3> DEFINE i == ConSize + k
    <3>1. i \in 1..(ConSize + Len(t)) /\ ~(i <= ConSize) /\ i - ConSize = k
      BY <1>1, <1>3
    <3> HIDE DEF i
    <3>2. s[i] = t[k]
      BY <1>10, <3>1
    <3> QED BY <3>2 DEF i
  <2>2. ASSUME NEW k \in 1..ConSize PROVE s[k] = con[k]
    <3>1. k \in 1..(ConSize + Len(t)) /\ k <= ConSize
      BY <1>1, <1>3
    <3> QED BY <1>10, <3>1
  <2> QED BY <1>10, <2>1, <2>2
<1>5. ASSUME NEW k \in 1..Len(s)
      PROVE  \/ k \in 1..ConSize /\ s[k] = first + k - 1
             \/ k - ConSize \in 1..Len(t) /\ s[k] = t[k - ConSize]
  <2>1. CASE k <= ConSize
    BY <1>1, <1>2, <1>4, <2>1
  <2>2. CASE k > ConSize
    <3>1. k - ConSize \in 1..Len(t) /\ ConSize + (k - ConSize) = k
      BY <1>1, <1>3, <1>4, <2>2
    <3> QED BY <1>4, <3>1
  <2> QED BY <1>1, <2>1, <2>2
<1>6. \A k \in 1..Len(t) : t[k] \in BlocksOf(t) /\ t[k] \notin ConOf(first)
  BY <1>3 DEF BlocksOf
<1>7. Proper(s)
  <2>1. SUFFICES ASSUME NEW j \in 1..Len(s), NEW k \in 1..Len(s), s[j] = s[k] PROVE j = k
    BY <1>4 DEF Proper
  <2>2. CASE j \in 1..ConSize /\ k \in 1..ConSize
    BY <1>1, <1>2, <1>4, <2>1, <2>2
  <2>3. CASE j \notin 1..ConSize /\ k \notin 1..ConSize
    <3>1. j - ConSize \in 1..Len(t) /\ k - ConSize \in 1..Len(t)
          /\ t[j - ConSize] = t[k - ConSize]
      BY <1>5, <2>1, <2>3
    <3>2. j - ConSize = k - ConSize
      BY <1>3, <3>1 DEF Proper
    <3> QED BY <1>1, <1>3, <1>4, <3>2
  <2>4. ASSUME NEW x \in 1..ConSize, NEW y \in 1..Len(s), y \notin 1..ConSize
        PROVE  s[x] # s[y]
    BY <1>2, <1>4, <1>5, <1>6, <2>4
  <2> QED BY <2>1, <2>2, <2>3, <2>4
<1>8. BlocksOf(s) = ConOf(first) \cup BlocksOf(t)
  <2>1. ASSUME NEW b \in BlocksOf(s) PROVE b \in ConOf(first) \cup BlocksOf(t)
    <3>1. PICK k \in 1..Len(s) : b = s[k]
      BY <1>4 DEF BlocksOf
    <3> QED BY <1>2, <1>4, <1>5, <1>6, <3>1
  <2>2. ASSUME NEW b \in ConOf(first) PROVE b \in BlocksOf(s)
    <3>1. b - first + 1 \in 1..ConSize /\ first + (b - first + 1) - 1 = b
      BY <1>1 DEF ConOf
    <3>2. b - first + 1 \in 1..Len(s) /\ s[b - first + 1] = b
      BY <1>1, <1>2, <1>3, <1>4, <3>1
    <3> QED BY <1>4, <3>2 DEF BlocksOf
  <2>3. ASSUME NEW b \in BlocksOf(t) PROVE b \in BlocksOf(s)
    <3>1. PICK k \in 1..Len(t) : b = t[k]
      BY <1>3 DEF BlocksOf
    <3>2. ConSize + k \in 1..Len(s) /\ s[ConSize + k] = b
      BY <1>1, <1>3, <1>4, <3>1
    <3> QED BY <1>4, <3>2 DEF BlocksOf
  <2> QED BY <2>1, <2>2, <2>3
<1>9. \A k \in 1..ConSize : s[k] = first + k - 1
  BY <1>2, <1>4
<1> QED BY <1>4, <1>7, <1>8, <1>9 DEF s, con

\* No block at all.
LEMMA NoBlocks == Proper(<<>>) /\ BlocksOf(<<>>) = {} /\ Len(<<>>) = 0
  BY DEF Proper, BlocksOf

\* A file has as many blocks as its length says, none twice.
LEMMA WholeIs ==
    ASSUME Given, NEW e, NEW ptr, NEW t, Fit(e, ptr, t)
    PROVE  /\ Proper(Whole(e, t)) /\ Len(Whole(e, t)) = e.second
           /\ BlocksOf(Whole(e, t)) =
                ConOf(e.first) \cup (IF e.second > ConSize THEN BlocksOf(t) ELSE {})
           /\ e.first + ConSize - 1 \in ConOf(e.first)
<1>1. /\ e.first \in Blocks /\ e.second \in Nat /\ e.first + ConSize - 1 \in Blocks
      /\ e.second >= ConSize /\ ConSize \in Nat \ {0} /\ e.first \in Nat
  BY DEF Given, Modified!ConAssumption, Fit, Blocks, DiskAssumption
<1>2. e.first + ConSize - 1 \in ConOf(e.first)
  BY <1>1 DEF ConOf
<1>3. CASE e.second > ConSize
  <2>1. Proper(t) /\ Len(t) = e.second - ConSize /\ BlocksOf(t) \cap ConOf(e.first) = {}
    BY <1>3 DEF Fit
  <2>2. /\ Proper(ConSeq(e.first) \o t) /\ Len(ConSeq(e.first) \o t) = ConSize + Len(t)
        /\ BlocksOf(ConSeq(e.first) \o t) = ConOf(e.first) \cup BlocksOf(t)
    BY <1>1, <2>1, Joined
  <2>3. Whole(e, t) = ConSeq(e.first) \o t
    BY <1>3 DEF Whole
  <2>4. ConSize + Len(t) = e.second
    BY <1>1, <2>1
  <2> QED BY <1>2, <1>3, <2>2, <2>3, <2>4
<1>4. CASE ~(e.second > ConSize)
  <2> DEFINE none == <<>>
  <2>1. Proper(none) /\ BlocksOf(none) = {} /\ Len(none) = 0
    BY NoBlocks
  <2>2. Whole(e, t) = ConSeq(e.first) \o none
    BY <1>4 DEF Whole
  <2>4. e.second = ConSize + 0
    BY <1>1, <1>4
  <2> HIDE DEF none
  <2>3. /\ Proper(ConSeq(e.first) \o none) /\ Len(ConSeq(e.first) \o none) = ConSize + Len(none)
        /\ BlocksOf(ConSeq(e.first) \o none) = ConOf(e.first) \cup BlocksOf(none)
    <3>1. BlocksOf(none) \cap ConOf(e.first) = {}
      BY <2>1
    <3> QED BY <1>1, <2>1, <3>1, Joined
  <2> QED BY <1>2, <1>4, <2>1, <2>2, <2>3, <2>4
<1> QED BY <1>3, <1>4

\* When a file goes, its blocks may be freed or forgotten.
LEMMA LaidLess ==
    ASSUME Given, NEW list, NEW ptr, NEW taken, NEW lose, NEW rests,
           Laid(list, ptr, taken, lose, rests), NEW f \in DOMAIN list,
           NEW now \in [Blocks -> BOOLEAN], NEW less,
           \A b \in Blocks : b \notin BlocksOf(Whole(list[f], rests[f])) => now[b] = taken[b],
           less \/ \A b \in BlocksOf(Whole(list[f], rests[f])) : ~now[b],
           lose => less
    PROVE  /\ Laid(Without(list, f), ptr, now, less, Without(rests, f))
           /\ Wholes(Without(list, f), Without(rests, f)) = Without(Wholes(list, rests), f)
           /\ f \notin DOMAIN Without(list, f)
<1> DEFINE W == Wholes(list, rests)
           l == Without(list, f)
           r == Without(rests, f)
           V == Wholes(l, r)
<1>1. /\ DOMAIN l = DOMAIN list \ {f} /\ DOMAIN r = DOMAIN l /\ DOMAIN rests = DOMAIN list
      /\ \A g \in DOMAIN l : l[g] = list[g] /\ r[g] = rests[g]
  <2>1. DOMAIN rests = DOMAIN list
    BY DEF Laid
  <2>2. DOMAIN l = DOMAIN list \ {f} /\ \A g \in DOMAIN list \ {f} : l[g] = list[g]
    BY WithoutEntry
  <2>3. DOMAIN r = DOMAIN rests \ {f} /\ \A g \in DOMAIN rests \ {f} : r[g] = rests[g]
    BY WithoutEntry
  <2> HIDE DEF l, r
  <2> QED BY <2>1, <2>2, <2>3
<1>2. DOMAIN W = DOMAIN list /\ \A g \in DOMAIN list : W[g] = Whole(list[g], rests[g])
  BY DEF Wholes
<1>3. DOMAIN V = DOMAIN l /\ \A g \in DOMAIN l : V[g] = Whole(l[g], r[g])
  BY DEF Wholes
<1> HIDE DEF l, r
<1>4. V = Without(W, f)
  BY <1>1, <1>2 DEF Without, Wholes
<1>5. \A g \in DOMAIN l : V[g] = W[g] /\ g \in DOMAIN list /\ g # f
  BY <1>1, <1>2, <1>3
<1> HIDE DEF W, V
<1>6. /\ IsFiniteSet(DOMAIN list) /\ taken \in [Blocks -> BOOLEAN]
      /\ \A g \in DOMAIN list : Fit(list[g], ptr, rests[g])
      /\ Apart(W) /\ \A g \in DOMAIN list : \A b \in BlocksOf(W[g]) : taken[b]
      /\ ~lose => \A b \in Blocks : taken[b] => b \in InUse(W)
  BY DEF Laid, W
<1>7. \A g \in DOMAIN list : BlocksOf(W[g]) \subseteq Blocks
  BY <1>2, <1>6, WholeIs, ProperSize
<1>8. \A g \in DOMAIN l : BlocksOf(V[g]) \cap BlocksOf(W[f]) = {}
  BY <1>2, <1>5, <1>6 DEF Apart
<1>9. \A g \in DOMAIN l : \A b \in BlocksOf(V[g]) : now[b]
  BY <1>2, <1>5, <1>6, <1>7, <1>8
<1>10. Apart(V) /\ IsFiniteSet(DOMAIN l)
  BY <1>1, <1>2, <1>3, <1>5, <1>6, FS_Subset DEF Apart
<1>11. ASSUME ~less, NEW b \in Blocks, now[b] PROVE b \in InUse(V)
  <2>1. b \notin BlocksOf(W[f]) /\ taken[b]
    BY <1>2, <1>11
  <2>2. PICK g \in DOMAIN list : b \in BlocksOf(W[g])
    BY <1>2, <1>6, <1>11, <2>1 DEF InUse
  <2>3. g \in DOMAIN l
    BY <1>1, <2>1, <2>2
  <2> QED BY <1>3, <1>5, <2>2, <2>3 DEF InUse
<1>12. \A g \in DOMAIN l : Fit(l[g], ptr, r[g])
  BY <1>1, <1>6
<1>13. Laid(l, ptr, now, less, r)
  BY <1>1, <1>9, <1>10, <1>11, <1>12 DEF Laid, V
<1> QED BY <1>1, <1>4, <1>13 DEF l, r, V, W

\* A file more, in blocks that were free.
LEMMA LaidMore ==
    ASSUME Given, NEW list, NEW ptr, NEW taken, NEW lose, NEW rests,
           Laid(list, ptr, taken, lose, rests), NEW f, f \notin DOMAIN list,
           NEW e, NEW t, Fit(e, ptr, t),
           \A b \in BlocksOf(Whole(e, t)) : ~taken[b],
           NEW now \in [Blocks -> BOOLEAN],
           \A b \in Blocks : now[b] <=> taken[b] \/ b \in BlocksOf(Whole(e, t))
    PROVE  /\ Laid(With(list, f, e), ptr, now, lose, With(rests, f, t))
           /\ Wholes(With(list, f, e), With(rests, f, t))
                = With(Wholes(list, rests), f, Whole(e, t))
<1> DEFINE W == Wholes(list, rests)
           l == With(list, f, e)
           r == With(rests, f, t)
           V == Wholes(l, r)
           s == Whole(e, t)
<1>1. /\ DOMAIN l = DOMAIN list \cup {f} /\ DOMAIN r = DOMAIN l /\ DOMAIN rests = DOMAIN list
      /\ l[f] = e /\ r[f] = t
      /\ \A g \in DOMAIN list : g # f /\ l[g] = list[g] /\ r[g] = rests[g]
  <2>1. DOMAIN rests = DOMAIN list
    BY DEF Laid
  <2>2. /\ DOMAIN l = DOMAIN list \cup {f} /\ l[f] = e
        /\ \A g \in DOMAIN list : g # f => l[g] = list[g]
    BY DEF With
  <2>3. /\ DOMAIN r = DOMAIN rests \cup {f} /\ r[f] = t
        /\ \A g \in DOMAIN rests : g # f => r[g] = rests[g]
    BY DEF With
  <2> HIDE DEF l, r
  <2> QED BY <2>1, <2>2, <2>3
<1>2. DOMAIN W = DOMAIN list /\ \A g \in DOMAIN list : W[g] = Whole(list[g], rests[g])
  BY DEF Wholes
<1>3. DOMAIN V = DOMAIN l /\ \A g \in DOMAIN l : V[g] = Whole(l[g], r[g])
  BY DEF Wholes
<1> HIDE DEF l, r, s
<1>4. V = With(W, f, s)
  BY <1>1, <1>2 DEF With, Wholes, s
<1>5. V[f] = s /\ \A g \in DOMAIN list : V[g] = W[g]
  BY <1>1, <1>2, <1>3 DEF s
<1> HIDE DEF W, V
<1>6. /\ IsFiniteSet(DOMAIN list) /\ taken \in [Blocks -> BOOLEAN]
      /\ \A g \in DOMAIN list : Fit(list[g], ptr, rests[g])
      /\ Apart(W) /\ \A g \in DOMAIN list : \A b \in BlocksOf(W[g]) : taken[b]
      /\ ~lose => \A b \in Blocks : taken[b] => b \in InUse(W)
  BY DEF Laid, W
<1>7. \A g \in DOMAIN list : BlocksOf(W[g]) \subseteq Blocks
  BY <1>2, <1>6, WholeIs, ProperSize
<1>8. BlocksOf(s) \subseteq Blocks /\ \A b \in BlocksOf(s) : ~taken[b]
  BY WholeIs, ProperSize DEF s
<1>9. \A g \in DOMAIN list : BlocksOf(W[g]) \cap BlocksOf(s) = {}
  BY <1>6, <1>8
<1>10. Apart(V)
  BY <1>1, <1>2, <1>3, <1>5, <1>6, <1>9 DEF Apart
<1>11. \A g \in DOMAIN l : \A b \in BlocksOf(V[g]) : now[b]
  BY <1>1, <1>5, <1>6, <1>7, <1>8 DEF s
<1>12. ASSUME ~lose, NEW b \in Blocks, now[b] PROVE b \in InUse(V)
  <2>1. CASE b \in BlocksOf(s)
    BY <1>1, <1>3, <1>5, <2>1 DEF InUse
  <2>2. CASE b \notin BlocksOf(s)
    <3>1. b \in InUse(W)
      BY <1>6, <1>12, <2>2 DEF s
    <3> QED BY <1>1, <1>2, <1>3, <1>5, <3>1 DEF InUse
  <2> QED BY <2>1, <2>2
<1>13. \A g \in DOMAIN l : Fit(l[g], ptr, r[g])
  BY <1>1, <1>6
<1>14. IsFiniteSet(DOMAIN l)
  BY <1>1, <1>6, FS_AddElement
<1>15. Laid(l, ptr, now, lose, r)
  BY <1>1, <1>10, <1>11, <1>12, <1>13, <1>14 DEF Laid, V
<1> QED BY <1>4, <1>15 DEF l, r, V, W, s

\* When pointers are changed along a path of free blocks only, every file has
\* its blocks still; the pointers that a short file kept may lead elsewhere.
LEMMA Relinked ==
    ASSUME Given, NEW list, NEW ptr, NEW taken, NEW lose, NEW rests,
           Laid(list, ptr, taken, lose, rests),
           NEW s, NEW now, IsPath(s, now, s[1]),
           \A b \in BlocksOf(s) : ~taken[b],
           \A b \in Blocks \ BlocksOf(s) : now[b] = ptr[b]
    PROVE  \E r : Laid(list, now, taken, lose, r) /\ Wholes(list, r) = Wholes(list, rests)
<1> DEFINE Good1(g, u) == Fit(list[g], now, u) /\ Whole(list[g], u) = Whole(list[g], rests[g])
           r == [g \in DOMAIN list |-> CHOOSE u : Good1(g, u)]
<1>1. ASSUME NEW g \in DOMAIN list PROVE \E u : Good1(g, u)
  <2> DEFINE e == list[g]
             t == rests[g]
             last == e.first + ConSize - 1
  <2>1. Fit(e, ptr, t) /\ \A b \in BlocksOf(Whole(e, t)) : taken[b]
    BY DEF Laid, Wholes
  <2>2. /\ last \in BlocksOf(Whole(e, t))
        /\ e.second > ConSize => BlocksOf(t) \subseteq BlocksOf(Whole(e, t))
    <3> HIDE DEF e, t
    <3> QED BY <2>1, WholeIs DEF last
  <2>3. last \in Blocks /\ e \in [first : Blocks, second : Nat] /\ e.second >= ConSize
        /\ RestFrom(t, ptr, ptr[last])
    BY <2>1 DEF Fit
  <2>4. now[last] = ptr[last]
    BY <2>1, <2>2, <2>3
  <2> HIDE DEF e, t, last
  <2>5. CASE e.second > ConSize
    <3>1. /\ Proper(t) /\ Len(t) = e.second - ConSize /\ BlocksOf(t) \cap ConOf(e.first) = {}
      BY <2>1, <2>5 DEF Fit
    <3>2. \A b \in BlocksOf(t) : b \in Blocks \ BlocksOf(s)
      BY <2>1, <2>2, <2>5, <3>1, ProperSize
    <3>3. \A b \in BlocksOf(t) : now[b] = ptr[b]
      BY <3>2
    <3>4. RestFrom(t, now, now[last])
      BY <2>3, <2>4, <3>3, PathKept DEF RestFrom
    <3>5. Fit(e, now, t)
      BY <2>3, <3>1, <3>4, <2>1 DEF Fit, last
    <3> QED BY <3>5 DEF e, t
  <2>6. CASE ~(e.second > ConSize)
    <3>1. PICK u : RestFrom(u, now, ptr[last])
      BY <2>3, TailRejoins
    <3>2. Fit(e, now, u)
      BY <2>1, <2>4, <2>6, <3>1 DEF Fit, last
    <3>3. Whole(e, u) = Whole(e, t)
      BY <2>6 DEF Whole
    <3> QED BY <3>2, <3>3 DEF e, t
  <2> QED BY <2>5, <2>6
<1>2. \A g \in DOMAIN list : Good1(g, r[g])
  BY <1>1
<1>3. DOMAIN r = DOMAIN list
  OBVIOUS
<1> HIDE DEF r
<1>4. Wholes(list, r) = Wholes(list, rests)
  BY <1>2 DEF Wholes
<1>5. Laid(list, now, taken, lose, r)
  BY <1>2, <1>3, <1>4 DEF Laid
<1> QED BY <1>4, <1>5

-----------------------------------------------------------------------------
(* What the program writes                                                 *)

\* The characters of a text go to the blocks of the file in their order (lines
\* 91-116, 281-286, 330-345).
LEMMA FillIsOverwritten ==
    ASSUME Given, NEW first \in Blocks, first + ConSize - 1 \in Blocks, NEW t, Proper(t),
           BlocksOf(t) \cap ConOf(first) = {}, NEW text, Len(text) = ConSize + Len(t)
    PROVE  Modified!FillFrom(first, t, text) = Overwritten(m_val, ConSeq(first) \o t, text)
<1> DEFINE s == ConSeq(first) \o t
           n == ConSize + Len(t)
<1>1. /\ Proper(s) /\ Len(s) = n /\ DOMAIN s = 1..n
      /\ BlocksOf(s) = ConOf(first) \cup BlocksOf(t)
      /\ \A k \in 1..ConSize : s[k] = first + k - 1
      /\ \A k \in 1..Len(t) : s[ConSize + k] = t[k]
  BY Joined
<1>2. DOMAIN t = 1..Len(t) /\ Len(t) \in Nat /\ ConSize \in Nat /\ first \in Nat
  BY DEF Proper, Given, Modified!ConAssumption, Blocks, DiskAssumption
<1>3. \A i, j \in 1..n : s[i] = s[j] => i = j
  BY <1>1 DEF Proper
<1>4. n \in Nat /\ \A k \in 1..Len(t) : ConSize + k \in 1..n
  BY <1>2
<1>5. \A k \in 1..ConSize : k \in 1..n
  BY <1>2
<1> HIDE DEF s, n
<1>6. ASSUME NEW b \in Blocks, NEW i \in 1..n, s[i] = b
      PROVE  (CHOOSE k \in 1..n : s[k] = b) = i
  BY <1>3, <1>6
<1> DEFINE At(b) == IF \E k \in DOMAIN t : t[k] = b
                    THEN text[ConSize + (CHOOSE k \in DOMAIN t : t[k] = b)]
                    ELSE IF b \in ConOf(first) THEN text[b - first + 1] ELSE m_val[b]
           To(b) == IF b \in BlocksOf(s) THEN text[CHOOSE k \in 1..n : s[k] = b] ELSE m_val[b]
<1>7. ASSUME NEW b \in Blocks PROVE At(b) = To(b)
  <2>1. CASE \E k \in DOMAIN t : t[k] = b
    <3> DEFINE k == CHOOSE j \in DOMAIN t : t[j] = b
    <3>1. k \in DOMAIN t /\ t[k] = b
      BY <2>1
    <3> HIDE DEF k
    <3>2. ConSize + k \in 1..n /\ s[ConSize + k] = b
      BY <1>1, <1>2, <1>4, <3>1
    <3>3. (CHOOSE j \in 1..n : s[j] = b) = ConSize + k
      BY <1>6, <3>2
    <3>4. b \in BlocksOf(s)
      BY <1>1, <3>2 DEF BlocksOf
    <3> QED BY <2>1, <3>3, <3>4 DEF k
  <2>2. CASE ~(\E k \in DOMAIN t : t[k] = b) /\ b \in ConOf(first)
    <3>1. b - first + 1 \in 1..ConSize /\ first + (b - first + 1) - 1 = b
      BY <1>2, <2>2 DEF ConOf
    <3>2. b - first + 1 \in 1..n /\ s[b - first + 1] = b
      BY <1>1, <1>5, <3>1
    <3>3. (CHOOSE j \in 1..n : s[j] = b) = b - first + 1
      BY <1>6, <3>2
    <3>4. b \in BlocksOf(s)
      BY <1>1, <2>2
    <3> QED BY <2>2, <3>3, <3>4
  <2>3. CASE ~(\E k \in DOMAIN t : t[k] = b) /\ b \notin ConOf(first)
    <3>1. b \notin BlocksOf(t)
      BY <2>3 DEF BlocksOf
    <3> QED BY <1>1, <2>3, <3>1
  <2> QED BY <2>1, <2>2, <2>3
<1>8. Modified!FillFrom(first, t, text) = [b \in Blocks |-> At(b)]
  BY ModifiedDisk DEF Modified!FillFrom, ConOf
<1>9. Overwritten(m_val, s, text) = [b \in Blocks |-> To(b)]
  BY DEF Overwritten, n
<1> HIDE DEF At, To
<1> QED BY <1>7, <1>8, <1>9 DEF s

\* The pointers lead from the last consecutive block along the chain and end
\* there; the others stay as they are (lines 110-117).
LEMMA LinkIsPath ==
    ASSUME Given, NEW first \in Blocks, first + ConSize - 1 \in Blocks, NEW t, Proper(t),
           BlocksOf(t) \cap ConOf(first) = {}
    PROVE  LET last == first + ConSize - 1
               s == <<last>> \o t
               now == Modified!LinkFrom(first, t)
           IN  /\ IsPath(s, now, s[1]) /\ BlocksOf(s) = {last} \cup BlocksOf(t)
               /\ \A b \in Blocks \ BlocksOf(s) : now[b] = next[b]
               /\ RestFrom(t, now, now[last])
<1> DEFINE last == first + ConSize - 1
           s == <<last>> \o t
           now == Modified!LinkFrom(first, t)
           end == Linked!NoBlock
<1>1. DOMAIN t = 1..Len(t) /\ Len(t) \in Nat /\ t \in Seq(Blocks)
      /\ \A j, k \in 1..Len(t) : t[j] = t[k] => j = k
  BY DEF Proper
<1>2. last \in Blocks /\ last \in ConOf(first) /\ last \notin BlocksOf(t)
  <2>1. last \in ConOf(first)
    BY DEF ConOf, Blocks, Given, Modified!ConAssumption, DiskAssumption
  <2> QED BY <2>1
<1>3. \A b \in Blocks : now[b] = IF \E k \in DOMAIN t : t[k] = b
                                 THEN LET k == CHOOSE i \in DOMAIN t : t[i] = b
                                      IN  IF k = Len(t) THEN end ELSE t[k + 1]
                                 ELSE IF b = last THEN IF t = <<>> THEN end ELSE t[1]
                                 ELSE next[b]
  BY ModifiedDisk DEF Modified!LinkFrom, Modified!End, Linked!NoBlock
<1> HIDE DEF last, now
<1>4. ASSUME NEW k \in 1..Len(t) PROVE now[t[k]] = IF k = Len(t) THEN end ELSE t[k + 1]
  <2> DEFINE b == t[k]
             at == CHOOSE i \in DOMAIN t : t[i] = b
  <2>1. b \in Blocks /\ (\E i \in DOMAIN t : t[i] = b) /\ at = k
    BY <1>1
  <2> HIDE DEF b, end
  <2>2. now[b] = IF at = Len(t) THEN end ELSE t[at + 1]
    BY <1>3, <2>1
  <2> HIDE DEF at
  <2>3. now[b] = IF k = Len(t) THEN end ELSE t[k + 1]
    BY <2>1, <2>2
  <2> QED BY <2>3 DEF b
<1>5. now[last] = IF t = <<>> THEN end ELSE t[1]
  BY <1>2, <1>3 DEF BlocksOf
<1>6. \A b \in Blocks : b \notin BlocksOf(t) /\ b # last => now[b] = next[b]
  BY <1>3 DEF BlocksOf
<1>7. t # <<>> => Len(t) # 0 /\ t[1] \in Blocks /\ t[1] # end
  <2>1. t # <<>> => Len(t) # 0
    BY <1>1
  <2>2. Len(t) # 0 => t[1] \in Blocks
    BY <1>1
  <2>3. end \notin Blocks
    BY DEF Linked!NoBlock, Blocks
  <2> QED BY <2>1, <2>2, <2>3
<1>8. RestFrom(t, now, now[last])
  <2>1. CASE t = <<>>
    BY <1>5, <2>1 DEF RestFrom
  <2>2. CASE t # <<>>
    <3>1. Len(t) \in 1..Len(t) /\ \A k \in 1..(Len(t) - 1) : k \in 1..Len(t) /\ k # Len(t)
      <4>1. Len(t) \in Nat \ {0}
        BY <1>1, <1>7, <2>2
      <4> QED BY <4>1
    <3>2. IsPath(t, now, t[1])
      BY <1>4, <1>7, <2>2, <3>1 DEF IsPath
    <3> QED BY <1>5, <1>7, <2>2, <3>2 DEF RestFrom
  <2> QED BY <2>1, <2>2
<1>9. /\ s \in Seq(Blocks) /\ Len(s) = 1 + Len(t) /\ s[1] = last
      /\ \A k \in 1..Len(t) : s[k + 1] = t[k]
  <2> DEFINE o == <<last>>
  <2>1. o \in Seq(Blocks) /\ Len(o) = 1 /\ o[1] = last
    BY <1>2
  <2> HIDE DEF o
  <2>2. /\ o \o t \in Seq(Blocks) /\ Len(o \o t) = 1 + Len(t)
        /\ \A i \in 1..(1 + Len(t)) : (o \o t)[i] = IF i <= 1 THEN o[i] ELSE t[i - 1]
    <3>1. t \in Seq(Blocks)
      BY <1>1
    <3>2. /\ o \o t \in Seq(Blocks) /\ Len(o \o t) = Len(o) + Len(t)
          /\ \A i \in 1..(Len(o) + Len(t)) :
               (o \o t)[i] = IF i <= Len(o) THEN o[i] ELSE t[i - Len(o)]
      BY <2>1, <3>1, ConcatProperties
    <3> QED BY <2>1, <3>2
  <2>3. s = o \o t
    BY DEF o
  <2> HIDE DEF s
  <2>4. ASSUME NEW k \in 1..Len(t) PROVE s[k + 1] = t[k]
    <3> DEFINE i == k + 1
    <3>1. i \in 1..(1 + Len(t)) /\ ~(i <= 1) /\ i - 1 = k
      BY <1>1
    <3> HIDE DEF i
    <3>2. s[i] = t[k]
      BY <2>2, <2>3, <3>1
    <3> QED BY <3>2 DEF i
  <2>5. s[1] = last
    <3>1. 1 \in 1..(1 + Len(t)) /\ 1 <= 1
      BY <1>1
    <3> QED BY <2>1, <2>2, <2>3, <3>1
  <2> QED BY <2>2, <2>3, <2>4, <2>5
<1> HIDE DEF s, end
<1>10. DOMAIN s = 1..Len(s) /\ Len(s) \in Nat \ {0}
  BY <1>1, <1>9
<1>11. \A k \in 1..Len(s) : k = 1 \/ k - 1 \in 1..Len(t)
  BY <1>1, <1>9
<1>12. ASSUME NEW k \in 1..Len(s), k # 1 PROVE s[k] = t[k - 1] /\ k - 1 \in 1..Len(t)
  <2>1. k - 1 \in 1..Len(t) /\ (k - 1) + 1 = k
    BY <1>1, <1>11, <1>12
  <2> QED BY <1>9, <2>1
<1>13. \A k \in 1..Len(t) : t[k] \in BlocksOf(t)
  BY <1>1 DEF BlocksOf
<1>14. BlocksOf(s) = {last} \cup BlocksOf(t)
  <2>1. ASSUME NEW b \in BlocksOf(s) PROVE b \in {last} \cup BlocksOf(t)
    BY <1>9, <1>10, <1>12, <1>13, <2>1 DEF BlocksOf
  <2>2. last \in BlocksOf(s)
    BY <1>9, <1>10 DEF BlocksOf
  <2>3. ASSUME NEW b \in BlocksOf(t) PROVE b \in BlocksOf(s)
    <3>1. PICK k \in 1..Len(t) : b = t[k]
      BY <1>1 DEF BlocksOf
    <3>2. k + 1 \in 1..Len(s)
      BY <1>1, <1>9
    <3> QED BY <1>9, <1>10, <3>1, <3>2 DEF BlocksOf
  <2> QED BY <2>1, <2>2, <2>3
<1>15. Proper(s)
  <2>1. SUFFICES ASSUME NEW j \in 1..Len(s), NEW k \in 1..Len(s), s[j] = s[k] PROVE j = k
    BY <1>9, <1>10 DEF Proper
  <2>2. CASE j # 1 /\ k # 1
    <3>1. j - 1 = k - 1
      BY <1>1, <1>12, <2>1, <2>2
    <3> QED BY <3>1
  <2>3. \A i \in 1..Len(s) : i # 1 => s[i] # last
    BY <1>2, <1>12, <1>13
  <2> QED BY <1>9, <2>1, <2>2, <2>3
<1>16. ASSUME NEW k \in 1..(Len(s) - 1) PROVE now[s[k]] = s[k + 1]
  <2>1. k \in 1..Len(t) /\ k \in 1..Len(s) /\ Len(t) # 0
    BY <1>1, <1>9
  <2>2. s[k + 1] = t[k]
    BY <1>9, <2>1
  <2>3. CASE k = 1
    BY <1>5, <1>9, <2>1, <2>2, <2>3
  <2>4. CASE k # 1
    <3>1. k - 1 \in 1..Len(t) /\ k - 1 # Len(t) /\ (k - 1) + 1 = k
      BY <1>1, <2>1, <2>4
    <3>2. now[t[k - 1]] = t[k]
      BY <1>4, <3>1
    <3> QED BY <1>12, <2>1, <2>2, <2>4, <3>2
  <2> QED BY <2>3, <2>4
<1>17. now[s[Len(s)]] = end
  <2>1. CASE Len(t) = 0
    <3>1. Len(s) = 1 /\ t = <<>>
      BY <1>1, <1>9, <2>1
    <3> QED BY <1>5, <1>9, <3>1
  <2>2. CASE Len(t) # 0
    <3>1. Len(t) \in 1..Len(t) /\ Len(t) + 1 = Len(s)
      BY <1>1, <1>9, <2>2
    <3>2. s[Len(t) + 1] = t[Len(t)]
      BY <1>9, <3>1
    <3> QED BY <1>4, <3>1, <3>2
  <2> QED BY <2>1, <2>2
<1>18. IsPath(s, now, s[1])
  BY <1>10, <1>15, <1>16, <1>17 DEF IsPath, end
<1>19. \A b \in Blocks \ BlocksOf(s) : now[b] = next[b]
  BY <1>6, <1>14
<1> QED BY <1>8, <1>14, <1>18, <1>19 DEF last, s, now

-----------------------------------------------------------------------------
(* The commands of modified_contiguous.cpp                                 *)

\* What the program is seen to hold when the files lie in these blocks.
Held ==
    \A rests : ~torn /\ Laid(m_flist, next, m_allocated, m_leaked, rests) =>
      /\ Modified!contents = Shown(m_val, Wholes(m_flist, rests))
      /\ \A f \in DOMAIN m_flist :
           /\ Modified!BlocksInOrder(f) = Whole(m_flist[f], rests[f])
           /\ Modified!Chain(f) = rests[f] /\ Modified!Ends(f)

\* Following the pointers (lines 151-156, 195-201) it finds the blocks of each
\* file, in their order.
LEMMA ReadsWhole == ASSUME Given PROVE Held
<1> SUFFICES ASSUME NEW rests, ~torn, Laid(m_flist, next, m_allocated, m_leaked, rests)
             PROVE  /\ Modified!contents = Shown(m_val, Wholes(m_flist, rests))
                    /\ \A f \in DOMAIN m_flist :
                         /\ Modified!BlocksInOrder(f) = Whole(m_flist[f], rests[f])
                         /\ Modified!Chain(f) = rests[f] /\ Modified!Ends(f)
  BY DEF Held
<1>1. ASSUME NEW f \in DOMAIN m_flist
      PROVE  /\ Modified!BlocksInOrder(f) = Whole(m_flist[f], rests[f])
             /\ Modified!Chain(f) = rests[f] /\ Modified!Ends(f)
  <2> DEFINE at == WalkIn(next, next[m_flist[f].first + ConSize - 1])
  <2>1. RestFrom(rests[f], next, next[m_flist[f].first + ConSize - 1])
    BY DEF Laid, Fit
  <2>2. at[NumBlocks] = Linked!NoBlock /\ ChainIn(at) = rests[f]
    BY <2>1, TailWalk DEF Given
  <2>3. Modified!Hop(f) = at /\ Modified!Chain(f) = ChainIn(at)
    BY <2>2, ModifiedWalk DEF Given
  <2>4. Modified!Ends(f)
    BY <2>2, <2>3 DEF Modified!Ends, Modified!End, Linked!NoBlock
  <2>5. Modified!BlocksInOrder(f) = Whole(m_flist[f], Modified!Chain(f))
    BY DEF Modified!BlocksInOrder, Modified!Long, Whole, ConSeq
  <2> QED BY <2>2, <2>3, <2>4, <2>5
<1>2. ASSUME NEW f \in DOMAIN m_flist
      PROVE  Modified!Contents(f) = Reads(m_val, Wholes(m_flist, rests)[f])
  BY <1>1 DEF Modified!Contents, Reads, Wholes
<1>3. Modified!contents = [f \in DOMAIN m_flist |-> Modified!Contents(f)]
  BY DEF Modified!contents
<1>4. DOMAIN Wholes(m_flist, rests) = DOMAIN m_flist
  BY DEF Wholes
<1> QED BY <1>1, <1>2, <1>3, <1>4 DEF Shown

\* After a step the files lie apart, and these are their texts.
Result(texts) ==
    \E r : /\ Laid(m_flist', next', m_allocated', m_leaked', r)
           /\ Shown(m_val', Wholes(m_flist', r)) = texts

\* A file that is gone, with or without its blocks.
LEMMA GoneIs ==
    ASSUME Given, NEW rests, Laid(m_flist, next, m_allocated, m_leaked, rests),
           NEW f \in DOMAIN m_flist, m_flist' = Without(m_flist, f),
           next' = next, m_val' = m_val, m_allocated' \in [Blocks -> BOOLEAN],
           \A b \in Blocks : b \notin BlocksOf(Whole(m_flist[f], rests[f])) =>
                               m_allocated'[b] = m_allocated[b],
           m_leaked' \/ \A b \in BlocksOf(Whole(m_flist[f], rests[f])) : ~m_allocated'[b],
           m_leaked => m_leaked'
    PROVE  Result(Without(Shown(m_val, Wholes(m_flist, rests)), f))
<1>1. /\ Laid(Without(m_flist, f), next, m_allocated', m_leaked', Without(rests, f))
      /\ Wholes(Without(m_flist, f), Without(rests, f)) = Without(Wholes(m_flist, rests), f)
  BY LaidLess
<1>2. Shown(m_val, Without(Wholes(m_flist, rests), f)) =
        Without(Shown(m_val, Wholes(m_flist, rests)), f)
  BY ShownWithout
<1> QED BY <1>1, <1>2 DEF Result

\* Line 128: the blocks of the file are freed.
LEMMA DeleteIs ==
    ASSUME Given, NEW rests, ~torn, Laid(m_flist, next, m_allocated, m_leaked, rests),
           NEW f \in DOMAIN m_flist, Modified!Delete_File(f)
    PROVE  Result(Without(Shown(m_val, Wholes(m_flist, rests)), f))
<1> DEFINE e == m_flist[f]
           t == rests[f]
<1>1. /\ Modified!Chain(f) = t /\ Fit(e, next, t) /\ m_allocated \in [Blocks -> BOOLEAN]
  BY ReadsWhole DEF Held, Laid
<1>2. /\ m_allocated' = IF Modified!Long(f) THEN Modified!Freed(f)
                        ELSE [b \in Modified!Blocks |-> m_allocated[b] /\ b \notin Modified!Con(f)]
      /\ m_flist' = Modified!Without(m_flist, f) /\ UNCHANGED <<m_val, next, m_leaked>>
  BY DEF Modified!Delete_File, Modified!Exists, Modified!history
<1>3. Modified!Con(f) = ConOf(e.first) /\ (Modified!Long(f) <=> e.second > ConSize)
  BY DEF Modified!Con, ConOf, Modified!Long
<1>4. m_allocated' = [b \in Blocks |-> m_allocated[b] /\ b \notin BlocksOf(Whole(e, t))]
  <2>1. BlocksOf(Whole(e, t)) = ConOf(e.first) \cup (IF e.second > ConSize THEN BlocksOf(t) ELSE {})
    BY <1>1, WholeIs
  <2> HIDE DEF e, t
  <2> QED BY <1>1, <1>2, <1>3, <2>1, ModifiedDisk DEF Modified!Freed
<1>5. /\ m_allocated' \in [Blocks -> BOOLEAN]
      /\ \A b \in Blocks : m_allocated'[b] <=> m_allocated[b] /\ b \notin BlocksOf(Whole(e, t))
  <2> HIDE DEF e, t
  <2> QED BY <1>1, <1>4
<1>6. BlocksOf(Whole(e, t)) \subseteq Blocks
  BY <1>1, WholeIs, ProperSize
<1>7. /\ \A b \in Blocks : b \notin BlocksOf(Whole(e, t)) => m_allocated'[b] = m_allocated[b]
      /\ \A b \in BlocksOf(Whole(e, t)) : ~m_allocated'[b]
  <2> HIDE DEF e, t
  <2> QED BY <1>1, <1>5, <1>6
<1>8. m_flist' = Without(m_flist, f)
  BY <1>2, ModifiedDisk
<1> QED BY <1>2, <1>5, <1>7, <1>8, GoneIs

\* Lines 216-229: they are not.
LEMMA ForgetIs ==
    ASSUME Given, NEW rests, ~torn, Laid(m_flist, next, m_allocated, m_leaked, rests),
           NEW f \in DOMAIN m_flist, NEW text, Modified!UpdateForget(f, text)
    PROVE  Result(Without(Shown(m_val, Wholes(m_flist, rests)), f))
<1>1. /\ m_flist' = Without(m_flist, f) /\ m_leaked'
      /\ UNCHANGED <<m_allocated, m_val, next>>
  BY ModifiedDisk DEF Modified!UpdateForget
<1>2. m_allocated \in [Blocks -> BOOLEAN]
  BY DEF Laid
<1> QED BY <1>1, <1>2, GoneIs

\* The texts of its input are sequences that are not empty.
LEMMA ModifiedText ==
    ASSUME Given, NEW text \in ModifiedTexts
    PROVE  text \in Seq(Char) /\ Len(text) \in Nat \ {0}
<1>1. text \in Seq(Char) /\ text # <<>>
  BY DEF Given, Modified!DiskAssumption
<1> QED BY <1>1

\* A text that is written to free blocks is a file more.
LEMMA StoredIs ==
    ASSUME Given, NEW list, NEW taken, NEW rests,
           Laid(list, next', taken, m_leaked', rests), NEW f, f \notin DOMAIN list,
           NEW e, NEW t, Fit(e, next', t), NEW text \in Seq(Char), Len(text) = e.second,
           \A b \in BlocksOf(Whole(e, t)) : ~taken[b],
           m_flist' = With(list, f, e),
           m_allocated' = [b \in Blocks |-> taken[b] \/ b \in BlocksOf(Whole(e, t))],
           m_val' = Overwritten(m_val, Whole(e, t), text)
    PROVE  Result(With(Shown(m_val, Wholes(list, rests)), f, text))
<1> DEFINE s == Whole(e, t)
           W == Wholes(list, rests)
<1>1. /\ DOMAIN W = DOMAIN list /\ \A g \in DOMAIN list : W[g] = Whole(list[g], rests[g])
      /\ \A g \in DOMAIN list : Fit(list[g], next', rests[g])
      /\ \A g \in DOMAIN list : \A b \in BlocksOf(W[g]) : taken[b]
      /\ taken \in [Blocks -> BOOLEAN]
  BY DEF Wholes, Laid
<1>2. Proper(s) /\ Len(s) = Len(text)
  BY WholeIs
<1>3. \A g \in DOMAIN list : Proper(W[g])
  BY <1>1, WholeIs
<1>4. /\ m_allocated' \in [Blocks -> BOOLEAN]
      /\ \A b \in Blocks : m_allocated'[b] <=> taken[b] \/ b \in BlocksOf(s)
  <2> HIDE DEF s
  <2> QED BY <1>1 DEF s
<1>5. /\ Laid(With(list, f, e), next', m_allocated', m_leaked', With(rests, f, t))
      /\ Wholes(With(list, f, e), With(rests, f, t)) = With(W, f, s)
  <2> DEFINE now == m_allocated'
  <2>1. now \in [Blocks -> BOOLEAN] /\ \A b \in Blocks : now[b] <=> taken[b] \/ b \in BlocksOf(s)
    BY <1>4
  <2> HIDE DEF now
  <2>2. /\ Laid(With(list, f, e), next', now, m_leaked', With(rests, f, t))
        /\ Wholes(With(list, f, e), With(rests, f, t)) = With(W, f, s)
    BY <2>1, LaidMore
  <2> QED BY <2>2 DEF now
<1> HIDE DEF W, s
<1>6. \A g \in DOMAIN W : BlocksOf(W[g]) \cap BlocksOf(s) = {}
  BY <1>1 DEF s
<1>7. Shown(Overwritten(m_val, s, text), With(W, f, s)) = With(Shown(m_val, W), f, text)
  BY <1>1, <1>2, <1>3, <1>6, ShownWith
<1> QED BY <1>5, <1>7 DEF Result, W, s

\* The first of the holes, and free blocks for the rest (lines 80-107).
FirstHole == CHOOSE b \in Modified!Holes : \A c \in Modified!Holes : b <= c
Spare(first, n) == LowestFree([b \in Blocks |-> b \in Modified!Free \ ConOf(first)], n - ConSize)

\* They are what the program needs.
LEMMA HoleIs ==
    ASSUME Given, m_allocated \in [Blocks -> BOOLEAN], Modified!Holes # {},
           NEW n \in Nat, n >= ConSize, n <= Cardinality(Modified!Free),
           NEW first, first = FirstHole, NEW t, t = Spare(first, n)
    PROVE  /\ first \in Blocks /\ first + ConSize - 1 \in Blocks
           /\ \A b \in ConOf(first) : b \in Blocks /\ ~m_allocated[b]
           /\ Proper(t) /\ Len(t) = n - ConSize /\ BlocksOf(t) \cap ConOf(first) = {}
           /\ \A b \in BlocksOf(t) : b \in Blocks /\ ~m_allocated[b]
<1>1. ConSize \in Nat \ {0} /\ NumBlocks \in Nat
  BY DEF Given, Modified!ConAssumption, DiskAssumption
<1>2. first \in Modified!Holes
  <2>1. Modified!Holes \subseteq Nat
    BY ModifiedDisk DEF Modified!Holes, Blocks
  <2>2. \E b \in Modified!Holes : \A c \in Modified!Holes : b <= c
    BY <2>1, LeastNat
  <2> QED BY <2>2 DEF FirstHole
<1>3. /\ first \in Blocks /\ first \in Nat /\ first + ConSize <= NumBlocks
      /\ \A b \in ConOf(first) : ~m_allocated[b]
  BY <1>2, ModifiedDisk DEF Modified!Holes, ConOf, Blocks
<1>4. first + ConSize - 1 \in Blocks /\ ConOf(first) \subseteq Blocks
  <2>1. first + ConSize - 1 \in Nat /\ first + ConSize - 1 <= NumBlocks - 1
    BY <1>1, <1>3
  <2>2. \A b \in ConOf(first) : b \in Nat /\ b <= NumBlocks - 1
    BY <1>1, <1>3 DEF ConOf
  <2> QED BY <1>1, <2>1, <2>2 DEF Blocks
<1> DEFINE none == <<>>
           con == ConOf(first)
           available == [b \in Blocks |-> b \in Modified!Free \ con]
<1>5. IsFiniteSet(con) /\ Cardinality(con) = ConSize
  <2>1. Proper(none) /\ BlocksOf(none) = {} /\ Len(none) = 0
    BY NoBlocks
  <2> HIDE DEF none
  <2>2. BlocksOf(none) \cap ConOf(first) = {}
    BY <2>1
  <2>3. LET s == ConSeq(first) \o none
        IN  /\ Proper(s) /\ Len(s) = ConSize + Len(none)
            /\ BlocksOf(s) = ConOf(first) \cup BlocksOf(none)
    BY <1>3, <1>4, <2>1, <2>2, Joined
  <2>4. Proper(ConSeq(first) \o none) /\ BlocksOf(ConSeq(first) \o none) = con
        /\ Len(ConSeq(first) \o none) = ConSize
    BY <1>1, <2>1, <2>3
  <2> QED BY <2>4, ProperSize
<1>6. /\ available \in [Blocks -> BOOLEAN] /\ Free(available) = Modified!Free \ con
      /\ Modified!Free = (Modified!Free \ con) \cup con /\ (Modified!Free \ con) \cap con = {}
      /\ Modified!Free \subseteq Blocks
  <2>1. Modified!Free = {b \in Blocks : ~m_allocated[b]}
    BY ModifiedDisk DEF Modified!Free
  <2>2. /\ available \in [Blocks -> BOOLEAN]
        /\ \A b \in Blocks : available[b] <=> b \in Modified!Free \ con
    <3> DEFINE S == Modified!Free \ con
    <3>1. available = [b \in Blocks |-> b \in S]
      OBVIOUS
    <3> HIDE DEF available, S
    <3>2. \A b \in Blocks : (b \in S) \in BOOLEAN /\ available[b] = (b \in S)
      BY <3>1
    <3>3. available \in [Blocks -> BOOLEAN]
      BY <3>1, <3>2
    <3> QED BY <3>2, <3>3 DEF S
  <2> HIDE DEF available, con
  <2>3. Modified!Free \subseteq Blocks /\ con \subseteq Modified!Free
    BY <1>3, <1>4, <2>1 DEF con
  <2>4. Free(available) = Modified!Free \ con
    BY <2>2, <2>3 DEF Free
  <2> QED BY <2>2, <2>3, <2>4
<1>7. n - ConSize \in Nat /\ n - ConSize <= Cardinality(Free(available))
  <2> HIDE DEF con, available
  <2>1. IsFiniteSet(Modified!Free \ con) /\ Cardinality(Modified!Free \ con) \in Nat
    BY <1>6, FreeTyped DEF Given
  <2>2. Cardinality(Modified!Free) =
          Cardinality(Modified!Free \ con) + Cardinality(con) - Cardinality({})
    BY <1>5, <1>6, <2>1, FS_Union
  <2> QED BY <1>1, <1>5, <1>6, <2>1, <2>2, FS_EmptySet
<1> HIDE DEF available
<1>8. /\ Proper(t) /\ BlocksOf(t) \subseteq Free(available) /\ Len(t) = n - ConSize
  BY <1>6, <1>7, LowestFreeIsFree DEF Given, available, Spare
<1>9. \A b \in BlocksOf(t) : b \in Blocks /\ ~m_allocated[b] /\ b \notin con
  BY <1>6, <1>8, ModifiedDisk DEF Modified!Free
<1> QED BY <1>3, <1>4, <1>8, <1>9

\* Line 47: a file that is created.
LEMMA CreateIs ==
    ASSUME Given, NEW rests, ~torn, Laid(m_flist, next, m_allocated, m_leaked, rests),
           NEW f, NEW text \in ModifiedTexts, Modified!Create_File(f, text)
    PROVE  /\ f \notin DOMAIN m_flist
           /\ Result(With(Shown(m_val, Wholes(m_flist, rests)), f, text))
<1> DEFINE n == Len(text)
           first == FirstHole
           t == Spare(first, n)
           e == [first |-> first, second |-> n]
           last == first + ConSize - 1
           s == <<last>> \o t
<1>1. /\ f \notin DOMAIN m_flist /\ n \in ConSize..Cardinality(Modified!Free)
      /\ Modified!Holes # {} /\ m_leaked' = m_leaked
      /\ m_allocated' = [b \in Blocks |-> m_allocated[b] \/ b \in ConOf(first) \cup BlocksOf(t)]
      /\ m_val' = Modified!FillFrom(first, t, text)
      /\ next' = Modified!LinkFrom(first, t)
      /\ m_flist' = With(m_flist, f, e)
  BY ModifiedDisk DEF Modified!Create_File, Modified!Exists, Modified!history, ConOf,
                        FirstHole, Spare
<1>2. text \in Seq(Char) /\ n \in Nat
  BY ModifiedText
<1>3. m_allocated \in [Blocks -> BOOLEAN]
  BY DEF Laid
<1> HIDE DEF n, first
<1>4. /\ first \in Blocks /\ last \in Blocks
      /\ \A b \in ConOf(first) : b \in Blocks /\ ~m_allocated[b]
      /\ Proper(t) /\ Len(t) = n - ConSize /\ BlocksOf(t) \cap ConOf(first) = {}
      /\ \A b \in BlocksOf(t) : b \in Blocks /\ ~m_allocated[b]
  <2>1. n >= ConSize /\ n <= Cardinality(Modified!Free)
    BY <1>1
  <2>2. first = FirstHole /\ t = Spare(first, n)
    BY DEF first
  <2>3. Modified!Holes # {}
    BY <1>1
  <2> HIDE DEF t
  <2> QED BY <1>2, <1>3, <2>1, <2>2, <2>3, HoleIs
<1> HIDE DEF t
<1>5. /\ IsPath(s, next', s[1]) /\ BlocksOf(s) = {last} \cup BlocksOf(t)
      /\ \A b \in Blocks \ BlocksOf(s) : next'[b] = next[b]
      /\ RestFrom(t, next', next'[last])
  BY <1>1, <1>4, LinkIsPath
<1>6. last \in ConOf(first)
  BY <1>4 DEF ConOf, Blocks, Given, Modified!ConAssumption, DiskAssumption
<1> HIDE DEF s
<1>7. \A b \in BlocksOf(s) : ~m_allocated[b]
  BY <1>4, <1>5, <1>6
<1>8. PICK r : /\ Laid(m_flist, next', m_allocated, m_leaked, r)
               /\ Wholes(m_flist, r) = Wholes(m_flist, rests)
  BY <1>5, <1>7, Relinked
<1>9. Fit(e, next', t)
  <2>1. e \in [first : Blocks, second : Nat] /\ e.first = first /\ e.second = n
    BY <1>2, <1>4
  <2>2. e.second >= ConSize
    BY <1>1, <2>1
  <2> QED BY <1>4, <1>5, <2>1, <2>2 DEF Fit
<1>10. /\ BlocksOf(Whole(e, t)) = ConOf(first) \cup BlocksOf(t)
       /\ Whole(e, t) = ConSeq(first) \o t
  <2>1. e.first = first /\ e.second = n
    OBVIOUS
  <2>2. ~(n > ConSize) => t = <<>> /\ BlocksOf(t) = {}
    <3>1. ASSUME ~(n > ConSize) PROVE Len(t) = 0
      BY <1>1, <1>2, <1>4, <3>1 DEF Given, Modified!ConAssumption, DiskAssumption
    <3>2. t \in Seq(Blocks)
      BY <1>4 DEF Proper
    <3> QED BY <3>1, <3>2, NoBlocks
  <2> HIDE DEF e
  <2>3. Whole(e, t) = ConSeq(first) \o t
    BY <2>1, <2>2 DEF Whole
  <2> QED BY <1>9, <2>1, <2>2, <2>3, WholeIs
<1>11. m_val' = Overwritten(m_val, Whole(e, t), text)
  <2>1. Len(text) = ConSize + Len(t)
    BY <1>1, <1>2, <1>4 DEF n, Given, Modified!ConAssumption, DiskAssumption
  <2>2. Modified!FillFrom(first, t, text) = Overwritten(m_val, ConSeq(first) \o t, text)
    BY <1>4, <2>1, FillIsOverwritten
  <2> QED BY <1>1, <1>10, <2>2
<1>12. e.second = Len(text)
  BY DEF n
<1> HIDE DEF e
<1>13. /\ m_allocated' = [b \in Blocks |-> m_allocated[b] \/ b \in BlocksOf(Whole(e, t))]
       /\ \A b \in BlocksOf(Whole(e, t)) : ~m_allocated[b]
  BY <1>1, <1>4, <1>10
<1>14. Result(With(Shown(m_val, Wholes(m_flist, r)), f, text))
  <2>1. m_leaked' = m_leaked
    BY <1>1
  <2> QED BY <1>1, <1>2, <1>8, <1>9, <1>11, <1>12, <1>13, <2>1, StoredIs
<1> QED BY <1>1, <1>8, <1>14

\* What is allocated when the blocks of f are not.
Emptied(f, t) == [b \in Blocks |-> m_allocated[b] /\ b \notin BlocksOf(Whole(m_flist[f], t))]

\* The files but one lie apart in it.
LEMMA EmptiedIs ==
    ASSUME Given, NEW rests, Laid(m_flist, next, m_allocated, m_leaked, rests),
           NEW f \in DOMAIN m_flist
    PROVE  LET t == rests[f]
               less == Emptied(f, t)
           IN  /\ Laid(Without(m_flist, f), next, less, m_leaked, Without(rests, f))
               /\ Wholes(Without(m_flist, f), Without(rests, f)) =
                    Without(Wholes(m_flist, rests), f)
               /\ f \notin DOMAIN Without(m_flist, f)
               /\ m_allocated \in [Blocks -> BOOLEAN] /\ less \in [Blocks -> BOOLEAN]
               /\ \A b \in Blocks :
                    less[b] <=> m_allocated[b] /\ b \notin BlocksOf(Whole(m_flist[f], t))
               /\ BlocksOf(Whole(m_flist[f], t)) \subseteq Blocks
               /\ \A b \in BlocksOf(Whole(m_flist[f], t)) : m_allocated[b]
<1> DEFINE s == Whole(m_flist[f], rests[f])
           less == Emptied(f, rests[f])
<1>1. /\ Fit(m_flist[f], next, rests[f]) /\ m_allocated \in [Blocks -> BOOLEAN]
      /\ \A b \in BlocksOf(s) : m_allocated[b]
  BY DEF Laid, Wholes
<1>2. BlocksOf(s) \subseteq Blocks
  BY <1>1, WholeIs, ProperSize
<1>3. less = [b \in Blocks |-> m_allocated[b] /\ b \notin BlocksOf(s)]
  BY DEF Emptied
<1> HIDE DEF s, less
<1>4. /\ less \in [Blocks -> BOOLEAN]
      /\ \A b \in Blocks : less[b] <=> m_allocated[b] /\ b \notin BlocksOf(s)
  BY <1>1, <1>3
<1>5. /\ \A b \in Blocks : b \notin BlocksOf(s) => less[b] = m_allocated[b]
      /\ \A b \in BlocksOf(s) : ~less[b]
  BY <1>1, <1>2, <1>4
<1>6. /\ Laid(Without(m_flist, f), next, less, m_leaked, Without(rests, f))
      /\ Wholes(Without(m_flist, f), Without(rests, f)) = Without(Wholes(m_flist, rests), f)
      /\ f \notin DOMAIN Without(m_flist, f)
  BY <1>4, <1>5, LaidLess DEF s
<1> QED BY <1>1, <1>2, <1>4, <1>6 DEF s, less

\* The entry of f after an update.
Entry(f, n) == [first |-> m_flist[f].first, second |-> n]

\* A text that replaces one, in the same consecutive part.
LEMMA UpdatedIs ==
    ASSUME Given, NEW rests, Laid(m_flist, next, m_allocated, m_leaked, rests),
           NEW f \in DOMAIN m_flist, NEW text \in Seq(Char),
           NEW r, Laid(Without(m_flist, f), next', Emptied(f, rests[f]), m_leaked', r),
           Wholes(Without(m_flist, f), r) = Without(Wholes(m_flist, rests), f),
           NEW t, Fit(Entry(f, Len(text)), next', t),
           \A b \in BlocksOf(Whole(Entry(f, Len(text)), t)) : ~Emptied(f, rests[f])[b],
           m_flist' = [m_flist EXCEPT ![f].second = Len(text)],
           \A b \in Blocks : m_allocated'[b] <=>
             Emptied(f, rests[f])[b] \/ b \in BlocksOf(Whole(Entry(f, Len(text)), t)),
           m_allocated' \in [Blocks -> BOOLEAN],
           m_val' = Overwritten(m_val, Whole(Entry(f, Len(text)), t), text)
    PROVE  Result(With(Shown(m_val, Wholes(m_flist, rests)), f, text))
<1> DEFINE e == Entry(f, Len(text))
           list == Without(m_flist, f)
           less == Emptied(f, rests[f])
           W == Wholes(m_flist, rests)
<1>1. f \notin DOMAIN list
  BY DEF Without
<1>2. m_flist' = With(list, f, e)
  <2>1. m_flist[f] \in [first : Blocks, second : Nat]
    BY DEF Laid, Fit
  <2>3. [m_flist[f] EXCEPT !.second = Len(text)] = e
    BY <2>1 DEF Entry
  <2>4. m_flist' = [g \in DOMAIN m_flist |-> IF g = f THEN e ELSE m_flist[g]]
    BY <2>3
  <2>5. (DOMAIN m_flist \ {f}) \cup {f} = DOMAIN m_flist
    OBVIOUS
  <2> QED BY <2>4, <2>5 DEF With, Without
<1>3. Len(text) = e.second
  BY DEF Entry
<1>4. m_allocated' = [b \in Blocks |-> less[b] \/ b \in BlocksOf(Whole(e, t))]
  <2>1. less \in [Blocks -> BOOLEAN]
    BY EmptiedIs
  <2> HIDE DEF less, e
  <2> QED BY <2>1 DEF less, e
<1> HIDE DEF e, list, less
<1>5. Result(With(Shown(m_val, Wholes(list, r)), f, text))
  BY <1>1, <1>2, <1>3, <1>4, StoredIs DEF e, list, less
<1>6. Shown(m_val, Wholes(list, r)) = Without(Shown(m_val, W), f)
  BY ShownWithout DEF list
<1>7. With(Without(Shown(m_val, W), f), f, text) = With(Shown(m_val, W), f, text)
  BY MapFacts
<1> QED BY <1>5, <1>6, <1>7

\* Facts about a file on the disk.
LEMMA FileIs ==
    ASSUME Given, NEW rests, ~torn, Laid(m_flist, next, m_allocated, m_leaked, rests),
           NEW f \in DOMAIN m_flist
    PROVE  LET e == m_flist[f]
               t == rests[f]
           IN  /\ Modified!Chain(f) = t /\ Fit(e, next, t)
               /\ Modified!Con(f) = ConOf(e.first) /\ (Modified!Long(f) <=> e.second > ConSize)
               /\ e.first \in Blocks /\ e.first + ConSize - 1 \in Blocks
               /\ e.second \in Nat /\ e.second >= ConSize
               /\ ConSize \in Nat \ {0} /\ e.first \in Nat
               /\ e.first + ConSize - 1 \in ConOf(e.first)
               /\ BlocksOf(Whole(e, t)) =
                    ConOf(e.first) \cup (IF e.second > ConSize THEN BlocksOf(t) ELSE {})
               /\ \A b \in BlocksOf(Whole(e, t)) : b \in Blocks /\ m_allocated[b]
<1> DEFINE e == m_flist[f]
           t == rests[f]
<1>1. Modified!Chain(f) = t /\ Fit(e, next, t) /\ \A b \in BlocksOf(Whole(e, t)) : m_allocated[b]
  BY ReadsWhole DEF Held, Laid, Wholes
<1>2. Modified!Con(f) = ConOf(e.first) /\ (Modified!Long(f) <=> e.second > ConSize)
  BY DEF Modified!Con, ConOf, Modified!Long
<1> HIDE DEF e, t
<1>3. /\ e.first \in Blocks /\ e.first + ConSize - 1 \in Blocks
      /\ e.second \in Nat /\ e.second >= ConSize
      /\ ConSize \in Nat \ {0} /\ e.first \in Nat
  BY <1>1 DEF Given, Modified!ConAssumption, Fit, Blocks, DiskAssumption
<1>4. /\ e.first + ConSize - 1 \in ConOf(e.first) /\ BlocksOf(Whole(e, t)) \subseteq Blocks
      /\ BlocksOf(Whole(e, t)) =
           ConOf(e.first) \cup (IF e.second > ConSize THEN BlocksOf(t) ELSE {})
  BY <1>1, WholeIs, ProperSize
<1> QED BY <1>1, <1>2, <1>3, <1>4 DEF e, t

\* Lines 322-348: a longer text gets a new chain.
LEMMA GrowIs ==
    ASSUME Given, NEW rests, ~torn, Laid(m_flist, next, m_allocated, m_leaked, rests),
           NEW f \in DOMAIN m_flist, NEW text \in ModifiedTexts,
           Modified!UpdateGrow(f, text), ~torn'
    PROVE  Result(With(Shown(m_val, Wholes(m_flist, rests)), f, text))
<1> DEFINE n == Len(text)
           o == m_flist[f]
           c == rests[f]
           first == o.first
           available == [b \in Blocks |-> b \in Modified!Free]
           t == LowestFree(available, n - ConSize)
           e == Entry(f, n)
           last == first + ConSize - 1
           s == <<last>> \o t
           less == Emptied(f, c)
<1>1. /\ Modified!Chain(f) = c /\ Fit(o, next, c)
      /\ Modified!Con(f) = ConOf(first) /\ (Modified!Long(f) <=> o.second > ConSize)
      /\ first \in Blocks /\ last \in Blocks /\ o.second \in Nat /\ o.second >= ConSize
      /\ ConSize \in Nat \ {0} /\ first \in Nat /\ last \in ConOf(first)
      /\ BlocksOf(Whole(o, c)) = ConOf(first) \cup (IF o.second > ConSize THEN BlocksOf(c) ELSE {})
      /\ \A b \in BlocksOf(Whole(o, c)) : b \in Blocks /\ m_allocated[b]
  BY FileIs
<1>2. /\ n - o.second \in 1..NumBlocks /\ n >= ConSize /\ Cardinality(Modified!Free) >= n - ConSize
      /\ m_allocated' = [b \in Blocks |-> \/ b \in BlocksOf(t)
                                          \/ m_allocated[b] /\ b \notin BlocksOf(Modified!Chain(f))]
      /\ m_val' = Modified!FillFrom(first, t, text)
      /\ next' = Modified!LinkFrom(first, t)
      /\ m_flist' = [m_flist EXCEPT ![f].second = n]
      /\ torn' = (torn \/ (~Modified!Long(f) /\ Modified!Chain(f) # <<>>))
      /\ m_leaked' = m_leaked
  BY ModifiedDisk DEF Modified!UpdateGrow, Modified!diff
<1>3. text \in Seq(Char) /\ n \in Nat
  BY ModifiedText
<1>4. /\ e.first = first /\ e.second = n
      /\ e.first \in Blocks => e \in [first : Blocks, second : Nat]
  BY <1>3 DEF Entry
<1>5. /\ Laid(Without(m_flist, f), next, less, m_leaked, Without(rests, f))
      /\ Wholes(Without(m_flist, f), Without(rests, f)) = Without(Wholes(m_flist, rests), f)
      /\ m_allocated \in [Blocks -> BOOLEAN]
      /\ \A b \in Blocks : less[b] <=> m_allocated[b] /\ b \notin BlocksOf(Whole(o, c))
  BY EmptiedIs
<1> HIDE DEF n, o, c, first, less, e
<1>6. n > ConSize /\ n - ConSize \in Nat
  BY <1>1, <1>2, <1>3
<1>7. Proper(t) /\ Len(t) = n - ConSize /\ \A b \in BlocksOf(t) : b \in Blocks /\ ~m_allocated[b]
  <2>1. Modified!Free = {b \in Blocks : ~m_allocated[b]}
    BY ModifiedDisk DEF Modified!Free
  <2>2. available = [b \in Blocks |-> b \in Modified!Free]
    OBVIOUS
  <2> HIDE DEF available
  <2>3. \A b \in Blocks : (b \in Modified!Free) \in BOOLEAN /\ available[b] = (b \in Modified!Free)
    BY <2>2
  <2>4. available \in [Blocks -> BOOLEAN]
    BY <2>2, <2>3
  <2>5. Free(available) = Modified!Free
    BY <2>1, <2>3 DEF Free
  <2>6. n - ConSize <= Cardinality(Free(available))
    BY <1>2, <1>6, <2>4, <2>5, FreeTyped DEF Given
  <2>7. Proper(t) /\ BlocksOf(t) \subseteq Free(available) /\ Len(t) = n - ConSize
    BY <1>6, <2>4, <2>6, LowestFreeIsFree DEF Given
  <2> QED BY <2>1, <2>5, <2>7
<1> HIDE DEF t
<1>8. BlocksOf(t) \cap ConOf(first) = {}
  BY <1>1, <1>7
<1>9. /\ IsPath(s, next', s[1]) /\ BlocksOf(s) = {last} \cup BlocksOf(t)
      /\ \A b \in Blocks \ BlocksOf(s) : next'[b] = next[b]
      /\ RestFrom(t, next', next'[last])
  BY <1>1, <1>2, <1>7, <1>8, LinkIsPath
<1> HIDE DEF s, last
<1>10. \A b \in BlocksOf(s) : ~less[b]
  BY <1>1, <1>5, <1>7, <1>9
<1>11. PICK r : /\ Laid(Without(m_flist, f), next', less, m_leaked, r)
                /\ Wholes(Without(m_flist, f), r) = Without(Wholes(m_flist, rests), f)
  BY <1>5, <1>9, <1>10, Relinked
<1>12. Fit(e, next', t)
  BY <1>1, <1>2, <1>4, <1>7, <1>8, <1>9 DEF Fit, last
<1>13. /\ BlocksOf(Whole(e, t)) = ConOf(first) \cup BlocksOf(t)
       /\ Whole(e, t) = ConSeq(first) \o t
  BY <1>4, <1>6, <1>12, WholeIs DEF Whole
<1>14. m_val' = Overwritten(m_val, Whole(e, t), text)
  <2>1. Len(text) = ConSize + Len(t)
    BY <1>1, <1>3, <1>7 DEF n
  <2>2. Modified!FillFrom(first, t, text) = Overwritten(m_val, ConSeq(first) \o t, text)
    BY <1>1, <1>7, <1>8, <2>1, FillIsOverwritten DEF last
  <2> QED BY <1>2, <1>13, <2>2
<1>15. \A b \in BlocksOf(Whole(e, t)) : ~less[b]
  BY <1>1, <1>5, <1>7, <1>13
<1>16. ConOf(first) \cap BlocksOf(c) = {} /\ (~(o.second > ConSize) => BlocksOf(c) = {})
  <2>1. CASE o.second > ConSize
    <3>1. BlocksOf(c) \cap ConOf(first) = {}
      BY <1>1, <2>1 DEF Fit, first
    <3> QED BY <2>1, <3>1
  <2>2. CASE ~(o.second > ConSize)
    BY <1>1, <1>2, <2>2, NoBlocks
  <2> QED BY <2>1, <2>2
<1>17. \A b \in Blocks : m_allocated'[b] <=> less[b] \/ b \in BlocksOf(Whole(e, t))
  <2>1. \A b \in Blocks :
          m_allocated'[b] <=> b \in BlocksOf(t) \/ (m_allocated[b] /\ b \notin BlocksOf(c))
    BY <1>1, <1>2
  <2> QED BY <1>1, <1>5, <1>13, <1>16, <2>1
<1>18. m_allocated' \in [Blocks -> BOOLEAN]
  BY <1>2, <1>5
<1> QED BY <1>2, <1>3, <1>11, <1>12, <1>14, <1>15, <1>17, <1>18, UpdatedIs DEF e, n, less, c

\* Lines 230-256: a text for which the consecutive part is enough.
LEMMA ToConIs ==
    ASSUME Given, NEW rests, ~torn, Laid(m_flist, next, m_allocated, m_leaked, rests),
           NEW f \in DOMAIN m_flist, NEW text \in ModifiedTexts, Modified!UpdateToCon(f, text)
    PROVE  Result(With(Shown(m_val, Wholes(m_flist, rests)), f, text))
<1> DEFINE n == Len(text)
           o == m_flist[f]
           c == rests[f]
           first == o.first
           none == <<>>
           e == Entry(f, n)
           less == Emptied(f, c)
<1>1. /\ Modified!Chain(f) = c /\ Fit(o, next, c)
      /\ Modified!Con(f) = ConOf(first)
      /\ first \in Blocks /\ first + ConSize - 1 \in Blocks /\ o.second \in Nat
      /\ ConSize \in Nat \ {0} /\ first \in Nat
      /\ BlocksOf(Whole(o, c)) = ConOf(first) \cup (IF o.second > ConSize THEN BlocksOf(c) ELSE {})
      /\ \A b \in BlocksOf(Whole(o, c)) : b \in Blocks /\ m_allocated[b]
  BY FileIs
<1>2. /\ n - o.second < 0 /\ n = ConSize
      /\ m_allocated' =
           [b \in Blocks |-> b \in Modified!Con(f)
                             \/ (m_allocated[b] /\ b \notin BlocksOf(Modified!Chain(f)))]
      /\ m_val' = [b \in Blocks |-> IF b \in Modified!Con(f) THEN text[b - first + 1] ELSE m_val[b]]
      /\ m_flist' = [m_flist EXCEPT ![f].second = ConSize]
      /\ next' = next /\ m_leaked' = m_leaked
  BY ModifiedDisk DEF Modified!UpdateToCon, Modified!diff, Modified!history
<1>3. text \in Seq(Char) /\ n \in Nat
  BY ModifiedText
<1>4. /\ e.first = first /\ e.second = n
      /\ e.first \in Blocks => e \in [first : Blocks, second : Nat]
  BY <1>3 DEF Entry
<1>5. /\ Laid(Without(m_flist, f), next, less, m_leaked, Without(rests, f))
      /\ Wholes(Without(m_flist, f), Without(rests, f)) = Without(Wholes(m_flist, rests), f)
      /\ m_allocated \in [Blocks -> BOOLEAN]
      /\ \A b \in Blocks : less[b] <=> m_allocated[b] /\ b \notin BlocksOf(Whole(o, c))
  BY EmptiedIs
<1>6. Proper(none) /\ BlocksOf(none) = {} /\ Len(none) = 0 /\ DOMAIN none = {}
  BY NoBlocks
<1>7. Modified!FillFrom(first, none, text)
        = [b \in Blocks |-> IF b \in ConOf(first) THEN text[b - first + 1] ELSE m_val[b]]
  BY ModifiedDisk DEF Modified!FillFrom, ConOf
<1> HIDE DEF n, o, c, first, less, e, none
<1>8. o.second > ConSize
  BY <1>1, <1>2, <1>3
<1>9. Fit(e, next', c)
  <2>1. ~(e.second > ConSize) /\ e.second >= ConSize
    BY <1>1, <1>2, <1>4
  <2> QED BY <1>1, <1>2, <1>4, <2>1 DEF Fit, first
<1>10. Whole(e, c) = ConSeq(first) \o none /\ BlocksOf(Whole(e, c)) = ConOf(first)
  <2>1. ~(e.second > ConSize)
    BY <1>1, <1>2, <1>4
  <2>2. Whole(e, c) = ConSeq(first) \o none
    BY <1>4, <2>1 DEF Whole, none
  <2> QED BY <1>4, <1>9, <2>1, <2>2, WholeIs
<1>11. m_val' = Overwritten(m_val, Whole(e, c), text)
  <2>1. Len(text) = ConSize + Len(none) /\ BlocksOf(none) \cap ConOf(first) = {}
    BY <1>1, <1>2, <1>6 DEF n
  <2>2. Modified!FillFrom(first, none, text) = Overwritten(m_val, ConSeq(first) \o none, text)
    BY <1>1, <1>6, <2>1, FillIsOverwritten
  <2> QED BY <1>1, <1>2, <1>7, <1>10, <2>2
<1>12. \A b \in BlocksOf(Whole(e, c)) : ~less[b]
  BY <1>1, <1>5, <1>10
<1>13. ConOf(first) \cap BlocksOf(c) = {}
  BY <1>1, <1>8 DEF Fit, first
<1>14. \A b \in Blocks : m_allocated'[b] <=> less[b] \/ b \in BlocksOf(Whole(e, c))
  <2>1. \A b \in Blocks :
          m_allocated'[b] <=> b \in ConOf(first) \/ (m_allocated[b] /\ b \notin BlocksOf(c))
    BY <1>1, <1>2
  <2> QED BY <1>1, <1>5, <1>8, <1>10, <1>13, <2>1
<1>15. m_allocated' \in [Blocks -> BOOLEAN]
  BY <1>2, <1>5
<1>16. Laid(Without(m_flist, f), next', less, m_leaked', Without(rests, f))
  BY <1>2, <1>5
<1>17. m_flist' = [m_flist EXCEPT ![f].second = n]
  BY <1>2
<1> QED BY <1>3, <1>5, <1>9, <1>11, <1>12, <1>14, <1>15, <1>16, <1>17, UpdatedIs DEF e, n, less, c

\* A text is its first characters and the others.
LEMMA CutAndJoined ==
    ASSUME NEW text \in Seq(Char), NEW m \in Nat, m <= Len(text), NEW rest \in Seq(Char),
           Len(rest) = Len(text) - m, \A k \in 1..Len(rest) : rest[k] = text[m + k]
    PROVE  SubSeq(text, 1, m) \o rest = text
<1> DEFINE start == SubSeq(text, 1, m)
           all == start \o rest
<1>1. Len(text) \in Nat /\ DOMAIN text = 1..Len(text) /\ text = [k \in 1..Len(text) |-> text[k]]
  OBVIOUS
<1>2. start \in Seq(Char) /\ Len(start) = m /\ \A k \in 1..m : start[k] = text[k]
  BY <1>1
<1> HIDE DEF start
<1>3. /\ all \in Seq(Char) /\ Len(all) = Len(start) + Len(rest)
      /\ \A i \in 1..(Len(start) + Len(rest)) :
           all[i] = IF i <= Len(start) THEN start[i] ELSE rest[i - Len(start)]
  BY <1>2, ConcatProperties
<1> HIDE DEF all
<1>4. Len(all) = Len(text)
  BY <1>1, <1>2, <1>3
<1>5. ASSUME NEW i \in 1..Len(text) PROVE all[i] = text[i]
  <2>1. CASE i <= m
    BY <1>1, <1>2, <1>3, <1>4, <2>1
  <2>2. CASE ~(i <= m)
    <3> DEFINE k == i - m
    <3>1. k \in 1..Len(rest) /\ m + k = i
      BY <1>1, <2>2
    <3>2. all[i] = rest[k]
      BY <1>1, <1>2, <1>3, <1>4, <2>2
    <3> HIDE DEF k
    <3> QED BY <3>1, <3>2
  <2> QED BY <2>1, <2>2
<1>6. all = [i \in 1..Len(text) |-> all[i]]
  BY <1>3, <1>4
<1>7. all = text
  BY <1>1, <1>5, <1>6
<1> QED BY <1>7 DEF all, start

\* Lines 273-290: a text of the same length replaces the old one, if it is
\* written right.
LEMMA SameIs ==
    ASSUME Given, NEW rests, ~torn, Laid(m_flist, next, m_allocated, m_leaked, rests),
           NEW f \in DOMAIN m_flist, NEW text \in ModifiedTexts, Modified!UpdateSame(f, text)
    PROVE  ~torn' /\ ~garbled' => Result(With(Shown(m_val, Wholes(m_flist, rests)), f, text))
<1> SUFFICES ASSUME ~torn', ~garbled'
             PROVE  Result(With(Shown(m_val, Wholes(m_flist, rests)), f, text))
  OBVIOUS
<1> DEFINE n == Len(text)
           o == m_flist[f]
           c == rests[f]
           first == o.first
           W == Wholes(m_flist, rests)
           s == Whole(o, c)
<1>1. /\ Modified!Chain(f) = c /\ Fit(o, next, c)
      /\ (Modified!Long(f) <=> o.second > ConSize)
      /\ first \in Blocks /\ first + ConSize - 1 \in Blocks
      /\ o.second \in Nat /\ o.second >= ConSize
      /\ ConSize \in Nat \ {0} /\ first \in Nat
  BY FileIs
<1>2. PICK rest \in [DOMAIN c -> Char] :
        /\ \A k \in DOMAIN c : rest[k] \in Modified!CharsAt(text, first + ConSize - 1 + k)
        /\ m_val' = Modified!FillFrom(first, c, SubSeq(text, 1, ConSize) \o rest)
  BY <1>1 DEF Modified!UpdateSame, Modified!LastCon
<1>3. /\ n - o.second = 0 /\ UNCHANGED <<m_allocated, next, m_flist, m_leaked>>
      /\ ~(c # <<>> /\ first > 0) /\ ~(c # <<>> /\ ~Modified!Long(f))
  BY <1>1 DEF Modified!UpdateSame, Modified!diff
<1>4. text \in Seq(Char) /\ n \in Nat
  BY ModifiedText
<1> HIDE DEF n, o, c, first, W
<1>5. n = o.second
  BY <1>1, <1>3, <1>4
<1>6. /\ Proper(c) /\ Len(c) = n - ConSize /\ BlocksOf(c) \cap ConOf(first) = {}
      /\ s = ConSeq(first) \o c
  <2>1. CASE o.second > ConSize
    BY <1>1, <1>5, <2>1 DEF Fit, first, Whole
  <2>2. CASE ~(o.second > ConSize)
    <3>1. c = <<>> /\ n - ConSize = 0
      BY <1>1, <1>3, <1>5, <2>2
    <3>2. Proper(c) /\ BlocksOf(c) = {} /\ Len(c) = 0
      BY <3>1, NoBlocks
    <3> QED BY <2>2, <3>1, <3>2 DEF Whole, first
  <2> QED BY <2>1, <2>2
<1>7. SubSeq(text, 1, ConSize) \o rest = text
  <2>1. DOMAIN c = 1..Len(c) /\ Len(c) \in Nat
    BY <1>6 DEF Proper
  <2>2. rest \in Seq(Char) /\ Len(rest) = n - ConSize
    BY <1>6, <2>1
  <2>3. ASSUME NEW k \in 1..Len(rest) PROVE rest[k] = text[ConSize + k]
    <3>1. k \in DOMAIN c /\ c # <<>>
      BY <1>6, <2>1, <2>2
    <3>2. first = 0
      BY <1>1, <1>3, <3>1
    <3>3. first + ConSize - 1 + k < n /\ first + ConSize - 1 + k + 1 = ConSize + k
      BY <1>1, <1>4, <2>2, <3>2
    <3>4. rest[k] \in {text[first + ConSize - 1 + k + 1]}
      BY <1>2, <3>1, <3>3 DEF Modified!CharsAt, n
    <3> QED BY <3>3, <3>4
  <2>4. ConSize <= Len(text)
    BY <1>1, <1>5 DEF n
  <2> QED BY <1>1, <1>4, <2>2, <2>3, <2>4, CutAndJoined DEF n
<1>8. m_val' = Overwritten(m_val, s, text)
  <2>1. Len(text) = ConSize + Len(c)
    BY <1>1, <1>4, <1>6 DEF n
  <2>2. Modified!FillFrom(first, c, text) = Overwritten(m_val, ConSeq(first) \o c, text)
    BY <1>1, <1>6, <2>1, FillIsOverwritten
  <2> QED BY <1>2, <1>6, <1>7, <2>2
<1>9. /\ DOMAIN W = DOMAIN m_flist /\ W[f] = s /\ Apart(W) /\ \A g \in DOMAIN W : Proper(W[g])
  <2>1. DOMAIN W = DOMAIN m_flist /\ \A g \in DOMAIN m_flist : W[g] = Whole(m_flist[g], rests[g])
    BY DEF W, Wholes
  <2>2. Apart(W) /\ \A g \in DOMAIN m_flist : Fit(m_flist[g], next, rests[g])
    BY DEF Laid, W
  <2> QED BY <2>1, <2>2, WholeIs DEF o, c
<1>10. Proper(s) /\ Len(s) = Len(text)
  BY <1>1, <1>5, WholeIs DEF n
<1> HIDE DEF s
<1>11. /\ DOMAIN Without(W, f) = DOMAIN W \ {f}
       /\ \A g \in DOMAIN W \ {f} : Without(W, f)[g] = W[g]
  BY WithoutEntry
<1>12. With(Without(W, f), f, s) = W
  <2>1. With(Without(W, f), f, s) = With(W, f, s)
    BY MapFacts
  <2>2. W = [g \in DOMAIN m_flist |-> W[g]]
    BY DEF W, Wholes
  <2>3. With(W, f, s) = [g \in DOMAIN m_flist |-> IF g = f THEN s ELSE W[g]]
    <3>1. DOMAIN W \cup {f} = DOMAIN m_flist
      BY <1>9
    <3> QED BY <3>1 DEF With
  <2> QED BY <1>9, <2>1, <2>2, <2>3
<1>13. \A g \in DOMAIN Without(W, f) :
         Proper(Without(W, f)[g]) /\ BlocksOf(Without(W, f)[g]) \cap BlocksOf(s) = {}
  BY <1>9, <1>11 DEF Apart
<1>14. Shown(Overwritten(m_val, s, text), With(Without(W, f), f, s))
         = With(Shown(m_val, Without(W, f)), f, text)
  <2> DEFINE less == Without(W, f)
  <2>1. /\ f \notin DOMAIN less
        /\ \A g \in DOMAIN less : Proper(less[g])
        /\ \A g \in DOMAIN less : BlocksOf(less[g]) \cap BlocksOf(s) = {}
    BY <1>11, <1>13
  <2> HIDE DEF less
  <2>2. Shown(Overwritten(m_val, s, text), With(less, f, s)) = With(Shown(m_val, less), f, text)
    BY <1>4, <1>10, <2>1, ShownWith
  <2> QED BY <2>2 DEF less
<1>15. Shown(m_val', W) = With(Shown(m_val, W), f, text)
  BY <1>8, <1>12, <1>14, ShownWithout, MapFacts
<1>16. Laid(m_flist', next', m_allocated', m_leaked', rests) /\ Wholes(m_flist', rests) = W
  BY <1>3 DEF W
<1> QED BY <1>15, <1>16 DEF Result, W

-----------------------------------------------------------------------------
(* Its theorems                                                            *)

\* The inputs are what the programs take for granted.
LEMMA Inputs == Given
  BY InputsAssumption DEF InputsAssumption, Given

\* Until an update tears a file, the files lie apart.
ModInv == ~torn => \E rests : Laid(m_flist, next, m_allocated, m_leaked, rests)

\* What is read after a step.
LEMMA ReadsWholeNext == ASSUME Given PROVE Held'
  BY ReadsWhole, PTL

\* A command leaves the files where they are, deletes one, or writes one.
LEMMA CommandIs ==
    ASSUME Given, NEW rests, Laid(m_flist, next, m_allocated, m_leaked, rests),
           Modified!Next, ~torn'
    PROVE  LET S == Shown(m_val, Wholes(m_flist, rests))
           IN  \/ /\ UNCHANGED <<m_flist, next, m_allocated, m_leaked>>
                  /\ m_val' = m_val \/ garbled'
               \/ \E f \in Files : \/ Result(Without(S, f))
                                   \/ \E text \in ModifiedTexts : Result(With(S, f, text))
<1> DEFINE S == Shown(m_val, Wholes(m_flist, rests))
           same == /\ UNCHANGED <<m_flist, next, m_allocated, m_leaked>>
                   /\ m_val' = m_val \/ garbled'
<1>1. ~torn
  BY DEF Modified!Next
<1>2. PICK f \in Files :
        \/ Modified!Delete_File(f)
        \/ \E text \in ModifiedTexts : \/ Modified!Create_File(f, text)
                                       \/ Modified!CreateRefused(f, text)
                                       \/ Modified!Update_File(f, text)
  BY DEF Modified!Next
<1>3. ASSUME UNCHANGED Modified!vars PROVE same
  BY <1>3 DEF Modified!vars
<1>4. ASSUME Modified!Delete_File(f) PROVE same \/ Result(Without(S, f))
  <2>1. CASE f \in DOMAIN m_flist
    BY <1>1, <1>4, <2>1, DeleteIs
  <2>2. CASE f \notin DOMAIN m_flist
    BY <1>3, <1>4, <2>2 DEF Modified!Delete_File, Modified!Exists
  <2> QED BY <2>1, <2>2
<1>5. ASSUME NEW text \in ModifiedTexts, Modified!Create_File(f, text)
      PROVE  Result(With(S, f, text))
  BY <1>1, <1>5, CreateIs
<1>6. ASSUME NEW text \in ModifiedTexts, Modified!CreateRefused(f, text)
      PROVE  same
  BY <1>3, <1>6 DEF Modified!CreateRefused
<1>7. ASSUME NEW text \in ModifiedTexts, Modified!Update_File(f, text)
      PROVE  same \/ Result(Without(S, f)) \/ Result(With(S, f, text))
  <2>1. CASE f \notin DOMAIN m_flist
    BY <1>3, <1>7, <2>1 DEF Modified!Update_File, Modified!Exists
  <2>2. CASE f \in DOMAIN m_flist
    <3>1. \/ Modified!UpdateForget(f, text) \/ Modified!UpdateToCon(f, text)
          \/ Modified!UpdateShrink(f, text) \/ Modified!UpdateSame(f, text)
          \/ Modified!UpdateNoSpace(f, text) \/ Modified!UpdateGrow(f, text)
      BY <1>7, <2>2 DEF Modified!Update_File, Modified!Exists
    <3>2. CASE Modified!UpdateForget(f, text)
      BY <1>1, <2>2, <3>2, ForgetIs
    <3>3. CASE Modified!UpdateToCon(f, text)
      BY <1>1, <2>2, <3>3, ToConIs
    <3>4. CASE Modified!UpdateShrink(f, text) \/ Modified!UpdateNoSpace(f, text)
      BY <3>4 DEF Modified!UpdateShrink, Modified!UpdateNoSpace
    <3>5. CASE Modified!UpdateSame(f, text)
      <4>1. CASE garbled'
        BY <3>5, <4>1 DEF Modified!UpdateSame
      <4>2. CASE ~garbled'
        BY <1>1, <2>2, <3>5, <4>2, SameIs
      <4> QED BY <4>1, <4>2
    <3>6. CASE Modified!UpdateGrow(f, text)
      BY <1>1, <2>2, <3>6, GrowIs
    <3> QED BY <3>1, <3>2, <3>3, <3>4, <3>5, <3>6
  <2> QED BY <2>1, <2>2
<1> HIDE DEF S, same
<1>8. \/ same
      \/ Result(Without(S, f)) \/ \E text \in ModifiedTexts : Result(With(S, f, text))
  <2>1. CASE Modified!Delete_File(f)
    BY <1>4, <2>1
  <2>2. CASE \E text \in ModifiedTexts : Modified!Create_File(f, text)
    BY <1>5, <2>2
  <2>3. CASE \E text \in ModifiedTexts : Modified!CreateRefused(f, text)
    BY <1>6, <2>3
  <2>4. CASE \E text \in ModifiedTexts : Modified!Update_File(f, text)
    BY <1>7, <2>4
  <2> QED BY <1>2, <2>1, <2>2, <2>3, <2>4
<1> QED BY <1>8 DEF S, same

\* A step keeps the invariant.
LEMMA ModStep ==
    ASSUME Given, ModInv, [Modified!Next]_(Modified!vars)
    PROVE  ModInv'
<1> SUFFICES ASSUME ~torn' PROVE \E r : Laid(m_flist', next', m_allocated', m_leaked', r)
  BY DEF ModInv
<1>1. CASE Modified!Next
  <2>1. ~torn
    BY <1>1 DEF Modified!Next
  <2>2. PICK rests : Laid(m_flist, next, m_allocated, m_leaked, rests)
    BY <2>1 DEF ModInv
  <2> DEFINE S == Shown(m_val, Wholes(m_flist, rests))
  <2>3. \/ UNCHANGED <<m_flist, next, m_allocated, m_leaked>>
        \/ \E f \in Files : \/ Result(Without(S, f))
                            \/ \E text \in ModifiedTexts : Result(With(S, f, text))
    BY <1>1, <2>2, CommandIs
  <2>4. CASE UNCHANGED <<m_flist, next, m_allocated, m_leaked>>
    BY <2>2, <2>4
  <2>5. ASSUME NEW texts, Result(texts)
        PROVE  \E r : Laid(m_flist', next', m_allocated', m_leaked', r)
    BY <2>5 DEF Result
  <2> QED BY <2>3, <2>4, <2>5
<1>2. CASE UNCHANGED Modified!vars
  BY <1>2 DEF ModInv, Modified!vars
<1> QED BY <1>1, <1>2

\* At the start there are no files.
LEMMA ModStart == ASSUME Given, Modified!Init PROVE ModInv
<1> DEFINE none == <<>>
<1>1. DOMAIN none = {} /\ IsFiniteSet(DOMAIN none)
  BY FS_EmptySet
<1>2. /\ m_flist = none /\ m_allocated = [b \in Blocks |-> FALSE]
  BY ModifiedDisk DEF Modified!Init
<1> HIDE DEF none
<1>3. m_allocated \in [Blocks -> BOOLEAN] /\ \A b \in Blocks : ~m_allocated[b]
  BY <1>2
<1>4. DOMAIN Wholes(none, none) = {}
  BY <1>1 DEF Wholes
<1>5. Laid(none, next, m_allocated, m_leaked, none)
  BY <1>1, <1>3, <1>4 DEF Laid, Apart
<1> QED BY <1>2, <1>5 DEF ModInv

\* The invariant of modified_contiguous.cpp, for any number of files and blocks,
\* any con_size and any texts.
THEOREM ModifiedInvariance == Modified!Spec => []ModInv
<1>1. Modified!Init => ModInv
  BY Inputs, ModStart
<1>2. ModInv /\ [Modified!Next]_(Modified!vars) => ModInv'
  BY Inputs, ModStep
<1> QED BY <1>1, <1>2, PTL DEF Modified!Spec

\* Until an update tears a file no block belongs to two files, and none is lost
\* unless a file was forgotten (lines 216-229).
LEMMA ModifiedIsSound == ModInv => Modified!ChainsSound
<1> SUFFICES ASSUME ~torn, ModInv PROVE Modified!ChainsSound
  BY DEF Modified!ChainsSound
<1>1. PICK rests : Laid(m_flist, next, m_allocated, m_leaked, rests)
  BY DEF ModInv
<1> DEFINE W == Wholes(m_flist, rests)
           blocks == [f \in DOMAIN m_flist |-> Modified!BlocksInOrder(f)]
           own == [f \in DOMAIN m_flist |-> Modified!BlocksOf(blocks[f])]
<1>2. \A f \in DOMAIN m_flist : Modified!BlocksInOrder(f) = W[f] /\ Modified!Ends(f)
  BY <1>1, Inputs, ReadsWhole DEF Held, Wholes
<1>3. \A f \in DOMAIN m_flist : blocks[f] = W[f] /\ own[f] = BlocksOf(W[f])
  BY <1>2, ModifiedDisk
<1>4. /\ DOMAIN W = DOMAIN m_flist /\ Apart(W)
      /\ \A f \in DOMAIN m_flist : Fit(m_flist[f], next, rests[f])
      /\ \A f \in DOMAIN m_flist : \A b \in BlocksOf(W[f]) : m_allocated[b]
      /\ ~m_leaked => \A b \in Blocks : m_allocated[b] => b \in InUse(W)
  BY <1>1 DEF Laid, Wholes
<1>5. \A f \in DOMAIN m_flist : W[f] = Whole(m_flist[f], rests[f])
  BY DEF Wholes
<1> HIDE DEF W, blocks, own
<1>6. ASSUME NEW f \in DOMAIN m_flist
      PROVE  Len(W[f]) = m_flist[f].second /\ Modified!Cardinality(own[f]) = m_flist[f].second
  <2>1. Proper(W[f]) /\ Len(W[f]) = m_flist[f].second
    BY <1>4, <1>5, Inputs, WholeIs
  <2>2. Cardinality(BlocksOf(W[f])) = Len(W[f])
    BY <2>1, ProperSize
  <2> QED BY <1>3, <2>1, <2>2, ModifiedDisk
<1>7. \A f \in DOMAIN m_flist :
        /\ Modified!Ends(f)
        /\ Len(blocks[f]) = m_flist[f].second /\ Modified!Cardinality(own[f]) = m_flist[f].second
        /\ \A b \in own[f] : m_allocated[b]
  BY <1>2, <1>3, <1>4, <1>6
<1>8. \A f, g \in DOMAIN m_flist : f # g => own[f] \cap own[g] = {}
  BY <1>3, <1>4 DEF Apart
<1>9. ~m_leaked =>
        \A b \in Modified!Blocks : m_allocated[b] => \E f \in DOMAIN m_flist : b \in own[f]
  <2>1. SUFFICES ASSUME ~m_leaked, NEW b \in Blocks, m_allocated[b]
                 PROVE  \E f \in DOMAIN m_flist : b \in own[f]
    BY ModifiedDisk
  <2>2. b \in InUse(W)
    BY <1>4, <2>1
  <2> QED BY <1>3, <1>4, <2>2 DEF InUse
<1> QED BY <1>7, <1>8, <1>9 DEF Modified!ChainsSound, blocks, own

\* So it is in every run of modified_contiguous.cpp.
THEOREM ChainsAreSound == Modified!Spec => []Modified!ChainsSound
  BY ModifiedIsSound, ModifiedInvariance, PTL

\* The store has the operators of this module.
LEMMA ModifiedStore ==
    /\ \A map, f, value : Modified!Store!With(map, f, value) = With(map, f, value)
    /\ \A map, f : Modified!Store!Without(map, f) = Without(map, f)
    /\ \A h, S : Modified!Store!SumFunctionOnSet(h, S) = SumFunctionOnSet(h, S)
<1>1. \A map, f, value : Modified!Store!With(map, f, value) = With(map, f, value)
  BY DEF Modified!Store!With, With
<1>2. \A map, f : Modified!Store!Without(map, f) = Without(map, f)
  BY DEF Modified!Store!Without, Without
<1>3. \A h, S : Modified!Store!SumFunctionOnSet(h, S) = SumFunctionOnSet(h, S)
  BY DEF Modified!Store!SumFunctionOnSet, Modified!Store!FoldFunctionOnSet,
         Modified!Store!MapThenFoldSet,
         SumFunctionOnSet, FoldFunctionOnSet, MapThenFoldSet
<1> QED BY <1>1, <1>2, <1>3

\* Files that lie apart fit on the disk.
LEMMA ApartFits ==
    ASSUME Given, NEW inodes, IsFiniteSet(DOMAIN inodes), Apart(inodes),
           \A g \in DOMAIN inodes : Proper(inodes[g]),
           NEW f, f \notin DOMAIN inodes, NEW s, Proper(s),
           \A g \in DOMAIN inodes : BlocksOf(inodes[g]) \cap BlocksOf(s) = {},
           NEW chars, NEW held, held = Shown(chars, inodes)
    PROVE  SumFunctionOnSet([g \in DOMAIN held |-> Len(held[g])], DOMAIN held) + Len(s)
             <= NumBlocks
<1> DEFINE U == InUse(inodes)
           available == [b \in Blocks |-> b \notin U]
           free == Cardinality(Free(available))
           now == [b \in Blocks |-> available[b] /\ b \notin BlocksOf(s)]
<1>1. U \subseteq Blocks /\ U \cap BlocksOf(s) = {}
  BY ProperSize DEF InUse
<1> HIDE DEF U
<1>2. available \in [Blocks -> BOOLEAN] /\ \A b \in Blocks : available[b] <=> b \notin U
  <2>1. \A b \in Blocks : (b \notin U) \in BOOLEAN
    OBVIOUS
  <2> QED BY <2>1
<1> HIDE DEF available
<1>3. {b \in Blocks : ~available[b]} = U
  BY <1>1, <1>2
<1>4. Kept(inodes, available, free)
  BY <1>2, <1>3 DEF Kept, U
<1>5. BlocksOf(s) \subseteq Free(available)
  BY <1>1, <1>2, ProperSize DEF Free
<1> HIDE DEF free
<1>6. Kept(With(inodes, f, s), now, free - Len(s))
  BY <1>4, <1>5, KeptWith DEF Given
<1> HIDE DEF now
<1>7. free - Len(s) \in Nat
  BY <1>6, FreeTyped DEF Kept, Given
<1>8. SumFunctionOnSet([g \in DOMAIN held |-> Len(held[g])], DOMAIN held) = NumBlocks - free
  BY <1>4, UsedSpace DEF Given
<1>9. free \in Nat /\ Len(s) \in Nat /\ NumBlocks \in Nat
  BY ProperSize, FreeTyped DEF Given, DiskAssumption, free
<1> QED BY <1>7, <1>8, <1>9

\* So a text that was written fits next to the others.
LEMMA ResultFits ==
    ASSUME Given, NEW held, NEW f, NEW text, Result(With(held, f, text))
    PROVE  LET others == Without(held, f)
           IN  SumFunctionOnSet([g \in DOMAIN others |-> Len(others[g])], DOMAIN others)
                 + Len(text) <= NumBlocks
<1>1. PICK r : /\ Laid(m_flist', next', m_allocated', m_leaked', r)
               /\ Shown(m_val', Wholes(m_flist', r)) = With(held, f, text)
  BY DEF Result
<1> DEFINE W == Wholes(m_flist', r)
           V == Without(W, f)
<1>2. /\ DOMAIN W = DOMAIN m_flist' /\ IsFiniteSet(DOMAIN W) /\ Apart(W)
      /\ \A g \in DOMAIN W : W[g] = Whole(m_flist'[g], r[g]) /\ Fit(m_flist'[g], next', r[g])
  BY <1>1 DEF Laid, Wholes
<1>3. \A g \in DOMAIN W : Proper(W[g])
  BY <1>2, WholeIs
<1> HIDE DEF W
<1>4. /\ DOMAIN V = DOMAIN W \ {f} /\ \A g \in DOMAIN V : V[g] = W[g]
  BY WithoutEntry
<1> HIDE DEF V
<1>5. /\ f \in DOMAIN With(held, f, text) /\ With(held, f, text)[f] = text
  BY DEF With
<1>6. f \in DOMAIN W /\ text = Reads(m_val', W[f])
  BY <1>1, <1>5 DEF Shown, W
<1>7. Len(text) = Len(W[f])
  <2>1. DOMAIN W[f] = 1..Len(W[f]) /\ Len(W[f]) \in Nat
    BY <1>3, <1>6 DEF Proper
  <2> QED BY <1>6, <2>1 DEF Reads
<1>8. Without(held, f) = Shown(m_val', V)
  <2>1. Shown(m_val', V) = Without(Shown(m_val', W), f)
    BY ShownWithout DEF V
  <2>2. Without(With(held, f, text), f) = Without(held, f)
    <3>1. DOMAIN With(held, f, text) \ {f} = DOMAIN held \ {f}
      BY DEF With
    <3>2. \A g \in DOMAIN held \ {f} : With(held, f, text)[g] = held[g]
      BY DEF With
    <3> QED BY <3>1, <3>2 DEF Without
  <2> QED BY <1>1, <2>1, <2>2 DEF W
<1>9. IsFiniteSet(DOMAIN V) /\ Apart(V) /\ f \notin DOMAIN V
      /\ \A g \in DOMAIN V : Proper(V[g]) /\ BlocksOf(V[g]) \cap BlocksOf(W[f]) = {}
  BY <1>2, <1>3, <1>4, <1>6, FS_Subset DEF Apart
<1> QED BY <1>3, <1>6, <1>7, <1>8, <1>9, ApartFits

\* What is read after a step that leaves these texts.
LEMMA ResultIsRead ==
    ASSUME Given, NEW texts, Result(texts), ~torn'
    PROVE  Modified!contents' = texts
  BY ReadsWholeNext DEF Held, Result

\* A step that tears or garbles no file is one of the store.
LEMMA ModifiedStoreStep ==
    ASSUME Given, ModInv, [Modified!Next]_(Modified!vars)
    PROVE  [torn' \/ garbled' \/ Modified!Store!Next \/ UNCHANGED Modified!contents]_(Modified!vars)
<1> SUFFICES ASSUME Modified!Next, ~torn', ~garbled'
             PROVE  Modified!Store!Next \/ UNCHANGED Modified!contents
  OBVIOUS
<1>1. ~torn
  BY DEF Modified!Next
<1>2. PICK rests : Laid(m_flist, next, m_allocated, m_leaked, rests)
  BY <1>1 DEF ModInv
<1> DEFINE S == Shown(m_val, Wholes(m_flist, rests))
<1>3. Modified!contents = S
  BY <1>1, <1>2, ReadsWhole DEF Held
<1>4. \/ UNCHANGED <<m_flist, next, m_allocated, m_leaked, m_val>>
      \/ \E f \in Files : \/ Result(Without(S, f))
                          \/ \E text \in ModifiedTexts : Result(With(S, f, text))
  BY <1>2, CommandIs
<1>5. CASE UNCHANGED <<m_flist, next, m_allocated, m_leaked, m_val>>
  <2>1. Result(S)
    BY <1>2, <1>5 DEF Result
  <2>2. Modified!contents' = S
    BY <2>1, ResultIsRead
  <2> QED BY <1>3, <2>2
<1> HIDE DEF S
<1>6. ASSUME NEW f \in Files, Result(Without(S, f)) PROVE Modified!Store!Next
  <2>1. Modified!contents' = Without(S, f)
    BY <1>6, ResultIsRead
  <2>2. Modified!Store!Delete(f)
    BY <1>3, <2>1, ModifiedStore DEF Modified!Store!Delete
  <2> QED BY <2>2 DEF Modified!Store!Next
<1>7. ASSUME NEW f \in Files, NEW text \in ModifiedTexts, Result(With(S, f, text))
      PROVE  Modified!Store!Next
  <2>1. Modified!contents' = With(S, f, text)
    BY <1>7, ResultIsRead
  <2>2. Modified!Store!Holds(f, text)
    BY <1>3, <2>1, ModifiedStore DEF Modified!Store!Holds
  <2>3. Modified!Store!Fits(f, text)
    <3> DEFINE others == Without(S, f)
    <3>1. SumFunctionOnSet([g \in DOMAIN others |-> Len(others[g])], DOMAIN others) + Len(text)
            <= NumBlocks
      BY <1>7, ResultFits
    <3>2. Modified!Store!Without(Modified!contents, f) = others
      BY <1>3, ModifiedStore
    <3>3. Modified!Store!Used(others) =
            SumFunctionOnSet([g \in DOMAIN others |-> Len(others[g])], DOMAIN others)
      BY ModifiedStore DEF Modified!Store!Used
    <3> HIDE DEF others
    <3> QED BY <3>1, <3>2, <3>3 DEF Modified!Store!Fits
  <2>4. Modified!Store!Write(f, text)
    BY <2>2, <2>3 DEF Modified!Store!Write
  <2> QED BY <2>4 DEF Modified!Store!Next
<1> QED BY <1>4, <1>5, <1>6, <1>7

\* What modified_contiguous.cpp reads of a file (lines 171-205) is what was last
\* written to it, until an update tears or garbles one.
THEOREM ModifiedIsStore == Modified!Spec => Modified!StoreUntilTorn
<1>1. Modified!Init => Modified!Store!Init
  BY DEF Modified!Init, Modified!Store!Init, Modified!contents
<1>2. ModInv /\ [Modified!Next]_(Modified!vars) =>
        [torn' \/ garbled' \/ Modified!Store!Next \/ UNCHANGED Modified!contents]_(Modified!vars)
  BY Inputs, ModifiedStoreStep
<1> QED BY <1>1, <1>2, ModifiedInvariance, PTL DEF Modified!Spec, Modified!StoreUntilTorn

-----------------------------------------------------------------------------
(* All the programs                                                        *)

\* A run of the assignment is a run of each program that stays as it is while
\* another one is run.
LEMMA RunsEach == RunSpec => Spec /\ Contiguous!Spec /\ Modified!Spec
<1>1. RunInit => Init /\ Contiguous!Init /\ Modified!Init
  BY DEF RunInit
<1>2. [RunNext]_<<program, vars, c_vars, m_vars>> => [Next]_vars
  BY DEF RunNext
<1>3. [RunNext]_<<program, vars, c_vars, m_vars>> => [Contiguous!Next]_(Contiguous!vars)
  BY DEF RunNext, c_vars, Contiguous!vars
<1>4. [RunNext]_<<program, vars, c_vars, m_vars>> => [Modified!Next]_(Modified!vars)
  BY DEF RunNext, m_vars, Modified!vars
<1> QED BY <1>1, <1>2, <1>3, <1>4, PTL DEF RunSpec, Spec, Contiguous!Spec, Modified!Spec

\* Whatever program is run, on any disk and any input: no block belongs to two
\* files, and none is lost but by the updates that forget or tear a file.
THEOREM AllDisksAreSound == RunSpec => []EveryDiskSound
<1>1. DiskAssumption /\ Contiguous!DiskAssumption
  BY InputsAssumption DEF InputsAssumption
<1>2. Spec => []DisksSound
  BY <1>1, DisksAreSound
<1>3. Contiguous!Spec => []Contiguous!ExtentsSound
  BY <1>1, ExtentsAreSound
<1> QED BY <1>2, <1>3, ChainsAreSound, RunsEach, PTL DEF EveryDiskSound

\* Whatever program is run, a file holds what was last written to it, and a write
\* fails only for want of space; of modified_contiguous.cpp until an update
\* tears or garbles a file.
THEOREM AllAreStores == RunSpec => EveryProgramIsStore
<1>1. DiskAssumption /\ Contiguous!DiskAssumption
  BY InputsAssumption DEF InputsAssumption
<1>2. Spec => LinkedImplementsStore /\ IndexedImplementsStore
  BY <1>1, LinkedIsStore, IndexedIsStore
<1>3. Contiguous!Spec => Contiguous!ImplementsStore
  BY <1>1, ContiguousIsStore
<1> QED BY <1>2, <1>3, ModifiedIsStore, RunsEach, PTL DEF EveryProgramIsStore

\* Whatever program is run: the linked and the indexed one agree until a write
\* fails, and contiguous.cpp says "No Contiguous Space" only when the space is
\* in pieces.
THEOREM RunsAgree == RunSpec => [](AgreeUntilFailure /\ NoSpaceIsFragmented)
<1>1. DiskAssumption /\ Contiguous!DiskAssumption
  BY InputsAssumption DEF InputsAssumption
<1>2. Spec => []AgreeUntilFailure
  BY <1>1, ProgramsAgree
<1>3. Contiguous!Spec => []NoSpaceIsFragmented
  BY <1>1, SpaceIsFragmented
<1> QED BY <1>2, <1>3, RunsEach, PTL
=============================================================================
