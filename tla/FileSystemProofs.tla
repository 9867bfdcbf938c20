-------------------------- MODULE FileSystemProofs --------------------------
(***************************************************************************)
(* Proofs about the file system, for every number of files and blocks and  *)
(* every size of the tables: no block belongs to two files, in the cache   *)
(* or on disk, whenever power goes, as long as the server did not start    *)
(* from a damaged disk; and flushed files survive every loss of power.     *)
(*                                                                         *)
(* The cache is consistent by itself.  The disk is consistent because what *)
(* is on disk is never ahead of the cache: a pointer is dropped from the   *)
(* disk before the bitmap that frees its block can reach it, and the       *)
(* bitmap is on disk before a pointer to a block it gives away can be.     *)
(***************************************************************************)
EXTENDS FileSystem, TLAPS

\* The pointers in the cache and, as far as they are in struct Files, on disk.
P(g, k) == Pointer(file, cache, g, k)
D(g, k) == Pointer(fileOnDisk, disk, g, k)

\* The disk is behind the cache.
BitmapBehind == freeOnDisk \subseteq free
SizeOnDisk == \A g \in Files : fileOnDisk[g].f_size = file[g].f_size
PointersBehind == \A g \in Files, k \in InFile : D(g, k) # Null => D(g, k) = P(g, k)

\* file_read() and file_write() work on a block that is in the file.
ReqOK ==
    \A op \in {"read", "write"}, f \in Files, i \in Nat :
        req = [op |-> op, f |-> f, bno |-> i] => i < file[f].f_size

CacheFits == Consistent(file, cache, free, All)
Tables == HasTables(file, cache)

IInv ==
    /\ Shapes
    /\ CacheFits /\ Tables
    /\ BitmapBehind /\ SizeOnDisk /\ PointersBehind
    /\ ReqOK

DiskFits == Consistent(fileOnDisk, disk, freeOnDisk, InFile)

\* Of a damaged disk nothing is left but what no restart changes.
Inv ==
    /\ TypeOK
    /\ DiskFits /\ SizeOnDisk
    /\ ~damaged => IInv

\* A flushed file is on disk, with its pointers and its data.
Kept(f) ==
    /\ \A k \in All : D(f, k) = P(f, k)
    /\ \A k \in Indices : P(f, k) # Null => disk[P(f, k)].data = cache[P(f, k)].data

\* What the first steps of a flush or a sync have written.
DataFlushed(f) ==
    \A k \in Indices : P(f, k) # Null => disk[P(f, k)] = cache[P(f, k)]

FlushOK ==
    /\ \A f \in Files :
           /\ req = [op |-> "flush", f |-> f] => DataFlushed(f)
           /\ req = [op |-> "flush_indirect", f |-> f] =>
                  DataFlushed(f) /\ fileOnDisk[f] = file[f]
    /\ req = [op |-> "sync_blocks"] => fileOnDisk = file

SafeInv ==
    /\ \A f \in safe : Kept(f)
    /\ FlushOK
    /\ \A f \in Files : file[f].f_size <= MaxSize[f]

-----------------------------------------------------------------------------
(* Pointers.                                                               *)

LEMMA Sizes ==
    /\ NDIRECT \in Nat /\ NINDIRECT \in Nat /\ NBlocks \in Nat
    /\ Null \notin Blocks /\ Blocks \subseteq Nat /\ Blocks \subseteq Ptr /\ Null \in Ptr
    /\ -1 \in All /\ -1 \in InFile /\ -1 \notin Indices
    /\ InFile \subseteq All /\ Indices \subseteq All
    /\ \A k \in All : k = -1 \/ k \in 0 .. NDIRECT - 1 \/ k - NDIRECT \in 0 .. NINDIRECT - 1
    /\ \A k \in All : k \in Indices \/ k = -1
    /\ \A k \in Indices : k \in Nat
    /\ \A k \in Nat : InRange(k) <=> k \in Indices
BY FileSystemAssumption DEF Blocks, Null, All, Indices, InFile, Ptr, InRange

\* What Pointer is, by the place the pointer is in.
LEMMA PointerIs ==
    ASSUME NEW fl \in [Files -> File], NEW bl \in [Blocks -> Block], NEW g \in Files
    PROVE  /\ Pointer(fl, bl, g, -1) = fl[g].f_indirect
           /\ \A k \in 0 .. NDIRECT - 1 : Pointer(fl, bl, g, k) = fl[g].f_direct[k]
           /\ \A k \in Indices : k >= NDIRECT /\ fl[g].f_indirect = Null => Pointer(fl, bl, g, k) = Null
           /\ \A k \in Indices : k >= NDIRECT /\ fl[g].f_indirect # Null =>
                  Pointer(fl, bl, g, k) = bl[fl[g].f_indirect].entry[k - NDIRECT]
           /\ \A k \in Indices : Pointer(fl, bl, g, k) = PtrAt(fl, bl, g, k)
           /\ \A k \in All : Pointer(fl, bl, g, k) \in Ptr
<1>1. Pointer(fl, bl, g, -1) = fl[g].f_indirect
  BY DEF Pointer
<1>2. \A k \in 0 .. NDIRECT - 1 : Pointer(fl, bl, g, k) = fl[g].f_direct[k]
  BY Sizes DEF Pointer, PtrAt
<1>3. ASSUME NEW k \in Indices PROVE k \in Nat /\ k < NDIRECT + NINDIRECT /\ k # -1
  BY Sizes DEF Indices
<1>4. \A k \in Indices : k >= NDIRECT /\ fl[g].f_indirect = Null => Pointer(fl, bl, g, k) = Null
  BY <1>3, Sizes DEF Pointer, PtrAt
<1>5. \A k \in Indices : k >= NDIRECT /\ fl[g].f_indirect # Null =>
          Pointer(fl, bl, g, k) = bl[fl[g].f_indirect].entry[k - NDIRECT]
  BY <1>3, Sizes DEF Pointer, PtrAt
<1>6. \A k \in Indices : Pointer(fl, bl, g, k) = PtrAt(fl, bl, g, k)
  BY <1>3 DEF Pointer
<1>7. ASSUME NEW k \in All PROVE Pointer(fl, bl, g, k) \in Ptr
  <2>1. PICK r \in File : r = fl[g]
    OBVIOUS
  <2>2. r.f_indirect \in Ptr /\ r.f_direct \in [0 .. NDIRECT - 1 -> Ptr]
    BY DEF File
  <2>3. CASE k = -1
    BY <1>1, <2>1, <2>2, <2>3
  <2>4. CASE k \in 0 .. NDIRECT - 1
    BY <1>2, <2>1, <2>2, <2>4
  <2>5. CASE k # -1 /\ k \notin 0 .. NDIRECT - 1
    <3>1. k \in Indices /\ k >= NDIRECT /\ k - NDIRECT \in 0 .. NINDIRECT - 1
      BY <2>5, Sizes DEF Indices
    <3>2. CASE r.f_indirect = Null
      BY <1>4, <2>1, <3>1, <3>2, Sizes
    <3>3. CASE r.f_indirect # Null
      <4>1. r.f_indirect \in Blocks
        BY <2>2, <3>3 DEF Ptr
      <4>2. PICK c \in Block : c = bl[r.f_indirect]
        BY <4>1
      <4>3. c.entry[k - NDIRECT] \in Ptr
        BY <3>1 DEF Block
      <4> QED BY <1>5, <2>1, <3>1, <3>3, <4>2, <4>3
    <3> QED BY <3>2, <3>3
  <2> QED BY <2>3, <2>4, <2>5
<1> QED BY <1>1, <1>2, <1>4, <1>5, <1>6, <1>7

\* The struct File and the indirect block stay as they are.
LEMMA SamePointers ==
    ASSUME NEW g \in Files,
           file'[g].f_direct = file[g].f_direct, file'[g].f_indirect = file[g].f_indirect,
           file[g].f_indirect # Null =>
               cache'[file[g].f_indirect].entry = cache[file[g].f_indirect].entry
    PROVE  \A k \in All : P(g, k)' = P(g, k)
BY DEF P, Pointer, PtrAt

-----------------------------------------------------------------------------
(* Consistency in terms of P.                                              *)

\* k is not behind the end of a file of size n.
Within(k, n) == IF k = -1 THEN n > NDIRECT ELSE k < n

LEMMA ConsistentIs ==
    CacheFits <=>
        \A f \in Files, k \in All : P(f, k) # Null =>
            /\ P(f, k) \notin free
            /\ \A g \in Files, l \in All : P(g, l) = P(f, k) => f = g /\ k = l
            /\ Within(k, file[f].f_size)
BY DEF CacheFits, Consistent, P, Within

LEMMA ConsistentNext ==
    ASSUME \A f \in Files, k \in All : P(f, k)' # Null =>
               /\ P(f, k)' \notin free'
               /\ \A g \in Files, l \in All : P(g, l)' = P(f, k)' => f = g /\ k = l
               /\ Within(k, file'[f].f_size)
    PROVE  CacheFits'
BY DEF CacheFits, Consistent, P, Within

\* No pointer changes, and no file gets shorter.
LEMMA ConsistentSame ==
    ASSUME CacheFits, free' = free,
           \A f \in Files, k \in All : P(f, k)' = P(f, k),
           \A f \in Files, k \in All : Within(k, file[f].f_size) => Within(k, file'[f].f_size)
    PROVE  CacheFits'
BY ConsistentIs, ConsistentNext

\* Pointer k0 of f0 gets a free block.
LEMMA ConsistentAdd ==
    ASSUME CacheFits, NEW f0 \in Files, NEW k0 \in All, NEW b \in free, b # Null,
           P(f0, k0) = Null, P(f0, k0)' = b, free' = free \ {b},
           \A f \in Files, k \in All : (f # f0 \/ k # k0) => P(f, k)' = P(f, k),
           \A f \in Files, k \in All : Within(k, file[f].f_size) => Within(k, file'[f].f_size),
           Within(k0, file'[f0].f_size)
    PROVE  CacheFits'
<1> SUFFICES ASSUME NEW f \in Files, NEW k \in All, P(f, k)' # Null
             PROVE  /\ P(f, k)' \notin free'
                    /\ \A g \in Files, l \in All : P(g, l)' = P(f, k)' => f = g /\ k = l
                    /\ Within(k, file'[f].f_size)
  BY ConsistentNext
<1>1. \A g \in Files, l \in All : P(g, l) # b
  BY ConsistentIs
<1>2. CASE f = f0 /\ k = k0
  BY <1>1, <1>2
<1>3. CASE f # f0 \/ k # k0
  <2>1. P(f, k)' = P(f, k)
    BY <1>3
  <2>2. /\ P(f, k) \notin free /\ Within(k, file[f].f_size)
        /\ \A g \in Files, l \in All : P(g, l) = P(f, k) => f = g /\ k = l
    BY <2>1, ConsistentIs
  <2>3. P(f, k) # b
    BY <1>1
  <2> QED BY <2>1, <2>2, <2>3
<1> QED BY <1>2, <1>3

\* The pointers of f0 that a file of n blocks does not need go.
LEMMA ConsistentDrop ==
    ASSUME CacheFits, NEW f0 \in Files, NEW n \in Nat, file'[f0].f_size = n,
           \A f \in Files \ {f0} : file'[f] = file[f],
           \A f \in Files, k \in All :
               P(f, k)' = IF f # f0 \/ Within(k, n) THEN P(f, k) ELSE Null,
           \A b \in free' : b \in free \/ \E k \in All : P(f0, k) = b /\ ~Within(k, n)
    PROVE  CacheFits'
<1> SUFFICES ASSUME NEW f \in Files, NEW k \in All, P(f, k)' # Null
             PROVE  /\ P(f, k)' \notin free'
                    /\ \A g \in Files, l \in All : P(g, l)' = P(f, k)' => f = g /\ k = l
                    /\ Within(k, file'[f].f_size)
  BY ConsistentNext
<1>1. P(f, k)' = P(f, k) /\ (f # f0 \/ Within(k, n))
  OBVIOUS
<1>2. /\ P(f, k) \notin free /\ Within(k, file[f].f_size)
      /\ \A g \in Files, l \in All : P(g, l) = P(f, k) => f = g /\ k = l
  BY <1>1, ConsistentIs
<1>3. P(f, k) \notin free'
  BY <1>1, <1>2
<1>4. \A g \in Files, l \in All : P(g, l)' = P(f, k)' => f = g /\ k = l
  BY <1>1, <1>2
<1>5. Within(k, file'[f].f_size)
  BY <1>1, <1>2
<1> QED BY <1>1, <1>3, <1>4, <1>5


-----------------------------------------------------------------------------
(* What the requests do to the pointers.                                   *)

LEMMA CutIs ==
    ASSUME NEW N \in Nat, NEW s \in [0 .. N - 1 -> Ptr], NEW first \in Nat, NEW n \in Nat, NEW old \in Nat
    PROVE  /\ Cut(s, first, n, old) \in [0 .. N - 1 -> Ptr]
           /\ \A i \in 0 .. N - 1 : Cut(s, first, n, old)[i] =
                  IF n <= first + i /\ first + i < old THEN Null ELSE s[i]
BY Sizes DEF Cut

\* Behind the end of a file there are no pointers.
LEMMA NothingBehind ==
    ASSUME CacheFits, NEW f \in Files, NEW k \in Indices, ~(k < file[f].f_size)
    PROVE  P(f, k) = Null
<1>1. k \in All /\ k # -1
  BY Sizes
<1> QED BY <1>1, ConsistentIs DEF Within

\* The indirect blocks are nobody's data, and each has one file.
LEMMA IndirectApart ==
    ASSUME Shapes, CacheFits, NEW f \in Files, file[f].f_indirect # Null
    PROVE  /\ \A g \in Files \ {f} : file[g].f_indirect # file[f].f_indirect
           /\ \A g \in Files, k \in Indices : P(g, k) # file[f].f_indirect
           /\ file[f].f_indirect \in Blocks \ free
<1>1. \A g \in Files : P(g, -1) = file[g].f_indirect
  BY PointerIs DEF Shapes, P
<1>2. -1 \in All /\ \A k \in Indices : k \in All /\ k # -1
  BY Sizes
<1>3. P(f, -1) \notin free /\ \A g \in Files, l \in All : P(g, l) = P(f, -1) => f = g /\ -1 = l
  BY <1>1, <1>2, ConsistentIs
<1>4. P(f, -1) \in Ptr
  BY <1>2, PointerIs DEF Shapes, P
<1> QED BY <1>1, <1>2, <1>3, <1>4 DEF Ptr

LEMMA TruncateIs ==
    ASSUME Shapes, CacheFits, NEW f \in Files, NEW n \in Nat,
           file[f].f_size > n, file_truncate_blocks(f, n)
    PROVE  /\ file' \in [Files -> File] /\ cache' \in [Blocks -> Block]
           /\ file'[f].f_size = n /\ \A g \in Files \ {f} : file'[g] = file[g]
           /\ \A b \in Blocks : cache'[b].data = cache[b].data
           /\ \A b \in Blocks : b # file[f].f_indirect => cache'[b] = cache[b]
           /\ \A g \in Files, k \in All :
                  P(g, k)' = IF g # f \/ Within(k, n) THEN P(g, k) ELSE Null
<1>1. PICK r \in File, x \in Ptr, old \in Nat :
          /\ r = file[f] /\ x = r.f_indirect /\ old = r.f_size
          /\ r.f_direct \in [0 .. NDIRECT - 1 -> Ptr]
  BY DEF Shapes, File
<1>2. PICK d : d = Cut(r.f_direct, 0, n, old)
  OBVIOUS
<1>3. /\ d \in [0 .. NDIRECT - 1 -> Ptr]
      /\ \A i \in 0 .. NDIRECT - 1 : d[i] = IF n <= 0 + i /\ 0 + i < old THEN Null ELSE r.f_direct[i]
  <2>1. 0 \in Nat /\ NDIRECT \in Nat
    BY Sizes
  <2>2. PICK q \in [0 .. NDIRECT - 1 -> Ptr] : q = r.f_direct
    BY <1>1
  <2>3. PICK z \in Nat : z = 0
    BY <2>1
  <2>4. /\ d \in [0 .. NDIRECT - 1 -> Ptr]
        /\ \A i \in 0 .. NDIRECT - 1 : d[i] = IF n <= z + i /\ z + i < old THEN Null ELSE q[i]
    BY <1>2, <2>1, <2>2, <2>3, CutIs
  <2> QED BY <2>2, <2>3, <2>4
<1>4. PICK y \in Ptr : y = IF n <= NDIRECT THEN Null ELSE x
  BY Sizes
<1>5. PICK s \in File : s = [f_size |-> n, f_direct |-> d, f_indirect |-> y]
  BY <1>3 DEF File
<1>6. file' = [file EXCEPT ![f] = s]
  BY <1>1, <1>2, <1>4, <1>5 DEF file_truncate_blocks
<1>7. file' \in [Files -> File] /\ file'[f] = s /\ \A g \in Files \ {f} : file'[g] = file[g]
  BY <1>6 DEF Shapes
<1>8. cache' = IF x = Null THEN cache ELSE [cache EXCEPT ![x].entry = Cut(@, NDIRECT, n, old)]
  BY <1>1 DEF file_truncate_blocks
<1>9. ASSUME x # Null
      PROVE  /\ cache' \in [Blocks -> Block] /\ \A b \in Blocks \ {x} : cache'[b] = cache[b]
             /\ x \in Blocks /\ cache'[x].data = cache[x].data
             /\ \A i \in 0 .. NINDIRECT - 1 : cache'[x].entry[i] =
                    IF n <= NDIRECT + i /\ NDIRECT + i < old THEN Null ELSE cache[x].entry[i]
  <2>1. x \in Blocks
    BY <1>9 DEF Ptr
  <2>2. PICK c \in Block : c = cache[x]
    BY <2>1 DEF Shapes
  <2>3. c.entry \in [0 .. NINDIRECT - 1 -> Ptr]
    BY <2>2 DEF Block
  <2>4. PICK z : z = Cut(c.entry, NDIRECT, n, old)
    OBVIOUS
  <2>5. /\ z \in [0 .. NINDIRECT - 1 -> Ptr]
        /\ \A i \in 0 .. NINDIRECT - 1 : z[i] =
               IF n <= NDIRECT + i /\ NDIRECT + i < old THEN Null ELSE c.entry[i]
    <3>1. NINDIRECT \in Nat /\ NDIRECT \in Nat
      BY Sizes
    <3>2. PICK q \in [0 .. NINDIRECT - 1 -> Ptr] : q = c.entry
      BY <2>3
    <3>3. PICK m \in Nat : m = NINDIRECT
      BY <3>1
    <3>4. PICK a \in Nat : a = NDIRECT
      BY <3>1
    <3>5. z = Cut(q, a, n, old) /\ q \in [0 .. m - 1 -> Ptr]
      BY <2>4, <3>2, <3>3, <3>4
    <3>6. z \in [0 .. m - 1 -> Ptr]
      BY <3>5, CutIs
    <3>7. \A i \in 0 .. m - 1 : z[i] = IF n <= a + i /\ a + i < old THEN Null ELSE q[i]
      BY <3>5 DEF Cut
    <3> QED BY <3>2, <3>3, <3>4, <3>6, <3>7
  <2>6. PICK w \in Block : w = [c EXCEPT !.entry = z]
    BY <2>5 DEF Block
  <2>7. w.data = c.data /\ w.entry = z
    BY <2>2, <2>6 DEF Block
  <2>8. cache' = [cache EXCEPT ![x] = w]
    BY <1>8, <1>9, <2>1, <2>2, <2>4, <2>6 DEF Shapes
  <2> QED BY <2>1, <2>2, <2>5, <2>7, <2>8 DEF Shapes
<1>10. /\ cache' \in [Blocks -> Block]
       /\ \A b \in Blocks : cache'[b].data = cache[b].data
       /\ \A b \in Blocks : b # x => cache'[b] = cache[b]
  BY <1>8, <1>9 DEF Shapes
<1>11. ASSUME NEW g \in Files \ {f}, NEW k \in All PROVE P(g, k)' = P(g, k)
  <2>1. file'[g] = file[g]
    BY <1>7
  <2>2. file[g].f_indirect # Null => cache'[file[g].f_indirect] = cache[file[g].f_indirect]
    <3>1. file[g].f_indirect # Null => file[g].f_indirect # x /\ file[g].f_indirect \in Blocks
      BY <1>1, IndirectApart
    <3> QED BY <1>10, <3>1
  <2> QED BY <2>1, <2>2, SamePointers
<1>12. ASSUME NEW k \in All PROVE P(f, k)' = IF Within(k, n) THEN P(f, k) ELSE Null
  <2>1. /\ s.f_size = n /\ s.f_direct = d /\ s.f_indirect = y
    BY <1>5
  <2>2. CASE k = -1
    <3>1. P(f, k) = x /\ P(f, k)' = y
      BY <1>1, <1>7, <1>10, <2>1, <2>2, PointerIs DEF P, Shapes
    <3> QED BY <1>4, <2>2, <3>1, Sizes DEF Within
  <2>3. CASE k \in 0 .. NDIRECT - 1
    <3>1. P(f, k) = r.f_direct[k] /\ P(f, k)' = d[k]
      BY <1>1, <1>7, <1>10, <2>1, <2>3, PointerIs DEF P, Shapes
    <3>2. k \in Nat /\ k \in Indices /\ k # -1
      BY <2>3, Sizes DEF Indices
    <3>3. ~(k < old) => P(f, k) = Null
      BY <1>1, <3>2, NothingBehind
    <3> QED BY <1>3, <2>3, <3>1, <3>2, <3>3 DEF Within
  <2>4. CASE k \in Indices /\ k >= NDIRECT
    <3>1. k \in Nat /\ k - NDIRECT \in 0 .. NINDIRECT - 1 /\ k # -1
      BY <2>4, Sizes DEF Indices
    <3>2. CASE n <= NDIRECT
      <4>1. P(f, k)' = Null
        BY <1>4, <1>7, <1>10, <2>1, <2>4, <3>2, PointerIs DEF P
      <4> QED BY <2>4, <3>1, <3>2, <4>1, Sizes DEF Within
    <3>3. CASE ~(n <= NDIRECT) /\ x = Null
      <4>1. P(f, k)' = Null
        BY <1>4, <1>7, <1>10, <2>1, <2>4, <3>3, PointerIs DEF P
      <4>2. file[f].f_indirect = Null /\ k >= NDIRECT
        BY <1>1, <2>4, <3>3
      <4>3. P(f, k) = Null
        BY <2>4, <4>2, PointerIs DEF P, Shapes
      <4> QED BY <4>1, <4>3
    <3>4. CASE ~(n <= NDIRECT) /\ x # Null
      <4>1. P(f, k)' = cache'[x].entry[k - NDIRECT]
        BY <1>4, <1>7, <1>10, <2>1, <2>4, <3>4, PointerIs DEF P
      <4>2. P(f, k) = cache[x].entry[k - NDIRECT]
        BY <1>1, <2>4, <3>4, PointerIs DEF P, Shapes
      <4>3. ~(k < old) => P(f, k) = Null
        BY <1>1, <2>4, NothingBehind
      <4>4. PICK i \in 0 .. NINDIRECT - 1 : i = k - NDIRECT /\ NDIRECT + i = k
        BY <3>1, Sizes
      <4>5. P(f, k)' = IF n <= k /\ k < old THEN Null ELSE P(f, k)
        BY <1>9, <3>4, <4>1, <4>2, <4>4
      <4> QED BY <3>1, <4>3, <4>5 DEF Within
    <3> QED BY <3>2, <3>3, <3>4
  <2>5. (k \in Indices /\ k >= NDIRECT) \/ k = -1 \/ k \in 0 .. NDIRECT - 1
    BY Sizes DEF Indices
  <2> QED BY <2>2, <2>3, <2>4, <2>5
<1>13. file'[f].f_size = n
  BY <1>5, <1>7
<1> QED BY <1>1, <1>7, <1>10, <1>11, <1>12, <1>13


LEMMA ExtendedIs ==
    ASSUME Shapes, NEW op, NEW f \in Files, NEW i \in Nat, NEW e, e = Extended(op, f, i)
    PROVE  /\ e \in [Files -> File] /\ \A g \in Files \ {f} : e[g] = file[g]
           /\ \A g \in Files : /\ e[g].f_direct = file[g].f_direct
                               /\ e[g].f_indirect = file[g].f_indirect
           /\ e[f].f_size = IF Extends(op, f, i) THEN i + 1 ELSE file[f].f_size
           /\ file[f].f_size <= e[f].f_size
           /\ ~Extends(op, f, i) => e = file
<1>1. PICK r \in File : r = file[f] /\ r.f_size \in Nat
  BY DEF Shapes, File
<1>2. CASE Extends(op, f, i)
  <2>0. /\ r.f_direct \in [0 .. NDIRECT - 1 -> Ptr] /\ r.f_indirect \in Ptr /\ i + 1 \in Nat
        /\ r = [f_size |-> r.f_size, f_direct |-> r.f_direct, f_indirect |-> r.f_indirect]
    BY <1>1 DEF File
  <2>1. PICK s \in File : s = [f_size |-> i + 1, f_direct |-> r.f_direct, f_indirect |-> r.f_indirect]
    BY <2>0 DEF File
  <2>2. s.f_size = i + 1 /\ s.f_direct = r.f_direct /\ s.f_indirect = r.f_indirect
    BY <2>1
  <2>6. s = [r EXCEPT !.f_size = i + 1]
    BY <2>0, <2>1
  <2>3. e = [file EXCEPT ![f] = s]
    BY <1>1, <1>2, <2>6 DEF Extended, Shapes
  <2>4. e \in [Files -> File] /\ e[f] = s /\ \A g \in Files \ {f} : e[g] = file[g]
    BY <2>3 DEF Shapes
  <2>5. r.f_size <= i + 1
    BY <1>1, <1>2 DEF Extends
  <2> QED BY <1>1, <1>2, <2>2, <2>4, <2>5
<1>3. CASE ~Extends(op, f, i)
  BY <1>1, <1>3 DEF Extended, Shapes
<1> QED BY <1>2, <1>3

LEMMA ExtendedKeeps ==
    ASSUME Shapes, NEW op, NEW f \in Files, NEW i \in Nat
    PROVE  \A g \in Files : /\ Extended(op, f, i)[g].f_direct = file[g].f_direct
                            /\ Extended(op, f, i)[g].f_indirect = file[g].f_indirect
<1>1. PICK e : e = Extended(op, f, i)
  OBVIOUS
<1>2. \A g \in Files : e[g].f_direct = file[g].f_direct /\ e[g].f_indirect = file[g].f_indirect
  BY <1>1, ExtendedIs
<1> QED BY <1>1, <1>2

\* The block that a request works on is in the file, once it is extended.
LEMMA ReadyIsWithin ==
    ASSUME Shapes, ReqOK, NEW op \in {"read", "write"}, NEW f \in Files, NEW i \in Nat,
           Ready(op, f, i)
    PROVE  i < Extended(op, f, i)[f].f_size
<1>1. file[f].f_size \in Nat
  BY DEF Shapes, File
<1>2. PICK e : e = Extended(op, f, i)
  OBVIOUS
<1>3. e[f].f_size = IF Extends(op, f, i) THEN i + 1 ELSE file[f].f_size
  BY <1>2, ExtendedIs
<1>4. ~Extends(op, f, i) => i < file[f].f_size
  <2>1. CASE op = "read"
    BY <2>1 DEF Ready, ReqOK
  <2>2. CASE op = "write"
    BY <1>1, <2>2 DEF Extends
  <2> QED BY <2>1, <2>2
<1> QED BY <1>2, <1>3, <1>4

\* A larger file has its pointers within it still.
LEMMA WithinGrows ==
    ASSUME NEW k \in All, NEW m \in Nat, NEW n \in Nat, m <= n, Within(k, m)
    PROVE  Within(k, n)
BY Sizes DEF Within, All, Indices

\* No pointer changes when only data is stored.
LEMMA StoreIs ==
    ASSUME Shapes, CacheFits, NEW b \in Blocks, NEW c \in Block,
           b \in free \/ \E g \in Files, k \in Indices : P(g, k) = b,
           cache' = [cache EXCEPT ![b] = c]
    PROVE  /\ cache' \in [Blocks -> Block] /\ cache'[b] = c
           /\ \A d \in Blocks \ {b} : cache'[d] = cache[d]
           /\ \A g \in Files : file[g].f_indirect # Null =>
                  file[g].f_indirect # b /\ cache'[file[g].f_indirect] = cache[file[g].f_indirect]
<1>1. /\ cache' \in [Blocks -> Block] /\ cache'[b] = c
      /\ \A d \in Blocks \ {b} : cache'[d] = cache[d]
  BY DEF Shapes
<1>2. ASSUME NEW g \in Files, file[g].f_indirect # Null
      PROVE  file[g].f_indirect # b /\ file[g].f_indirect \in Blocks
  BY <1>2, IndirectApart
<1> QED BY <1>1, <1>2

LEMMA CopiedIs ==
    ASSUME Shapes, NEW op, NEW f \in Files, NEW b \in Blocks
    PROVE  Copied(op, f, b) \in Block
<1>1. cache[b] \in Block /\ NoEntries \in [0 .. NINDIRECT - 1 -> Ptr]
  BY Sizes DEF Shapes, NoEntries
<1> QED BY <1>1 DEF Copied, Block

LEMMA GetOldIs ==
    ASSUME Shapes, CacheFits, NEW op \in {"read", "write"}, NEW f \in Files, NEW i \in Nat,
           GetOld(op, f, i)
    PROVE  /\ i \in Indices /\ P(f, i) \in Blocks
           /\ cache' \in [Blocks -> Block] /\ cache'[P(f, i)] = Copied(op, f, P(f, i))
           /\ \A d \in Blocks \ {P(f, i)} : cache'[d] = cache[d]
           /\ \A g \in Files, k \in All : P(g, k)' = P(g, k)
           /\ \A g \in Files : file[g].f_indirect # Null =>
                  cache'[file[g].f_indirect] = cache[file[g].f_indirect]
<1>1. i \in Indices
  BY Sizes DEF GetOld
<1>2. PICK b \in Ptr : b = P(f, i)
  BY <1>1, PointerIs, Sizes DEF P, Shapes
<1>3. b = Target(f, i)
  BY <1>1, <1>2, PointerIs DEF P, Shapes, Target
<1>4. b \in Blocks
  BY <1>3 DEF GetOld, Ptr
<1>5. PICK c \in Block : c = Copied(op, f, b)
  BY <1>4, CopiedIs
<1>6. cache' = [cache EXCEPT ![b] = c] /\ file' = Extended(op, f, i)
  BY <1>3, <1>5 DEF GetOld
<1>7. /\ cache' \in [Blocks -> Block] /\ cache'[b] = c
      /\ \A d \in Blocks \ {b} : cache'[d] = cache[d]
      /\ \A g \in Files : file[g].f_indirect # Null =>
             cache'[file[g].f_indirect] = cache[file[g].f_indirect]
  BY <1>1, <1>2, <1>4, <1>6, StoreIs
<1>8. \A g \in Files : file'[g].f_direct = file[g].f_direct /\ file'[g].f_indirect = file[g].f_indirect
  BY <1>6, ExtendedIs
<1>9. \A g \in Files, k \in All : P(g, k)' = P(g, k)
  BY <1>7, <1>8, SamePointers
<1> QED BY <1>1, <1>2, <1>4, <1>5, <1>7, <1>9


\* file_block_walk() gives f an indirect block, without entries.
LEMMA WalkIs ==
    ASSUME Shapes, CacheFits, NEW op \in {"read", "write"}, NEW f \in Files, NEW i \in Nat,
           file_block_walk(op, f, i)
    PROVE  \E b \in free :
               /\ b \in Blocks /\ free' = free \ {b} /\ freeOnDisk' = free'
               /\ file' \in [Files -> File] /\ cache' \in [Blocks -> Block]
               /\ P(f, -1) = Null /\ P(f, -1)' = b
               /\ \A g \in Files, k \in All : (g # f \/ k # -1) => P(g, k)' = P(g, k)
               /\ \A g \in Files : /\ file'[g].f_size = Extended(op, f, i)[g].f_size
                                   /\ file'[g].f_direct = file[g].f_direct
               /\ \A g \in Files \ {f} : file'[g] = file[g]
               /\ \A d \in Blocks \ {b} : cache'[d] = cache[d]
               /\ file'[f].f_indirect = b /\ cache'[b].data = NoData
               /\ \A g \in Files : file[g].f_indirect # Null =>
                      cache'[file[g].f_indirect] = cache[file[g].f_indirect]
<1>1. i \in Indices /\ i >= NDIRECT /\ file[f].f_indirect = Null
  BY Sizes DEF file_block_walk, NeedsIndirect
<1>2. PICK e : e = Extended(op, f, i)
  OBVIOUS
<1>3. PICK b \in Blocks :
          /\ alloc_block(b)
          /\ file' = [e EXCEPT ![f].f_indirect = b]
          /\ cache' = [cache EXCEPT ![b] = Zeros]
  BY <1>2 DEF file_block_walk
<1>4. /\ e \in [Files -> File] /\ \A g \in Files \ {f} : e[g] = file[g]
      /\ \A g \in Files : e[g].f_direct = file[g].f_direct /\ e[g].f_indirect = file[g].f_indirect
  <2>1. e \in [Files -> File]
    BY <1>2, ExtendedIs
  <2>2. \A g \in Files \ {f} : e[g] = file[g]
    BY <1>2, ExtendedIs
  <2>3. \A g \in Files : e[g].f_direct = file[g].f_direct /\ e[g].f_indirect = file[g].f_indirect
    BY <1>2, ExtendedIs
  <2> QED BY <2>1, <2>2, <2>3
<1>5. b \in free /\ free' = free \ {b} /\ freeOnDisk' = free'
  BY <1>3 DEF alloc_block, FirstFree
<1>6. b \in Ptr /\ b # Null /\ NoEntries \in [0 .. NINDIRECT - 1 -> Ptr]
  BY Sizes DEF NoEntries
<1>7. Zeros \in Block
  BY <1>6 DEF Zeros, Block
<1>8. /\ cache' \in [Blocks -> Block] /\ cache'[b] = Zeros
      /\ \A d \in Blocks \ {b} : cache'[d] = cache[d]
      /\ \A g \in Files : file[g].f_indirect # Null =>
             file[g].f_indirect # b /\ cache'[file[g].f_indirect] = cache[file[g].f_indirect]
  BY <1>3, <1>5, <1>7, StoreIs
<1>9. PICK r \in File : r = e[f]
  BY <1>4
<1>10. PICK s \in File : s = [f_size |-> r.f_size, f_direct |-> r.f_direct, f_indirect |-> b]
  BY <1>6 DEF File
<1>11. s = [r EXCEPT !.f_indirect = b]
  BY <1>10 DEF File
<1>12. file' = [e EXCEPT ![f] = s]
  BY <1>3, <1>4, <1>9, <1>11
<1>13. file' \in [Files -> File] /\ file'[f] = s /\ \A g \in Files \ {f} : file'[g] = file[g]
  BY <1>4, <1>12
<1>14. /\ s.f_indirect = b /\ s.f_direct = file[f].f_direct /\ s.f_size = e[f].f_size
  BY <1>4, <1>9, <1>10
<1>15. \A g \in Files : file'[g].f_size = e[g].f_size /\ file'[g].f_direct = file[g].f_direct
  BY <1>4, <1>13, <1>14
<1>16. P(f, -1) = Null /\ P(f, -1)' = b
  BY <1>1, <1>8, <1>13, <1>14, PointerIs DEF P, Shapes
<1>17. ASSUME NEW g \in Files, g # f, NEW k \in All PROVE P(g, k)' = P(g, k)
  BY <1>8, <1>13, <1>17, SamePointers
<1>18. ASSUME NEW k \in All, k # -1 PROVE P(f, k)' = P(f, k)
  <2>1. CASE k \in 0 .. NDIRECT - 1
    BY <1>8, <1>13, <1>14, <2>1, PointerIs DEF P, Shapes
  <2>2. CASE k \notin 0 .. NDIRECT - 1
    <3>1. k \in Indices /\ k >= NDIRECT /\ k - NDIRECT \in 0 .. NINDIRECT - 1
      BY <1>18, <2>2, Sizes DEF Indices
    <3>2. P(f, k) = Null
      BY <1>1, <3>1, PointerIs DEF P, Shapes
    <3>3. P(f, k)' = cache'[b].entry[k - NDIRECT]
      BY <1>6, <1>8, <1>13, <1>14, <3>1, PointerIs DEF P
    <3>4. cache'[b].entry[k - NDIRECT] = Null
      BY <1>8, <3>1 DEF Zeros, NoEntries
    <3> QED BY <3>2, <3>3, <3>4
  <2> QED BY <2>1, <2>2
<1>19. file'[f].f_indirect = b /\ cache'[b].data = NoData
  BY <1>8, <1>13, <1>14 DEF Zeros
<1> QED BY <1>2, <1>5, <1>8, <1>13, <1>15, <1>16, <1>17, <1>18, <1>19

\* file_get_block() gives f its block i; direct, or by an entry of the
\* indirect block.
LEMMA GetNewIs ==
    ASSUME Shapes, CacheFits, NEW op \in {"read", "write"}, NEW f \in Files, NEW i \in Nat,
           file_get_block(op, f, i)
    PROVE  \E b \in free :
               /\ b \in Blocks /\ free' = free \ {b} /\ freeOnDisk' = free'
               /\ file' \in [Files -> File] /\ cache' \in [Blocks -> Block]
               /\ i \in Indices /\ P(f, i) = Null /\ P(f, i)' = b
               /\ \A g \in Files, k \in All : (g # f \/ k # i) => P(g, k)' = P(g, k)
               /\ \A g \in Files : /\ file'[g].f_size = Extended(op, f, i)[g].f_size
                                   /\ file'[g].f_indirect = file[g].f_indirect
               /\ \A g \in Files \ {f} : file'[g] = file[g]
               /\ cache'[b] = Copied(op, f, b)
               /\ \A d \in Blocks \ {b} : cache'[d].data = cache[d].data
<1>1. i \in Indices /\ i \in All /\ i # -1
  BY Sizes DEF file_get_block
<1>2. PICK e : e = Extended(op, f, i)
  OBVIOUS
<1>3. P(f, i) = Null
  BY <1>1, PointerIs DEF P, Shapes, file_get_block, Target
<1>4. e \in [Files -> File]
  BY <1>2, ExtendedIs
<1>5. \A g \in Files \ {f} : e[g] = file[g]
  BY <1>2, ExtendedIs
<1>6. \A g \in Files : e[g].f_direct = file[g].f_direct /\ e[g].f_indirect = file[g].f_indirect
  BY <1>2, ExtendedIs
<1>7. PICK r \in File : r = e[f] /\ r.f_direct \in [0 .. NDIRECT - 1 -> Ptr]
  BY <1>4 DEF File
<1>8. PICK b \in Blocks :
          /\ alloc_block(b)
          /\ i < NDIRECT => /\ file' = [e EXCEPT ![f].f_direct[i] = b]
                            /\ cache' = [cache EXCEPT ![b] = Copied(op, f, b)]
          /\ ~(i < NDIRECT) => /\ file' = e
                               /\ cache' = [cache EXCEPT
                                               ![file[f].f_indirect].entry[i - NDIRECT] = b,
                                               ![b] = Copied(op, f, b)]
  BY <1>2 DEF file_get_block
<1>9. b \in free /\ free' = free \ {b} /\ freeOnDisk' = free'
  BY <1>8 DEF alloc_block, FirstFree
<1>10. b \in Ptr /\ b # Null
  BY Sizes
<1>11. PICK c \in Block : c = Copied(op, f, b)
  BY CopiedIs
<1>12. CASE i < NDIRECT
  <2>1. i \in 0 .. NDIRECT - 1
    BY <1>1, <1>12, Sizes
  <2>2. PICK d \in [0 .. NDIRECT - 1 -> Ptr] : d = [r.f_direct EXCEPT ![i] = b]
    BY <1>7, <1>10, <2>1
  <2>3. PICK s \in File : s = [f_size |-> r.f_size, f_direct |-> d, f_indirect |-> r.f_indirect]
    BY <1>7 DEF File
  <2>4. s = [r EXCEPT !.f_direct = d]
    BY <2>3 DEF File
  <2>5. file' = [e EXCEPT ![f] = s]
    BY <1>4, <1>7, <1>8, <1>12, <2>2, <2>4
  <2>6. file' \in [Files -> File] /\ file'[f] = s /\ \A g \in Files \ {f} : file'[g] = file[g]
    BY <1>4, <1>5, <2>5
  <2>7. s.f_size = e[f].f_size /\ s.f_direct = d /\ s.f_indirect = file[f].f_indirect
    BY <1>6, <1>7, <2>3
  <2>8. d[i] = b /\ \A k \in 0 .. NDIRECT - 1 : k # i => d[k] = file[f].f_direct[k]
    BY <1>6, <1>7, <2>1, <2>2
  <2>9. cache' = [cache EXCEPT ![b] = c]
    BY <1>8, <1>11, <1>12
  <2>10. /\ cache' \in [Blocks -> Block] /\ cache'[b] = c
         /\ \A a \in Blocks \ {b} : cache'[a] = cache[a]
         /\ \A g \in Files : file[g].f_indirect # Null =>
                file[g].f_indirect # b /\ cache'[file[g].f_indirect] = cache[file[g].f_indirect]
    BY <1>9, <2>9, StoreIs
  <2>11. \A g \in Files : file'[g].f_size = e[g].f_size /\ file'[g].f_indirect = file[g].f_indirect
    BY <1>5, <2>6, <2>7
  <2>12. P(f, i)' = b
    BY <2>1, <2>6, <2>7, <2>8, <2>10, PointerIs DEF P
  <2>13. ASSUME NEW g \in Files, g # f, NEW k \in All PROVE P(g, k)' = P(g, k)
    BY <2>6, <2>10, <2>13, SamePointers
  <2>14. ASSUME NEW k \in All, k # i PROVE P(f, k)' = P(f, k)
    <3>1. CASE k = -1
      BY <2>6, <2>7, <2>10, <3>1, PointerIs DEF P, Shapes
    <3>2. CASE k \in 0 .. NDIRECT - 1
      <4>1. P(f, k)' = d[k]
        BY <2>6, <2>7, <2>10, <3>2, PointerIs DEF P
      <4>2. P(f, k) = file[f].f_direct[k]
        BY <3>2, PointerIs DEF P, Shapes
      <4> QED BY <2>8, <2>14, <3>2, <4>1, <4>2
    <3>3. CASE k # -1 /\ k \notin 0 .. NDIRECT - 1
      <4>1. k \in Indices /\ k >= NDIRECT
        BY <3>3, Sizes DEF Indices
      <4>2. CASE file[f].f_indirect = Null
        BY <2>6, <2>7, <2>10, <4>1, <4>2, PointerIs DEF P, Shapes
      <4>3. CASE file[f].f_indirect # Null
        BY <2>6, <2>7, <2>10, <4>1, <4>3, PointerIs DEF P, Shapes
      <4> QED BY <4>2, <4>3
    <3> QED BY <3>1, <3>2, <3>3
  <2> QED BY <1>1, <1>2, <1>3, <1>9, <1>11, <2>6, <2>10, <2>11, <2>12, <2>13, <2>14
<1>13. CASE ~(i < NDIRECT)
  <2>1. PICK x \in Ptr : x = file[f].f_indirect /\ x # Null
    BY <1>1, <1>13, Sizes DEF file_get_block, NeedsIndirect, Shapes, File
  <2>2. x \in Blocks /\ x # b
    BY <1>9, <2>1, IndirectApart
  <2>3. PICK j \in 0 .. NINDIRECT - 1 : j = i - NDIRECT
    BY <1>1, <1>13, Sizes
  <2>4. PICK o \in Block : o = cache[x] /\ o.entry \in [0 .. NINDIRECT - 1 -> Ptr]
    BY <2>2 DEF Shapes, Block
  <2>5. PICK t \in [0 .. NINDIRECT - 1 -> Ptr] : t = [o.entry EXCEPT ![j] = b]
    BY <1>10, <2>4
  <2>6. PICK w \in Block : w = [data |-> o.data, entry |-> t]
    BY <2>4 DEF Block
  <2>7. w = [o EXCEPT !.entry = t] /\ w.data = o.data /\ w.entry = t
    BY <2>6 DEF Block
  <2>8. cache' = [[cache EXCEPT ![x] = w] EXCEPT ![b] = c]
    BY <1>8, <1>11, <1>13, <2>1, <2>2, <2>3, <2>4, <2>5, <2>7 DEF Shapes
  <2>9. /\ cache' \in [Blocks -> Block] /\ cache'[b] = c /\ cache'[x] = w
        /\ \A a \in Blocks \ {b, x} : cache'[a] = cache[a]
    BY <2>2, <2>8 DEF Shapes
  <2>10. \A a \in Blocks \ {b} : cache'[a].data = cache[a].data
    BY <2>4, <2>7, <2>9
  <2>11. t[j] = b /\ \A l \in 0 .. NINDIRECT - 1 : l # j => t[l] = cache[x].entry[l]
    BY <2>4, <2>5
  <2>12. file' = e
    BY <1>8, <1>13
  <2>13. \A g \in Files : file'[g].f_size = e[g].f_size /\ file'[g].f_indirect = file[g].f_indirect
    BY <1>6, <2>12
  <2>14. i >= NDIRECT /\ cache'[x].entry = t
    BY <1>1, <1>13, <2>7, <2>9, Sizes
  <2>15. P(f, i)' = cache'[x].entry[i - NDIRECT]
    <3>1. file' \in [Files -> File] /\ cache' \in [Blocks -> Block] /\ file'[f].f_indirect = x
      BY <1>4, <2>1, <2>9, <2>12, <2>13
    <3>2. x # Null /\ i >= NDIRECT
      BY <2>1, <2>14
    <3> QED BY <1>1, <3>1, <3>2, PointerIs DEF P
  <2>16. P(f, i)' = b
    BY <2>3, <2>11, <2>14, <2>15
  <2>17. ASSUME NEW g \in Files, g # f, NEW k \in All PROVE P(g, k)' = P(g, k)
    <3>1. file'[g] = file[g]
      BY <1>5, <2>12, <2>17
    <3>2. ASSUME file[g].f_indirect # Null
          PROVE  cache'[file[g].f_indirect] = cache[file[g].f_indirect]
      <4>1. file[g].f_indirect \in Blocks \ free
        BY <3>2, IndirectApart
      <4>2. file[g].f_indirect # x
        BY <2>1, <2>17, IndirectApart
      <4> QED BY <1>9, <2>9, <4>1, <4>2
    <3> QED BY <3>1, <3>2, SamePointers
  <2>18. ASSUME NEW k \in All, k # i PROVE P(f, k)' = P(f, k)
    <3>1. CASE k = -1
      BY <1>4, <2>9, <2>12, <2>13, <3>1, PointerIs DEF P, Shapes
    <3>2. CASE k \in 0 .. NDIRECT - 1
      <4>1. P(f, k)' = e[f].f_direct[k]
        BY <1>4, <2>9, <2>12, <3>2, PointerIs DEF P
      <4>2. P(f, k) = file[f].f_direct[k]
        BY <3>2, PointerIs DEF P, Shapes
      <4> QED BY <1>6, <4>1, <4>2
    <3>3. CASE k # -1 /\ k \notin 0 .. NDIRECT - 1
      <4>1. k \in Indices /\ k >= NDIRECT
        BY <3>3, Sizes DEF Indices
      <4>2. PICK l \in 0 .. NINDIRECT - 1 : l = k - NDIRECT /\ l # j
        BY <1>1, <2>3, <2>18, <3>3, <4>1, Sizes
      <4>3. P(f, k)' = cache'[x].entry[k - NDIRECT]
        BY <1>4, <2>1, <2>9, <2>12, <2>13, <4>1, PointerIs DEF P
      <4>4. P(f, k) = cache[x].entry[k - NDIRECT]
        BY <2>1, <4>1, PointerIs DEF P, Shapes
      <4> QED BY <2>11, <2>14, <4>2, <4>3, <4>4
    <3> QED BY <3>1, <3>2, <3>3
  <2> QED BY <1>1, <1>2, <1>3, <1>4, <1>5, <1>9, <1>11, <2>9, <2>10, <2>12, <2>13, <2>16, <2>17, <2>18
<1> QED BY <1>12, <1>13

\* What truncation frees, the file pointed to and does not need.
LEMMA DroppedIs ==
    ASSUME Shapes, NEW f \in Files, NEW n \in Nat, NEW b \in Dropped(f, n)
    PROVE  b \in Blocks /\ \E k \in All : P(f, k) = b /\ ~Within(k, n)
<1>1. CASE b \in DataBlocks(file, cache, f, n, file[f].f_size)
  <2>1. PICK k \in Indices : n <= k /\ b = PtrAt(file, cache, f, k) /\ b # Null
    BY <1>1 DEF DataBlocks
  <2>2. k \in All /\ k # -1 /\ k \in Nat
    BY Sizes
  <2>3. P(f, k) = b
    BY <2>1, PointerIs DEF P, Shapes
  <2>4. b \in Ptr
    BY <2>2, <2>3, PointerIs DEF P, Shapes
  <2>5. ~Within(k, n)
    BY <2>1, <2>2 DEF Within
  <2> QED BY <2>1, <2>2, <2>3, <2>4, <2>5 DEF Ptr
<1>2. CASE b \notin DataBlocks(file, cache, f, n, file[f].f_size)
  <2>1. n <= NDIRECT /\ b = file[f].f_indirect /\ b # Null
    BY <1>2 DEF Dropped
  <2>2. -1 \in All /\ NDIRECT \in Nat
    BY Sizes
  <2>3. P(f, -1) = b
    BY <2>1, PointerIs DEF P, Shapes
  <2>4. b \in Ptr
    BY <2>2, <2>3, PointerIs DEF P, Shapes
  <2>5. ~Within(-1, n)
    BY <2>1, <2>2 DEF Within
  <2> QED BY <2>1, <2>2, <2>3, <2>4, <2>5 DEF Ptr
<1> QED BY <1>1, <1>2

-----------------------------------------------------------------------------
(* What goes to disk.                                                      *)

\* D depends, in a struct File, on nothing else.
LEMMA DiskPointerIs ==
    ASSUME NEW fl \in [Files -> File], NEW g \in Files, NEW h \in File,
           h.f_direct = fl[g].f_direct, h.f_indirect = fl[g].f_indirect,
           NEW fl2 \in [Files -> File], fl2[g] = h,
           NEW bl, NEW bl2, NEW k \in InFile
    PROVE  Pointer(fl2, bl2, g, k) = Pointer(fl, bl, g, k)
<1>1. k = -1 \/ k \in 0 .. NDIRECT - 1
  BY DEF InFile
<1>2. CASE k = -1
  BY <1>2 DEF Pointer
<1>3. CASE k \in 0 .. NDIRECT - 1
  <2>1. k < NDIRECT /\ k # -1
    BY <1>3, Sizes
  <2> QED BY <2>1 DEF Pointer, PtrAt
<1> QED BY <1>1, <1>2, <1>3

LEMMA FlushFileBehind ==
    ASSUME Shapes, SizeOnDisk, PointersBehind, NEW f \in Files, file' \in [Files -> File],
           \A g \in Files \ {f} : file'[g] = file[g], FlushFile(f)
    PROVE  fileOnDisk' \in [Files -> File] /\ SizeOnDisk' /\ PointersBehind'
<1>1. f \in near[f] /\ near[f] \subseteq Files
  BY FileSystemAssumption
<1>2. \A g \in Files : fileOnDisk'[g] = IF g \in near[f] THEN file'[g] ELSE fileOnDisk[g]
  BY DEF FlushFile
<1>3. fileOnDisk' \in [Files -> File]
  BY DEF FlushFile, Shapes
<1>4. SizeOnDisk'
  BY <1>1, <1>2 DEF SizeOnDisk
<1>5. ASSUME NEW g \in Files, NEW k \in InFile, D(g, k)' # Null PROVE D(g, k)' = P(g, k)'
  <2>1. CASE g \in near[f]
    <3>1. file'[g] \in File /\ fileOnDisk'[g] = file'[g]
      BY <1>2, <2>1
    <3> QED BY <1>3, <3>1, DiskPointerIs DEF D, P
  <2>2. CASE g \notin near[f]
    <3>1. fileOnDisk'[g] = fileOnDisk[g] /\ file'[g] = file[g]
      BY <1>1, <1>2, <2>2
    <3>2. fileOnDisk[g] \in File /\ file[g] \in File /\ file \in [Files -> File] /\ fileOnDisk \in [Files -> File]
      BY DEF Shapes
    <3>3. D(g, k)' = D(g, k)
      BY <1>3, <3>1, <3>2, DiskPointerIs DEF D
    <3>4. P(g, k)' = P(g, k)
      BY <3>1, <3>2, DiskPointerIs DEF P
    <3> QED BY <1>5, <3>3, <3>4 DEF PointersBehind
  <2> QED BY <2>1, <2>2
<1> QED BY <1>3, <1>4, <1>5 DEF PointersBehind

LEMMA ExtendedBehind ==
    ASSUME Shapes, SizeOnDisk, PointersBehind, NEW op, NEW f \in Files, NEW i \in Nat,
           FlushExtended(op, f, i),
           \A g \in Files : file'[g].f_size = Extended(op, f, i)[g].f_size,
           \A g \in Files, k \in InFile : P(g, k) # Null => P(g, k)' = P(g, k)
    PROVE  fileOnDisk' \in [Files -> File] /\ SizeOnDisk' /\ PointersBehind'
<1>1. f \in near[f] /\ near[f] \subseteq Files
  BY FileSystemAssumption
<1>2. PICK e : e = Extended(op, f, i)
  OBVIOUS
<1>3. e \in [Files -> File]
  BY <1>2, ExtendedIs
<1>4. \A g \in Files \ {f} : e[g] = file[g]
  BY <1>2, ExtendedIs
<1>5. \A g \in Files : e[g].f_direct = file[g].f_direct /\ e[g].f_indirect = file[g].f_indirect
  BY <1>2, ExtendedIs
<1>6. ~Extends(op, f, i) => e = file
  BY <1>2, ExtendedIs
<1>7. \A g \in Files : fileOnDisk'[g] = IF Extends(op, f, i) /\ g \in near[f] THEN e[g] ELSE fileOnDisk[g]
  BY <1>2 DEF FlushExtended
<1>8. fileOnDisk' \in [Files -> File]
  BY <1>2, <1>3 DEF FlushExtended, Shapes
<1>9. SizeOnDisk'
  BY <1>1, <1>2, <1>4, <1>6, <1>7 DEF SizeOnDisk
<1>10. ASSUME NEW g \in Files, NEW k \in InFile, D(g, k)' # Null PROVE D(g, k)' = P(g, k)'
  <2>1. CASE Extends(op, f, i) /\ g \in near[f]
    <3>1. fileOnDisk'[g] = e[g] /\ e[g] \in File /\ file \in [Files -> File]
      BY <1>3, <1>7, <2>1 DEF Shapes
    <3>2. D(g, k)' = P(g, k)
      BY <1>5, <1>8, <3>1, DiskPointerIs DEF D, P
    <3> QED BY <1>10, <3>2
  <2>2. CASE ~(Extends(op, f, i) /\ g \in near[f])
    <3>1. fileOnDisk'[g] = fileOnDisk[g] /\ fileOnDisk[g] \in File /\ fileOnDisk \in [Files -> File]
      BY <1>7, <2>2 DEF Shapes
    <3>2. D(g, k)' = D(g, k)
      BY <1>8, <3>1, DiskPointerIs DEF D
    <3>3. D(g, k) = P(g, k)
      BY <1>10, <3>2 DEF PointersBehind
    <3> QED BY <1>10, <3>2, <3>3
  <2> QED BY <2>1, <2>2
<1> QED BY <1>8, <1>9, <1>10 DEF PointersBehind

LEMMA FlushBlocksType ==
    ASSUME Shapes, NEW B, FlushBlocks(B)
    PROVE  disk' \in [Blocks -> Block]
BY DEF FlushBlocks, Shapes

-----------------------------------------------------------------------------
(* Every step keeps the disk behind the cache.                             *)

LEMMA IdleIsOK ==
    ASSUME req' = Idle
    PROVE  ReqOK'
<1> SUFFICES ASSUME NEW op \in {"read", "write"}, NEW f \in Files, NEW i \in Nat,
                    req' = [op |-> op, f |-> f, bno |-> i]
             PROVE  FALSE
  BY DEF ReqOK
<1>1. [op |-> op, f |-> f, bno |-> i] \in Request
  BY DEF Request
<1> QED BY <1>1, IdleIsNoRequest

LEMMA ExtendedWithin ==
    ASSUME Shapes, NEW op, NEW f \in Files, NEW i \in Nat,
           \A g \in Files : file'[g].f_size = Extended(op, f, i)[g].f_size
    PROVE  \A g \in Files, k \in All : Within(k, file[g].f_size) => Within(k, file'[g].f_size)
<1> SUFFICES ASSUME NEW g \in Files, NEW k \in All, Within(k, file[g].f_size)
             PROVE  Within(k, file'[g].f_size)
  OBVIOUS
<1>1. PICK e : e = Extended(op, f, i)
  OBVIOUS
<1>2. e \in [Files -> File]
  BY <1>1, ExtendedIs
<1>3. \A h \in Files \ {f} : e[h] = file[h]
  BY <1>1, ExtendedIs
<1>4. file[f].f_size <= e[f].f_size
  BY <1>1, ExtendedIs
<1>5. file[g].f_size \in Nat /\ e[g].f_size \in Nat
  BY <1>2 DEF Shapes, File
<1>6. file[g].f_size <= e[g].f_size
  BY <1>3, <1>4, <1>5
<1>7. Within(k, e[g].f_size)
  BY <1>5, <1>6, WithinGrows
<1> QED BY <1>1, <1>7

LEMMA FailStep ==
    ASSUME IInv, NEW op \in {"read", "write"}, NEW f \in Files, NEW i \in Nat, Fail(op, f, i)
    PROVE  IInv'
<1> USE DEF IInv
<1>1. /\ file' = Extended(op, f, i) /\ FlushExtended(op, f, i) /\ req' = Idle
      /\ free' = free /\ cache' = cache /\ freeOnDisk' = freeOnDisk /\ disk' = disk
      /\ safe' \subseteq safe
  BY DEF Fail
<1>2. file' \in [Files -> File]
  BY <1>1, ExtendedIs
<1>3. \A g \in Files : file'[g].f_direct = file[g].f_direct /\ file'[g].f_indirect = file[g].f_indirect
  BY <1>1, ExtendedKeeps
<1>4. \A g \in Files, k \in All : P(g, k)' = P(g, k)
  BY <1>1, <1>3, SamePointers
<1>5. \A g \in Files : file'[g].f_size = Extended(op, f, i)[g].f_size
  BY <1>1
<1>6. CacheFits'
  BY <1>1, <1>4, <1>5, ExtendedWithin, ConsistentSame
<1>7. fileOnDisk' \in [Files -> File] /\ SizeOnDisk' /\ PointersBehind'
  BY <1>1, <1>4, <1>5, ExtendedBehind, Sizes
<1>8. BitmapBehind' /\ ReqOK'
  BY <1>1, IdleIsOK DEF BitmapBehind
<1>9. Shapes'
  BY <1>1, <1>2, <1>7 DEF Shapes
<1>10. Tables'
  BY <1>1, <1>3 DEF Tables, HasTables
<1> QED BY <1>6, <1>7, <1>8, <1>9, <1>10

LEMMA GetOldStep ==
    ASSUME IInv, NEW op \in {"read", "write"}, NEW f \in Files, NEW i \in Nat, GetOld(op, f, i)
    PROVE  IInv'
<1> USE DEF IInv
<1>1. /\ file' = Extended(op, f, i) /\ FlushExtended(op, f, i) /\ req' = Idle
      /\ free' = free /\ freeOnDisk' = freeOnDisk /\ disk' = disk
      /\ safe' \subseteq safe
  BY DEF GetOld, Untouched
<1>2. file' \in [Files -> File]
  BY <1>1, ExtendedIs
<1>3. cache' \in [Blocks -> Block]
  BY GetOldIs
<1>4. \A g \in Files, k \in All : P(g, k)' = P(g, k)
  BY GetOldIs
<1>5. \A g \in Files : file'[g].f_size = Extended(op, f, i)[g].f_size
  BY <1>1
<1>6. CacheFits'
  BY <1>1, <1>4, <1>5, ExtendedWithin, ConsistentSame
<1>7. fileOnDisk' \in [Files -> File] /\ SizeOnDisk' /\ PointersBehind'
  BY <1>1, <1>4, <1>5, ExtendedBehind, Sizes
<1>8. BitmapBehind' /\ ReqOK'
  BY <1>1, IdleIsOK DEF BitmapBehind
<1>9. Shapes'
  BY <1>1, <1>2, <1>3, <1>7 DEF Shapes
<1>10. Tables'
  <2>1. \A g \in Files : file'[g].f_indirect = file[g].f_indirect
    BY <1>1, ExtendedKeeps
  <2>2. \A g \in Files : file[g].f_indirect # Null =>
            cache'[file[g].f_indirect] = cache[file[g].f_indirect]
    BY GetOldIs
  <2> QED BY <2>1, <2>2 DEF Tables, HasTables
<1> QED BY <1>6, <1>7, <1>8, <1>9, <1>10

LEMMA WalkStep ==
    ASSUME IInv, NEW op \in {"read", "write"}, NEW f \in Files, NEW i \in Nat,
           file_block_walk(op, f, i)
    PROVE  IInv'
<1> USE DEF IInv
<1>1. /\ FlushExtended(op, f, i) /\ req' = [op |-> op, f |-> f, bno |-> i]
      /\ disk' = disk /\ safe' \subseteq safe /\ Ready(op, f, i)
  BY DEF file_block_walk
<1>2. PICK b \in free :
          /\ b \in Blocks /\ free' = free \ {b} /\ freeOnDisk' = free'
          /\ file' \in [Files -> File] /\ cache' \in [Blocks -> Block]
          /\ P(f, -1) = Null /\ P(f, -1)' = b
          /\ \A g \in Files, k \in All : (g # f \/ k # -1) => P(g, k)' = P(g, k)
          /\ \A g \in Files : file'[g].f_size = Extended(op, f, i)[g].f_size
          /\ \A g \in Files \ {f} : file'[g] = file[g]
          /\ file'[f].f_indirect = b /\ cache'[b].data = NoData
          /\ \A g \in Files : file[g].f_indirect # Null =>
                 cache'[file[g].f_indirect] = cache[file[g].f_indirect]
  BY WalkIs
<1>3. b # Null /\ -1 \in All /\ InFile \subseteq All
  BY <1>2, Sizes
<1>4. \A g \in Files, k \in InFile : P(g, k) # Null => P(g, k)' = P(g, k)
  BY <1>2, <1>3
<1>5. \A g \in Files, k \in All : Within(k, file[g].f_size) => Within(k, file'[g].f_size)
  BY <1>2, ExtendedWithin
<1>6. i < file'[f].f_size
  BY <1>1, <1>2, ReadyIsWithin
<1>7. Within(-1, file'[f].f_size)
  <2>1. i >= NDIRECT
    BY DEF file_block_walk, NeedsIndirect
  <2>2. file'[f].f_size \in Nat /\ NDIRECT \in Nat
    BY <1>2, Sizes DEF File
  <2> QED BY <1>6, <2>1, <2>2 DEF Within
<1>8. CacheFits'
  BY <1>2, <1>3, <1>5, <1>7, ConsistentAdd
<1>9. fileOnDisk' \in [Files -> File] /\ SizeOnDisk' /\ PointersBehind'
  <2>1. \A g \in Files : file'[g].f_size = Extended(op, f, i)[g].f_size
    BY <1>2
  <2> QED BY <1>1, <1>4, <2>1, ExtendedBehind
<1>10. BitmapBehind'
  BY <1>2 DEF BitmapBehind
<1>11. ReqOK'
  <2> SUFFICES ASSUME NEW op2 \in {"read", "write"}, NEW f2 \in Files, NEW i2 \in Nat,
                      req' = [op |-> op2, f |-> f2, bno |-> i2]
               PROVE  i2 < file'[f2].f_size
    BY DEF ReqOK
  <2>1. f2 = f /\ i2 = i
    BY <1>1
  <2> QED BY <1>6, <2>1
<1>12. req' \in Request
  BY <1>1 DEF Request
<1>13. Shapes'
  BY <1>1, <1>2, <1>9, <1>12 DEF Shapes
<1>14. Tables'
  BY <1>2 DEF Tables, HasTables
<1> QED BY <1>8, <1>9, <1>10, <1>11, <1>13, <1>14

LEMMA GetNewStep ==
    ASSUME IInv, NEW op \in {"read", "write"}, NEW f \in Files, NEW i \in Nat,
           file_get_block(op, f, i)
    PROVE  IInv'
<1> USE DEF IInv
<1>1. /\ FlushExtended(op, f, i) /\ req' = Idle
      /\ disk' = disk /\ safe' \subseteq safe /\ Ready(op, f, i)
  BY DEF file_get_block
<1>2. PICK b \in free :
          /\ b \in Blocks /\ free' = free \ {b} /\ freeOnDisk' = free'
          /\ file' \in [Files -> File] /\ cache' \in [Blocks -> Block]
          /\ i \in Indices /\ P(f, i) = Null /\ P(f, i)' = b
          /\ \A g \in Files, k \in All : (g # f \/ k # i) => P(g, k)' = P(g, k)
          /\ \A g \in Files : /\ file'[g].f_size = Extended(op, f, i)[g].f_size
                              /\ file'[g].f_indirect = file[g].f_indirect
          /\ \A d \in Blocks \ {b} : cache'[d].data = cache[d].data
  BY GetNewIs
<1>3. b # Null /\ i \in All /\ i # -1 /\ InFile \subseteq All
  BY <1>2, Sizes
<1>4. \A g \in Files, k \in InFile : P(g, k) # Null => P(g, k)' = P(g, k)
  BY <1>2, <1>3
<1>5. \A g \in Files, k \in All : Within(k, file[g].f_size) => Within(k, file'[g].f_size)
  BY <1>2, ExtendedWithin
<1>6. Within(i, file'[f].f_size)
  BY <1>1, <1>2, <1>3, ReadyIsWithin DEF Within
<1>7. CacheFits'
  BY <1>2, <1>3, <1>5, <1>6, ConsistentAdd
<1>8. fileOnDisk' \in [Files -> File] /\ SizeOnDisk' /\ PointersBehind'
  <2>1. \A g \in Files : file'[g].f_size = Extended(op, f, i)[g].f_size
    BY <1>2
  <2> QED BY <1>1, <1>4, <2>1, ExtendedBehind
<1>9. BitmapBehind' /\ ReqOK'
  BY <1>1, <1>2, IdleIsOK DEF BitmapBehind
<1>10. Shapes'
  BY <1>1, <1>2, <1>8 DEF Shapes
<1>11. Tables'
  <2>1. \A g \in Files : file[g].f_indirect # Null => file[g].f_indirect \in Blocks \ free
    BY IndirectApart
  <2> QED BY <1>2, <2>1 DEF Tables, HasTables
<1> QED BY <1>7, <1>8, <1>9, <1>10, <1>11

LEMMA GrowIs ==
    ASSUME Shapes, NEW f \in Files, NEW n \in Nat, file' = [file EXCEPT ![f].f_size = n]
    PROVE  /\ file' \in [Files -> File] /\ file'[f].f_size = n
           /\ \A g \in Files \ {f} : file'[g] = file[g]
           /\ \A g \in Files : /\ file'[g].f_direct = file[g].f_direct
                               /\ file'[g].f_indirect = file[g].f_indirect
<1>1. PICK r \in File :
          /\ r = file[f] /\ r.f_direct \in [0 .. NDIRECT - 1 -> Ptr] /\ r.f_indirect \in Ptr
          /\ r = [f_size |-> r.f_size, f_direct |-> r.f_direct, f_indirect |-> r.f_indirect]
  BY DEF Shapes, File
<1>2. PICK s \in File : s = [f_size |-> n, f_direct |-> r.f_direct, f_indirect |-> r.f_indirect]
  BY <1>1 DEF File
<1>3. s.f_size = n /\ s.f_direct = r.f_direct /\ s.f_indirect = r.f_indirect
  BY <1>2
<1>4. s = [r EXCEPT !.f_size = n]
  BY <1>1, <1>2
<1>5. file' = [file EXCEPT ![f] = s]
  BY <1>1, <1>4 DEF Shapes
<1>6. file' \in [Files -> File] /\ file'[f] = s /\ \A g \in Files \ {f} : file'[g] = file[g]
  BY <1>5 DEF Shapes
<1> QED BY <1>1, <1>3, <1>6

LEMMA SetSizeStep ==
    ASSUME IInv, NEW f \in Files, NEW n \in Nat, serve_set_size(f, n)
    PROVE  IInv'
<1> USE DEF IInv
<1>1. /\ FlushFile(f) /\ safe' \subseteq safe /\ req' = Idle
      /\ freeOnDisk' = freeOnDisk /\ disk' = disk
  BY DEF serve_set_size, file_set_size
<1>2. file[f].f_size \in Nat
  BY DEF Shapes, File
<1>3. CASE file[f].f_size > n
  <2>1. file_truncate_blocks(f, n)
    BY <1>3 DEF serve_set_size, file_set_size
  <2>2. /\ file' \in [Files -> File] /\ cache' \in [Blocks -> Block]
        /\ file'[f].f_size = n /\ \A g \in Files \ {f} : file'[g] = file[g]
        /\ \A b \in Blocks : cache'[b].data = cache[b].data
        /\ \A g \in Files, k \in All :
               P(g, k)' = IF g # f \/ Within(k, n) THEN P(g, k) ELSE Null
    BY <1>3, <2>1, TruncateIs
  <2>3. free' = free \cup Dropped(f, n)
    BY <2>1 DEF file_truncate_blocks
  <2>4. \A b \in free' : b \in free \/ (b \in Blocks /\ \E k \in All : P(f, k) = b /\ ~Within(k, n))
    BY <2>3, DroppedIs
  <2>5. CacheFits'
    BY <2>2, <2>4, ConsistentDrop
  <2>6. fileOnDisk' \in [Files -> File] /\ SizeOnDisk' /\ PointersBehind'
    BY <1>1, <2>2, FlushFileBehind
  <2>7. BitmapBehind' /\ ReqOK'
    BY <1>1, <2>3, IdleIsOK DEF BitmapBehind
  <2>8. Shapes'
    BY <1>1, <2>2, <2>4, <2>6 DEF Shapes
  <2>9. Tables'
    <3>1. \A g \in Files : P(g, -1)' = file'[g].f_indirect /\ P(g, -1) = file[g].f_indirect
      BY <2>2, PointerIs DEF P, Shapes
    <3>2. \A g \in Files : file'[g].f_indirect # Null => file'[g].f_indirect = file[g].f_indirect
      BY <2>2, <3>1, Sizes
    <3>3. \A g \in Files : file[g].f_indirect # Null => file[g].f_indirect \in Blocks
      BY IndirectApart
    <3> QED BY <2>2, <3>2, <3>3 DEF Tables, HasTables
  <2> QED BY <2>5, <2>6, <2>7, <2>8, <2>9
<1>4. CASE ~(file[f].f_size > n)
  <2>1. file' = [file EXCEPT ![f].f_size = n] /\ free' = free /\ cache' = cache
    BY <1>4 DEF serve_set_size, file_set_size
  <2>2. /\ file' \in [Files -> File] /\ file'[f].f_size = n
        /\ \A g \in Files \ {f} : file'[g] = file[g]
        /\ \A g \in Files : /\ file'[g].f_direct = file[g].f_direct
                            /\ file'[g].f_indirect = file[g].f_indirect
    BY <2>1, GrowIs
  <2>3. \A g \in Files, k \in All : P(g, k)' = P(g, k)
    BY <2>1, <2>2, SamePointers
  <2>4. ASSUME NEW g \in Files, NEW k \in All, Within(k, file[g].f_size)
        PROVE  Within(k, file'[g].f_size)
    <3>1. CASE g = f
      BY <1>2, <1>4, <2>2, <2>4, <3>1, WithinGrows
    <3>2. CASE g # f
      BY <2>2, <2>4, <3>2
    <3> QED BY <3>1, <3>2
  <2>5. CacheFits'
    BY <2>1, <2>3, <2>4, ConsistentSame
  <2>6. fileOnDisk' \in [Files -> File] /\ SizeOnDisk' /\ PointersBehind'
    BY <1>1, <2>2, FlushFileBehind
  <2>7. BitmapBehind' /\ ReqOK'
    BY <1>1, <2>1, IdleIsOK DEF BitmapBehind
  <2>8. Shapes'
    BY <1>1, <2>1, <2>2, <2>6 DEF Shapes
  <2>9. Tables'
    BY <2>1, <2>2 DEF Tables, HasTables
  <2> QED BY <2>5, <2>6, <2>7, <2>8, <2>9
<1> QED BY <1>3, <1>4

\* The cached structures and what is being served of them do not change.
LEMMA SameStructures ==
    ASSUME IInv, free' = free, file' = file, cache' = cache
    PROVE  /\ CacheFits' /\ Tables'
           /\ \A g \in Files, k \in All : P(g, k)' = P(g, k)
<1>1. \A g \in Files, k \in All : P(g, k)' = P(g, k)
  BY DEF P
<1>2. CacheFits' /\ Tables'
  BY DEF IInv, CacheFits, Tables
<1> QED BY <1>1, <1>2

\* Only blocks go to disk.
LEMMA SameFiles ==
    ASSUME IInv, free' = free, file' = file, cache' = cache, freeOnDisk' = freeOnDisk,
           fileOnDisk' = fileOnDisk, disk' \in [Blocks -> Block],
           req' \in Request \cup {Idle}, safe' \subseteq Files, ReqOK'
    PROVE  IInv'
<1> USE DEF IInv
<1>1. CacheFits' /\ Tables' /\ BitmapBehind' /\ SizeOnDisk'
  BY SameStructures DEF BitmapBehind, SizeOnDisk
<1>2. PointersBehind'
  <2>1. ASSUME NEW g \in Files, NEW k \in InFile PROVE D(g, k)' = D(g, k) /\ P(g, k)' = P(g, k)
    <3>1. fileOnDisk[g] \in File /\ fileOnDisk \in [Files -> File]
      BY DEF Shapes
    <3> QED BY <3>1, SameStructures, DiskPointerIs, Sizes DEF D
  <2> QED BY <2>1 DEF PointersBehind
<1>3. Shapes'
  BY DEF Shapes
<1> QED BY <1>1, <1>2, <1>3

LEMMA FlushStep ==
    ASSUME IInv, NEW f \in Files, serve_flush(f)
    PROVE  IInv'
<1> USE DEF IInv
<1>1. /\ free' = free /\ file' = file /\ cache' = cache /\ freeOnDisk' = freeOnDisk
      /\ fileOnDisk' = fileOnDisk /\ safe' = safe /\ req' = [op |-> "flush", f |-> f]
      /\ disk' \in [Blocks -> Block]
  BY FlushBlocksType DEF serve_flush
<1>2. req' \in Request /\ ReqOK'
  BY <1>1 DEF Request, ReqOK
<1>3. safe' \subseteq Files
  BY <1>1 DEF Shapes
<1> QED BY <1>1, <1>2, <1>3, SameFiles

LEMMA FlushMetaStep ==
    ASSUME IInv, FlushMeta
    PROVE  IInv'
<1> USE DEF IInv
<1>1. req.f \in Files
  BY DEF FlushMeta, Shapes, Request
<1>2. /\ free' = free /\ file' = file /\ cache' = cache /\ freeOnDisk' = freeOnDisk
      /\ disk' = disk /\ safe' = safe /\ req' = [op |-> "flush_indirect", f |-> req.f]
      /\ FlushFile(req.f)
  BY DEF FlushMeta
<1>3. CacheFits' /\ Tables' /\ BitmapBehind'
  BY <1>2, SameStructures DEF BitmapBehind
<1>4. fileOnDisk' \in [Files -> File] /\ SizeOnDisk' /\ PointersBehind'
  BY <1>1, <1>2, FlushFileBehind DEF Shapes
<1>5. req' \in Request /\ ReqOK'
  BY <1>1, <1>2 DEF Request, ReqOK
<1>6. Shapes'
  BY <1>2, <1>4, <1>5 DEF Shapes
<1> QED BY <1>3, <1>4, <1>5, <1>6

LEMMA FlushIndirectStep ==
    ASSUME IInv, FlushIndirect
    PROVE  IInv'
<1> USE DEF IInv
<1>1. /\ free' = free /\ file' = file /\ cache' = cache /\ freeOnDisk' = freeOnDisk
      /\ fileOnDisk' = fileOnDisk /\ safe' = safe \cup {req.f} /\ req' = Idle
      /\ disk' \in [Blocks -> Block]
  BY FlushBlocksType DEF FlushIndirect
<1>2. req.f \in Files
  BY DEF FlushIndirect, Shapes, Request
<1>3. ReqOK'
  BY <1>1, IdleIsOK
<1> QED BY <1>1, <1>2, <1>3, SameFiles DEF Shapes

LEMMA SyncStep ==
    ASSUME IInv, serve_sync
    PROVE  IInv'
<1> USE DEF IInv
<1>1. /\ free' = free /\ file' = file /\ cache' = cache /\ freeOnDisk' = free
      /\ fileOnDisk' = fileOnDisk /\ disk' = disk /\ safe' = safe
      /\ req' = [op |-> "sync_files"]
  BY DEF serve_sync
<1>2. CacheFits' /\ Tables' /\ BitmapBehind' /\ SizeOnDisk' /\ PointersBehind'
  BY <1>1, SameStructures DEF BitmapBehind, SizeOnDisk, PointersBehind, D, P
<1>3. req' \in Request /\ ReqOK'
  BY <1>1 DEF Request, ReqOK
<1>4. Shapes'
  BY <1>1, <1>3 DEF Shapes
<1> QED BY <1>2, <1>3, <1>4

LEMMA SyncFilesStep ==
    ASSUME IInv, SyncFiles
    PROVE  IInv'
<1> USE DEF IInv
<1>1. /\ free' = free /\ file' = file /\ cache' = cache /\ freeOnDisk' = freeOnDisk
      /\ fileOnDisk' = file /\ disk' = disk /\ safe' = safe
      /\ req' = [op |-> "sync_blocks"]
  BY DEF SyncFiles
<1>2. CacheFits' /\ Tables' /\ BitmapBehind' /\ SizeOnDisk'
  BY <1>1, SameStructures DEF BitmapBehind, SizeOnDisk
<1>3. PointersBehind'
  <2>1. ASSUME NEW g \in Files, NEW k \in InFile PROVE D(g, k)' = P(g, k)'
    <3>1. file[g] \in File /\ file \in [Files -> File]
      BY DEF Shapes
    <3> QED BY <1>1, <3>1, DiskPointerIs DEF D, P
  <2> QED BY <2>1 DEF PointersBehind
<1>4. req' \in Request /\ ReqOK'
  BY <1>1 DEF Request, ReqOK
<1>5. Shapes'
  BY <1>1, <1>4 DEF Shapes
<1> QED BY <1>2, <1>3, <1>4, <1>5

LEMMA SyncBlocksStep ==
    ASSUME IInv, SyncBlocks
    PROVE  IInv'
<1> USE DEF IInv
<1>1. /\ free' = free /\ file' = file /\ cache' = cache /\ freeOnDisk' = freeOnDisk
      /\ fileOnDisk' = fileOnDisk
      /\ (safe' = Files /\ req' = Idle) \/ (safe' = safe /\ req' = req)
      /\ disk' \in [Blocks -> Block]
  BY FlushBlocksType DEF SyncBlocks
<1>2. ReqOK'
  <2>1. CASE req' = Idle
    BY <2>1, IdleIsOK
  <2>2. CASE req' = req
    BY <1>1, <2>2 DEF ReqOK
  <2> QED BY <1>1, <2>1, <2>2
<1>3. req' \in Request \cup {Idle} /\ safe' \subseteq Files
  BY <1>1 DEF Shapes
<1> QED BY <1>1, <1>2, <1>3, SameFiles

-----------------------------------------------------------------------------
(* Power.                                                                  *)

\* Pointers of the disk that agree with the cache are consistent.
LEMMA SubConsistent ==
    ASSUME CacheFits, BitmapBehind, SizeOnDisk, NEW K \in SUBSET All,
           \A g \in Files, k \in K : D(g, k) # Null => D(g, k) = P(g, k)
    PROVE  Consistent(fileOnDisk, disk, freeOnDisk, K)
<1> SUFFICES ASSUME NEW f \in Files, NEW k \in K, D(f, k) # Null
             PROVE  /\ D(f, k) \notin freeOnDisk
                    /\ \A g \in Files, l \in K : D(g, l) = D(f, k) => f = g /\ k = l
                    /\ Within(k, fileOnDisk[f].f_size)
  BY DEF Consistent, D, Within
<1>1. /\ P(f, k) # Null /\ P(f, k) \notin free /\ Within(k, file[f].f_size)
      /\ \A g \in Files, l \in All : P(g, l) = P(f, k) => f = g /\ k = l
  BY ConsistentIs
<1>2. D(f, k) \notin freeOnDisk
  BY <1>1 DEF BitmapBehind
<1>3. \A g \in Files, l \in K : D(g, l) = D(f, k) => f = g /\ k = l
  BY <1>1
<1>4. Within(k, fileOnDisk[f].f_size)
  BY <1>1 DEF SizeOnDisk
<1> QED BY <1>2, <1>3, <1>4

LEMMA TablesBehind ==
    ASSUME Shapes, PointersBehind, TablesFlushed
    PROVE  \A g \in Files, k \in All : D(g, k) # Null => D(g, k) = P(g, k)
<1> SUFFICES ASSUME NEW g \in Files, NEW k \in All, D(g, k) # Null
             PROVE  D(g, k) = P(g, k)
  OBVIOUS
<1>1. k \in InFile \/ (k \in Indices /\ k >= NDIRECT)
  BY Sizes DEF InFile, Indices
<1>2. CASE k \in InFile
  BY <1>2 DEF PointersBehind
<1>3. CASE k \in Indices /\ k >= NDIRECT
  <2>1. fileOnDisk[g].f_indirect # Null
    BY <1>3, PointerIs DEF D, Shapes
  <2>2. PICK x : x = fileOnDisk[g].f_indirect /\ fileOnDisk[g] = file[g] /\ disk[x] = cache[x]
    BY <2>1 DEF TablesFlushed
  <2>3. D(g, k) = disk[x].entry[k - NDIRECT]
    BY <1>3, <2>1, <2>2, PointerIs DEF D, Shapes
  <2>4. P(g, k) = cache[x].entry[k - NDIRECT]
    BY <1>3, <2>1, <2>2, PointerIs DEF P, Shapes
  <2> QED BY <2>2, <2>3, <2>4
<1> QED BY <1>1, <1>2, <1>3

LEMMA DiskIsBehind ==
    ASSUME IInv
    PROVE  /\ DiskFits
           /\ TablesFlushed => Whole(fileOnDisk, disk, freeOnDisk)
<1>1. DiskFits
  <2>1. InFile \in SUBSET All
    BY Sizes
  <2> QED BY <2>1, SubConsistent DEF IInv, PointersBehind, DiskFits
<1>2. ASSUME TablesFlushed PROVE Consistent(fileOnDisk, disk, freeOnDisk, All)
  BY <1>2, TablesBehind, SubConsistent DEF IInv
<1>3. ASSUME TablesFlushed PROVE HasTables(fileOnDisk, disk)
  BY <1>3 DEF TablesFlushed, HasTables, IInv, Tables
<1> QED BY <1>1, <1>2, <1>3 DEF Whole

\* A server that starts from a disk that is whole has the invariant, whatever
\* was in the cache before.
LEMMA CrashStep ==
    ASSUME Inv, Crash
    PROVE  Inv'
<1>1. /\ free' = freeOnDisk /\ file' = fileOnDisk /\ cache' = disk /\ req' = Idle /\ safe' = Files
      /\ freeOnDisk' = freeOnDisk /\ fileOnDisk' = fileOnDisk /\ disk' = disk
  BY DEF Crash, diskVars
<1>2. Shapes'
  BY <1>1 DEF Shapes, Inv, TypeOK
<1>3. damaged' \in BOOLEAN /\ (~damaged' => Whole(fileOnDisk, disk, freeOnDisk))
  BY Zenon DEF Crash
<1>4. DiskFits' /\ SizeOnDisk'
  BY <1>1 DEF Inv, DiskFits, SizeOnDisk
<1>5. ASSUME ~damaged' PROVE IInv'
  <2>1. CacheFits' /\ Tables'
    BY <1>1, <1>3, <1>5 DEF Whole, CacheFits, Tables
  <2>2. BitmapBehind' /\ SizeOnDisk'
    BY <1>1 DEF BitmapBehind, SizeOnDisk
  <2>3. PointersBehind'
    BY <1>1 DEF PointersBehind, P, D
  <2>4. ReqOK'
    BY <1>1, IdleIsOK
  <2> QED BY <1>2, <2>1, <2>2, <2>3, <2>4 DEF IInv
<1> QED BY <1>2, <1>3, <1>4, <1>5 DEF Inv, TypeOK

-----------------------------------------------------------------------------

LEMMA InitIInv == Init => IInv
<1> SUFFICES ASSUME Init PROVE IInv
  OBVIOUS
<1>1. Null \in Ptr /\ NoEntries \in [0 .. NINDIRECT - 1 -> Ptr]
  BY Sizes DEF NoEntries
<1>2. Zeros \in Block /\ NewFile \in File
  BY <1>1 DEF Zeros, Block, NewFile, File
<1>3. Shapes
  BY <1>2 DEF Init, Shapes
<1>4. ASSUME NEW g \in Files, NEW k \in All PROVE P(g, k) = Null /\ D(g, k) = P(g, k)
  <2>1. file[g] = NewFile /\ fileOnDisk = file /\ disk = cache
    BY DEF Init
  <2>7. D(g, k) = P(g, k)
    BY <2>1 DEF D, P
  <2>2. NewFile.f_indirect = Null /\ \A i \in 0 .. NDIRECT - 1 : NewFile.f_direct[i] = Null
    BY DEF NewFile
  <2>0. /\ P(g, -1) = file[g].f_indirect
        /\ \A i \in 0 .. NDIRECT - 1 : P(g, i) = file[g].f_direct[i]
        /\ \A i \in Indices : i >= NDIRECT /\ file[g].f_indirect = Null => P(g, i) = Null
    BY <1>3, PointerIs DEF P, Shapes
  <2>3. CASE k = -1
    BY <2>0, <2>1, <2>2, <2>3, <2>7
  <2>4. CASE k \in 0 .. NDIRECT - 1
    BY <2>0, <2>1, <2>2, <2>4, <2>7
  <2>5. CASE k \in Indices /\ k >= NDIRECT
    BY <2>0, <2>1, <2>2, <2>5, <2>7
  <2>6. k = -1 \/ k \in 0 .. NDIRECT - 1 \/ (k \in Indices /\ k >= NDIRECT)
    BY Sizes DEF Indices
  <2> QED BY <2>3, <2>4, <2>5, <2>6
<1>5. CacheFits
  BY <1>4, ConsistentIs
<1>6. BitmapBehind /\ SizeOnDisk /\ PointersBehind
  BY <1>4, Sizes DEF Init, BitmapBehind, SizeOnDisk, PointersBehind
<1>7. ReqOK
  <2> SUFFICES ASSUME NEW op \in {"read", "write"}, NEW f \in Files, NEW i \in Nat,
                      req = [op |-> op, f |-> f, bno |-> i]
               PROVE  FALSE
    BY DEF ReqOK
  <2>1. [op |-> op, f |-> f, bno |-> i] \in Request
    BY DEF Request
  <2> QED BY <2>1, IdleIsNoRequest DEF Init
<1>8. Tables
  BY DEF Init, NewFile, Tables, HasTables
<1> QED BY <1>3, <1>5, <1>6, <1>7, <1>8 DEF IInv

LEMMA ServeStep ==
    ASSUME IInv, Serve
    PROVE  IInv'
<1>1. CASE \E f \in Files : \E n \in 0 .. MaxSize[f] : serve_set_size(f, n)
  <2>1. PICK f \in Files, n \in Nat : serve_set_size(f, n)
    BY <1>1, FileSystemAssumption
  <2> QED BY <2>1, SetSizeStep
<1>2. CASE \E f \in Files : Access(f)
  <2>1. PICK f \in Files : Access(f)
    BY <1>2
  <2>2. PICK op \in {"read", "write"}, i \in 0 .. MaxSize[f] - 1 :
            Fail(op, f, i) \/ GetOld(op, f, i) \/ file_block_walk(op, f, i) \/ file_get_block(op, f, i)
    BY <2>1 DEF Access
  <2>3. i \in Nat
    OBVIOUS
  <2> QED BY <2>2, <2>3, FailStep, GetOldStep, WalkStep, GetNewStep
<1>3. CASE \E f \in Files : serve_flush(f)
  BY <1>3, FlushStep
<1>4. CASE FlushMeta
  BY <1>4, FlushMetaStep
<1>5. CASE FlushIndirect
  BY <1>5, FlushIndirectStep
<1>6. CASE serve_sync
  BY <1>6, SyncStep
<1>7. CASE SyncFiles
  BY <1>7, SyncFilesStep
<1>8. CASE SyncBlocks
  BY <1>8, SyncBlocksStep
<1> QED BY <1>1, <1>2, <1>3, <1>4, <1>5, <1>6, <1>7, <1>8 DEF Serve

LEMMA NextInv == Inv /\ [Next]_vars => Inv'
<1> SUFFICES ASSUME Inv, [Next]_vars PROVE Inv'
  OBVIOUS
<1>1. CASE ~damaged /\ Serve /\ UNCHANGED damaged
  <2>1. IInv'
    BY <1>1, ServeStep DEF Inv
  <2>2. DiskFits'
    BY <2>1, DiskIsBehind, PTL
  <2> QED BY <1>1, <2>1, <2>2 DEF Inv, IInv, TypeOK
<1>2. CASE Crash
  BY <1>2, CrashStep
<1>3. CASE UNCHANGED vars
  <2>1. /\ free' = free /\ file' = file /\ cache' = cache /\ freeOnDisk' = freeOnDisk
        /\ fileOnDisk' = fileOnDisk /\ disk' = disk /\ req' = req /\ safe' = safe
        /\ damaged' = damaged
    BY <1>3 DEF vars, diskVars
  <2>2. TypeOK' /\ DiskFits' /\ SizeOnDisk'
    BY <2>1 DEF Inv, TypeOK, Shapes, DiskFits, SizeOnDisk
  <2>3. IInv => IInv'
    BY <2>1 DEF IInv, Shapes, CacheFits, Tables, BitmapBehind, SizeOnDisk, ReqOK,
                PointersBehind, P, D
  <2> QED BY <2>1, <2>2, <2>3 DEF Inv
<1> QED BY <1>1, <1>2, <1>3 DEF Next

LEMMA InitInv == Init => Inv
<1> SUFFICES ASSUME Init PROVE Inv
  OBVIOUS
<1>1. IInv /\ DiskFits
  BY InitIInv, DiskIsBehind
<1>2. damaged = FALSE
  BY DEF Init
<1> QED BY <1>1, <1>2 DEF Inv, IInv, TypeOK

LEMMA InvHolds == Spec => []Inv
BY InitInv, NextInv, PTL DEF Spec

\* The variables keep their types: every pointer in the cache and on disk is
\* null or the number of a block (fs/fs.c), whatever disk the server started
\* from.
THEOREM TypeCorrect == Spec => []TypeOK
<1>1. Inv => TypeOK
  BY DEF Inv
<1> QED BY <1>1, InvHolds, PTL

\* file_block_walk(), file_get_block() and file_set_size() give a block to one
\* file at one place, take it back when the file is cut, and fail without
\* leaving it half given away, whatever whole disk the server started from.
\* FileSystemCrash.cfg shows a loss of power after which the disk is not whole.
THEOREM CacheIsConsistent == Spec => []CacheConsistent
<1>1. Inv => CacheConsistent
  BY DEF Inv, IInv, CacheConsistent, CacheFits, Tables, Whole
<1> QED BY <1>1, InvHolds, PTL

\* Between any two writes of fs/fs.c and fs/bc.c the bitmap on disk has no block
\* of a struct File on disk free, and no two of them share one; a restart finds
\* a whole disk whenever the indirect blocks on it are as in the cache.
THEOREM DiskIsConsistent == Spec => []DiskConsistent
<1>1. Inv => DiskConsistent
  BY DiskIsBehind DEF Inv, DiskFits, DiskConsistent
<1> QED BY <1>1, InvHolds, PTL

-----------------------------------------------------------------------------
(* Flushed files survive.  Content(g, k) is what the abstract file g holds *)
(* in block k.                                                             *)

Content(g, k) ==
    IF PtrAt(file, cache, g, k) = Null THEN Hole ELSE cache[PtrAt(file, cache, g, k)].data

LEMMA ViewIs ==
    \A g \in Files : View(file, cache, g) = [k \in 0 .. file[g].f_size - 1 |-> Content(g, k)]
BY DEF View, Content

LEMMA BlockApart ==
    ASSUME Shapes, CacheFits, NEW g \in Files, NEW k \in Indices, P(g, k) # Null
    PROVE  /\ P(g, k) \in Blocks /\ P(g, k) \notin free
           /\ \A h \in Files, l \in Indices : P(h, l) = P(g, k) => h = g /\ l = k
           /\ \A h \in Files : file[h].f_indirect # P(g, k)
<1>1. Indices \subseteq All
  BY Sizes
<1>2. P(g, k) \notin free /\ \A h \in Files, l \in Indices : P(h, l) = P(g, k) => h = g /\ l = k
  BY <1>1, ConsistentIs
<1>3. P(g, k) \in Blocks
  BY <1>1, PointerIs DEF P, Ptr, Shapes
<1>4. \A h \in Files : file[h].f_indirect # P(g, k)
  BY IndirectApart
<1> QED BY <1>2, <1>3, <1>4

LEMMA ContentIs ==
    ASSUME Shapes, NEW g \in Files, NEW k \in Nat
    PROVE  /\ k \notin Indices => Content(g, k) = Hole
           /\ k \in Indices /\ P(g, k) = Null => Content(g, k) = Hole
           /\ k \in Indices /\ P(g, k) # Null =>
                  P(g, k) \in Blocks /\ Content(g, k) = cache[P(g, k)].data
<1>1. ASSUME k \notin Indices PROVE Content(g, k) = Hole
  <2>1. ~(k < NDIRECT) /\ ~(k < NDIRECT + NINDIRECT)
    BY <1>1, Sizes DEF Indices
  <2> QED BY <2>1 DEF Content, PtrAt
<1>2. ASSUME k \in Indices PROVE P(g, k) = PtrAt(file, cache, g, k) /\ P(g, k) \in Ptr
  BY <1>2, PointerIs, Sizes DEF P, Shapes
<1> QED BY <1>1, <1>2 DEF Content, Ptr

\* A block of a file that keeps its pointer and its data.
LEMMA ContentStays ==
    ASSUME Shapes, Shapes', NEW g \in Files, NEW k \in Nat,
           k \in Indices => P(g, k)' = P(g, k),
           k \in Indices /\ P(g, k) # Null => cache'[P(g, k)].data = cache[P(g, k)].data
    PROVE  Content(g, k)' = Content(g, k)
<1>1. k \in Indices => P(g, k)' = PtrAt(file, cache, g, k)'
  BY PointerIs DEF P, Shapes
<1>2. k \in Indices => P(g, k) = PtrAt(file, cache, g, k)
  BY PointerIs DEF P, Shapes
<1>3. CASE k \in Indices
  BY <1>1, <1>2, <1>3 DEF Content
<1>4. CASE k \notin Indices
  <2>1. ~(k < NDIRECT) /\ ~(k < NDIRECT + NINDIRECT)
    BY <1>4, Sizes DEF Indices
  <2> QED BY <2>1 DEF Content, PtrAt
<1> QED BY <1>3, <1>4

LEMMA ContentBehind ==
    ASSUME Shapes, CacheFits, NEW g \in Files, NEW k \in Nat, ~(k < file[g].f_size)
    PROVE  Content(g, k) = Hole
BY NothingBehind, ContentIs

LEMMA PtrAtIs ==
    ASSUME Shapes
    PROVE  \A g \in Files, k \in Indices : P(g, k) = PtrAt(file, cache, g, k)
BY PointerIs DEF P, Shapes

\* A file that is kept stays so: its pointers and its data do not change, what
\* goes to disk comes from the cache, and its struct File goes to disk or stays
\* there.
LEMMA KeptStays ==
    ASSUME Shapes, Shapes', NEW g \in Files, Kept(g),
           \A k \in All : P(g, k)' = P(g, k),
           \A k \in Indices : P(g, k) # Null =>
               P(g, k) \in Blocks /\ cache'[P(g, k)].data = cache[P(g, k)].data,
           \A b \in Blocks : disk'[b] = disk[b] \/ disk'[b] = cache[b],
           fileOnDisk'[g] = fileOnDisk[g] \/ fileOnDisk'[g] = file'[g]
    PROVE  Kept(g)'
<1>1. /\ \A k \in All : D(g, k) = P(g, k)
      /\ \A k \in Indices : P(g, k) # Null => disk[P(g, k)].data = cache[P(g, k)].data
  BY DEF Kept
<1>2. ASSUME NEW k \in Indices, P(g, k)' # Null
      PROVE  disk'[P(g, k)'].data = cache'[P(g, k)'].data
  <2>1. PICK b \in Blocks : b = P(g, k) /\ b = P(g, k)' /\ b # Null
    BY <1>2, Sizes
  <2>2. disk[b].data = cache[b].data /\ cache'[b].data = cache[b].data
    BY <1>1, <2>1
  <2> QED BY <2>1, <2>2
<1>3. \A k \in InFile : D(g, k)' = P(g, k)
  <2> SUFFICES ASSUME NEW k \in InFile PROVE D(g, k)' = P(g, k)
    OBVIOUS
  <2>1. CASE fileOnDisk'[g] = fileOnDisk[g]
    <3>1. fileOnDisk[g] \in File /\ fileOnDisk \in [Files -> File] /\ fileOnDisk' \in [Files -> File]
      BY DEF Shapes
    <3>2. D(g, k)' = D(g, k)
      BY <2>1, <3>1, DiskPointerIs DEF D
    <3> QED BY <1>1, <3>2, Sizes
  <2>2. CASE fileOnDisk'[g] = file'[g]
    <3>1. file'[g] \in File /\ file' \in [Files -> File] /\ fileOnDisk' \in [Files -> File]
      BY DEF Shapes
    <3>2. D(g, k)' = P(g, k)'
      BY <2>2, <3>1, DiskPointerIs DEF D, P
    <3> QED BY <3>2, Sizes
  <2> QED BY <2>1, <2>2
<1>4. ASSUME NEW k \in Indices, k >= NDIRECT PROVE D(g, k)' = P(g, k)
  <2>1. PICK x \in Ptr : x = P(g, -1)
    BY Sizes, PointerIs DEF P, Shapes
  <2>2. /\ file[g].f_indirect = x /\ fileOnDisk[g].f_indirect = x
        /\ fileOnDisk'[g].f_indirect = x
    <3>1. D(g, -1) = x /\ D(g, -1)' = x
      BY <1>1, <1>3, <2>1, Sizes
    <3> QED BY <2>1, <3>1 DEF P, D, Pointer
  <2>5. k \in Nat /\ k # -1 /\ ~(k < NDIRECT) /\ k < NDIRECT + NINDIRECT
    BY <1>4, Sizes DEF Indices
  <2>3. CASE x = Null
    <3>1. D(g, k)' = Null /\ P(g, k) = Null
      BY <2>2, <2>3, <2>5 DEF P, D, Pointer, PtrAt
    <3> QED BY <3>1
  <2>4. CASE x # Null
    <3>1. x \in Blocks
      BY <2>4 DEF Ptr
    <3>2. D(g, k)' = disk'[x].entry[k - NDIRECT]
      BY <2>2, <2>4, <2>5 DEF D, Pointer, PtrAt
    <3>3. D(g, k) = disk[x].entry[k - NDIRECT] /\ P(g, k) = cache[x].entry[k - NDIRECT]
      BY <2>2, <2>4, <2>5 DEF D, P, Pointer, PtrAt
    <3>4. D(g, k) = P(g, k)
      BY <1>1, Sizes
    <3> QED BY <3>1, <3>2, <3>3, <3>4
  <2> QED BY <2>3, <2>4
<1>5. ASSUME NEW k \in All PROVE D(g, k)' = P(g, k)'
  <2>1. k \in InFile \/ (k \in Indices /\ k >= NDIRECT)
    BY Sizes DEF InFile, Indices
  <2> QED BY <1>3, <1>4, <2>1
<1> QED BY <1>2, <1>5 DEF Kept

\* No flush or sync is half way.
LEMMA NoFlush ==
    ASSUME req' = Idle \/ \E op \in {"read", "write"}, f \in Files, i \in Nat :
                              req' = [op |-> op, f |-> f, bno |-> i]
    PROVE  FlushOK'
<1>1. /\ [op |-> "sync_blocks"] \in Request
      /\ \A f \in Files : /\ [op |-> "flush", f |-> f] \in Request
                          /\ [op |-> "flush_indirect", f |-> f] \in Request
  BY DEF Request
<1>2. CASE req' = Idle
  BY <1>1, <1>2, IdleIsNoRequest DEF FlushOK
<1>3. CASE req' # Idle
  <2>1. PICK op \in {"read", "write"}, f \in Files, i \in Nat : req' = [op |-> op, f |-> f, bno |-> i]
    BY <1>3
  <2>2. req'.op = op /\ op # "sync_blocks" /\ op # "flush" /\ op # "flush_indirect"
    BY <2>1
  <2>3. /\ req' # [op |-> "sync_blocks"]
        /\ \A g \in Files : /\ req' # [op |-> "flush", f |-> g]
                            /\ req' # [op |-> "flush_indirect", f |-> g]
    BY <2>2
  <2> QED BY <2>3 DEF FlushOK
<1> QED BY <1>2, <1>3

\* The struct File, the indirect block and the data of g are on disk.
LEMMA KeptWhole ==
    ASSUME Shapes', NEW g \in Files, fileOnDisk'[g] = file'[g],
           file'[g].f_indirect # Null =>
               disk'[file'[g].f_indirect] = cache'[file'[g].f_indirect],
           \A k \in Indices : P(g, k)' # Null => disk'[P(g, k)'].data = cache'[P(g, k)'].data
    PROVE  Kept(g)'
<1>1. \A k \in All : D(g, k)' = P(g, k)'
  BY DEF D, P, Pointer, PtrAt
<1> QED BY <1>1 DEF Kept

LEMMA ExtendedFlushed ==
    ASSUME Shapes, NEW op \in {"read", "write"}, NEW f \in Files, NEW i \in Nat,
           FlushExtended(op, f, i), NEW g \in Files
    PROVE  /\ ~Extends(op, f, i) => fileOnDisk'[g] = fileOnDisk[g]
           /\ g # f => fileOnDisk'[g] = fileOnDisk[g] \/ fileOnDisk'[g] = file[g]
<1>1. PICK e : e = Extended(op, f, i)
  OBVIOUS
<1>2. \A h \in Files \ {f} : e[h] = file[h]
  BY <1>1, ExtendedIs
<1>3. fileOnDisk'[g] = IF Extends(op, f, i) /\ g \in near[f] THEN e[g] ELSE fileOnDisk[g]
  BY <1>1 DEF FlushExtended
<1> QED BY <1>2, <1>3

LEMMA SizesStay ==
    ASSUME Shapes, SafeInv, NEW op \in {"read", "write"}, NEW f \in Files,
           NEW i \in 0 .. MaxSize[f] - 1,
           \A g \in Files : file'[g].f_size = Extended(op, f, i)[g].f_size
    PROVE  \A g \in Files : file'[g].f_size <= MaxSize[g]
<1> SUFFICES ASSUME NEW g \in Files PROVE file'[g].f_size <= MaxSize[g]
  OBVIOUS
<1>1. PICK e : e = Extended(op, f, i)
  OBVIOUS
<1>2. i \in Nat /\ MaxSize[f] \in Nat /\ i + 1 <= MaxSize[f]
  BY FileSystemAssumption
<1>3. \A h \in Files \ {f} : e[h] = file[h]
  BY <1>1, <1>2, ExtendedIs
<1>4. e[f].f_size = IF Extends(op, f, i) THEN i + 1 ELSE file[f].f_size
  BY <1>1, <1>2, ExtendedIs
<1>5. file[g].f_size <= MaxSize[g]
  BY DEF SafeInv
<1> QED BY <1>1, <1>2, <1>3, <1>4, <1>5

LEMMA FailSafe ==
    ASSUME IInv, IInv', SafeInv, NEW op \in {"read", "write"}, NEW f \in Files,
           NEW i \in 0 .. MaxSize[f] - 1, Fail(op, f, i)
    PROVE  SafeInv'
<1>1. i \in Nat /\ Shapes /\ Shapes' /\ CacheFits
  BY FileSystemAssumption DEF IInv
<1>2. /\ file' = Extended(op, f, i) /\ FlushExtended(op, f, i) /\ req' = Idle
      /\ cache' = cache /\ disk' = disk
      /\ safe' = IF Extends(op, f, i) THEN safe \ {f} ELSE safe
  BY DEF Fail
<1>3. \A g \in Files : file'[g].f_direct = file[g].f_direct /\ file'[g].f_indirect = file[g].f_indirect
  BY <1>1, <1>2, ExtendedKeeps
<1>4. \A g \in Files, k \in All : P(g, k)' = P(g, k)
  BY <1>2, <1>3, SamePointers
<1>5. ASSUME NEW g \in safe' PROVE Kept(g)'
  <2>1. g \in Files /\ Kept(g) /\ (g = f => ~Extends(op, f, i))
    BY <1>1, <1>2 DEF SafeInv, Shapes
  <2>2. \A h \in Files \ {f} : file'[h] = file[h]
    <3>1. PICK e : e = Extended(op, f, i)
      OBVIOUS
    <3>2. \A h \in Files \ {f} : e[h] = file[h]
      BY <1>1, <3>1, ExtendedIs
    <3> QED BY <1>2, <3>1, <3>2
  <2>3. fileOnDisk'[g] = fileOnDisk[g] \/ fileOnDisk'[g] = file'[g]
    BY <1>1, <1>2, <2>1, <2>2, ExtendedFlushed
  <2>4. \A k \in Indices : P(g, k) # Null => P(g, k) \in Blocks
    BY <1>1, <2>1, BlockApart
  <2> QED BY <1>1, <1>2, <1>4, <2>1, <2>3, <2>4, KeptStays
<1>6. \A g \in Files : file'[g].f_size <= MaxSize[g]
  BY <1>1, <1>2, SizesStay
<1> QED BY <1>2, <1>5, <1>6, NoFlush DEF SafeInv

LEMMA GetOldSafe ==
    ASSUME IInv, IInv', SafeInv, NEW op \in {"read", "write"}, NEW f \in Files,
           NEW i \in 0 .. MaxSize[f] - 1, GetOld(op, f, i)
    PROVE  SafeInv'
<1>1. i \in Nat /\ Shapes /\ Shapes' /\ CacheFits
  BY FileSystemAssumption DEF IInv
<1>2. /\ file' = Extended(op, f, i) /\ FlushExtended(op, f, i) /\ req' = Idle /\ disk' = disk
      /\ safe' = IF op = "write" THEN safe \ {f} ELSE safe
  BY DEF GetOld, Untouched
<1>3. /\ i \in Indices /\ P(f, i) \in Blocks
      /\ cache'[P(f, i)] = Copied(op, f, P(f, i))
      /\ \A d \in Blocks \ {P(f, i)} : cache'[d] = cache[d]
      /\ \A g \in Files, k \in All : P(g, k)' = P(g, k)
  BY <1>1, GetOldIs
<1>4. ASSUME NEW g \in safe' PROVE Kept(g)'
  <2>1. g \in Files /\ Kept(g) /\ (g = f => op = "read")
    BY <1>1, <1>2 DEF SafeInv, Shapes
  <2>2. \A h \in Files \ {f} : file'[h] = file[h]
    <3>1. PICK e : e = Extended(op, f, i)
      OBVIOUS
    <3>2. \A h \in Files \ {f} : e[h] = file[h]
      BY <1>1, <3>1, ExtendedIs
    <3> QED BY <1>2, <3>1, <3>2
  <2>4. op = "read" => ~Extends(op, f, i)
    BY DEF Extends
  <2>5. fileOnDisk'[g] = fileOnDisk[g] \/ fileOnDisk'[g] = file'[g]
    BY <1>1, <1>2, <2>1, <2>2, <2>4, ExtendedFlushed
  <2>6. ASSUME NEW k \in Indices, P(g, k) # Null
        PROVE  P(g, k) \in Blocks /\ cache'[P(g, k)].data = cache[P(g, k)].data
    <3>1. P(g, k) \in Blocks /\ (P(f, i) = P(g, k) => g = f)
      BY <1>1, <1>3, <2>1, <2>6, BlockApart
    <3>2. CASE P(g, k) # P(f, i)
      BY <1>3, <3>1, <3>2
    <3>3. CASE P(g, k) = P(f, i)
      BY <1>3, <2>1, <3>1, <3>3 DEF Copied
    <3> QED BY <3>2, <3>3
  <2> QED BY <1>1, <1>2, <1>3, <2>1, <2>5, <2>6, KeptStays
<1>5. \A g \in Files : file'[g].f_size <= MaxSize[g]
  BY <1>1, <1>2, SizesStay
<1> QED BY <1>2, <1>4, <1>5, NoFlush DEF SafeInv

LEMMA WalkSafe ==
    ASSUME IInv, IInv', SafeInv, NEW op \in {"read", "write"}, NEW f \in Files,
           NEW i \in 0 .. MaxSize[f] - 1, file_block_walk(op, f, i)
    PROVE  SafeInv'
<1>1. i \in Nat /\ Shapes /\ Shapes' /\ CacheFits
  BY FileSystemAssumption DEF IInv
<1>2. /\ FlushExtended(op, f, i) /\ req' = [op |-> op, f |-> f, bno |-> i] /\ disk' = disk
      /\ safe' = safe \ {f}
  BY DEF file_block_walk
<1>3. PICK b \in free :
          /\ \A g \in Files, k \in All : (g # f \/ k # -1) => P(g, k)' = P(g, k)
          /\ \A g \in Files : /\ file'[g].f_size = Extended(op, f, i)[g].f_size
                              /\ file'[g].f_direct = file[g].f_direct
          /\ \A g \in Files \ {f} : file'[g] = file[g]
          /\ \A d \in Blocks \ {b} : cache'[d] = cache[d]
  BY <1>1, WalkIs
<1>4. ASSUME NEW g \in safe' PROVE Kept(g)'
  <2>1. g \in Files /\ Kept(g) /\ g # f
    BY <1>1, <1>2 DEF SafeInv, Shapes
  <2>2. fileOnDisk'[g] = fileOnDisk[g] \/ fileOnDisk'[g] = file'[g]
    BY <1>1, <1>2, <1>3, <2>1, ExtendedFlushed
  <2>3. \A k \in All : P(g, k)' = P(g, k)
    BY <1>3, <2>1
  <2>4. ASSUME NEW k \in Indices, P(g, k) # Null
        PROVE  P(g, k) \in Blocks /\ cache'[P(g, k)].data = cache[P(g, k)].data
    <3>1. P(g, k) \in Blocks \ {b}
      BY <1>1, <2>1, <2>4, BlockApart
    <3> QED BY <1>3, <3>1
  <2> QED BY <1>1, <1>2, <1>3, <2>1, <2>2, <2>3, <2>4, KeptStays
<1>5. \A g \in Files : file'[g].f_size <= MaxSize[g]
  BY <1>1, <1>3, SizesStay
<1>6. FlushOK'
  BY <1>1, <1>2, NoFlush
<1> QED BY <1>4, <1>5, <1>6 DEF SafeInv

LEMMA GetNewSafe ==
    ASSUME IInv, IInv', SafeInv, NEW op \in {"read", "write"}, NEW f \in Files,
           NEW i \in 0 .. MaxSize[f] - 1, file_get_block(op, f, i)
    PROVE  SafeInv'
<1>1. i \in Nat /\ Shapes /\ Shapes' /\ CacheFits
  BY FileSystemAssumption DEF IInv
<1>2. /\ FlushExtended(op, f, i) /\ req' = Idle /\ disk' = disk /\ safe' = safe \ {f}
  BY DEF file_get_block
<1>3. PICK b \in free :
          /\ \A g \in Files, k \in All : (g # f \/ k # i) => P(g, k)' = P(g, k)
          /\ \A g \in Files : file'[g].f_size = Extended(op, f, i)[g].f_size
          /\ \A g \in Files \ {f} : file'[g] = file[g]
          /\ \A d \in Blocks \ {b} : cache'[d].data = cache[d].data
  BY <1>1, GetNewIs
<1>4. ASSUME NEW g \in safe' PROVE Kept(g)'
  <2>1. g \in Files /\ Kept(g) /\ g # f
    BY <1>1, <1>2 DEF SafeInv, Shapes
  <2>2. fileOnDisk'[g] = fileOnDisk[g] \/ fileOnDisk'[g] = file'[g]
    BY <1>1, <1>2, <1>3, <2>1, ExtendedFlushed
  <2>3. \A k \in All : P(g, k)' = P(g, k)
    BY <1>3, <2>1
  <2>4. ASSUME NEW k \in Indices, P(g, k) # Null
        PROVE  P(g, k) \in Blocks /\ cache'[P(g, k)].data = cache[P(g, k)].data
    <3>1. P(g, k) \in Blocks \ {b}
      BY <1>1, <2>1, <2>4, BlockApart
    <3> QED BY <1>3, <3>1
  <2> QED BY <1>1, <1>2, <1>3, <2>1, <2>2, <2>3, <2>4, KeptStays
<1>5. \A g \in Files : file'[g].f_size <= MaxSize[g]
  BY <1>1, <1>3, SizesStay
<1> QED BY <1>2, <1>4, <1>5, NoFlush DEF SafeInv

LEMMA SetSizeSafe ==
    ASSUME IInv, IInv', SafeInv, NEW f \in Files, NEW n \in 0 .. MaxSize[f], serve_set_size(f, n)
    PROVE  SafeInv'
<1>1. n \in Nat /\ n <= MaxSize[f] /\ Shapes /\ Shapes' /\ CacheFits
  BY FileSystemAssumption DEF IInv
<1>2. /\ FlushFile(f) /\ req' = Idle /\ disk' = disk /\ safe' = safe \ {f}
  BY DEF serve_set_size, file_set_size
<1>3. /\ file'[f].f_size = n /\ \A g \in Files \ {f} : file'[g] = file[g]
      /\ \A b \in Blocks : cache'[b].data = cache[b].data
      /\ \A g \in Files \ {f}, k \in All : P(g, k)' = P(g, k)
  <2>1. CASE file[f].f_size > n
    <3>1. file_truncate_blocks(f, n)
      BY <2>1 DEF serve_set_size, file_set_size
    <3>2. \A g \in Files, k \in All : P(g, k)' = IF g # f \/ Within(k, n) THEN P(g, k) ELSE Null
      BY <1>1, <2>1, <3>1, TruncateIs
    <3> QED BY <1>1, <2>1, <3>1, <3>2, TruncateIs
  <2>2. CASE ~(file[f].f_size > n)
    <3>1. file' = [file EXCEPT ![f].f_size = n] /\ cache' = cache
      BY <2>2 DEF serve_set_size, file_set_size
    <3>2. /\ file'[f].f_size = n /\ \A g \in Files \ {f} : file'[g] = file[g]
          /\ \A g \in Files : /\ file'[g].f_direct = file[g].f_direct
                              /\ file'[g].f_indirect = file[g].f_indirect
      BY <1>1, <3>1, GrowIs
    <3>3. \A g \in Files, k \in All : P(g, k)' = P(g, k)
      BY <3>1, <3>2, SamePointers
    <3> QED BY <3>1, <3>2, <3>3
  <2> QED BY <2>1, <2>2
<1>4. ASSUME NEW g \in safe' PROVE Kept(g)'
  <2>1. g \in Files /\ Kept(g) /\ g # f
    BY <1>1, <1>2 DEF SafeInv, Shapes
  <2>2. fileOnDisk'[g] = fileOnDisk[g] \/ fileOnDisk'[g] = file'[g]
    BY <1>2, <2>1 DEF FlushFile
  <2>3. \A k \in All : P(g, k)' = P(g, k)
    BY <1>3, <2>1
  <2>4. \A k \in Indices : P(g, k) # Null => P(g, k) \in Blocks
    BY <1>1, <2>1, BlockApart
  <2> QED BY <1>1, <1>2, <1>3, <2>1, <2>2, <2>3, <2>4, KeptStays
<1>5. \A g \in Files : file'[g].f_size <= MaxSize[g]
  BY <1>1, <1>3 DEF SafeInv
<1> QED BY <1>2, <1>4, <1>5, NoFlush DEF SafeInv

LEMMA DataFlushedIs ==
    ASSUME IInv, NEW f \in Files,
           disk' = [b \in Blocks |->
                       IF b \in DataBlocks(file, cache, f, 0, file[f].f_size) THEN cache[b] ELSE disk[b]]
    PROVE  \A k \in Indices : P(f, k) # Null => disk'[P(f, k)] = cache[P(f, k)]
<1> SUFFICES ASSUME NEW k \in Indices, P(f, k) # Null PROVE disk'[P(f, k)] = cache[P(f, k)]
  OBVIOUS
<1>1. Shapes /\ CacheFits
  BY DEF IInv
<1>2. P(f, k) = PtrAt(file, cache, f, k)
  BY <1>1, PtrAtIs
<1>3. P(f, k) \in Blocks /\ k < file[f].f_size /\ 0 <= k
  BY <1>1, BlockApart, NothingBehind, Sizes
<1>4. P(f, k) \in DataBlocks(file, cache, f, 0, file[f].f_size)
  BY <1>2, <1>3 DEF DataBlocks
<1> QED BY <1>3, <1>4

\* A flush or a sync leaves the cache as it is, and what it writes comes from
\* there: the files that were kept still are.
LEMMA KeptThroughFlush ==
    ASSUME IInv, IInv', SafeInv, free' = free, file' = file, cache' = cache,
           \A b \in Blocks : disk'[b] = disk[b] \/ disk'[b] = cache[b],
           \A g \in Files : fileOnDisk'[g] = fileOnDisk[g] \/ fileOnDisk'[g] = file'[g]
    PROVE  /\ \A g \in safe : Kept(g)'
           /\ \A g \in Files, k \in All : P(g, k)' = P(g, k)
           /\ \A g \in Files : file'[g].f_size <= MaxSize[g]
<1>1. Shapes /\ Shapes' /\ CacheFits
  BY DEF IInv
<1>2. \A g \in Files, k \in All : P(g, k)' = P(g, k)
  BY SameStructures
<1>3. ASSUME NEW g \in safe PROVE Kept(g)'
  <2>1. g \in Files /\ Kept(g)
    BY <1>1 DEF SafeInv, Shapes
  <2>2. \A k \in Indices : P(g, k) # Null => P(g, k) \in Blocks
    BY <1>1, <2>1, BlockApart
  <2> QED BY <1>1, <1>2, <2>1, <2>2, KeptStays
<1>4. \A g \in Files : file'[g].f_size <= MaxSize[g]
  BY DEF SafeInv
<1> QED BY <1>2, <1>3, <1>4

LEMMA FlushSafe ==
    ASSUME IInv, IInv', SafeInv, NEW f \in Files, serve_flush(f)
    PROVE  SafeInv'
<1>1. /\ free' = free /\ file' = file /\ cache' = cache
      /\ fileOnDisk' = fileOnDisk /\ safe' = safe /\ req' = [op |-> "flush", f |-> f]
      /\ disk' = [b \in Blocks |->
                     IF b \in DataBlocks(file, cache, f, 0, file[f].f_size) THEN cache[b] ELSE disk[b]]
  BY DEF serve_flush, FlushBlocks
<1>2. /\ \A g \in safe : Kept(g)'
      /\ \A g \in Files, k \in All : P(g, k)' = P(g, k)
      /\ \A g \in Files : file'[g].f_size <= MaxSize[g]
  BY <1>1, KeptThroughFlush
<1>3. DataFlushed(f)'
  <2>1. \A k \in Indices : P(f, k) # Null => disk'[P(f, k)] = cache[P(f, k)]
    BY <1>1, DataFlushedIs
  <2> QED BY <1>1, <1>2, <2>1, Sizes DEF DataFlushed
<1>4. FlushOK'
  <2>1. req'.op = "flush" /\ req'.f = f
    BY <1>1
  <2>2. req' # [op |-> "sync_blocks"] /\ \A g \in Files : req' # [op |-> "flush_indirect", f |-> g]
    BY <2>1
  <2>3. \A g \in Files : req' = [op |-> "flush", f |-> g] => g = f
    BY <2>1
  <2> QED BY <1>3, <2>2, <2>3 DEF FlushOK
<1> QED BY <1>1, <1>2, <1>4 DEF SafeInv

LEMMA FlushMetaSafe ==
    ASSUME IInv, IInv', SafeInv, FlushMeta
    PROVE  SafeInv'
<1>1. PICK f \in Files : req = [op |-> "flush", f |-> f]
  BY DEF FlushMeta, IInv, Shapes, Request
<1>2. /\ free' = free /\ file' = file /\ cache' = cache /\ FlushFile(f) /\ disk' = disk
      /\ safe' = safe /\ req' = [op |-> "flush_indirect", f |-> f]
  BY <1>1 DEF FlushMeta
<1>3. \A g \in Files : fileOnDisk'[g] = fileOnDisk[g] \/ fileOnDisk'[g] = file'[g]
  BY <1>2 DEF FlushFile
<1>4. /\ \A g \in safe : Kept(g)'
      /\ \A g \in Files, k \in All : P(g, k)' = P(g, k)
      /\ \A g \in Files : file'[g].f_size <= MaxSize[g]
  BY <1>2, <1>3, KeptThroughFlush
<1>5. DataFlushed(f)'
  <2>1. DataFlushed(f)
    BY <1>1 DEF SafeInv, FlushOK
  <2> QED BY <1>2, <1>4, <2>1, Sizes DEF DataFlushed
<1>6. fileOnDisk'[f] = file'[f]
  BY <1>2, FileSystemAssumption DEF FlushFile
<1>7. FlushOK'
  <2>1. req'.op = "flush_indirect" /\ req'.f = f
    BY <1>2
  <2>2. req' # [op |-> "sync_blocks"] /\ \A g \in Files : req' # [op |-> "flush", f |-> g]
    BY <2>1
  <2>3. \A g \in Files : req' = [op |-> "flush_indirect", f |-> g] => g = f
    BY <2>1
  <2> QED BY <1>5, <1>6, <2>2, <2>3 DEF FlushOK
<1> QED BY <1>2, <1>4, <1>7 DEF SafeInv

LEMMA FlushIndirectSafe ==
    ASSUME IInv, IInv', SafeInv, FlushIndirect
    PROVE  SafeInv'
<1>1. PICK f \in Files : req = [op |-> "flush_indirect", f |-> f]
  BY DEF FlushIndirect, IInv, Shapes, Request
<1>2. /\ free' = free /\ file' = file /\ cache' = cache /\ fileOnDisk' = fileOnDisk
      /\ safe' = safe \cup {f} /\ req' = Idle
      /\ disk' = [b \in Blocks |-> IF b \in {file[f].f_indirect} \ {Null} THEN cache[b] ELSE disk[b]]
  BY <1>1 DEF FlushIndirect, FlushBlocks
<1>3. \A b \in Blocks : disk'[b] = disk[b] \/ disk'[b] = cache[b]
  BY <1>2
<1>4. /\ \A g \in safe : Kept(g)'
      /\ \A g \in Files, k \in All : P(g, k)' = P(g, k)
      /\ \A g \in Files : file'[g].f_size <= MaxSize[g]
  BY <1>2, <1>3, KeptThroughFlush
<1>5. Kept(f)'
  <2>1. DataFlushed(f) /\ fileOnDisk'[f] = file'[f]
    BY <1>1, <1>2 DEF SafeInv, FlushOK
  <2>2. ASSUME NEW k \in Indices, P(f, k)' # Null
        PROVE  disk'[P(f, k)'].data = cache'[P(f, k)'].data
    <3>1. P(f, k)' = P(f, k)
      BY <1>4, Sizes
    <3>2. PICK b \in Blocks : b = P(f, k) /\ b = P(f, k)'
      BY <2>2, <3>1, BlockApart DEF IInv
    <3>3. disk[b] = cache[b]
      BY <2>1, <2>2, <3>1, <3>2 DEF DataFlushed
    <3> QED BY <1>2, <1>3, <3>2, <3>3
  <2>3. file'[f].f_indirect # Null => disk'[file'[f].f_indirect] = cache'[file'[f].f_indirect]
    <3>1. file[f].f_indirect # Null => file[f].f_indirect \in Blocks
      BY IndirectApart DEF IInv
    <3> QED BY <1>2, <3>1
  <2> QED BY <2>1, <2>2, <2>3, KeptWhole DEF IInv
<1>6. FlushOK'
  BY <1>2, NoFlush
<1> QED BY <1>2, <1>4, <1>5, <1>6 DEF SafeInv

LEMMA SyncSafe ==
    ASSUME IInv, IInv', SafeInv, serve_sync
    PROVE  SafeInv'
<1>1. /\ free' = free /\ file' = file /\ cache' = cache /\ fileOnDisk' = fileOnDisk
      /\ disk' = disk /\ safe' = safe /\ req' = [op |-> "sync_files"]
  BY DEF serve_sync
<1>2. FlushOK'
  <2>1. req'.op = "sync_files"
    BY <1>1
  <2>2. /\ req' # [op |-> "sync_blocks"]
        /\ \A g \in Files : /\ req' # [op |-> "flush", f |-> g]
                            /\ req' # [op |-> "flush_indirect", f |-> g]
    BY <2>1
  <2> QED BY <2>2 DEF FlushOK
<1> QED BY <1>1, <1>2, KeptThroughFlush DEF SafeInv

LEMMA SyncFilesSafe ==
    ASSUME IInv, IInv', SafeInv, SyncFiles
    PROVE  SafeInv'
<1>1. /\ free' = free /\ file' = file /\ cache' = cache /\ fileOnDisk' = file
      /\ disk' = disk /\ safe' = safe /\ req' = [op |-> "sync_blocks"]
  BY DEF SyncFiles
<1>2. FlushOK'
  <2>1. req'.op = "sync_blocks"
    BY <1>1
  <2>2. \A g \in Files : /\ req' # [op |-> "flush", f |-> g]
                         /\ req' # [op |-> "flush_indirect", f |-> g]
    BY <2>1
  <2> QED BY <1>1, <2>2 DEF FlushOK
<1> QED BY <1>1, <1>2, KeptThroughFlush DEF SafeInv

LEMMA SyncBlocksSafe ==
    ASSUME IInv, IInv', SafeInv, SyncBlocks
    PROVE  SafeInv'
<1>1. req = [op |-> "sync_blocks"]
  BY DEF SyncBlocks, IInv, Shapes, Request
<1>2. PICK n \in 0 .. NBlocks :
          /\ disk' = [b \in Blocks |-> IF b \in 1 .. n THEN cache[b] ELSE disk[b]]
          /\ \/ n = NBlocks /\ safe' = Files /\ req' = Idle
             \/ safe' = safe /\ req' = req
  BY DEF SyncBlocks, FlushBlocks
<1>3. /\ free' = free /\ file' = file /\ cache' = cache /\ fileOnDisk' = fileOnDisk
      /\ fileOnDisk = file
  BY <1>1 DEF SyncBlocks, SafeInv, FlushOK
<1>4. \A b \in Blocks : disk'[b] = disk[b] \/ disk'[b] = cache[b]
  BY <1>2
<1>5. /\ \A g \in safe : Kept(g)'
      /\ \A g \in Files, k \in All : P(g, k)' = P(g, k)
      /\ \A g \in Files : file'[g].f_size <= MaxSize[g]
  BY <1>3, <1>4, KeptThroughFlush
<1>6. CASE n = NBlocks /\ safe' = Files /\ req' = Idle
  <2>1. \A b \in Blocks : disk'[b] = cache'[b]
    BY <1>2, <1>3, <1>6 DEF Blocks
  <2>2. ASSUME NEW g \in Files PROVE Kept(g)'
    <3>1. \A k \in Indices : P(g, k)' # Null => P(g, k)' \in Blocks
      BY <1>5, BlockApart, Sizes DEF IInv
    <3>2. file'[g].f_indirect # Null => file'[g].f_indirect \in Blocks
      BY <1>3, IndirectApart DEF IInv
    <3>3. fileOnDisk'[g] = file'[g]
      BY <1>3
    <3> QED BY <2>1, <3>1, <3>2, <3>3, KeptWhole DEF IInv
  <2> QED BY <1>5, <1>6, <2>2, NoFlush DEF SafeInv
<1>7. CASE safe' = safe /\ req' = req
  <2>1. req'.op = "sync_blocks"
    BY <1>1, <1>7
  <2>2. \A g \in Files : /\ req' # [op |-> "flush", f |-> g]
                         /\ req' # [op |-> "flush_indirect", f |-> g]
    BY <2>1
  <2>3. FlushOK'
    BY <1>3, <2>2 DEF FlushOK
  <2> QED BY <1>5, <1>7, <2>3 DEF SafeInv
<1> QED BY <1>2, <1>6, <1>7

LEMMA CrashSafe ==
    ASSUME Inv, Inv', SafeInv, Crash
    PROVE  SafeInv'
<1>1. /\ file' = fileOnDisk /\ cache' = disk /\ req' = Idle /\ safe' = Files
      /\ fileOnDisk' = fileOnDisk /\ disk' = disk /\ Shapes'
  BY DEF Crash, diskVars, Inv, TypeOK
<1>2. \A g \in Files : Kept(g)'
  BY <1>1, KeptWhole
<1>3. \A g \in Files : file'[g].f_size <= MaxSize[g]
  BY <1>1 DEF SafeInv, Inv, SizeOnDisk
<1> QED BY <1>1, <1>2, <1>3, NoFlush DEF SafeInv

LEMMA InitSafe == Init => SafeInv
<1> SUFFICES ASSUME Init PROVE SafeInv
  OBVIOUS
<1>1. file = [f \in Files |-> NewFile] /\ fileOnDisk = file /\ disk = cache /\ req = Idle /\ safe = Files
  BY DEF Init
<1>2. \A g \in safe : Kept(g)
  BY <1>1 DEF Kept, D, P
<1>3. FlushOK
  <2>1. /\ [op |-> "sync_blocks"] \in Request
        /\ \A f \in Files : /\ [op |-> "flush", f |-> f] \in Request
                            /\ [op |-> "flush_indirect", f |-> f] \in Request
    BY DEF Request
  <2> QED BY <1>1, <2>1, IdleIsNoRequest DEF FlushOK
<1>4. \A g \in Files : file[g].f_size = 0 /\ MaxSize[g] \in Nat
  BY <1>1, FileSystemAssumption DEF NewFile
<1> QED BY <1>2, <1>3, <1>4 DEF SafeInv

LEMMA ServeSafe ==
    ASSUME IInv, SafeInv, Serve
    PROVE  SafeInv'
<1>0. IInv'
  BY ServeStep
<1>1. CASE \E f \in Files : \E n \in 0 .. MaxSize[f] : serve_set_size(f, n)
  BY <1>0, <1>1, SetSizeSafe
<1>2. CASE \E f \in Files : Access(f)
  <2>1. PICK f \in Files : Access(f)
    BY <1>2
  <2>2. PICK op \in {"read", "write"}, i \in 0 .. MaxSize[f] - 1 :
            Fail(op, f, i) \/ GetOld(op, f, i) \/ file_block_walk(op, f, i) \/ file_get_block(op, f, i)
    BY <2>1 DEF Access
  <2> QED BY <1>0, <2>2, FailSafe, GetOldSafe, WalkSafe, GetNewSafe
<1>3. CASE \E f \in Files : serve_flush(f)
  BY <1>0, <1>3, FlushSafe
<1>4. CASE FlushMeta
  BY <1>0, <1>4, FlushMetaSafe
<1>5. CASE FlushIndirect
  BY <1>0, <1>5, FlushIndirectSafe
<1>6. CASE serve_sync
  BY <1>0, <1>6, SyncSafe
<1>7. CASE SyncFiles
  BY <1>0, <1>7, SyncFilesSafe
<1>8. CASE SyncBlocks
  BY <1>0, <1>8, SyncBlocksSafe
<1> QED BY <1>1, <1>2, <1>3, <1>4, <1>5, <1>6, <1>7, <1>8 DEF Serve

LEMMA NextSafe == Inv /\ SafeInv /\ [Next]_vars => SafeInv'
<1> SUFFICES ASSUME Inv, SafeInv, [Next]_vars PROVE SafeInv'
  OBVIOUS
<1>1. CASE ~damaged /\ Serve /\ UNCHANGED damaged
  BY <1>1, ServeSafe DEF Inv
<1>2. CASE Crash
  BY <1>2, CrashStep, CrashSafe
<1>3. CASE UNCHANGED vars
  <2>1. /\ free' = free /\ file' = file /\ cache' = cache /\ freeOnDisk' = freeOnDisk
        /\ fileOnDisk' = fileOnDisk /\ disk' = disk /\ req' = req /\ safe' = safe
    BY <1>3 DEF vars, diskVars
  <2> QED BY <2>1 DEF SafeInv, Kept, FlushOK, DataFlushed, D, P
<1> QED BY <1>1, <1>2, <1>3 DEF Next

\* Files that need no indirect block: every loss of power, between any two disk
\* writes of fs/fs.c and fs/bc.c, leaves a disk that is whole.
THEOREM SmallFilesNeverDamaged ==
    ASSUME \A f \in Files : MaxSize[f] <= NDIRECT
    PROVE  Spec => [](~damaged)
<1>1. Inv /\ SafeInv /\ ~damaged /\ [Next]_vars => ~damaged'
  <2> SUFFICES ASSUME Inv, SafeInv, ~damaged, [Next]_vars PROVE ~damaged'
    OBVIOUS
  <2>1. CASE Crash
    <3>1. IInv /\ Shapes
      BY DEF Inv, IInv
    <3>2. ASSUME NEW f \in Files, fileOnDisk[f].f_indirect # Null PROVE FALSE
      <4>1. D(f, -1) # Null
        BY <3>2 DEF D, Pointer
      <4>2. P(f, -1) # Null
        BY <3>1, <4>1, Sizes DEF IInv, PointersBehind
      <4>3. file[f].f_size > NDIRECT
        BY <3>1, <4>2, Sizes, ConsistentIs DEF IInv, Within
      <4>4. file[f].f_size <= MaxSize[f] /\ MaxSize[f] <= NDIRECT /\ file[f].f_size \in Nat
            /\ MaxSize[f] \in Nat
        BY <3>1, FileSystemAssumption DEF SafeInv, Shapes, File
      <4> QED BY <4>3, <4>4, Sizes
    <3>3. TablesFlushed
      BY <3>2 DEF TablesFlushed
    <3>4. Whole(fileOnDisk, disk, freeOnDisk)
      BY <3>1, <3>3, DiskIsBehind
    <3> QED BY <2>1, <3>4, Zenon DEF Crash
  <2>2. CASE ~damaged /\ Serve /\ UNCHANGED damaged
    BY <2>2
  <2>3. CASE UNCHANGED vars
    BY <2>3 DEF vars
  <2> QED BY <2>1, <2>2, <2>3 DEF Next
<1>2. Init => Inv /\ SafeInv /\ ~damaged
  BY InitInv, InitSafe DEF Init
<1> QED BY <1>1, <1>2, NextInv, NextSafe, PTL DEF Spec

-----------------------------------------------------------------------------
(* The refinement: every step is a step of FileStore or changes nothing    *)
(* there.                                                                  *)

Holds == [f \in Files |-> View(file, cache, f)]

\* The data of a block is a file's or nobody's.
LEMMA DataIs ==
    ASSUME Shapes, NEW b \in Blocks
    PROVE  cache[b].data \in Files \cup {NoData} /\ disk[b].data \in Files \cup {NoData}
<1>1. cache[b] \in Block /\ disk[b] \in Block
  BY DEF Shapes
<1> QED BY <1>1 DEF Block

\* How holds changes when the contents of one file do.
LEMMA HoldsNext ==
    ASSUME NEW f \in Files, NEW v, View(file, cache, f)' = v,
           \A g \in Files \ {f} : View(file, cache, g)' = View(file, cache, g)
    PROVE  Holds' = [Holds EXCEPT ![f] = v]
BY DEF Holds

LEMMA ViewStays ==
    ASSUME NEW g \in Files, file[g].f_size \in Nat, file'[g].f_size = file[g].f_size,
           \A k \in Nat : Content(g, k)' = Content(g, k)
    PROVE  View(file, cache, g)' = View(file, cache, g)
<1>1. View(file, cache, g) = [k \in 0 .. file[g].f_size - 1 |-> Content(g, k)]
  BY ViewIs
<1>2. View(file, cache, g)' = [k \in 0 .. file'[g].f_size - 1 |-> Content(g, k)']
  BY DEF View, Content
<1>3. \A k \in 0 .. file[g].f_size - 1 : k \in Nat
  OBVIOUS
<1> QED BY <1>1, <1>2, <1>3

\* The size of f becomes n and nothing else changes.
LEMMA ResizeIs ==
    ASSUME Shapes, CacheFits, NEW f \in Files, NEW n \in Nat,
           file'[f].f_size = n, \A g \in Files \ {f} : file'[g].f_size = file[g].f_size,
           \A g \in Files \ {f}, k \in Nat : Content(g, k)' = Content(g, k),
           \A k \in Nat : k < n => Content(f, k)' = Content(f, k),
           safe' = safe \ {f}
    PROVE  Abstract!Resize(f, n)
<1>1. file[f].f_size \in Nat /\ \A g \in Files : file[g].f_size \in Nat
  BY DEF Shapes, File
<1>2. PICK w : w = View(file, cache, f) /\ w = [k \in 0 .. file[f].f_size - 1 |-> Content(f, k)]
  BY ViewIs
<1>3. PICK v : v = [k \in 0 .. n - 1 |-> IF k \in DOMAIN w THEN w[k] ELSE Hole]
  OBVIOUS
<1>4. ASSUME NEW k \in 0 .. n - 1 PROVE Content(f, k)' = IF k \in DOMAIN w THEN w[k] ELSE Hole
  <2>1. k \in Nat /\ k < n
    OBVIOUS
  <2>2. CASE k < file[f].f_size
    BY <1>1, <1>2, <2>1, <2>2
  <2>3. CASE ~(k < file[f].f_size)
    BY <1>1, <1>2, <2>1, <2>3, ContentBehind
  <2> QED BY <2>2, <2>3
<1>5. View(file, cache, f)' = [k \in 0 .. file'[f].f_size - 1 |-> Content(f, k)']
  BY DEF View, Content
<1>6. View(file, cache, f)' = v
  BY <1>3, <1>4, <1>5
<1>7. \A g \in Files \ {f} : View(file, cache, g)' = View(file, cache, g)
  BY <1>1, ViewStays
<1>8. Holds' = [Holds EXCEPT ![f] = v]
  BY <1>6, <1>7, HoldsNext
<1>9. Holds[f] = w
  BY <1>2 DEF Holds
<1>10. Holds' = [Holds EXCEPT ![f] = [k \in 0 .. n - 1 |-> IF k \in DOMAIN @ THEN @[k] ELSE Hole]]
  BY <1>3, <1>8, <1>9
<1> QED BY <1>10 DEF Abstract!Resize, Holds

\* No contents change; f may grow.
LEMMA GrowRefines ==
    ASSUME IInv, NEW op \in {"read", "write"}, NEW f \in Files, NEW i \in 0 .. MaxSize[f] - 1,
           \A g \in Files : file'[g].f_size = Extended(op, f, i)[g].f_size,
           \A g \in Files, k \in Nat : Content(g, k)' = Content(g, k),
           safe' = IF Extends(op, f, i) THEN safe \ {f} ELSE safe
    PROVE  \/ \E n \in 0 .. MaxSize[f] : Abstract!Resize(f, n)
           \/ Holds' = Holds /\ safe' = safe
<1>1. i \in Nat /\ i + 1 \in 0 .. MaxSize[f] /\ Shapes /\ CacheFits
  BY FileSystemAssumption DEF IInv
<1>2. PICK e : e = Extended(op, f, i)
  OBVIOUS
<1>3. \A h \in Files \ {f} : e[h] = file[h]
  BY <1>1, <1>2, ExtendedIs
<1>4. e[f].f_size = IF Extends(op, f, i) THEN i + 1 ELSE file[f].f_size
  BY <1>1, <1>2, ExtendedIs
<1>5. CASE Extends(op, f, i)
  <2>1. PICK n \in 0 .. MaxSize[f] : n = i + 1 /\ n \in Nat
    BY <1>1
  <2>2. file'[f].f_size = n /\ \A g \in Files \ {f} : file'[g].f_size = file[g].f_size
    BY <1>2, <1>3, <1>4, <1>5, <2>1
  <2>3. safe' = safe \ {f}
    BY <1>5
  <2>4. Abstract!Resize(f, n)
    BY <1>1, <2>1, <2>2, <2>3, ResizeIs
  <2> QED BY <2>1, <2>4
<1>6. CASE ~Extends(op, f, i)
  <2>1. \A g \in Files : file'[g].f_size = file[g].f_size /\ file[g].f_size \in Nat
    BY <1>1, <1>2, <1>3, <1>4, <1>6 DEF Shapes, File
  <2>2. \A g \in Files : View(file, cache, g)' = View(file, cache, g)
    BY <2>1, ViewStays
  <2> QED BY <1>6, <2>2 DEF Holds
<1> QED BY <1>5, <1>6

\* Block i of f gets data of f; f may grow.
LEMMA WriteIs ==
    ASSUME IInv, NEW f \in Files, NEW i \in 0 .. MaxSize[f] - 1,
           \A g \in Files : file'[g].f_size = Extended("write", f, i)[g].f_size,
           Content(f, i)' = f,
           \A g \in Files, k \in Nat : (g # f \/ k # i) => Content(g, k)' = Content(g, k),
           safe' = safe \ {f}
    PROVE  Abstract!Write(f, i)
<1>1. i \in Nat /\ Shapes /\ CacheFits /\ \A g \in Files : file[g].f_size \in Nat
  BY FileSystemAssumption DEF IInv, Shapes, File
<1>2. PICK e : e = Extended("write", f, i)
  OBVIOUS
<1>3. \A h \in Files \ {f} : e[h] = file[h]
  BY <1>1, <1>2, ExtendedIs
<1>4. PICK m : m = e[f].f_size
  OBVIOUS
<1>5. m = IF i + 1 > file[f].f_size THEN i + 1 ELSE file[f].f_size
  BY <1>1, <1>2, <1>4, ExtendedIs DEF Extends
<1>6. file'[f].f_size = m /\ \A g \in Files \ {f} : file'[g].f_size = file[g].f_size
  BY <1>2, <1>3, <1>4
<1>7. PICK w : w = View(file, cache, f) /\ w = [k \in 0 .. file[f].f_size - 1 |-> Content(f, k)]
  BY ViewIs
<1>8. DOMAIN w \cup 0 .. i = 0 .. m - 1
  BY <1>1, <1>5, <1>7
<1>9. PICK v : v = [k \in DOMAIN w \cup 0 .. i |->
                       IF k = i THEN f ELSE IF k \in DOMAIN w THEN w[k] ELSE Hole]
  OBVIOUS
<1>10. ASSUME NEW k \in 0 .. m - 1
       PROVE  Content(f, k)' = IF k = i THEN f ELSE IF k \in DOMAIN w THEN w[k] ELSE Hole
  <2>1. k \in Nat
    OBVIOUS
  <2>2. CASE k = i
    BY <2>2
  <2>3. CASE k # i /\ k < file[f].f_size
    BY <1>1, <1>7, <2>1, <2>3
  <2>4. CASE k # i /\ ~(k < file[f].f_size)
    BY <1>1, <1>7, <2>1, <2>4, ContentBehind
  <2> QED BY <2>2, <2>3, <2>4
<1>11. View(file, cache, f)' = [k \in 0 .. file'[f].f_size - 1 |-> Content(f, k)']
  BY DEF View, Content
<1>12. View(file, cache, f)' = v
  BY <1>6, <1>8, <1>9, <1>10, <1>11
<1>13. \A g \in Files \ {f} : View(file, cache, g)' = View(file, cache, g)
  BY <1>1, <1>6, ViewStays
<1>14. Holds' = [Holds EXCEPT ![f] = v]
  BY <1>12, <1>13, HoldsNext
<1>15. Holds[f] = w
  BY <1>7 DEF Holds
<1>16. Holds' = [Holds EXCEPT ![f] = [k \in DOMAIN @ \cup 0 .. i |->
                    IF k = i THEN f ELSE IF k \in DOMAIN @ THEN @[k] ELSE Hole]]
  BY <1>9, <1>14, <1>15
<1> QED BY <1>16 DEF Abstract!Write, Holds

LEMMA FailRefines ==
    ASSUME IInv, IInv', NEW op \in {"read", "write"}, NEW f \in Files,
           NEW i \in 0 .. MaxSize[f] - 1, Fail(op, f, i)
    PROVE  \/ \E n \in 0 .. MaxSize[f] : Abstract!Resize(f, n)
           \/ Holds' = Holds /\ safe' = safe
<1>1. i \in Nat /\ Shapes /\ Shapes'
  BY FileSystemAssumption DEF IInv
<1>2. /\ file' = Extended(op, f, i) /\ cache' = cache
      /\ safe' = IF Extends(op, f, i) THEN safe \ {f} ELSE safe
  BY DEF Fail
<1>3. \A g \in Files : file'[g].f_direct = file[g].f_direct /\ file'[g].f_indirect = file[g].f_indirect
  BY <1>1, <1>2, ExtendedKeeps
<1>4. \A g \in Files, k \in All : P(g, k)' = P(g, k)
  BY <1>2, <1>3, SamePointers
<1>5. \A g \in Files, k \in Nat : Content(g, k)' = Content(g, k)
  BY <1>1, <1>2, <1>4, ContentStays, Sizes
<1> QED BY <1>2, <1>5, GrowRefines

LEMMA WalkRefines ==
    ASSUME IInv, IInv', NEW op \in {"read", "write"}, NEW f \in Files,
           NEW i \in 0 .. MaxSize[f] - 1, file_block_walk(op, f, i)
    PROVE  \/ \E n \in 0 .. MaxSize[f] : Abstract!Resize(f, n)
           \/ Abstract!Fill(f, i)
<1>1. /\ i \in Nat /\ Shapes /\ Shapes' /\ CacheFits /\ file[f].f_size \in Nat
      /\ MaxSize[f] \in Nat
  BY FileSystemAssumption DEF IInv, Shapes, File
<1>2. safe' = safe \ {f}
  BY DEF file_block_walk
<1>3. PICK b \in free :
          /\ \A g \in Files, k \in All : (g # f \/ k # -1) => P(g, k)' = P(g, k)
          /\ \A g \in Files : file'[g].f_size = Extended(op, f, i)[g].f_size
          /\ \A d \in Blocks \ {b} : cache'[d] = cache[d]
  BY <1>1, WalkIs
<1>4. ASSUME NEW g \in Files, NEW k \in Nat PROVE Content(g, k)' = Content(g, k)
  <2>1. k \in Indices => P(g, k)' = P(g, k)
    BY <1>3, Sizes
  <2>2. k \in Indices /\ P(g, k) # Null => cache'[P(g, k)].data = cache[P(g, k)].data
    <3>1. k \in Indices /\ P(g, k) # Null => P(g, k) \in Blocks \ {b}
      BY <1>1, BlockApart
    <3> QED BY <1>3, <3>1
  <2> QED BY <1>1, <2>1, <2>2, ContentStays
<1>5. CASE Extends(op, f, i)
  <2>1. safe' = IF Extends(op, f, i) THEN safe \ {f} ELSE safe
    BY <1>2, <1>5
  <2>2. \/ \E n \in 0 .. MaxSize[f] : Abstract!Resize(f, n)
        \/ Holds' = Holds /\ safe' = safe
    BY <1>3, <1>4, <2>1, GrowRefines
  <2>3. Holds' # Holds
    <3>1. PICK e : e = Extended(op, f, i)
      OBVIOUS
    <3>2. e[f].f_size = i + 1
      BY <1>1, <1>5, <3>1, ExtendedIs
    <3>3. file'[f].f_size = i + 1 /\ i + 1 > file[f].f_size
      BY <1>3, <1>5, <3>1, <3>2 DEF Extends
    <3>4. DOMAIN Holds[f] = 0 .. file[f].f_size - 1
      BY ViewIs DEF Holds
    <3>5. DOMAIN Holds'[f] = 0 .. i
      BY <1>1, <3>3 DEF Holds, View
    <3>6. i \in 0 .. i /\ i \notin 0 .. file[f].f_size - 1
      BY <1>1, <3>3
    <3> QED BY <3>4, <3>5, <3>6
  <2> QED BY <2>2, <2>3
<1>6. CASE ~Extends(op, f, i)
  <2>1. \A g \in Files : file'[g].f_size = file[g].f_size /\ file[g].f_size \in Nat
    BY <1>1, <1>3, <1>6 DEF Extended, Shapes, File
  <2>2. Holds' = Holds
    BY <1>4, <2>1, ViewStays DEF Holds
  <2>3. i < file[f].f_size
    BY <1>1, <1>6, ReadyIsWithin DEF file_block_walk, IInv, Extended
  <2>4. Content(f, i) = Hole
    <3>1. i \in Indices => P(f, i) = Null
      <4>1. ~(i < NDIRECT) /\ i # -1 /\ file[f].f_indirect = Null
        BY <1>1, Sizes DEF file_block_walk, NeedsIndirect
      <4> QED BY <4>1 DEF P, Pointer, PtrAt
    <3> QED BY <1>1, <3>1, ContentIs
  <2>5. Holds[f] = [k \in 0 .. file[f].f_size - 1 |-> Content(f, k)] /\ DOMAIN Holds = Files
    BY ViewIs DEF Holds
  <2>6. i \in DOMAIN Holds[f] /\ Holds[f][i] = Hole
    BY <1>1, <2>3, <2>4, <2>5
  <2>7. Holds[f] = [Holds[f] EXCEPT ![i] = Hole]
    BY <2>5, <2>6
  <2>8. Holds = [g \in Files |-> Holds[g]]
    BY DEF Holds
  <2>9. Holds' = [Holds EXCEPT ![f][i] = Hole]
    BY <2>2, <2>7, <2>8
  <2>10. Hole \in Abstract!Contents \cup {Hole}
    OBVIOUS
  <2> QED BY <1>2, <2>6, <2>9, <2>10 DEF Abstract!Fill, Holds
<1> QED BY <1>5, <1>6

LEMMA GetOldRefines ==
    ASSUME IInv, IInv', NEW op \in {"read", "write"}, NEW f \in Files,
           NEW i \in 0 .. MaxSize[f] - 1, GetOld(op, f, i)
    PROVE  Abstract!Write(f, i) \/ (Holds' = Holds /\ safe' = safe)
<1>1. i \in Nat /\ Shapes /\ Shapes' /\ CacheFits
  BY FileSystemAssumption DEF IInv
<1>2. /\ file' = Extended(op, f, i)
      /\ safe' = IF op = "write" THEN safe \ {f} ELSE safe
  BY DEF GetOld, Untouched
<1>3. /\ i \in Indices /\ P(f, i) \in Blocks
      /\ cache' \in [Blocks -> Block]
      /\ cache'[P(f, i)] = Copied(op, f, P(f, i))
      /\ \A d \in Blocks \ {P(f, i)} : cache'[d] = cache[d]
      /\ \A g \in Files, k \in All : P(g, k)' = P(g, k)
  BY <1>1, GetOldIs
<1>4. P(f, i) # Null /\ Indices \subseteq All
  BY <1>3, Sizes
<1>5. CASE op = "write"
  <2>1. Content(f, i)' = f
    <3>1. P(f, i)' = P(f, i)
      BY <1>3, <1>4
    <3>2. P(f, i)' = PtrAt(file, cache, f, i)'
      BY <1>1, <1>3, PointerIs DEF P, Shapes
    <3>3. cache'[P(f, i)].data = f
      BY <1>3, <1>5 DEF Copied
    <3> QED BY <1>4, <3>1, <3>2, <3>3 DEF Content
  <2>2. ASSUME NEW g \in Files, NEW k \in Nat, g # f \/ k # i PROVE Content(g, k)' = Content(g, k)
    <3>1. k \in Indices => P(g, k)' = P(g, k)
      BY <1>3, <1>4
    <3>2. k \in Indices /\ P(g, k) # Null => P(g, k) \in Blocks \ {P(f, i)}
      BY <1>1, <1>3, <1>4, <2>2, BlockApart
    <3> QED BY <1>1, <1>3, <3>1, <3>2, ContentStays
  <2>3. \A g \in Files : file'[g].f_size = Extended("write", f, i)[g].f_size
    BY <1>2, <1>5
  <2> QED BY <1>2, <1>5, <2>1, <2>2, <2>3, WriteIs
<1>6. CASE op = "read"
  <2>1. file' = file /\ safe' = safe
    BY <1>2, <1>6 DEF Extended, Extends
  <2>2. \A d \in Blocks : cache'[d] = cache[d]
    BY <1>3, <1>6 DEF Copied
  <2>3. cache' = cache
    BY <1>1, <1>3, <2>2 DEF Shapes
  <2> QED BY <2>1, <2>3 DEF Holds
<1> QED BY <1>5, <1>6

LEMMA GetNewRefines ==
    ASSUME IInv, IInv', NEW op \in {"read", "write"}, NEW f \in Files,
           NEW i \in 0 .. MaxSize[f] - 1, file_get_block(op, f, i)
    PROVE  Abstract!Write(f, i) \/ Abstract!Fill(f, i)
<1>1. i \in Nat /\ Shapes /\ Shapes' /\ CacheFits
  BY FileSystemAssumption DEF IInv
<1>2. safe' = safe \ {f} /\ Ready(op, f, i)
  BY DEF file_get_block
<1>3. PICK b \in free :
          /\ b \in Blocks /\ i \in Indices /\ P(f, i) = Null /\ P(f, i)' = b
          /\ \A g \in Files, k \in All : (g # f \/ k # i) => P(g, k)' = P(g, k)
          /\ \A g \in Files : file'[g].f_size = Extended(op, f, i)[g].f_size
          /\ cache'[b] = Copied(op, f, b)
          /\ \A d \in Blocks \ {b} : cache'[d].data = cache[d].data
  BY <1>1, GetNewIs
<1>4. ASSUME NEW g \in Files, NEW k \in Nat, g # f \/ k # i PROVE Content(g, k)' = Content(g, k)
  <2>1. k \in Indices => P(g, k)' = P(g, k)
    BY <1>3, <1>4, Sizes
  <2>2. k \in Indices /\ P(g, k) # Null => P(g, k) \in Blocks \ {b}
    BY <1>1, BlockApart
  <2> QED BY <1>1, <1>3, <2>1, <2>2, ContentStays
<1>5. Content(f, i)' = cache'[b].data
  <2>1. P(f, i)' = PtrAt(file, cache, f, i)'
    BY <1>1, <1>3, PointerIs DEF P, Shapes
  <2>2. b # Null
    BY <1>3, Sizes
  <2> QED BY <1>3, <2>1, <2>2 DEF Content
<1>6. CASE op = "write"
  <2>1. Content(f, i)' = f
    BY <1>3, <1>5, <1>6 DEF Copied
  <2>2. \A g \in Files : file'[g].f_size = Extended("write", f, i)[g].f_size
    BY <1>3, <1>6
  <2> QED BY <1>2, <1>4, <2>1, <2>2, WriteIs
<1>7. CASE op = "read"
  <2>1. \A g \in Files : file'[g].f_size = file[g].f_size /\ file[g].f_size \in Nat
    BY <1>1, <1>3, <1>7 DEF Extended, Extends, Shapes, File
  <2>2. i < file[f].f_size
    BY <1>2, <1>7 DEF Ready, IInv, ReqOK
  <2>3. PICK c \in Files \cup {NoData} : c = cache[b].data
    BY <1>1, <1>3, DataIs
  <2>4. Content(f, i)' = c
    BY <1>3, <1>5, <1>7, <2>3 DEF Copied
  <2>5. PICK w : w = View(file, cache, f) /\ w = [k \in 0 .. file[f].f_size - 1 |-> Content(f, k)]
    BY ViewIs
  <2>6. PICK v : v = [w EXCEPT ![i] = c]
    OBVIOUS
  <2>7. View(file, cache, f)' = [k \in 0 .. file'[f].f_size - 1 |-> Content(f, k)']
    BY DEF View, Content
  <2>8. ASSUME NEW k \in 0 .. file[f].f_size - 1
        PROVE  Content(f, k)' = IF k = i THEN c ELSE Content(f, k)
    BY <1>4, <2>1, <2>4
  <2>9. View(file, cache, f)' = v
    BY <2>1, <2>5, <2>6, <2>7, <2>8
  <2>10. \A g \in Files \ {f} : View(file, cache, g)' = View(file, cache, g)
    BY <1>4, <2>1, ViewStays
  <2>11. Holds' = [Holds EXCEPT ![f] = v]
    BY <2>9, <2>10, HoldsNext
  <2>12. Holds[f] = w /\ DOMAIN Holds = Files
    BY <2>5 DEF Holds
  <2>13. Holds' = [Holds EXCEPT ![f][i] = c]
    BY <2>6, <2>11, <2>12
  <2>14. i \in DOMAIN Holds[f] /\ Holds[f][i] = Hole
    <3>1. i \in 0 .. file[f].f_size - 1
      BY <1>1, <2>1, <2>2
    <3>2. Content(f, i) = Hole
      BY <1>1, <1>3, ContentIs
    <3> QED BY <2>5, <2>12, <3>1, <3>2
  <2>15. c \in Abstract!Contents \cup {Hole}
    BY <2>3 DEF Abstract!Contents
  <2> QED BY <1>2, <2>13, <2>14, <2>15 DEF Abstract!Fill, Holds
<1> QED BY <1>6, <1>7

LEMMA SetSizeRefines ==
    ASSUME IInv, IInv', NEW f \in Files, NEW n \in 0 .. MaxSize[f], serve_set_size(f, n)
    PROVE  Abstract!Resize(f, n)
<1>1. n \in Nat /\ Shapes /\ Shapes' /\ CacheFits
  BY FileSystemAssumption DEF IInv
<1>2. safe' = safe \ {f}
  BY DEF serve_set_size, file_set_size
<1>3. CASE file[f].f_size > n
  <2>1. file_truncate_blocks(f, n)
    BY <1>3 DEF serve_set_size, file_set_size
  <2>2. /\ file'[f].f_size = n /\ \A g \in Files \ {f} : file'[g] = file[g]
        /\ \A b \in Blocks : cache'[b].data = cache[b].data
        /\ \A g \in Files, k \in All :
               P(g, k)' = IF g # f \/ Within(k, n) THEN P(g, k) ELSE Null
    BY <1>1, <1>3, <2>1, TruncateIs
  <2>3. ASSUME NEW g \in Files, NEW k \in Nat, g # f \/ k < n PROVE Content(g, k)' = Content(g, k)
    <3>1. k \in Indices => k \in All /\ k # -1
      BY Sizes
    <3>2. k \in Indices => P(g, k)' = P(g, k)
      BY <2>2, <2>3, <3>1 DEF Within
    <3>3. k \in Indices /\ P(g, k) # Null => P(g, k) \in Blocks
      BY <1>1, BlockApart
    <3> QED BY <1>1, <2>2, <3>2, <3>3, ContentStays
  <2> QED BY <1>1, <1>2, <2>2, <2>3, ResizeIs
<1>4. CASE ~(file[f].f_size > n)
  <2>1. file' = [file EXCEPT ![f].f_size = n] /\ cache' = cache
    BY <1>4 DEF serve_set_size, file_set_size
  <2>2. /\ file'[f].f_size = n /\ \A g \in Files \ {f} : file'[g] = file[g]
        /\ \A g \in Files : /\ file'[g].f_direct = file[g].f_direct
                            /\ file'[g].f_indirect = file[g].f_indirect
    BY <1>1, <2>1, GrowIs
  <2>3. \A g \in Files, k \in All : P(g, k)' = P(g, k)
    BY <2>1, <2>2, SamePointers
  <2>4. \A g \in Files, k \in Nat : Content(g, k)' = Content(g, k)
    BY <1>1, <2>1, <2>3, ContentStays, Sizes
  <2> QED BY <1>1, <1>2, <2>2, <2>4, ResizeIs
<1> QED BY <1>3, <1>4

\* What a flushed file has on disk is what it has in the cache.
LEMMA SafeOnDisk ==
    ASSUME Shapes, Shapes', SizeOnDisk, SafeInv, Crash, NEW f \in safe
    PROVE  View(file, cache, f)' = View(file, cache, f)
<1>1. f \in Files /\ Kept(f)
  BY DEF SafeInv, Shapes
<1>2. file' = fileOnDisk /\ cache' = disk
  BY DEF Crash
<1>3. \A k \in Indices : P(f, k)' = P(f, k)
  <2>1. \A k \in All : P(f, k)' = D(f, k) /\ D(f, k) = P(f, k)
    BY <1>1, <1>2 DEF P, D, Kept
  <2> QED BY <2>1, Sizes
<1>4. \A k \in Indices : P(f, k) # Null => cache'[P(f, k)].data = cache[P(f, k)].data
  BY <1>1, <1>2 DEF Kept
<1>5. \A k \in Nat : Content(f, k)' = Content(f, k)
  BY <1>1, <1>3, <1>4, ContentStays
<1>6. file'[f].f_size = file[f].f_size /\ file[f].f_size \in Nat
  BY <1>1, <1>2 DEF SizeOnDisk, Shapes, File
<1> QED BY <1>1, <1>5, <1>6, ViewStays

LEMMA CrashRefines ==
    ASSUME Inv, SafeInv, Crash
    PROVE  Abstract!Crash
<1>1. Shapes /\ Shapes' /\ safe \subseteq Files
  BY CrashStep DEF Inv, TypeOK, Shapes
<1>2. safe' = Files /\ DOMAIN Holds' = Files
  BY DEF Crash, Holds
<1>3. ASSUME NEW f \in Files
      PROVE  \E n \in 0 .. MaxSize[f] : Holds'[f] \in Abstract!Blocks(n)
  <2>1. PICK n : n = file'[f].f_size
    OBVIOUS
  <2>2. n \in 0 .. MaxSize[f]
    <3>1. file'[f].f_size = file[f].f_size
      BY DEF Crash, Inv, SizeOnDisk
    <3>2. file[f].f_size \in Nat /\ file[f].f_size <= MaxSize[f] /\ MaxSize[f] \in Nat
      BY <1>1, FileSystemAssumption DEF SafeInv, Shapes, File
    <3> QED BY <2>1, <3>1, <3>2
  <2>3. ASSUME NEW k \in 0 .. n - 1 PROVE Content(f, k)' \in Files \cup {NoData, Hole}
    <3>1. k \in Nat /\ NDIRECT \in Nat
      BY <2>2, FileSystemAssumption
    <3>2. PICK p : p = PtrAt(file, cache, f, k)'
      OBVIOUS
    <3>3. CASE p = Null
      BY <3>2, <3>3 DEF Content
    <3>4. CASE p # Null
      <4>1. k \in Indices
        BY <3>1, <3>2, <3>4, Sizes DEF PtrAt, Indices
      <4>2. P(f, k)' = p
        BY <1>1, <3>2, <4>1, PointerIs DEF P, Shapes
      <4>3. p \in Ptr
        BY <1>1, <4>1, <4>2, PointerIs, Sizes DEF P, Shapes
      <4>4. cache'[p] \in Block
        BY <1>1, <3>4, <4>3 DEF Ptr, Shapes
      <4> QED BY <3>2, <3>4, <4>4 DEF Content, Block
    <3> QED BY <3>3, <3>4
  <2>4. View(file, cache, f)' = [k \in 0 .. n - 1 |-> Content(f, k)']
    BY <2>1 DEF View, Content
  <2>5. View(file, cache, f)' \in Abstract!Blocks(n)
    BY <2>3, <2>4 DEF Abstract!Blocks, Abstract!Contents
  <2> QED BY <2>2, <2>5 DEF Holds
<1>4. ASSUME NEW f \in safe PROVE Holds'[f] = Holds[f]
  BY <1>1, SafeOnDisk DEF Holds, Inv
<1> QED BY <1>2, <1>3, <1>4 DEF Abstract!Crash, Holds

LEMMA InitRefines == Init => Abstract!Init
<1> SUFFICES ASSUME Init PROVE Abstract!Init
  OBVIOUS
<1>1. \A f \in Files : file[f].f_size = 0
  BY DEF Init, NewFile
<1>2. \A f \in Files : View(file, cache, f) = [i \in {} |-> Hole]
  BY <1>1 DEF View
<1> QED BY <1>2 DEF Abstract!Init, Init

LEMMA ServeRefines ==
    ASSUME IInv, SafeInv, Serve
    PROVE  Abstract!Next \/ (Holds' = Holds /\ safe' = safe)
<1>0. IInv' /\ \A f \in Files : MaxSize[f] \in Nat
  BY ServeStep, FileSystemAssumption
<1>1. CASE \E f \in Files : \E n \in 0 .. MaxSize[f] : serve_set_size(f, n)
  BY <1>0, <1>1, SetSizeRefines DEF Abstract!Next
<1>2. CASE \E f \in Files : Access(f)
  <2>1. PICK f \in Files : Access(f)
    BY <1>2
  <2>2. PICK op \in {"read", "write"}, i \in 0 .. MaxSize[f] - 1 :
            Fail(op, f, i) \/ GetOld(op, f, i) \/ file_block_walk(op, f, i) \/ file_get_block(op, f, i)
    BY <2>1 DEF Access
  <2>3. i \in 0 .. MaxSize[f]
    BY <1>0
  <2>4. CASE Fail(op, f, i)
    BY <1>0, <2>4, FailRefines DEF Abstract!Next
  <2>5. CASE GetOld(op, f, i)
    BY <1>0, <2>3, <2>5, GetOldRefines DEF Abstract!Next
  <2>6. CASE file_block_walk(op, f, i)
    BY <1>0, <2>3, <2>6, WalkRefines DEF Abstract!Next
  <2>7. CASE file_get_block(op, f, i)
    BY <1>0, <2>3, <2>7, GetNewRefines DEF Abstract!Next
  <2> QED BY <2>2, <2>4, <2>5, <2>6, <2>7
<1>3. CASE (\E f \in Files : serve_flush(f)) \/ FlushMeta \/ serve_sync \/ SyncFiles
  BY <1>3 DEF serve_flush, FlushMeta, serve_sync, SyncFiles, Holds
<1>4. CASE FlushIndirect
  <2>1. PICK f \in Files : f = req.f
    BY <1>4 DEF FlushIndirect, IInv, Shapes, Request
  <2>2. safe' = safe \cup {f} /\ Holds' = Holds
    BY <1>4, <2>1 DEF FlushIndirect, Holds
  <2>3. Abstract!Flush({f})
    BY <2>2 DEF Abstract!Flush, Holds
  <2> QED BY <2>3 DEF Abstract!Next
<1>5. CASE SyncBlocks
  <2>1. Holds' = Holds /\ (safe' = safe \/ safe' = safe \cup Files)
    BY <1>5 DEF SyncBlocks, Holds, IInv, Shapes
  <2>2. safe' = safe \cup Files => Abstract!Flush(Files)
    BY <2>1 DEF Abstract!Flush, Holds
  <2> QED BY <2>1, <2>2 DEF Abstract!Next
<1> QED BY <1>1, <1>2, <1>3, <1>4, <1>5 DEF Serve

LEMMA NextRefines == Inv /\ SafeInv /\ [Next]_vars => [Abstract!Next]_<<Holds, safe>>
<1> SUFFICES ASSUME Inv, SafeInv, [Next]_vars
             PROVE  Abstract!Next \/ (Holds' = Holds /\ safe' = safe)
  OBVIOUS
<1>1. CASE ~damaged /\ Serve /\ UNCHANGED damaged
  BY <1>1, ServeRefines DEF Inv
<1>2. CASE Crash
  BY <1>2, CrashRefines DEF Abstract!Next
<1>3. CASE UNCHANGED vars
  BY <1>3 DEF vars, Holds
<1> QED BY <1>1, <1>2, <1>3 DEF Next

\* serve_read(), serve_write(), serve_set_size() and O_TRUNC change the file
\* they are asked for and no other, however its blocks come and go.  After
\* file_flush() or fs_sync() and until it is changed again, a file is found as
\* it was by the server that starts after a loss of power between any two disk
\* writes; if the disk is damaged, nothing is said of the requests after that.
THEOREM Refinement == Spec => ImplementsFileStore
<1>1. Init => Inv /\ SafeInv /\ Abstract!Init
  BY InitInv, InitSafe, InitRefines
<1>2. Inv /\ SafeInv /\ [Next]_vars => Inv' /\ SafeInv'
  BY NextInv, NextSafe
<1>3. Inv /\ SafeInv /\ [Next]_vars => [Abstract!Next]_<<Holds, safe>>
  BY NextRefines
<1> QED BY <1>1, <1>2, <1>3, PTL DEF Spec, ImplementsFileStore, Abstract!Spec, Holds
=============================================================================
