----------------------------- MODULE FileSystem -----------------------------
(***************************************************************************)
(* Files on disk (lab6/jos/fs/fs.c) behind the block cache (fs/bc.c), with *)
(* the requests that fs/serv.c serves and losses of power.                 *)
(*                                                                         *)
(* The server is one environment that serves one request after the other,  *)
(* but a request is several disk writes, and power can go between any two. *)
(* What has not been written is lost: the cache has free, file and cache,  *)
(* the disk has freeOnDisk, fileOnDisk and disk.  flush_block() of a clean *)
(* block writes nothing, which is the same as writing what is there.       *)
(*                                                                         *)
(* The code does not write the indirect blocks in any order with the       *)
(* bitmap, so a loss of power can leave a disk on which they contradict    *)
(* each other.  Such a disk is damaged, and what a server does with it is  *)
(* not modelled.                                                           *)
(*                                                                         *)
(* The files exist already, their struct Files in directory blocks that    *)
(* are not among Blocks; sizes and offsets count blocks, and a request     *)
(* stays within one block.                                                 *)
(***************************************************************************)
EXTENDS Integers, FiniteSets

CONSTANTS
    Files,
    NBlocks,     \* allocatable blocks, numbered 1 .. NBlocks
    NDIRECT, NINDIRECT,
    near,        \* near[f]: the files whose struct File is in the block of f's
    MaxSize,     \* bound: MaxSize[f] is the largest size clients ask for
    Hole,        \* no block: contents of a part of a file never written
    NoData,      \* contents of a block of zeros
    Idle         \* no request is being served

ASSUME FileSystemAssumption ==
    /\ NBlocks \in Nat
    /\ NDIRECT \in Nat
    /\ NINDIRECT \in Nat
    /\ near \in [Files -> SUBSET Files]
    /\ \A f \in Files : f \in near[f]
    /\ MaxSize \in [Files -> Nat]

VARIABLES
    free,        \* blocks whose bit is set in the cached bitmap
    file,        \* file[f]: the cached struct File
    cache,       \* cache[b]: the contents of block b as the server sees them
    freeOnDisk, fileOnDisk, disk,
    req,         \* the request being served
    safe,        \* files flushed and not changed since
    damaged      \* the server started from a disk that contradicts itself

diskVars == <<freeOnDisk, fileOnDisk, disk>>
vars == <<free, file, cache, diskVars, req, safe, damaged>>

Blocks == 1 .. NBlocks
Null == 0
Ptr == {Null} \cup Blocks

\* struct File, its f_size in blocks.
File ==
    [f_size : Nat,
     f_direct : [0 .. NDIRECT - 1 -> Ptr],
     f_indirect : Ptr]

\* A block has the data of the file that wrote to it last, or entries if it is
\* an indirect block.
Block == [data : Files \cup {NoData}, entry : [0 .. NINDIRECT - 1 -> Ptr]]

NoEntries == [j \in 0 .. NINDIRECT - 1 |-> Null]
Zeros == [data |-> NoData, entry |-> NoEntries]

Request ==
    [op : {"read", "write"}, f : Files, bno : Nat]
        \cup [op : {"flush", "flush_indirect"}, f : Files]
        \cup [op : {"sync", "sync_files", "sync_blocks"}]

ASSUME IdleIsNoRequest == Idle \notin Request

-----------------------------------------------------------------------------
(* Reading the structures, those of the cache or those of the disk.        *)

\* file_block_walk() without alloc: the pointer to block i of f.
PtrAt(fl, bl, f, i) ==
    IF i < NDIRECT THEN fl[f].f_direct[i]
    ELSE IF i < NDIRECT + NINDIRECT /\ fl[f].f_indirect # Null
         THEN bl[fl[f].f_indirect].entry[i - NDIRECT]
         ELSE Null

Indices == 0 .. NDIRECT + NINDIRECT - 1

DataBlocks(fl, bl, f, from, to) ==
    {PtrAt(fl, bl, f, i) : i \in {k \in Indices : from <= k /\ k < to}} \ {Null}

View(fl, bl, f) ==
    [i \in 0 .. fl[f].f_size - 1 |->
        IF PtrAt(fl, bl, f, i) = Null THEN Hole ELSE bl[PtrAt(fl, bl, f, i)].data]

\* flush_block(f): the block that has the struct File of f goes to disk.
FlushFile(f) ==
    fileOnDisk' = [g \in Files |-> IF g \in near[f] THEN file'[g] ELSE fileOnDisk[g]]

FlushBlocks(B) == disk' = [b \in Blocks |-> IF b \in B THEN cache[b] ELSE disk[b]]

FirstFree(b) == b \in free /\ \A c \in free : b <= c

\* Mutant: the bitmap stays in the cache.
AllocNoFlush(b) ==
    /\ FirstFree(b)
    /\ free' = free \ {b}
    /\ UNCHANGED freeOnDisk

\* alloc_block(): the first free block, and the bitmap goes to disk at once.
alloc_block(b) ==
    /\ FirstFree(b)
    /\ free' = free \ {b}
    /\ freeOnDisk' = free'

-----------------------------------------------------------------------------
(* file_set_size() and file_truncate_blocks().                             *)

\* Mutant: the indirect pointer is freed even if it is null.
DroppedZero(f, n) ==
    DataBlocks(file, cache, f, n, file[f].f_size) \cup {file[f].f_indirect}

\* The blocks that a file of n blocks does not need.
Dropped(f, n) ==
    DataBlocks(file, cache, f, n, file[f].f_size)
        \cup (IF n <= NDIRECT THEN {file[f].f_indirect} \ {Null} ELSE {})

\* The pointers s, of which the first is number first, without n .. old - 1.
Cut(s, first, n, old) ==
    [i \in DOMAIN s |-> IF n <= first + i /\ first + i < old THEN Null ELSE s[i]]

\* Mutant: the freed indirect block stays in the struct File.
TruncateKeepIndirect(f, n) ==
    LET x == file[f].f_indirect IN
    /\ free' = free \cup Dropped(f, n)
    /\ file' = [file EXCEPT ![f] =
                   [f_size |-> n,
                    f_direct |-> Cut(@.f_direct, 0, n, @.f_size),
                    f_indirect |-> x]]
    /\ cache' = IF x = Null THEN cache
                ELSE [cache EXCEPT ![x].entry = Cut(@, NDIRECT, n, file[f].f_size)]

file_truncate_blocks(f, n) ==
    LET x == file[f].f_indirect IN
    /\ free' = free \cup Dropped(f, n)
    /\ file' = [file EXCEPT ![f] =
                   [f_size |-> n,
                    f_direct |-> Cut(@.f_direct, 0, n, @.f_size),
                    f_indirect |-> IF n <= NDIRECT THEN Null ELSE x]]
    /\ cache' = IF x = Null THEN cache
                ELSE [cache EXCEPT ![x].entry = Cut(@, NDIRECT, n, file[f].f_size)]

file_set_size(f, n) ==
    /\ IF file[f].f_size > n
       THEN file_truncate_blocks(f, n)
       ELSE file' = [file EXCEPT ![f].f_size = n] /\ UNCHANGED <<free, cache>>
    /\ FlushFile(f)
    /\ safe' = safe \ {f}
    /\ UNCHANGED <<freeOnDisk, disk>>

-----------------------------------------------------------------------------
(* Requests.                                                               *)

\* FSREQ_SET_SIZE, and an open with O_TRUNC.
serve_set_size(f, n) ==
    /\ req = Idle
    /\ file_set_size(f, n)
    /\ UNCHANGED req

\* file_read() and file_write() of block i of f, op being "read" or "write".
\* file_read() behind the end of the file is over at once.
Ready(op, f, i) ==
    \/ req = Idle /\ (op = "read" => i < file[f].f_size)
    \/ req = [op |-> op, f |-> f, bno |-> i]

\* "Extend file if necessary": file_set_size() to a larger size.
Extends(op, f, i) == op = "write" /\ i + 1 > file[f].f_size

Extended(op, f, i) ==
    IF Extends(op, f, i) THEN [file EXCEPT ![f].f_size = i + 1] ELSE file

FlushExtended(op, f, i) ==
    fileOnDisk' = [g \in Files |->
        IF Extends(op, f, i) /\ g \in near[f] THEN Extended(op, f, i)[g]
        ELSE fileOnDisk[g]]

InRange(i) == i < NDIRECT + NINDIRECT
NeedsIndirect(f, i) == i >= NDIRECT /\ file[f].f_indirect = Null
Target(f, i) == PtrAt(file, cache, f, i)

Untouched(op, f) == IF op = "write" THEN safe \ {f} ELSE safe

\* The contents of block b after the copy; file_get_block() has not cleared it.
Copied(op, f, b) ==
    IF op = "write" THEN [data |-> f, entry |-> NoEntries] ELSE cache[b]

\* -E_INVAL or -E_NO_DISK: the request ends where it is.
Fail(op, f, i) ==
    /\ Ready(op, f, i)
    /\ \/ ~InRange(i)
       \/ free = {} /\ Target(f, i) = Null
    /\ file' = Extended(op, f, i)
    /\ FlushExtended(op, f, i)
    /\ safe' = IF Extends(op, f, i) THEN safe \ {f} ELSE safe
    /\ req' = Idle
    /\ UNCHANGED <<free, cache, freeOnDisk, disk>>

\* file_get_block() finds the block.
GetOld(op, f, i) ==
    /\ Ready(op, f, i)
    /\ InRange(i) /\ Target(f, i) # Null
    /\ cache' = [cache EXCEPT ![Target(f, i)] = Copied(op, f, Target(f, i))]
    /\ file' = Extended(op, f, i)
    /\ FlushExtended(op, f, i)
    /\ safe' = Untouched(op, f)
    /\ req' = Idle
    /\ UNCHANGED <<free, freeOnDisk, disk>>

\* file_block_walk() allocates the indirect block and clears it.
file_block_walk(op, f, i) ==
    /\ Ready(op, f, i)
    /\ InRange(i) /\ NeedsIndirect(f, i)
    /\ \E b \in Blocks :
          /\ alloc_block(b)
          /\ file' = [Extended(op, f, i) EXCEPT ![f].f_indirect = b]
          /\ cache' = [cache EXCEPT ![b] = Zeros]
    /\ FlushExtended(op, f, i)
    /\ safe' = safe \ {f}
    /\ req' = [op |-> op, f |-> f, bno |-> i]
    /\ UNCHANGED <<disk>>

\* file_get_block() allocates the block.
file_get_block(op, f, i) ==
    /\ Ready(op, f, i)
    /\ InRange(i) /\ ~NeedsIndirect(f, i)
    /\ Target(f, i) = Null
    /\ \E b \in Blocks :
          /\ alloc_block(b)
          /\ IF i < NDIRECT
             THEN /\ file' = [Extended(op, f, i) EXCEPT ![f].f_direct[i] = b]
                  /\ cache' = [cache EXCEPT ![b] = Copied(op, f, b)]
             ELSE /\ file' = Extended(op, f, i)
                  /\ cache' = [cache EXCEPT
                                  ![file[f].f_indirect].entry[i - NDIRECT] = b,
                                  ![b] = Copied(op, f, b)]
    /\ FlushExtended(op, f, i)
    /\ safe' = safe \ {f}
    /\ req' = Idle
    /\ UNCHANGED <<disk>>

\* Mutant: the last block is forgotten.
FlushAllButLast(f) ==
    /\ req = Idle
    /\ FlushBlocks(DataBlocks(file, cache, f, 0, file[f].f_size - 1))
    /\ req' = [op |-> "flush", f |-> f]
    /\ UNCHANGED <<free, file, cache, freeOnDisk, fileOnDisk, safe>>

\* file_flush(): first the data blocks.  Power may spare some of them only, but
\* no pointers are in them, and f counts as flushed at the end.
serve_flush(f) ==
    /\ req = Idle
    /\ FlushBlocks(DataBlocks(file, cache, f, 0, file[f].f_size))
    /\ req' = [op |-> "flush", f |-> f]
    /\ UNCHANGED <<free, file, cache, freeOnDisk, fileOnDisk, safe>>

\* Then the struct File ...
FlushMeta ==
    /\ req # Idle /\ req.op = "flush"
    /\ UNCHANGED <<free, file, cache, freeOnDisk, disk, safe>>
    /\ FlushFile(req.f)
    /\ req' = [op |-> "flush_indirect", f |-> req.f]

\* ... and the indirect block.
FlushIndirect ==
    /\ req # Idle /\ req.op = "flush_indirect"
    /\ FlushBlocks({file[req.f].f_indirect} \ {Null})
    /\ safe' = safe \cup {req.f}
    /\ req' = Idle
    /\ UNCHANGED <<free, file, cache, freeOnDisk, fileOnDisk>>

\* fs_sync() by rising block number: the bitmap, ...
serve_sync ==
    /\ req = Idle
    /\ freeOnDisk' = free
    /\ req' = [op |-> "sync_files"]
    /\ UNCHANGED <<free, file, cache, fileOnDisk, disk, safe>>

\* ... the directory blocks, which are as old as the files, ...
SyncFiles ==
    /\ req # Idle /\ req.op = "sync_files"
    /\ fileOnDisk' = file
    /\ req' = [op |-> "sync_blocks"]
    /\ UNCHANGED <<free, file, cache, freeOnDisk, disk, safe>>

\* ... and the blocks allocated since, the first n of them so far.
SyncBlocks ==
    /\ req # Idle /\ req.op = "sync_blocks"
    /\ \E n \in 0 .. NBlocks :
          /\ FlushBlocks(1 .. n)
          /\ IF n = NBlocks THEN safe' = Files /\ req' = Idle
             ELSE UNCHANGED <<safe, req>>
    /\ UNCHANGED <<free, file, cache, freeOnDisk, fileOnDisk>>

-----------------------------------------------------------------------------
(* What must fit together.                                                 *)

\* Every pointer of f, the one to the indirect block as number -1.
Pointer(fl, bl, f, k) == IF k = -1 THEN fl[f].f_indirect ELSE PtrAt(fl, bl, f, k)

InFile == {-1} \cup 0 .. NDIRECT - 1   \* the pointers in a struct File
All == {-1} \cup Indices

\* Of the pointers K no two have the same block, none has a free block, and
\* none is behind the end of its file.
Consistent(fl, bl, fr, K) ==
    \A f \in Files, k \in K :
        LET b == Pointer(fl, bl, f, k) IN
        b # Null =>
            /\ b \notin fr
            /\ \A g \in Files, l \in K : Pointer(fl, bl, g, l) = b => f = g /\ k = l
            /\ IF k = -1 THEN fl[f].f_size > NDIRECT ELSE k < fl[f].f_size

\* The indirect blocks have pointers and no data.
HasTables(fl, bl) ==
    \A f \in Files : fl[f].f_indirect # Null => bl[fl[f].f_indirect].data = NoData

Whole(fl, bl, fr) == Consistent(fl, bl, fr, All) /\ HasTables(fl, bl)

-----------------------------------------------------------------------------
(* Power.                                                                  *)

\* Power goes, at any time, and fs_init() starts from what is on disk.
Crash ==
    /\ free' = freeOnDisk
    /\ file' = fileOnDisk
    /\ cache' = disk
    /\ req' = Idle
    /\ safe' = Files
    /\ damaged' = ~Whole(fileOnDisk, disk, freeOnDisk)
    /\ UNCHANGED <<diskVars>>

-----------------------------------------------------------------------------

NewFile ==
    [f_size |-> 0, f_direct |-> [i \in 0 .. NDIRECT - 1 |-> Null], f_indirect |-> Null]

\* A new disk.
Init ==
    /\ free = Blocks
    /\ file = [f \in Files |-> NewFile]
    /\ cache = [b \in Blocks |-> Zeros]
    /\ freeOnDisk = free
    /\ fileOnDisk = file
    /\ disk = cache
    /\ req = Idle
    /\ safe = Files
    /\ damaged = FALSE

Access(f) ==
    \E op \in {"read", "write"}, i \in 0 .. MaxSize[f] - 1 :
        \/ Fail(op, f, i)
        \/ GetOld(op, f, i)
        \/ file_block_walk(op, f, i)
        \/ file_get_block(op, f, i)

Serve ==
    \/ \E f \in Files :
          \/ \E n \in 0 .. MaxSize[f] : serve_set_size(f, n)
          \/ Access(f)
          \/ serve_flush(f)
    \/ FlushMeta \/ FlushIndirect
    \/ serve_sync \/ SyncFiles \/ SyncBlocks

\* From a damaged disk diskaddr() and bc_pgfault() panic, or take the data of
\* one file for the block of another: nothing is said of the requests.
Next ==
    \/ ~damaged /\ Serve /\ UNCHANGED damaged
    \/ Crash

Spec == Init /\ [][Next]_vars

-----------------------------------------------------------------------------
(* Properties.                                                             *)

Shapes ==
    /\ free \subseteq Blocks /\ freeOnDisk \subseteq Blocks
    /\ file \in [Files -> File] /\ fileOnDisk \in [Files -> File]
    /\ cache \in [Blocks -> Block] /\ disk \in [Blocks -> Block]
    /\ req \in Request \cup {Idle}
    /\ safe \subseteq Files

TypeOK == Shapes /\ damaged \in BOOLEAN

\* However requests fail and wherever the server started from, unless the disk
\* was damaged then: a block never belongs to two files, bc_pgfault() never
\* meets a free block, and no data is taken for pointers.
CacheConsistent == ~damaged => Whole(file, cache, free)

\* Every indirect block that the disk refers to is on disk as it is in the
\* cache.  The code never waits for this.
TablesFlushed ==
    \A f \in Files :
        LET x == fileOnDisk[f].f_indirect IN
        x # Null => /\ fileOnDisk[f] = file[f]
                    /\ disk[x] = cache[x]

\* Whenever power goes, the bitmap and the struct Files on disk fit together.
\* The indirect blocks fit too, and the disk is not damaged, if they are as in
\* the cache; NothingShared says what can happen else.
DiskConsistent ==
    /\ Consistent(fileOnDisk, disk, freeOnDisk, InFile)
    /\ ~damaged /\ TablesFlushed => Whole(fileOnDisk, disk, freeOnDisk)

\* No restart finds a block in two files.  It can: file_free_block() clears an
\* entry of an indirect block in the cache only, and the bitmap gives the data
\* block away.
NothingShared ==
    \A f, g \in Files : f # g =>
        DataBlocks(file, cache, f, 0, file[f].f_size)
            \cap DataBlocks(file, cache, g, 0, file[g].f_size) = {}

\* Files do not affect one another, and a server that starts after a loss of
\* power finds the flushed files as they were; from a damaged disk it finds
\* them too, but may then give their blocks away.
Abstract == INSTANCE FileStore WITH holds <- [f \in Files |-> View(file, cache, f)]
ImplementsFileStore == Abstract!Spec

\* file_read() is "meant to mimic the standard pread function": a part of a
\* file that was never written reads as zeros, so a block of f has no data
\* but f's.
HolesAreZeros ==
    \A f \in Files : \A i \in 0 .. file[f].f_size - 1 :
        View(file, cache, f)[i] \in {Hole, NoData, f}
=============================================================================
