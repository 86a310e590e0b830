--------------------------------- MODULE Heap ---------------------------------
(***************************************************************************)
(* The memory pool of the client (client/tlsf.cpp): players, scripts, user *)
(* interface objects and files read from archives live in it.              *)
(*                                                                         *)
(* Sizes and addresses count words of ALIGN_SIZE bytes.  Of memory only    *)
(* the headers of the blocks are kept; the free lists are sequences, the   *)
(* bitmaps sets of indices.  Nothing locks the pool: tlsf_new is two steps *)
(* (the block is found; it is taken), a thread of the client may be        *)
(* between them while another one uses the pool.                           *)
(***************************************************************************)
EXTENDS Integers, Sequences, SequencesExt, FiniteSetsExt, Functions

CONSTANTS
    SlLog2,   \* SL_INDEX_COUNT_LOG2
    FlCount,  \* FL_INDEX_COUNT
    Base,     \* address of the first block
    Total,    \* pool_bytes of tlsf_create
    Requests, \* sizes that are asked for
    Aligns,   \* alignments tlsf_memalign is asked for
    Allocators   \* threads that use the pool

Overhead == 1    \* block_header_overhead
StartOffset == 2 \* block_start_offset
Header == 4      \* sizeof(block_header_t)
SizeMin == 3     \* block_size_min
Pow2[k \in Nat] == IF k = 0 THEN 1 ELSE 2 * Pow2[k - 1]
SlCount == Pow2[SlLog2]
SizeMax == Pow2[FlCount + SlLog2 - 1]    \* block_size_max

VARIABLES
    pool,    \* headers, free lists and bitmaps, see HeapInit
    pending, \* [thread |-> the block tlsf_new has found and not yet taken]
    held     \* what the callers hold: [pointer |-> its size and alignment]

heapVars == <<pool, pending, held>>

None == -1
\* A prev_phys_block that lies in the data of the block before it.
Data == -2
Idle == [found |-> None, size |-> 0]

-----------------------------------------------------------------------------
\* Blocks.  p is a pool, b the address of a block in it.
PutAt(f, x, v) == [y \in DOMAIN f \cup {x} |-> IF y = x THEN v ELSE f[y]]

SizeOf(p, b) == p.hdr[b].size
NextOf(p, b) == b + Overhead + SizeOf(p, b)
ToPtr(b) == b + StartOffset
FromPtr(ptr) == ptr - StartOffset

\* For a power of two what the mask of align_up does.
AlignUp(n, align) == ((n + align - 1) \div align) * align
AdjustRequest(n, align) ==
    IF n = 0 \/ n >= SizeMax THEN 0 ELSE Max({AlignUp(n, align), SizeMin})
\* What tlsf_memalign looks for: room for the gap as well.
WithGap(n, align) == AdjustRequest(AdjustRequest(n, 1) + align + Header, align)

\* tlsf_create accepts a pool of block_size_max, and mapping_search rounds up
\* what is less than it: either may lead past the last list.  The pool of the
\* client has half of block_size_max, and nobody asks for that much.
Searched == 0..(SizeMax - Pow2[FlCount - 2])
ASSUME HeapAssumption ==
    /\ SlLog2 \in Nat /\ FlCount \in Nat /\ FlCount >= 2 /\ Base \in Nat
    /\ Total \in Nat /\ SizeMin <= Total /\ Total < SizeMax
    /\ Requests \subseteq Nat /\ Aligns \subseteq Nat \ {0, 1}
    /\ \A n \in Requests :
          /\ AdjustRequest(n, 1) \in Searched
          /\ \A align \in Aligns : WithGap(n, align) \in Searched

LinkNext(p, b) == [p EXCEPT !.hdr[NextOf(p, b)].prev = b]
MarkFree(p, b) ==
    [LinkNext(p, b) EXCEPT !.hdr[NextOf(p, b)].prevFree = TRUE, !.hdr[b].free = TRUE]
MarkUsed(p, b) ==
    [p EXCEPT !.hdr[NextOf(p, b)].prevFree = FALSE, !.hdr[NextOf(p, b)].prev = Data,
              !.hdr[b].free = FALSE]

\* The list of blocks of a size, <<first level, second level>>.
Fls(n) == CHOOSE k \in 0..(FlCount + SlLog2) : Pow2[k] <= n /\ n < Pow2[k + 1]
MappingInsert(n) ==
    IF n < SlCount THEN <<0, n>>
    ELSE <<Fls(n) - SlLog2 + 1, (n \div Pow2[Fls(n) - SlLog2]) - SlCount>>

MappingSearch(n) ==
    MappingInsert(IF n < SlCount THEN n ELSE n + Pow2[Fls(n) - SlLog2] - 1)

\* search_suitable_block, None when memory is exhausted.
Suitable(p, class) ==
    LET first(fl, sls) == Head(p.list[<<fl, Min(sls)>>])
        here == {sl \in p.sl[class[1]] : sl >= class[2]}
        above == {fl \in p.fl : fl > class[1]}
    IN  IF here # {} THEN first(class[1], here)
        ELSE IF above = {} THEN None ELSE first(Min(above), p.sl[Min(above)])

RemoveFree(p, b, class) ==
    LET rest == RemoveFirst(p.list[class], b)
        sls == IF rest = <<>> THEN p.sl[class[1]] \ {class[2]} ELSE p.sl[class[1]]
    IN  [p EXCEPT !.list[class] = rest, !.sl[class[1]] = sls,
                  !.fl = IF sls = {} THEN @ \ {class[1]} ELSE @]

InsertFree(p, b, class) ==
    [p EXCEPT !.list[class] = <<b>> \o @, !.fl = @ \cup {class[1]},
              !.sl[class[1]] = @ \cup {class[2]}]

BlockRemove(p, b) == RemoveFree(p, b, MappingInsert(SizeOf(p, b)))
BlockInsert(p, b) == InsertFree(p, b, MappingInsert(SizeOf(p, b)))

CanSplit(p, b, n) == SizeOf(p, b) >= Header + n
RestOf(b, n) == b + Overhead + n

\* b keeps n words, the rest becomes a free block; whether the block before
\* the rest is free has yet to be set.
Split(p, b, n, prevFree) ==
    LET cut == [p.hdr EXCEPT ![b].size = n]
        rest == [size |-> SizeOf(p, b) - n - Overhead, free |-> TRUE,
                 prevFree |-> prevFree, prev |-> Data]
    IN  MarkFree([p EXCEPT !.hdr = PutAt(cut, RestOf(b, n), rest)], RestOf(b, n))

Absorb(p, b, next) ==
    LET kept == Restrict(p.hdr, DOMAIN p.hdr \ {next})
        size == SizeOf(p, b) + SizeOf(p, next) + Overhead
    IN  LinkNext([p EXCEPT !.hdr = [kept EXCEPT ![b].size = size]], b)

\* Mutant of MergePrev: the block before stays in the list of its old size.
MergePrevKept(p, b) ==
    IF p.hdr[b].prevFree THEN Absorb(p, p.hdr[b].prev, b) ELSE p

MergePrev(p, b) ==
    IF p.hdr[b].prevFree THEN Absorb(BlockRemove(p, p.hdr[b].prev), p.hdr[b].prev, b) ELSE p
Merged(p, b) == IF p.hdr[b].prevFree THEN p.hdr[b].prev ELSE b

MergeNext(p, b) ==
    LET next == NextOf(p, b)
    IN  IF p.hdr[next].free THEN Absorb(BlockRemove(p, next), b, next) ELSE p

TrimFree(p, b, n) ==
    IF CanSplit(p, b, n)
    THEN BlockInsert(LinkNext(Split(p, b, n, TRUE), b), RestOf(b, n)) ELSE p

TrimUsed(p, b, n) ==
    IF CanSplit(p, b, n)
    THEN BlockInsert(MergeNext(Split(p, b, n, FALSE), RestOf(b, n)), RestOf(b, n)) ELSE p

\* The words before the alignment become a free block of their own.
TrimFreeLeading(p, b, gap) ==
    IF CanSplit(p, b, gap) THEN BlockInsert(LinkNext(Split(p, b, gap - Overhead, TRUE), b), b)
    ELSE p
Trailing(p, b, gap) == IF CanSplit(p, b, gap) THEN RestOf(b, gap - Overhead) ELSE b

-----------------------------------------------------------------------------
LocateFree(p, n) == IF n = 0 THEN None ELSE Suitable(p, MappingSearch(n))
PrepareUsed(p, b, n) == MarkUsed(TrimFree(p, b, n), b)
Taken(p, b, n) == PrepareUsed(RemoveFree(p, b, MappingInsert(SizeOf(p, b))), b, n)

\* tlsf_malloc: a block is found and taken, when there is one.
Malloc(p, n) == Taken(p, LocateFree(p, n), n)

Freed(p, ptr) ==
    LET p1 == MarkFree(p, FromPtr(ptr))
        b == Merged(p1, FromPtr(ptr))
    IN  BlockInsert(MergeNext(MergePrev(p1, FromPtr(ptr)), b), b)

\* tlsf_create
Created ==
    LET last == Base + Overhead + Total
        whole == [size |-> Total, free |-> TRUE, prevFree |-> FALSE, prev |-> Data]
        end == [size |-> 0, free |-> FALSE, prevFree |-> TRUE, prev |-> Data]
        empty == [hdr |-> [b \in {Base, last} |-> IF b = Base THEN whole ELSE end],
                  list |-> [c \in (0..FlCount - 1) \X (0..SlCount - 1) |-> <<>>],
                  fl |-> {}, sl |-> [fl \in 0..FlCount - 1 |-> {}]]
    IN  LinkNext(BlockInsert(empty, Base), Base)

HeapInit == pool = Created /\ pending = [t \in Allocators |-> Idle] /\ held = <<>>

\* tlsf_new: with no block for it (nor ever for zero bytes) bad_alloc is
\* thrown and nothing has changed.
NewFinds(t, n) ==
    /\ pending[t] = Idle /\ LocateFree(pool, AdjustRequest(n, 1)) # None
    /\ pending' = [pending EXCEPT ![t] = [found |-> LocateFree(pool, AdjustRequest(n, 1)),
                                          size |-> n]]
    /\ UNCHANGED <<pool, held>>

Hold(ptr, n, align) == held' = PutAt(held, ptr, [size |-> n, align |-> align])

NewTakes(t) ==
    LET b == pending[t].found
    IN  /\ pending[t] # Idle
        /\ pool' = Taken(pool, b, AdjustRequest(pending[t].size, 1))
        /\ Hold(ToPtr(b), pending[t].size, 1)
        /\ pending' = [pending EXCEPT ![t] = Idle]

\* tlsf_delete of what tlsf_new has given.
Delete(t, ptr) ==
    /\ pending[t] = Idle /\ ptr \in DOMAIN held
    /\ pool' = Freed(pool, ptr)
    /\ held' = Restrict(held, DOMAIN held \ {ptr}) /\ UNCHANGED pending

\* How far from ptr tlsf_memalign begins: a gap too small for a block of its
\* own goes on to the next boundary.
Gap(ptr, align) ==
    LET gap == AlignUp(ptr, align) - ptr
    IN  IF gap = 0 \/ gap >= Header THEN gap
        ELSE AlignUp(ptr + gap + Max({Header - gap, align}), align) - ptr

\* tlsf_memalign, which nothing calls yet, of a size that adjust_request_size
\* does not make zero: else it leaves a used block of no words, which reads as
\* the end of the pool.
Memalign(t, n, align) ==
    LET adjust == AdjustRequest(n, 1)
        b == LocateFree(pool, WithGap(n, align))
        found == RemoveFree(pool, b, MappingInsert(SizeOf(pool, b)))
        gap == Gap(ToPtr(b), align)
        trimmed == IF gap = 0 THEN found ELSE TrimFreeLeading(found, b, gap)
        start == IF gap = 0 THEN b ELSE Trailing(found, b, gap)
    IN  /\ pending[t] = Idle /\ b # None /\ adjust # 0
        /\ pool' = PrepareUsed(trimmed, start, adjust)
        /\ Hold(ToPtr(start), n, align) /\ UNCHANGED pending

\* tlsf_realloc, which nothing calls yet, of a pointer; of the size as above.
Realloc(t, ptr, n) ==
    LET b == FromPtr(ptr)
        next == NextOf(pool, b)
        adjust == AdjustRequest(n, 1)
        grows == adjust > SizeOf(pool, b)
        room == /\ pool.hdr[next].free
                /\ adjust <= SizeOf(pool, b) + SizeOf(pool, next) + Overhead
        grown == IF grows THEN MarkUsed(MergeNext(pool, b), b) ELSE pool
        kept == Restrict(held, DOMAIN held \ {ptr})
        Holds(at) == held' = PutAt(kept, at, [size |-> n, align |-> 1])
    IN  /\ pending[t] = Idle /\ ptr \in DOMAIN held /\ adjust # 0
        /\ \/ (~grows \/ room) /\ pool' = TrimUsed(grown, b, adjust) /\ Holds(ptr)
           \/ /\ grows /\ ~room /\ LocateFree(pool, adjust) # None
              /\ pool' = Freed(Malloc(pool, adjust), ptr)
              /\ Holds(ToPtr(LocateFree(pool, adjust)))
        /\ UNCHANGED pending

HeapNext == \E t \in Allocators :
    \/ \E n \in Requests : NewFinds(t, n) \/ \E a \in Aligns : Memalign(t, n, a)
    \/ NewTakes(t)
    \/ \E ptr \in DOMAIN held : Delete(t, ptr) \/ \E n \in Requests : Realloc(t, ptr, n)

HeapSpec == HeapInit /\ [][HeapNext]_heapVars

-----------------------------------------------------------------------------
Blocks == DOMAIN pool.hdr
IsFree(b) == pool.hdr[b].free
Sentinel == Base + Overhead + Total

(* The blocks cover the pool from its first word to the sentinel without   *)
(* gap or overlap, each knows whether the one before it is free, where     *)
(* that one begins if it is, and two free ones are never neighbours: what  *)
(* has been freed is always whole again (block_merge_prev,                 *)
(* block_merge_next, the assertions of tlsf_check_heap).                   *)
BlocksChain ==
    /\ {Base, Sentinel} \subseteq Blocks /\ SizeOf(pool, Sentinel) = 0 /\ ~IsFree(Sentinel)
    /\ {NextOf(pool, b) : b \in Blocks \ {Sentinel}} = Blocks \ {Base}
    /\ \A b \in Blocks \ {Sentinel} :
         LET next == NextOf(pool, b)
         IN  /\ SizeOf(pool, b) >= SizeMin /\ next > b
             /\ pool.hdr[next].prevFree = IsFree(b)
             /\ IsFree(b) => pool.hdr[next].prev = b /\ ~IsFree(next)

(* Every free block stands once in the list of its size and nothing else   *)
(* does; the bitmaps name exactly the lists that are not empty.  A block   *)
(* that tlsf_new has found and not yet taken is still one of them.         *)
ListsAgree ==
    /\ \A c \in DOMAIN pool.list :
         /\ \A i, j \in DOMAIN pool.list[c] : pool.list[c][i] = pool.list[c][j] => i = j
         /\ Range(pool.list[c]) =
              {b \in Blocks : IsFree(b) /\ MappingInsert(SizeOf(pool, b)) = c}
         /\ (c[2] \in pool.sl[c[1]]) = (pool.list[c] # <<>>)
    /\ \A fl \in DOMAIN pool.sl : (fl \in pool.fl) = (pool.sl[fl] # {})

(* What a caller holds is a used block of at least the size it asked for,  *)
(* aligned as it asked, and no other block is in use.                      *)
HeldIsUsed ==
    /\ {FromPtr(ptr) : ptr \in DOMAIN held} = {b \in Blocks \ {Sentinel} : ~IsFree(b)}
    /\ \A ptr \in DOMAIN held : /\ SizeOf(pool, FromPtr(ptr)) >= held[ptr].size
                                /\ ptr % held[ptr].align = 0

(* A search gives a free block that is large enough, and fails only when   *)
(* no free block stands in a list whose every block would do.              *)
SearchFits ==
    \A n \in {m \in Requests : AdjustRequest(m, 1) # 0} :
        LET b == LocateFree(pool, AdjustRequest(n, 1))
            goal == MappingSearch(AdjustRequest(n, 1))
            Above(c) == c[1] > goal[1] \/ (c[1] = goal[1] /\ c[2] >= goal[2])
        IN  IF b = None
            THEN \A c \in Blocks : IsFree(c) => ~Above(MappingInsert(SizeOf(pool, c)))
            ELSE b \in Blocks /\ IsFree(b) /\ SizeOf(pool, b) >= n

HeapSound == BlocksChain /\ ListsAgree /\ HeldIsUsed /\ SearchFits
===============================================================================
