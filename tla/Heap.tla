-------------------------------- MODULE Heap --------------------------------
(***************************************************************************)
(* The arena allocator of runtime/src/alloc.c and the walk of gc_sweep     *)
(* over it.  An address counts units of ALIGNMENT bytes, a chunk is its    *)
(* address, and a header takes one unit.  The header of a chunk is a       *)
(* record with its payload size and its flags; headers that a merge leaves *)
(* inside a larger chunk stay readable, as in memory.  The lists of free   *)
(* chunks are sequences, from head->fd on.  allocate and release hold      *)
(* ar->mu from beginning to end, so each of them is one step.              *)
(***************************************************************************)
EXTENDS Naturals, Sequences, FiniteSets, SequencesExt, FiniteSetsExt, TLC

CONSTANTS ALIGNMENT,                    \* bytes in a unit
          MIN_PAYLOAD_SIZE, FAST_MAX,   \* 32 and 16 * FASTBINS_COUNT bytes
          SMALL_MAX, MMAP_THRESHOLD,    \* 16 * SMALLBINS_COUNT, 128 KB
          LARGE_STEP, LINEAR_BINS, LINEAR_MAX, LARGEBINS_COUNT,
          HEAP_BASE_SIZE, HEAP_LIMIT, HEAP_GROWTH,
          PAGE,                         \* units in a page
          Requests,                     \* what is asked for, in bytes
          MaxHeaps, MaxLive, MaxForgotten, \* bounds of the instance
          NULL

ASSUME HeapAssumption ==
  /\ {ALIGNMENT, MIN_PAYLOAD_SIZE, LARGE_STEP, LINEAR_BINS, PAGE, MaxHeaps, MaxLive} \subseteq Nat \ {0}
  /\ 1 < MIN_PAYLOAD_SIZE /\ MIN_PAYLOAD_SIZE <= FAST_MAX /\ FAST_MAX < SMALL_MAX
  /\ SMALL_MAX < MMAP_THRESHOLD /\ MMAP_THRESHOLD <= HEAP_BASE_SIZE
  /\ HEAP_BASE_SIZE <= HEAP_LIMIT /\ LINEAR_BINS <= LARGEBINS_COUNT
  /\ Requests \subseteq Nat \ {0}

VARIABLES ar,          \* the arena
          live,        \* the blocks the program holds, by number
          scan,        \* where gc_sweep is, or NULL
          kept,        \* history: the chunks marked when the sweep began
          unmapped     \* history: munmap has removed part of a heap

heapVars == <<ar, live, scan, kept, unmapped>>
-----------------------------------------------------------------------------
(* align16, and the smallest payload. *)
PayloadSize(bytes) ==
  Max({(bytes + ALIGNMENT - 1) \div ALIGNMENT, MIN_PAYLOAD_SIZE})

Size(a, c) == a.hdr[c].size
next_chunk(a, c) == c + 1 + Size(a, c)
prev_chunk(a, c) == c - 1 - a.hdr[c].prev

floor_log2(x) == CHOOSE k \in 0..x : 2^k <= x /\ x < 2^(k + 1)

(* Bins of LARGE_STEP each, the last one open, then one per power of two. *)
get_largebin_index(size) ==
  IF size <= LINEAR_MAX
  THEN Min({(size - SMALL_MAX) \div LARGE_STEP, LINEAR_BINS - 1})
  ELSE Min({LINEAR_BINS + floor_log2(size) - floor_log2(LINEAR_MAX), LARGEBINS_COUNT - 1})
-----------------------------------------------------------------------------
(* Lists of free chunks. *)
insert_into_fastbin(a, c) ==
  [a EXCEPT !.fast[Size(a, c)] = <<c>> \o @, !.hdr[c].cur = FALSE]

insert_into_smallbin(a, c) == [a EXCEPT !.small[Size(a, c)] = <<c>> \o @]

(* A variant that puts every chunk last. *)
InsertLargeLast(a, c) == [a EXCEPT !.large[get_largebin_index(Size(a, c))] = Append(@, c)]

(* The list by size is ascending; a chunk goes before those of its size. *)
insert_into_largebin(a, c) ==
  LET i == get_largebin_index(Size(a, c))
      smaller == Cardinality({j \in DOMAIN a.large[i] : Size(a, a.large[i][j]) < Size(a, c)})
  IN [a EXCEPT !.large[i] = InsertAt(@, smaller + 1, c)]

(* A variant that does not tell the next chunk. *)
InsertUnsortedSilent(a, c) == [a EXCEPT !.hdr[c].cur = FALSE, !.unsorted = <<c>> \o @]

insert_into_unsortedbin(a, c) ==
  LET n == next_chunk(a, c)
  IN [a EXCEPT !.hdr[c].cur = FALSE, !.hdr[n].pin = FALSE, !.hdr[n].prev = Size(a, c),
               !.unsorted = <<c>> \o @]

(* unlink_chunk_from_fdlist and unlink_chunk_from_sortedlist. *)
Unlink(a, c) ==
  [a EXCEPT !.unsorted = Remove(@, c),
            !.small = [s \in DOMAIN @ |-> Remove(@[s], c)],
            !.large = [i \in DOMAIN @ |-> Remove(@[i], c)]]
-----------------------------------------------------------------------------
HeapStart(k) == k * PAGE * ((HEAP_LIMIT + MaxHeaps * HEAP_GROWTH + 2) \div PAGE + 1)
HeapOf(c) == CHOOSE k \in 0..MaxHeaps : HeapStart(k) <= c /\ c < HeapStart(k + 1)

(* The size of the k-th heap: doubled up to the limit, then growing by a   *)
(* constant, the first time by nothing.                                    *)
NextHeapSize(k) ==
  LET expo == Cardinality({i \in 0..k : HEAP_BASE_SIZE * 2^i <= HEAP_LIMIT})
  IN IF k < expo THEN HEAP_BASE_SIZE * 2^k ELSE HEAP_LIMIT + HEAP_GROWTH * (k - expo)
HeapEnd(k) == HeapStart(k) + 1 + NextHeapSize(k)

Header(size, cur) == [size |-> size, cur |-> cur, pin |-> TRUE, mark |-> FALSE, prev |-> 0]

grow_heap(a) ==
  LET k == a.heaps
  IN [a EXCEPT !.hdr = HeapStart(k) :> Header(NextHeapSize(k), FALSE)
                       @@ HeapEnd(k) :> Header(0, TRUE) @@ @,
               !.top = HeapStart(k), !.heaps = k + 1]

(* The part of the three searches that cuts n units off a free chunk.  The *)
(* prev_size word of the rest is not written: its mark bit is whatever the *)
(* memory holds, which is zero where no block has been yet.                *)
Split(a, c, n, garbage) ==
  LET b == next_chunk(a, c)
      rest == Size(a, c) - n
      r == c + 1 + n
      rem == [Header(rest - 1, FALSE) EXCEPT !.mark = garbage /\ r < a.high[HeapOf(c)]]
  IN IF rest >= MIN_PAYLOAD_SIZE + 1
     THEN [rem |-> r,
           ar |-> [a EXCEPT !.hdr = r :> rem @@ [@ EXCEPT ![c].size = n, ![c].cur = TRUE,
                                                          ![b].prev = rest - 1, ![b].mark = FALSE]]]
     ELSE [rem |-> NULL, ar |-> [a EXCEPT !.hdr[c].cur = TRUE, !.hdr[b].pin = TRUE]]

Miss(a) == [ar |-> a, victim |-> NULL]
Take(a, c, n, garbage) ==
  LET s == Split(a, c, n, garbage)
  IN [ar |-> IF s.rem = NULL THEN s.ar ELSE insert_into_unsortedbin(s.ar, s.rem), victim |-> c]
-----------------------------------------------------------------------------
(* A variant that leaves the chunk in its bin. *)
FastbinPeek(a, n) ==
  IF a.fast[n] = <<>> THEN Miss(a)
  ELSE [ar |-> [a EXCEPT !.hdr[Head(a.fast[n])].cur = TRUE], victim |-> Head(a.fast[n])]

fastbin_search(a, n) ==
  IF a.fast[n] = <<>> THEN Miss(a)
  ELSE [ar |-> [a EXCEPT !.fast[n] = Tail(@), !.hdr[Head(a.fast[n])].cur = TRUE],
        victim |-> Head(a.fast[n])]

smallbin_search(a, n) ==
  IF a.small[n] = <<>> THEN Miss(a)
  ELSE LET c == Head(a.small[n])
       IN [ar |-> [a EXCEPT !.small[n] = Tail(@), !.hdr[c].cur = TRUE,
                            !.hdr[next_chunk(a, c)].pin = TRUE],
           victim |-> c]

(* The first chunk that fits is taken; those before it go to their bins. *)
unsortedbin_search(a, n, garbage) ==
  LET fits == {i \in DOMAIN a.unsorted : Size(a, a.unsorted[i]) >= n}
      k == Min(fits \cup {Len(a.unsorted) + 1})
      Sort(acc, c) == IF Size(acc, c) < SMALL_MAX THEN insert_into_smallbin(acc, c)
                                                  ELSE insert_into_largebin(acc, c)
      sorted == FoldLeft(Sort, [a EXCEPT !.unsorted = SubSeq(@, k + 1, Len(@))],
                         SubSeq(a.unsorted, 1, k - 1))
  IN IF fits = {} THEN Miss(sorted) ELSE Take(sorted, a.unsorted[k], n, garbage)

(* The chunks of large bin i that fit, by position. *)
Fits(a, i, n) == {j \in DOMAIN a.large[i] : Size(a, a.large[i][j]) >= n}

(* The victim of largebin_search: the first that fits, by bin and size. *)
LargeVictim(a, n) ==
  LET bins == {i \in DOMAIN a.large : i >= get_largebin_index(n) /\ Fits(a, i, n) # {}}
  IN IF n < SMALL_MAX \/ bins = {} THEN NULL
     ELSE a.large[Min(bins)][Min(Fits(a, Min(bins), n))]

largebin_search(a, n, garbage) ==
  LET c == LargeVictim(a, n)
  IN IF c = NULL THEN Miss(a) ELSE Take(Unlink(a, c), c, n, garbage)

carve_from_top_chunk(a0, n, garbage) ==
  LET a == IF a0.top = NULL THEN grow_heap(a0) ELSE a0
      s == Split(a, a.top, n, garbage)
  IN IF Size(a, a.top) < n THEN Miss(a)
     ELSE [ar |-> [s.ar EXCEPT !.top = s.rem], victim |-> a.top]

(* _allocate below the mmap threshold: the searches in the order of the    *)
(* code, and at last a new heap, the old top chunk going to the unsorted   *)
(* list.                                                                   *)
Search(a, n, garbage) ==
  LET f == IF n <= FAST_MAX THEN fastbin_search(a, n) ELSE Miss(a)
      s == IF f.victim = NULL /\ n < SMALL_MAX THEN smallbin_search(f.ar, n) ELSE f
      u == IF s.victim = NULL THEN unsortedbin_search(s.ar, n, garbage) ELSE s
      l == IF u.victim = NULL THEN largebin_search(u.ar, n, garbage) ELSE u
      t == IF l.victim = NULL THEN carve_from_top_chunk(l.ar, n, garbage) ELSE l
      old == [insert_into_unsortedbin(t.ar, t.ar.top) EXCEPT !.top = NULL]
  IN IF t.victim = NULL THEN carve_from_top_chunk(old, n, garbage) ELSE t
-----------------------------------------------------------------------------
backward_coalesce(a, c) ==
  LET p == prev_chunk(a, c)
      size == Size(a, p) + 1 + Size(a, c)
  IN IF a.hdr[c].pin \/ Size(a, p) <= 1 THEN [ar |-> a, chunk |-> c]
     ELSE [ar |-> [Unlink(a, p) EXCEPT !.hdr[p].size = size, !.hdr[next_chunk(a, c)].prev = size],
           chunk |-> p]

(* A variant that merges with the top chunk as with any other. *)
ForwardNoTop(a, c) ==
  LET n == next_chunk(a, c)
      size == Size(a, c) + 1 + Size(a, n)
      merged == [a EXCEPT !.hdr[c].size = size, !.hdr[next_chunk(a, n)].prev = size]
  IN IF a.hdr[n].cur \/ Size(a, n) <= FAST_MAX THEN [ar |-> a, chunk |-> c]
     ELSE [ar |-> Unlink(merged, n), chunk |-> c]

(* A chunk before the top chunk becomes the top chunk, with its own flags. *)
forward_coalesce(a, c) ==
  LET n == next_chunk(a, c)
      size == Size(a, c) + 1 + Size(a, n)
      merged == [a EXCEPT !.hdr[c].size = size, !.hdr[next_chunk(a, n)].prev = size]
  IN CASE a.hdr[n].cur \/ Size(a, n) <= FAST_MAX -> [ar |-> a, chunk |-> c]
       [] n = a.top ->
            [ar |-> [merged EXCEPT !.top = c, !.hdr[next_chunk(a, n)].mark = FALSE], chunk |-> NULL]
       [] OTHER -> [ar |-> Unlink(merged, n), chunk |-> c]

coalesce(a, c) == LET b == backward_coalesce(a, c) IN forward_coalesce(b.ar, b.chunk)

(* _release of a chunk below the mmap threshold. *)
ReleaseChunk(a, c) ==
  LET m == coalesce(a, c)
  IN IF Size(a, c) <= FAST_MAX THEN insert_into_fastbin(a, c)
     ELSE IF m.chunk = NULL THEN m.ar ELSE insert_into_unsortedbin(m.ar, m.chunk)

(* _release.  The size alone tells a mapped block from a chunk of a heap;  *)
(* munmap refuses an address that does not begin a page.                   *)
_release(c) ==
  IF Size(ar, c) >= MMAP_THRESHOLD THEN [ar |-> ar, hole |-> c % PAGE = 0]
                                   ELSE [ar |-> ReleaseChunk(ar, c), hole |-> FALSE]
-----------------------------------------------------------------------------
(* arena_create: empty bins, and the first heap. *)
arena_create ==
  grow_heap([hdr |-> <<>>, top |-> NULL, heaps |-> 0, unsorted |-> <<>>,
             fast |-> [s \in MIN_PAYLOAD_SIZE..FAST_MAX |-> <<>>],
             small |-> [s \in MIN_PAYLOAD_SIZE..(SMALL_MAX - 1) |-> <<>>],
             large |-> [i \in 0..(LARGEBINS_COUNT - 1) |-> <<>>],
             high |-> [k \in 0..MaxHeaps |-> 0]])

HeapInit ==
  /\ ar = arena_create
  /\ live = [i \in 1..MaxLive |-> NULL]
  /\ scan = NULL /\ kept = {} /\ unmapped = FALSE

Held == {i \in DOMAIN live : live[i] # NULL}
InHeap == {i \in Held : live[i].at # NULL}
Overlap(i, j) == live[i].at < live[j].at + live[j].len /\ live[j].at < live[i].at + live[i].len
Disjoint == \A i, j \in InHeap : i # j => ~Overlap(i, j)

(* The chunks that a walk of heap k comes to, as in find_chunk_in_heap. *)
ChunksOf(a, k) ==
  LET From[c \in Nat] == IF c >= HeapEnd(k) \/ c \notin DOMAIN a.hdr THEN {}
                         ELSE {c} \cup From[next_chunk(a, c)]
  IN From[HeapStart(k)]
Chunks(a) == UNION {ChunksOf(a, k) : k \in 0..(a.heaps - 1)}
InUse(a) == {c \in Chunks(a) : a.hdr[c].cur}

(* What can still be read of an arena between two calls: the headers that a *)
(* walk comes to and the boundaries, and prev_size where it is valid.  The *)
(* rest is forgotten, to keep the instance small.                          *)
Settled(a) ==
  LET walk == Chunks(a) \cup {HeapEnd(k) : k \in 0..(a.heaps - 1)}
  IN [a EXCEPT !.hdr = [c \in walk |-> [@[c] EXCEPT !.prev = IF a.hdr[c].pin THEN 0 ELSE @]]]

Members(bins) == UNION {ToSet(bins[x]) : x \in DOMAIN bins}
Binned(a) == ToSet(a.unsorted) \cup Members(a.small) \cup Members(a.large)
Free(a) == Binned(a) \cup Members(a.fast)

(* Mutators run while there is no collection, up to the damage to the      *)
(* arena that OnlyTheTopIsLost is about: from there on the bins hand out   *)
(* memory that the top chunk hands out as well, or that is gone.           *)
Undamaged(a) == ~unmapped /\ a.top \in (Chunks(a) \ Free(a)) \cup {NULL}
Runs == scan = NULL /\ Undamaged(ar)

(* allocate, for a request below the mmap threshold. *)
AllocateFromHeap(bytes, garbage) ==
  LET n == PayloadSize(bytes)
      r == Search(ar, n, garbage)
      end == r.victim + 1 + n
  IN /\ Runs /\ Held # DOMAIN live /\ n < MMAP_THRESHOLD
     /\ r.ar.heaps <= MaxHeaps
     /\ ar' = Settled([r.ar EXCEPT !.high[HeapOf(r.victim)] = Max({@, end})])
     /\ live' = [live EXCEPT ![Min(DOMAIN live \ Held)] = [at |-> r.victim + 1, len |-> n]]
     /\ UNCHANGED <<scan, kept, unmapped>>

(* allocate, from there on: a mapping of its own (alloc_chunk). *)
alloc_chunk(bytes) ==
  /\ Runs /\ Held = InHeap /\ Held # DOMAIN live /\ PayloadSize(bytes) >= MMAP_THRESHOLD
  /\ live' = [live EXCEPT ![Min(DOMAIN live \ Held)] = [at |-> NULL, len |-> PayloadSize(bytes)]]
  /\ UNCHANGED <<ar, scan, kept, unmapped>>

release(i) ==
  LET r == _release(live[i].at - 1)
  IN /\ Runs /\ i \in Held
     /\ live' = [live EXCEPT ![i] = NULL]
     /\ IF i \in InHeap THEN ar' = Settled(r.ar) /\ unmapped' = r.hole ELSE UNCHANGED <<ar, unmapped>>
     /\ UNCHANGED <<scan, kept>>

(* The program drops its last pointer to a block. *)
Forget(i) ==
  /\ Runs /\ i \in InHeap
  /\ Cardinality(InUse(ar) \ {live[j].at - 1 : j \in InHeap}) < MaxForgotten
  /\ live' = [live EXCEPT ![i] = NULL]
  /\ UNCHANGED <<ar, scan, kept, unmapped>>
-----------------------------------------------------------------------------
(* gc_mark sets the mark bit of chunks that carry the in-use flag: those   *)
(* the program holds, and any others that some stale word points to.       *)
gc_mark(S) ==
  /\ Runs
  /\ {live[i].at - 1 : i \in InHeap} \subseteq S /\ S \subseteq InUse(ar)
  /\ ar' = [ar EXCEPT !.hdr = [c \in DOMAIN @ |-> [@[c] EXCEPT !.mark = @ \/ c \in S]]]
  /\ scan' = HeapStart(0)
  /\ kept' = {c \in InUse(ar) : c \in S \/ ar.hdr[c].mark}
  /\ UNCHANGED <<live, unmapped>>

(* One turn of the loop of gc_sweep, given what becomes of an in-use chunk *)
(* with its mark set; the size of the chunk is read before it is released. *)
SweepTurn(marked) ==
  LET c == scan
      n == next_chunk(ar, c)
      h == HeapOf(c)
      done == n >= HeapEnd(h) /\ h + 1 = ar.heaps
      r == CASE ar.hdr[c].mark -> [ar |-> marked, hole |-> FALSE]
             [] ~ar.hdr[c].mark /\ ar.hdr[c].cur -> _release(c)
             [] OTHER -> [ar |-> ar, hole |-> FALSE]
  IN /\ scan # NULL /\ Undamaged(ar)
     /\ ar' = IF done THEN Settled(r.ar) ELSE r.ar
     /\ scan' = IF done THEN NULL ELSE IF n < HeapEnd(h) THEN n ELSE HeapStart(h + 1)
     /\ unmapped' = r.hole
     /\ kept' = IF done THEN {} ELSE kept
     /\ UNCHANGED live

(* A variant that leaves the marks. *)
SweepKeepsMarks == SweepTurn(ar)

gc_sweep == SweepTurn([ar EXCEPT !.hdr[scan].mark = FALSE])

HeapNext ==
  \/ \E b \in Requests : \E g \in BOOLEAN : AllocateFromHeap(b, g)
  \/ \E b \in Requests : alloc_chunk(b)
  \/ \E i \in 1..MaxLive : release(i) \/ Forget(i)
  \/ \E S \in SUBSET InUse(ar) : gc_mark(S)
  \/ gc_sweep
-----------------------------------------------------------------------------
(* Every bin holds chunks of its size, each once. *)
BinsInOrder ==
  /\ \A s \in DOMAIN ar.fast : \A c \in ToSet(ar.fast[s]) : Size(ar, c) = s
  /\ \A s \in DOMAIN ar.small : \A c \in ToSet(ar.small[s]) : Size(ar, c) = s
  /\ \A i \in DOMAIN ar.large : \A c \in ToSet(ar.large[i]) : get_largebin_index(Size(ar, c)) = i
  /\ \A b \in {ar.unsorted} \cup Range(ar.fast) \cup Range(ar.small) \cup Range(ar.large) : IsInjective(b)
  /\ ToSet(ar.unsorted) \cap (Members(ar.small) \cup Members(ar.large)) = {}
  /\ Binned(ar) \cap Members(ar.fast) = {}

(* However allocations, releases and sweeps follow each other, the chunks  *)
(* tile each heap; a chunk is the top chunk, or in use, or in one bin that *)
(* fits its size; and the boundary tags tell the truth: the header after a *)
(* chunk says that it is free exactly if it can be merged, and then gives  *)
(* its size (next_chunk, prev_chunk and the coalescing of _release rest on *)
(* that).  Up to the damage that OnlyTheTopIsLost is about.                *)
HeapWellFormed ==
  Undamaged(ar) =>
    /\ BinsInOrder
    /\ Free(ar) \subseteq Chunks(ar) /\ ar.top \in Chunks(ar) \cup {NULL}
    /\ \A c \in Chunks(ar) :
         LET n == next_chunk(ar, c)
         IN /\ n \in Chunks(ar) \cup {HeapEnd(HeapOf(c))}
            /\ Size(ar, c) >= MIN_PAYLOAD_SIZE
            /\ c # ar.top => (ar.hdr[c].cur <=> c \notin Free(ar))
            /\ c = ar.top => c \notin Free(ar)
            /\ ~ar.hdr[n].pin <=> c \in Binned(ar)
            /\ c \in Binned(ar) => ar.hdr[n].prev = Size(ar, c)

(* What allocate hands out is as large as asked for and lies in a chunk of *)
(* its own that is in use and in no bin, until it is released: no other    *)
(* allocation, merge or sweep touches it.  Up to the same damage.          *)
BlocksAreOwn ==
  Undamaged(ar) =>
    /\ Disjoint
    /\ \A i \in InHeap : LET c == live[i].at - 1
                         IN /\ c \in InUse(ar) \ (Free(ar) \cup {ar.top})
                            /\ Size(ar, c) >= live[i].len

(* A request finds in the large bins the smallest chunk that fits, if any  *)
(* fits, whatever the sizes of the chunks and the order in which they came *)
(* there: the bins are in the order of sizes and each is sorted.  Checked  *)
(* for three chunks, by insert_into_largebin and largebin_search alone.    *)
LargeBestFit ==
  ar = arena_create =>
    \A size \in [1..3 -> SMALL_MAX..(SMALL_MAX + 5)] :
      LET hdr == [c \in 1..3 |-> Header(size[c], FALSE)]
          a == FoldLeft(insert_into_largebin, [ar EXCEPT !.hdr = hdr], <<1, 2, 3>>)
      IN \A n \in 1..(SMALL_MAX + 6) :
           LET fitting == {c \in 1..3 : n >= SMALL_MAX /\ size[c] >= n}
               v == LargeVictim(a, n)
           IN IF fitting = {} THEN v = NULL
              ELSE v \in fitting /\ \A c \in fitting : size[v] <= size[c]

(* gc_sweep releases what is in use and not marked, and nothing else; it   *)
(* leaves no mark.  A chunk of a heap that was handed out whole and is as  *)
(* large as a mapping is not released (_release calls munmap), and the top *)
(* chunk may carry the in-use flag.                                        *)
SweepIsExact ==
  [][scan # NULL /\ scan' = NULL /\ Undamaged(ar)' =>
       LET swept == {c \in InUse(ar)' : c # ar'.top /\ ar'.hdr[c].size < MMAP_THRESHOLD}
       IN /\ swept \subseteq kept
          /\ \A c \in kept \ {ar'.top} : ar'.hdr[c].cur
          /\ \A c \in Chunks(ar)' : ~ar'.hdr[c].mark]_heapVars

(* The sweep corrupts an arena in two ways only.  It takes for garbage a   *)
(* top chunk whose in-use flag forward_coalesce has left set; and it, or a *)
(* release, unmaps part of a heap, where a chunk of the heap, the flagged  *)
(* top chunk included, has the size of a mapping and begins a page.        *)
OnlyTheTopIsLost ==
  [][/\ ar' # ar /\ ~unmapped' /\ Undamaged(ar) /\ ~Undamaged(ar)' =>
          scan = ar.top /\ ar.hdr[scan].cur /\ ~ar.hdr[scan].mark
     /\ unmapped' # unmapped =>
          \E c \in InUse(ar) : c % PAGE = 0 /\ Size(ar, c) >= MMAP_THRESHOLD]_heapVars
=============================================================================
