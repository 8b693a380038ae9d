------------------------------ MODULE Allocator ------------------------------
(***************************************************************************)
(* The heap: core/allocator.c, and the BASEPRI wrapper core/stm32_alloc.c. *)
(* The free list is the sequence of block headers in list order, each with *)
(* the offset it lies at; that headers and data tile the pool is a         *)
(* property, not an assumption.  Client data is not modelled.              *)
(*                                                                         *)
(* Every call is split where its stale locals would show: between finding  *)
(* a block and taking it, and between marking a block free and merging.    *)
(* A call made under a mask that works keeps other callers out meanwhile.  *)
(***************************************************************************)
EXTENDS Integers, Sequences, SequencesExt

CONSTANTS
  POOL,       \* bytes of the (aligned) pool, mem_capacity
  HEADER,     \* sizeof(Block)
  ALIGN_SIZE, \* sizeof(void *)
  SIZE_MOD,   \* values of a size_t: 2^32
  Sizes,      \* requested sizes, in bytes
  Clients,    \* tasks
  Unmasked,   \* tasks whose calls mask nothing: task_create and the garbage
              \* collection, which use allocator.c without the wrapper
  MAX_OWNED,  \* bound of the model: regions a task holds at once
  NULL

ASSUME PoolAssumption ==
  /\ ALIGN_SIZE \in Nat \ {0} /\ HEADER \in Nat \ {0} /\ POOL \in Nat
  /\ HEADER % ALIGN_SIZE = 0 /\ POOL % ALIGN_SIZE = 0 /\ HEADER <= POOL
  /\ SIZE_MOD \in Nat /\ 2 * POOL < SIZE_MOD
ASSUME SizesAssumption   == Sizes \subseteq 0 .. SIZE_MOD - 1
ASSUME ClientsAssumption == Unmasked \subseteq Clients
ASSUME HeapNullAssumption == NULL \notin Nat

VARIABLES
  blocks,       \* the list from head: [addr, size, free]
  free_mem, allocated_mem, free_blocks, allocated_blocks,
  owned,        \* what clients believe they hold: [ptr, size, by]
  pc, loc       \* each client's place in a call, and its locals

stats == <<free_mem, allocated_mem, free_blocks, allocated_blocks>>
vars  == <<blocks, stats, owned, pc, loc>>

-----------------------------------------------------------------------------
\* Rounds up, in a size_t: near SIZE_MAX to 0.
Mut_ALIGN(n) == (n \div ALIGN_SIZE) * ALIGN_SIZE    \* mutant: rounds down
ALIGN(n)     == (((n + ALIGN_SIZE - 1) % SIZE_MOD) \div ALIGN_SIZE) * ALIGN_SIZE

Data(b) == b.addr + HEADER            \* (void *)(curr + 1)

Splice(i, new) == SubSeq(blocks, 1, i - 1) \o new \o SubSeq(blocks, i + 1, Len(blocks))

\* What is left must hold a header and one aligned word.
Mut_Splits(size, need) == size >= need + HEADER        \* mutant: remainder may be empty
Splits(size, need)     == size >= need + HEADER + ALIGN_SIZE

\* A block cut to need bytes, and the free remainder behind it.
Carve(b, need) ==
  << [b EXCEPT !.size = need, !.free = FALSE],
     [addr |-> Data(b) + need, size |-> b.size - need - HEADER, free |-> TRUE] >>

\* One step of the merge loop: a free block swallows the free block after it.
Mut_Absorb(list, b) ==         \* mutant: the header between the two is lost
  IF list # <<>> /\ Last(list).free /\ b.free
  THEN Append(Front(list), [Last(list) EXCEPT !.size = @ + b.size])
  ELSE Append(list, b)

Absorb(list, b) ==
  IF list # <<>> /\ Last(list).free /\ b.free
  THEN Append(Front(list), [Last(list) EXCEPT !.size = @ + HEADER + b.size])
  ELSE Append(list, b)

\* The loop, after each block.
Merged ==
  LET merged[n \in 0 .. Len(blocks)] ==
        IF n = 0 THEN <<>> ELSE Absorb(merged[n - 1], blocks[n])
  IN  merged[Len(blocks)]

-----------------------------------------------------------------------------
Whole == [addr |-> 0, size |-> POOL - HEADER, free |-> TRUE]

NoCall == [addr |-> 0, size |-> 0, need |-> 0, want |-> 0, old |-> NULL]

\* allocator_init
Init ==
  /\ blocks = <<Whole>>
  /\ free_mem = POOL - HEADER /\ allocated_mem = 0
  /\ free_blocks = 1 /\ allocated_blocks = 0
  /\ owned = {}
  /\ pc = [c \in Clients |-> "idle"] /\ loc = [c \in Clients |-> NoCall]

\* No other client is inside a call that keeps c off the CPU.
CanRun(c) == \A d \in Clients \ {c} : pc[d] # "idle" => d \in Unmasked

At(c, label)   == CanRun(c) /\ pc[c] = label
Goto(c, label) == pc' = [pc EXCEPT ![c] = label]

Holds(c) == {r \in owned : r.by = c}

-----------------------------------------------------------------------------
(* allocator_malloc                                                        *)

Fits(b, need) == b.free /\ b.size >= need

Admitted(want) == want > 0 /\ want <= POOL

\* malloc returns NULL.
Refused(want) == Admitted(want) => \A i \in DOMAIN blocks : ~Fits(blocks[i], ALIGN(want))

\* First fit: the walk from head stops at the first block that is large enough.
Find(c, want, old) ==
  /\ Admitted(want)
  /\ \E i \in DOMAIN blocks :
       /\ Fits(blocks[i], ALIGN(want))
       /\ \A j \in 1 .. i - 1 : ~Fits(blocks[j], ALIGN(want))
       /\ loc' = [loc EXCEPT ![c] = [addr |-> blocks[i].addr, size |-> blocks[i].size,
                                     need |-> ALIGN(want), want |-> want, old |-> old]]
  /\ Goto(c, "take")

Malloc(c, want) ==
  /\ At(c, "idle")
  /\ Find(c, want, NULL)
  /\ UNCHANGED <<blocks, stats, owned>>

\* The block found is marked and split, by the size read when it was found.
TakeBlock(l) ==
  \E i \in DOMAIN blocks :
    /\ blocks[i].addr = l.addr
    /\ blocks' = Splice(i, IF Splits(l.size, l.need)
                           THEN Carve([blocks[i] EXCEPT !.size = l.size], l.need)
                           ELSE << [blocks[i] EXCEPT !.size = l.size, !.free = FALSE] >>)

\* mutants: the size before the split; the unsplit excess not counted
Mut_TakenWhole(l) == l.size
Mut_Taken(l)      == l.need
Taken(l)          == IF Splits(l.size, l.need) THEN l.need ELSE l.size

TakeStats(l) ==
  /\ allocated_mem' = allocated_mem + Taken(l)
  /\ allocated_blocks' = allocated_blocks + 1
  /\ IF Splits(l.size, l.need)
     THEN free_mem' = free_mem - (Taken(l) + HEADER) /\ UNCHANGED free_blocks
     ELSE free_mem' = free_mem - Taken(l) /\ free_blocks' = free_blocks - 1

\* A header that a racing merge has taken out of the list is written all the
\* same: the list does not change.
Gone(l) == \A i \in DOMAIN blocks : blocks[i].addr # l.addr

Region(c, l) == [ptr |-> l.addr + HEADER, size |-> l.want, by |-> c]

Take(c) ==
  LET l == loc[c] IN
  /\ At(c, "take")
  /\ TakeBlock(l) \/ (Gone(l) /\ UNCHANGED blocks)
  /\ TakeStats(l)
  /\ owned' = owned \union {Region(c, l)}
  /\ Goto(c, IF l.old = NULL THEN "idle" ELSE "mark")
  /\ loc' = [loc EXCEPT ![c] = IF l.old = NULL THEN NoCall ELSE l]

-----------------------------------------------------------------------------
(* allocator_free                                                          *)

Free(c, r) ==
  /\ At(c, "idle")
  /\ loc' = [loc EXCEPT ![c].old = r.ptr]
  /\ Goto(c, "mark")
  /\ UNCHANGED <<blocks, stats, owned>>

Mark(c) ==
  /\ At(c, "mark")
  /\ \E i \in DOMAIN blocks :
       /\ Data(blocks[i]) = loc[c].old
       /\ blocks' = [blocks EXCEPT ![i].free = TRUE]
       /\ free_mem' = free_mem + blocks[i].size
       /\ allocated_mem' = allocated_mem - blocks[i].size
  /\ free_blocks' = free_blocks + 1
  /\ allocated_blocks' = allocated_blocks - 1
  /\ owned' = {r \in owned : ~(r.by = c /\ r.ptr = loc[c].old)}
  /\ Goto(c, "merge")
  /\ UNCHANGED loc

Merge(c) ==
  /\ At(c, "merge")
  /\ blocks' = Merged
  /\ free_mem' = free_mem + HEADER * (Len(blocks) - Len(Merged))
  /\ free_blocks' = free_blocks - (Len(blocks) - Len(Merged))
  /\ Goto(c, "idle")
  /\ loc' = [loc EXCEPT ![c] = NoCall]
  /\ UNCHANGED <<allocated_mem, allocated_blocks, owned>>

-----------------------------------------------------------------------------
(* allocator_realloc                                                       *)

Resized(r, want) == (owned \ {r}) \union {[r EXCEPT !.size = want]}

\* Shrinking, or growing within the block: in place.
ReallocInPlace(c, r, want) ==
  /\ At(c, "idle") /\ want > 0
  /\ \E i \in DOMAIN blocks :
       /\ Data(blocks[i]) = r.ptr
       /\ blocks[i].size >= ALIGN(want)
       /\ IF Splits(blocks[i].size, ALIGN(want))
          THEN LET rest == blocks[i].size - ALIGN(want) - HEADER IN
               /\ blocks' = Splice(i, Carve(blocks[i], ALIGN(want)))
               /\ free_mem' = free_mem + rest
               /\ allocated_mem' = allocated_mem - (rest + HEADER)
               /\ free_blocks' = free_blocks + 1
               /\ UNCHANGED allocated_blocks
          ELSE UNCHANGED <<blocks, stats>>
  /\ owned' = Resized(r, want)
  /\ UNCHANGED <<pc, loc>>

\* Growing: allocate, copy, free the old block.
ReallocMove(c, r, want) ==
  /\ At(c, "idle")
  /\ \E i \in DOMAIN blocks : Data(blocks[i]) = r.ptr /\ blocks[i].size < ALIGN(want)
  /\ Find(c, want, r.ptr)
  /\ UNCHANGED <<blocks, stats, owned>>

-----------------------------------------------------------------------------
\* allocator_realloc, which does not refuse sizes beyond the pool, is called with
\* others only: see heaptest for the application's own call.
CallsOf(c) ==
  \/ Cardinality(Holds(c)) < MAX_OWNED /\ \E want \in Sizes : Malloc(c, want)
  \/ \E r \in Holds(c) :
       \/ Free(c, r)
       \/ \E want \in Sizes : want <= POOL /\ (ReallocInPlace(c, r, want) \/ ReallocMove(c, r, want))

Continues(c) == Take(c) \/ Mark(c) \/ Merge(c)

Next == \E c \in Clients : CallsOf(c) \/ Continues(c)

Spec == Init /\ [][Next]_vars

\* The calm executions: a client enters or continues a call only while no other is inside
\* one, whether a mask or chance keeps it out.  With Unmasked = {} there are no others.
Alone(c) == \A d \in Clients \ {c} : pc[d] = "idle"

CalmNext == \E c \in Clients : Alone(c) /\ (CallsOf(c) \/ Continues(c))

CalmSpec == Init /\ [][CalmNext]_vars

-----------------------------------------------------------------------------
Sum(w) ==
  LET sum[n \in 0 .. Len(w)] == IF n = 0 THEN 0 ELSE sum[n - 1] + w[n]
  IN  sum[Len(w)]

Total(select(_)) == Sum([i \in DOMAIN blocks |-> IF select(blocks[i]) THEN blocks[i].size ELSE 0])
Count(select(_)) == Sum([i \in DOMAIN blocks |-> IF select(blocks[i]) THEN 1 ELSE 0])

IsFree(b)  == b.free
IsTaken(b) == ~b.free

check_integrity ==
  /\ \A i \in DOMAIN blocks : blocks[i].addr < POOL /\ blocks[i].size <= POOL
  /\ free_mem = Total(IsFree) /\ allocated_mem = Total(IsTaken)

-----------------------------------------------------------------------------
(* Properties                                                              *)

\* Types; none of the counters, which are a size_t, ever goes below 0, in the middle of
\* a call included.
HeapTypeOK ==
  /\ blocks \in Seq([addr : Nat, size : Nat, free : BOOLEAN])
  /\ free_mem \in Nat /\ allocated_mem \in Nat
  /\ free_blocks \in Nat /\ allocated_blocks \in Nat
  /\ \A r \in owned : r.ptr \in Nat /\ r.size \in Nat /\ r.by \in Clients
  /\ pc \in [Clients -> {"idle", "take", "mark", "merge"}]

\* Headers and data tile the pool: the next block starts where this one ends,
\* the last ends where the pool does, and every block can hold a word.
\* (the splits and merges of allocator_malloc, _free and _realloc)
Tiling ==
  /\ blocks # <<>> /\ Head(blocks).addr = 0
  /\ \A i \in DOMAIN blocks :
       Data(blocks[i]) + blocks[i].size =
         IF i = Len(blocks) THEN POOL ELSE blocks[i + 1].addr
  /\ \A i \in DOMAIN blocks : blocks[i].size >= ALIGN_SIZE /\ blocks[i].addr % ALIGN_SIZE = 0

\* Regions handed out are disjoint and inside the pool, and none covers a header:
\* each is the data of an allocated block of its own, and large enough.
RegionsDisjoint ==
  /\ \A r, q \in owned : r # q => r.ptr + r.size <= q.ptr \/ q.ptr + q.size <= r.ptr
  /\ \A r \in owned : \E i \in DOMAIN blocks :
       ~blocks[i].free /\ Data(blocks[i]) = r.ptr /\ blocks[i].size >= r.size

Quiet == \A c \in Clients : pc[c] = "idle"

\* allocator_check_integrity never fails between calls, and the block counters
\* agree with the list too; no allocated block is without an owner.
Accounting ==
  Quiet => /\ check_integrity
           /\ free_blocks = Count(IsFree) /\ allocated_blocks = Count(IsTaken)
           /\ allocated_blocks = Cardinality(owned)

\* When everything has been freed, and in whatever order, the pool is one free
\* block again.  (the merge loop of allocator_free)
WholeAgain == Quiet /\ owned = {} => blocks = <<Whole>>

=============================================================================
