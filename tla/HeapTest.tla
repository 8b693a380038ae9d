------------------------------- MODULE HeapTest -------------------------------
(***************************************************************************)
(* The heaptest command of app/app_commands.c on the heap it shares with   *)
(* other tasks.  Cli runs the command in its three modes, any number of    *)
(* times; the other clients of Allocator call what they like.  The         *)
(* patterns it writes are not modelled: while RegionsDisjoint holds they   *)
(* verify.  Random sizes and choices are any; the 100 rounds of stress are *)
(* any number.                                                             *)
(***************************************************************************)
EXTENDS Allocator

CONSTANTS
  Cli,                    \* the client that runs the command line
  FRAG_BLOCKS, FRAG_SIZE,
  STRESS_MAX_PTRS,
  MAX_LEAKED              \* bound of the model: blocks lost before the last run of the command

ASSUME TesterAssumption == Cli \in Clients
ASSUME TestAssumption   == FRAG_BLOCKS \in Nat \ {0} /\ FRAG_SIZE \in Nat \ {0} /\ STRESS_MAX_PTRS \in Nat

VARIABLES
  at,         \* place in cmd_heap_test_handler
  ptrs,       \* its pointers, in the order in which it will free them
  baseline_blocks,
  verdict,    \* what it printed last
  before      \* history: the list it found, coalesced; NULL once another client has called

test     == <<at, ptrs, baseline_blocks, verdict>>
testVars == <<vars, test, before>>

TestInit ==
  /\ Init
  /\ at = "prompt" /\ ptrs = <<>> /\ baseline_blocks = 0
  /\ verdict = "none" /\ before = NULL

-----------------------------------------------------------------------------
Runs(label)    == at = label /\ At(Cli, "idle")
Proceed(label) == at' = label /\ UNCHANGED <<baseline_blocks, verdict, before>>

\* Whatever ptrs still names is lost.
End(v) ==
  /\ at' = "prompt" /\ ptrs' = <<>> /\ baseline_blocks' = 0 /\ verdict' = v
  /\ UNCHANGED <<vars, before>>

\* stm32_allocator_get_stats: only frag uses the baseline.
Start(mode) ==
  /\ Runs("prompt") /\ Cardinality(Holds(Cli)) <= MAX_LEAKED
  /\ at' = mode
  /\ baseline_blocks' = IF mode = "frag" THEN allocated_blocks ELSE 0
  /\ verdict' = "none" /\ before' = Merged
  /\ UNCHANGED <<vars, ptrs>>

\* The pointer that the call under way will return.
Result == loc'[Cli].addr + HEADER

Held(p) == CHOOSE r \in Holds(Cli) : r.ptr = p

Allocate(want) == Malloc(Cli, want) /\ ptrs' = Append(ptrs, Result)

FreeFirst == Free(Cli, Held(Head(ptrs))) /\ ptrs' = Tail(ptrs)

\* TEST_ASSERT on the pointer.
Null(want) == Refused(want) /\ End("null")

Passed == End(IF check_integrity THEN "pass" ELSE "corrupt")

-----------------------------------------------------------------------------
(* basic: allocate, double, free                                           *)

BasicMalloc(size) ==
  /\ Runs("basic") /\ size > 0
  /\ \/ Allocate(size) /\ Proceed("basic_grow")
     \/ Null(size)

Double(r) == (2 * r.size) % SIZE_MOD

\* mutant: the old pointer is kept after a move
Mut_Moved(p) == <<p>>
Moved(p)     == <<Result>>

BasicRealloc ==
  LET r == Held(ptrs[1]) IN
  /\ Runs("basic_grow")
  /\ \/ ReallocInPlace(Cli, r, Double(r)) /\ UNCHANGED ptrs /\ Proceed("basic_free")
     \/ ReallocMove(Cli, r, Double(r)) /\ ptrs' = Moved(ptrs[1]) /\ Proceed("basic_free")
     \/ /\ \E i \in DOMAIN blocks : Data(blocks[i]) = r.ptr /\ blocks[i].size < ALIGN(Double(r))
        /\ Null(Double(r))

BasicFree == Runs("basic_free") /\ FreeFirst /\ Proceed("basic_end")

BasicEnd == Runs("basic_end") /\ Passed

-----------------------------------------------------------------------------
(* frag: allocate a row, free every other block, then the others           *)

FragMalloc ==
  /\ Runs("frag") /\ Len(ptrs) < FRAG_BLOCKS
  /\ \/ Allocate(FRAG_SIZE) /\ Proceed("frag")
     \/ Null(FRAG_SIZE)

\* From 0: those with an odd index, then those with an even one.
Mut_FragOrder(p) ==                    \* mutant: the last one is forgotten
  [i \in 1 .. FRAG_BLOCKS - 1 |-> IF 2 * i <= FRAG_BLOCKS THEN p[2 * i] ELSE p[2 * (i - FRAG_BLOCKS \div 2) - 1]]
FragOrder(p) ==
  [i \in 1 .. FRAG_BLOCKS |-> IF 2 * i <= FRAG_BLOCKS THEN p[2 * i] ELSE p[2 * (i - FRAG_BLOCKS \div 2) - 1]]

FragHoles ==
  /\ Runs("frag") /\ Len(ptrs) = FRAG_BLOCKS
  /\ ptrs' = FragOrder(ptrs) /\ Proceed("frag_free")
  /\ UNCHANGED vars

HolesMade == Len(ptrs) = FRAG_BLOCKS - FRAG_BLOCKS \div 2

FragFree ==
  /\ Runs("frag_free") /\ ptrs # <<>>
  /\ IF HolesMade /\ ~check_integrity THEN End("corrupt") ELSE FreeFirst /\ Proceed("frag_free")

FragEnd ==
  /\ Runs("frag_free") /\ ptrs = <<>>
  /\ IF check_integrity /\ ~(allocated_blocks = baseline_blocks /\ free_blocks = 1)
     THEN End("not coalesced") ELSE Passed

-----------------------------------------------------------------------------
(* stress: allocate and free at random, then clean up                      *)

StressMalloc(size) ==
  /\ Runs("stress") /\ Len(ptrs) < STRESS_MAX_PTRS
  /\ Allocate(size) /\ Proceed("stress")

StressFree(i) ==
  /\ Runs("stress")
  /\ Free(Cli, Held(ptrs[i])) /\ ptrs' = RemoveAt(ptrs, i) /\ Proceed("stress")

\* The check after every tenth round, and the last round.
StressRound ==
  /\ Runs("stress")
  /\ IF check_integrity THEN Proceed("cleanup") /\ UNCHANGED <<vars, ptrs>> ELSE End("corrupt")

StressCleanup == Runs("cleanup") /\ ptrs # <<>> /\ FreeFirst /\ Proceed("cleanup")

StressEnd == Runs("cleanup") /\ ptrs = <<>> /\ Passed

-----------------------------------------------------------------------------
CliNext ==
  \/ \E mode \in {"basic", "frag", "stress"} : Start(mode)
  \/ \E size \in Sizes : BasicMalloc(size) \/ StressMalloc(size)
  \/ BasicRealloc \/ BasicFree \/ BasicEnd
  \/ FragMalloc \/ FragHoles \/ FragFree \/ FragEnd
  \/ (\E i \in DOMAIN ptrs : StressFree(i))
  \/ StressRound \/ StressCleanup \/ StressEnd
  \/ Continues(Cli) /\ UNCHANGED <<test, before>>

Other(c) ==
  /\ CallsOf(c) \/ Continues(c)
  /\ before' = NULL /\ UNCHANGED test

TestNext == CliNext \/ \E c \in Clients \ {Cli} : Other(c)

TestSpec == TestInit /\ [][TestNext]_testVars

\* The calm executions: see CalmSpec.
CalmTestNext ==
  \/ Alone(Cli) /\ CliNext
  \/ \E c \in Clients \ {Cli} : Alone(c) /\ Other(c)

CalmTestSpec == TestInit /\ [][CalmTestNext]_testVars

-----------------------------------------------------------------------------
(* Properties                                                              *)

\* What the command prints is true.  A run that passes undoes itself: when no other
\* task has called meanwhile, the list of blocks is, coalesced, the one it started
\* from, however fragmented that was.  And when frag reports that coalescing failed
\* (app_commands.c:342), it is not the allocator that failed: another task has called
\* in between, or the pool had several free blocks to begin with.
VerdictsTrue ==
  /\ verdict = "pass" /\ before # NULL => Merged = before
  /\ verdict = "not coalesced" =>
       before = NULL \/ Cardinality({i \in DOMAIN before : before[i].free}) # 1

\* Every pointer the command will still use is its own, and none is there twice:
\* no double free, and no use of a block that realloc has moved.
PointersHeld ==
  pc[Cli] = "idle" =>
    /\ \A i \in DOMAIN ptrs : \E r \in Holds(Cli) : r.ptr = ptrs[i]
    /\ \A i, j \in DOMAIN ptrs : ptrs[i] = ptrs[j] => i = j

=============================================================================
