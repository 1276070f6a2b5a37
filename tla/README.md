# Verification of YARB

YARB benchmarks regular-expression matching on CPUs, GPUs and FPGAs. Automata
in ANML or MNRL are turned into regular expressions by a Java parser, run by
several engines, and their counts are compared. This directory holds TLA+
modules of the parts that have something to get wrong, the TLC runs that check
them on small instances, and TLAPS proofs of the results that matter most.

Paths below are relative to the repository; `G` stands for
`gpu/gpunfa-artifact/gpunfa_code`. `PROJECT.json` has the line-by-line map from
definitions to code, the runs, the mutants that each property catches, the
hazards and the theorems.

1. [Inventory](#1-inventory)
2. [Modules](#2-modules)
3. [Runs](#3-runs)
4. [Fairness](#4-fairness)
5. [Proofs](#5-proofs)
6. [Where code and comments disagree](#6-where-code-and-comments-disagree)
7. [What is abstracted](#7-what-is-abstracted)
8. [Not modelled](#8-not-modelled)
9. [Plan](#9-plan)

## 1. Inventory

### The GPU engines

All engines run a *homogeneous NFA*: a state accepts a set of symbols; an
enabled state that accepts the symbol is activated, enables its successors for
the next symbol and, if it is a report state, reports. One thread block runs one
network on one stream; the blocks share an output array and its tail, and
nothing else. Host and device interact by launching the kernel and copying the
array back.

| component | code | state | operations | what is hard | correct if |
|---|---|---|---|---|---|
| obat2, obat_MC | `G/src/obat/one_byte_a_time_kernels.h` 87-228, `one_byte_at_a_time.cu` | `is_active_state1` (two booleans per state, shared memory), output array and tail (global memory) | one iteration per symbol: match, enable, report, promote, clear, with barriers between | threads store into each other's cells; the tail is shared by all blocks; threads without a state leave before the barriers; nothing bounds the reports | every interleaving moves the enabled set as one step; every report is kept once; the kernel ends |
| HotStart (three kernels), hot-cold CaH | same files, 251-954 | in CaH the cells of obat2 for the hot states; two queues of cold states, bitset, two tails (shared memory), output array | prepare (swap, move tail, clear bits), hot stage, cold stage; with the transition table, copy the queue | swap or copy, move and clear are done by different threads; states are queued by whoever sets the bit; stale bits; queues of fixed length; start states are moved | each cold state is run at most once per symbol; the queue moves as one step |
| iNFAnt | `G/src/infant/` | two bit vectors (shared memory), match array and count | load, clear, transit, output, always, with five barriers in the loop | words are cleared by one thread and set by another; halves swap; strides; a device assertion at the end of the array | the vector is exactly what the symbol activated; every report is printed or the run fails |
| PPoPP12, two kernels | `G/src/ppopp12/` | two arrays of slots, one slot per compatible group, and a chunk of the input (shared memory), match array and count | load, read a chunk, clear, transit and store, output | a state is stored over whatever the slot holds; arrays change roles | no two states of a group are ever active together |

### What the host computes for them

| component | code | state | operations | what is hard | correct if |
|---|---|---|---|---|---|
| network graph (`NFA`) | `G/src/commons/NFA.cpp` | states by number and by string id; each edge in two lists | add and remove states and edges, split into components, merge | two lists that must agree, string ids used again; `get_indegree_of_node` returns the out-degree | the two lists of every edge agree |
| out-degree limiting | `G/src/commons/nfa_utils.cpp` 463-624 | the component, a count of splits | split a state into copies that share its successors, give up | a split raises the out-degree of the predecessors; self loops; giving up drops the component | the copies do what the original did; it ends |
| grouping | same file, 341-462 and 1212-1273, `G/src/ppopp12/ppopp12.cu` 100-234 | the group being filled | a component joins the group or starts another | off by one at a block's end | groups fit, each component is in one |
| node packing | `G/src/gpunfautils/utils.cu` 697-830 | none | a symbol set as a range with two flags, or 256 bits | ranges that end at 255, the empty and the full set | the packed test is membership |
| incompatible states | `G/src/commons/compatible_group_helper.cpp` 115-256 | boolean matrix, queue of pairs | pop a pair, add what its states activate together | the closure must reach every pair some input activates | closed when the queue is empty |
| independent sets (`MyGraph1`) | same file, 270-515 | node list, degrees, dropped nodes, numbers | check, pick an edge, put back, number | a vector is erased from under the loop over it; degrees are kept incrementally | a partition into independent sets, densely numbered |

The last two compute, for PPoPP12, the slots of the kernel: the matrix says
which states may be active together, the independent sets of the graph it
describes are the compatible groups, and the kernel trusts them.

### Parser, splitter and loader

| component | code | state | operations | what is hard | correct if |
|---|---|---|---|---|---|
| `Translator` | `parser/src/Translator.java`, orders in `Minimization.java` | lists of states and transitions, changed while they are indexed; a loop label; a static list of results | modify, eliminate a state, merge parallel transitions | labels left over, texts without parentheses, empty labels, removal without stepping back, a result that outlives its automaton | the text denotes what the network reports |
| data splitter | `data_splitter.py` | file position, a length | write a chunk, jump back, read the next | the overlap, chunks shorter than it | a match across a cut is whole in a chunk |
| FPGA loader | `loader.py` | the cores' memories and registers, counts | clear, cut a chunk into slices, load, poll, count | slices that must overlap, words left over from the chunk before, bounded polling | no false match; what is missed is known; it ends |

The parser's expressions are compiled for the FPGA and loaded with the chunks;
the engines' counts are compared by `validation.py`. Section 8 lists the
components that are not modelled.

## 2. Modules

```
HomogeneousNFA                    the automaton: enabled, activated, reported
  EnableActiveNFA                 the promise: blocks that move as one step
  ObatKernel      --implements--> EnableActiveNFA
  HotStart        --implements--> EnableActiveNFA (CaH; in the other
                                  kernels hot states never rest)
    NodePacking                   the packed node that HotStart's kernels and
                                  obat_MC test
  ClonedNetwork                   start states replaced by clones
    Infant        --implements--> EnableActiveNFA (without the clones)
    Ppopp12       --implements--> EnableActiveNFA (without the clones)
  Incompatibility                 what a set of incompatible pairs must have
    IncompatibleStates            the analysis that computes it
    Ppopp12                       the kernel that relies on it
  NetworkCopies                   a network made of copies of another's states
    HotStart, Ppopp12             kernels that are given one
    MutableNFA                    the graph while it is prepared
      NetworkPreparation          limiting, packing, and the run side by side
IndependentSets                   the groups from the matrix
RegexText                         labels as texts, and what they denote
  StateOrders                     the orders of elimination
    Translator                    state elimination
DataSplitter                      chunk files
  FpgaLoader                      slices, cores, polling
```

`ObatKernelProofs`, `HotStartProofs`, `InfantProofs`, `Ppopp12Proofs`,
`NetworkPreparationProofs` and `FpgaLoaderProofs` extend the module they are named
after, `CompatibleGroupsProofs` both modules of the analysis; `NetworkProofs` has what
they share about networks, their copies, their clones, their packed nodes and the
order of their edges. `MC...` modules give the constants values.

**HomogeneousNFA** defines a network as a record of the fields of `Node` and the
adjacency lists of `NFA`, and by functions over an input what is enabled after
each symbol and what is reported. It is the reference the engines are
compared with; it has no state.

**EnableActiveNFA** is the abstract specification of a run: a block consumes a
symbol (`Consume`), which moves its enabled set and adds its reports in one
step. Blocks advance in any order. All engines are shown to refine it.

**ObatKernel** has a program counter per thread and one action per access to
memory that another thread can reach: `Start` (the two stores before the loop),
`Match` (the `if`), `Enable` (one iteration over the packed edges), `Claim` (the
`atomicAdd`), `Write` (the store into the output array), `Promote` and `Clear`.
`Sync0` to `Sync3` are the calls of `__syncthreads`; a thread without a state has
exited and is not waited for. `PrintReports` is the host: `copy_back` and
`print_reports` with the assertion of `Array2::get`. `claims` is a history
variable for the refinement and the proof. In the refinement a symbol counts as
consumed when the barrier after the match phase opens; until a state is
promoted, the enabled set is in the next array. A job with `packed` runs the
kernel of obat_MC, which tests the packed node instead of a bitmap (`Matches`).

**HotStart** models the four kernels with a queue. It has shared memory as it is laid out: two
queues and the bitset behind them in one array, `current` an offset into it.
`Prepare` is what each thread does before a symbol (thread 0 the tails, thread 1
the swap, each its words of the bitset); `HotStage`, `ColdStage` the match tests;
`Dedup` the `atomicOr`; `Push` the `atomicAdd` on the next tail; `Store` the store,
which hits the bitset when the index is past the queue; `Report` the report and
the stride. HotStart's kernels do not ask whether a hot state is enabled: they
implement the network whose hot states are all-input starts (`HotAlways`), and
the given one if they are. A job of kernel "table" runs `hotstart_transition_table`
instead: a queue holds *active* states, a state's entry (`Entry`) lists the
successors the symbol activates, each is queued (with an assertion that traps)
and reported (`ReportEntry`), and after the cold stage the next queue is copied
over the current one (`CopyQueue`) between two barriers. `WithFakeStarts` is what
`add_fake_start_node_for_ccs` does to the network: one new start before the starts of
each component that has some (`ccs`); by them a start-of-data state is started at every
symbol (`Meant`). Of that network, with the other kernels of the one read (`Unsplit`),
the kernel gets copies: states, new starts among them, have been split until none has
more than four edges, and numbered anew (`HasAllCopies`; `base` says which state each
was). A job of kernel "cold after hot" runs `hotcold_nodup_queue_mc_cold_after_hot`,
which keeps two cells for each hot state as obat2 does: a hot state runs only if its
cell says that it is enabled, both stages enable hot states (`EnableHot`), and between
the last two barriers each thread promotes its own (`Update`). It implements the
network as it was read.

**NodePacking** is the packing of a symbol set and the kernels' test of it; TLC
checks it inside HotStart and ObatKernel with four symbols, and the proof holds for any number.

**ClonedNetwork** is what the constructors of iNFAnt and PPoPP12 do to a network:
each start state loses its start flag to a clone with one edge, to it. In PPoPP12
preprocessing limits the out-degrees afterwards, so that a start, and with it its
clone's edges, may be split.

**Infant** models the vectors as the sets of their bits and each turn of a loop
as a step: `Load`, `ClearActive`, `Transit` (one entry of the symbol's transition
table; `set_bit` is an `atomicOr`), `Output` (slot and device assertion),
`AlwaysEnabled`. A failed assertion traps the kernel: no thread goes on, and
`Finish` is the host that exits. The vector called enabled holds what the last
symbol *activated*, so the refinement maps what is enabled to the successors.
Reports come one symbol late: a state is reported at the offset after the symbol
that activated it, and those of the last symbol of a stream never. `ReportsLate`
says precisely that; it describes the engine, and is worth knowing when its
output is compared with another engine's.

**Ppopp12** models `ppopp12_kernel` and `ppopp12_kernel_shrreadchunk` (`chunked`):
`Load`, `ReadChunk` (each thread reads one symbol of a chunk of `BlockDim`),
`ClearNext`, `Transit` (a slot of the current array), `Store` (a target into the
slot of its group, unchecked), `NextSlot`, `Swap`, `Output`, and `Finish`, the
host. The slots are a parameter with the property the analysis gives them
(`SlotsFor`): incompatible states, by a closed matrix, have different slots.
`IncompatibleStates` and `IndependentSets` are where that property comes from. A job
has the network `read` and the one the kernel is given, `nfa`: the clones of the first
added, then split and numbered anew (`HasAllCopies`, `base`). The refinement is to the
network read: what is enabled are the originals of the copies. Every copy of a report
state takes an entry of the match array; the file lists the report once.

**Incompatibility** says what `calc_incompatible_states` and the kernels of PPoPP12
share: which pairs are initially incompatible, what a pair activates together
(`Consequences`), and what a closed matrix is (`ClosedUnder`).

**IncompatibleStates** works a queue of pairs off, one `Pop` per turn of the loop.
The code's queue is first-in first-out; the model's is a set, which allows more
orders and so shows that the order does not matter.

**IndependentSets** has one action per round (`Check`, `EndRound`), per pair of
nodes dropped (`PickEdge`) and per turn of the loop that puts nodes back (`Readd`).
That loop is a range-for over `removed_nodes` that erases from it. The standard
leaves this undefined; with the usual vector of ints, `erase` moves the rest down
and the loop runs to its old end, so one element is skipped and stale ones at
the end are met again. The model keeps the vector's memory and its size
apart and does just that. `RoundInv` shows that nothing is lost by it: a stale
element at the end is a copy of one that is still in the vector or of one put
back before, and for the latter the test succeeds again and changes nothing.

**MutableNFA** is the class `NFA`: states by number and by string id, every edge in
the list of its source and in that of its target. A string id is the original
state followed by the numbers of its copies, as `_dup_` strings it together.
**NetworkPreparation** is a sequential program on it, one action per turn of its
loops: `SplitNode`, `GiveUp` and `Keep` of the limiting, `DropLarge`, `Pack` (three
ways: by size for obat, by hot states for HotStart, by compatible groups for
ppopp12) and `Merge`. Then `Consume`: the prepared networks and the network read
take the same symbol, whatever the environment chooses and as long as it likes,
so that `SameReports` compares them on every input. Loops are written as `Loop`, an
operator over a recursive function, so that they can be proved about.
**NetworkCopies** says what one network must be to another for `SameReports`, and for
the kernels of HotStart and Ppopp12 to be given it in the other's place.

**RegexText** has labels as sequences of pieces and what a text denotes by the
usual precedence of star, concatenation and bar, **StateOrders** the orders,
**Translator** a translation: `Modify`, `EliminateOnce`, `PassEnds` and
`EliminateIter` for the two modes, `Finish`. The merge of parallel transitions is
modelled with its indices. By `NoParallel` the loops for "merge until one is left"
(283-291, 345, 429-436) and an index past the end of the states are never reached,
so they are not in the model.

**DataSplitter** writes the chunk files. **FpgaLoader** continues: `Prepare` (reset
and clear), `LoadCore` (a slice, four bytes to a word), `Start`, `Poll`, `Collect`.
The cores are outside the repository; `CoreCompletes` says that a core ends at any
time or never and finds a match exactly if it is in the memory it searches.

## 3. Runs

| run | states | bounds | what it shows |
|---|---|---|---|
| `obat_block` | 82,894 | 3 threads; both tests of a symbol; every graph on two states, four on three; streams of 2-3 symbols; `Capacity` 6 | the threads of a block never race on the shared arrays, `ReportsExact`; the block refines `EnableActiveNFA` and every block ends |
| `obat_grid` | 145,341 | 2 groups x 2 streams, one-thread blocks; `Capacity` 3 | blocks claim different slots; what is kept is a report that was found |
| `obat_overflow` | stops | as `obat_grid` | a violation: the claimed tail passes the buffer and the host reads past it (section 6) |
| `hotstart` | 365,095 | 2 threads; `QueueSize` 3; 4 symbols; 32 graphs with and without the cold stage, two hot states sharing cold ones, long streams, networks of the table kernel with one component, with two, and with a new start of five edges that is split, of CaH two hot states and two cold ones with starts of both kinds, and queues that trap in both | `QueueInv`: the bitset keeps the queue free of duplicates; reports are exact; queue and cells move as one step of `EnableActiveNFA`; the kernels end |
| `hotstart_enabled` | stops | `QueueSize` 2 | a violation: a start-of-data state reports where it is not enabled (section 6) |
| `infant` | 41,000 | 2 threads; words of 2 bits; `Capacity` 2; every graph on two states with every kind of start | `ReportsLate`: what is printed is the late report, or the run traps; refinement; termination |
| `incompatible_states` | 61,056 | 108 components of four states; inputs of up to 3 symbols | `IInv` of the closure; states called compatible are never active together; termination |
| `independent_sets` | 13,914 | every graph of up to 5 nodes | `RoundInv` under erasure in the loop; the groups are independent; the rounds end |
| `ppopp12_kernel` | 138,698 | both kernels; 2 threads; 5 slots; `Capacity` 2; 3 symbols in chunks of two; a start with five edges that is split after it was cloned, and whose copies both report | no active state is lost to another in its slot; reports exact across chunks; refinement; termination |
| `translator` | 7,139 | every network of two elements, every order and mode; three elements with up to 3 edges; words up to `MaxWord` 3 | the text denotes what the network reports, a stale label appears only with silent results, what an elimination may lose, termination |
| `network_preparation` | 46,395 | every graph on three states, some on four, out-degree limit 2; packing jobs on six | the prepared network reports as the network read; blocks fit and hold each component once; termination |
| `fpga_loader` | 17,716 | overlap 8; `MaxPolls` 2, `ClearedPast` 2, `SearchedPast` 1; up to 4 cores | which matches chunks and slices cover; no match from bytes a chunk left behind; the script ends |

Why the bounds are enough to be interesting:

- Two threads that store to a third's cell, or to one word, slot or queue at once,
  are the worst a barrier has to keep apart; a third thread adds a thread
  without a state in `obat_block`.
- Loops with stride `BlockDim` are made to wrap by having more items than
  threads: 3 words and up to 4 states (clones included) on 2 threads in infant,
  5 slots on 2 threads in ppopp12, and in hotstart a queue of 3 states, as long
  as its cells allow, on 2 threads.
- Halves and arrays swap with parity, so three symbols see every role twice, and
  make a second chunk, shorter than the first.
- `Capacity` is small enough for both outcomes (printed and aborted or exited) to
  occur, and so is checked on both sides; so is `QueueSize` for the assertion of
  the kernel with the table.
- The erased vector needs two nodes put back in one round to be met stale; graphs
  of four and five nodes do that.
- `InputBound` 3 in `TogetherIncompatible` is more symbols than pairs need to be
  chained in components of four states; for inputs of every length there is
  `ActiveTogether` (section 5).
- In `network_preparation` the limit is 2, so that four states are enough for a
  split to push a predecessor over it, and for giving up; blocks have every size
  from one state to all of them.
- In `translator` two states with loops and a triangle are enough for a label
  left over, a second merge and a bar beside a loop; `MaxWord` 3 is longer than
  any word of a network without cycles of three states.
- In `fpga_loader` the overlap is 8 bytes for 100, polls are 2 for 10, and the words
  cleared and searched past the slice keep their order (`SearchedPast` below
  `ClearedPast`); files are chosen around the sizes at which slices meet.

Deadlock is checked in all runs but translator, which simply stops when it is
done: the other specifications have a step for the finished process, so a state
without a step is a thread stuck at a barrier. For every property of a passing
run `PROJECT.json` names a mutant of the code (a barrier left out, an atomic made
non-atomic, a stride or a reset dropped) that breaks it.

## 4. Fairness

Kernels: weak fairness of each thread, of each block's barriers and of the host.
A block is resident until it ends and its warps are issued as long as they can
go on, so a thread that is not at a barrier takes its next step; a barrier that
all threads reached opens; the host waits in a blocking copy. Nothing
is assumed of the order of threads, warps or blocks. No strong fairness is
needed: no step of one thread disables a step of another, but for a trap, after
which the host has a step. A waiting block that
is not resident yet is a block whose threads have not begun, which fairness
only says will begin: the blocks that run all end.

`IncompatibleStates`, `IndependentSets`, `NetworkPreparation` and `Translator` are
sequential: weak fairness of the one program says that it goes on while it can.
The symbols `NetworkPreparation` consumes afterwards need not come. In `FpgaLoader`
only the script is fair; a core may never complete, and `Ends` holds all the same.

## 5. Proofs

`tlapm` checks these for every value of the constants.

**NetworkProofs.** What the other proofs need of networks. `EnabledAt` is a
recursive function over the input, and the prover has no induction over data; but
a set of naturals has a least element (`Least`), and a set with zero that is
closed under successor has them all (`Induction`), both stated for a set instead
of a predicate. From these the function exists and satisfies its equation
(`EnabledEquation`), so that what an engine has enabled and reported can be
compared with the network's run on a stream of any length (`RunOf`): it is so at
the start, every `Consume` of `EnableActiveNFA` keeps it (`RunGoesOn`), and at the
end the reports are `ReportsOf` (`RunEnds`). On copies: if a
network is made of copies of another's states (`IsCopyOf`), a symbol enables the copies
of what it enables in the other (`CopiesStep`) and the copies report (`CopiesReport`);
so on a stream of any length the two enable and report the same, up to copies
(`CopiesRun`). These follow from what a copy is; what the code makes are copies
in this sense by `GraphsStaySound`.

**ObatKernelProofs.** For any grid, block size, output array, alphabet, and any
networks of at most `BlockDim` states (`BlockDimAssumption`,
`CapacityAssumption`, `JobsAssumption`; the last is what
`check_grouped_nfa_sizes` enforces):

- `Invariance`: `Spec => []IInv`.
- `RaceFreedom`: while a thread has a store into a state's next cell to make, the
  owner of the cell neither promotes nor clears it.
- `SlotsAreExclusive`: slots handed out belong to one thread each, over all blocks.
- `ReportsAreKept`: a step never overwrites a stored report.
- `Refinement`: `Spec => Implements`: both kernels are `EnableActiveNFA` under
  the mapping above, for every interleaving; for obat_MC by
  `PackedTestIsMembership`.
- `ReportsAreExact`: when the kernel has ended, the tail is the number of reports of
  all networks on their streams, and the file, if it is printed, lists exactly
  these.

None of the properties is inductive. `NoRace` needs that the threads of a block
are between the same barriers (`Lockstep`). The refinement also needs that, when
the barrier after the match phase opens, the next array holds exactly the
successors of the firing states. `NextArray` says so for every moment of the
phase: a cell is set if and only if some firing thread has stored that edge.
`ThreadLocal` ties each thread's registers to its cells, and is what makes
`NextArray` survive `Clear` and `Promote`. `ClaimsSoFar` says the same of the
reports, and `Slots` relates tail, claims, array and the threads that hold a slot.
For `ReportsAreExact`, `Ledger` says that a report is claimed once and its slot
filled for it, and `Endings` that a block leaves at the end of its stream; the
set of claims is then the reports of `RunOf`, and the tail their number.
`IInv` is the conjunction of these with `TypeOK`; obat_block checks it in TLC. The proof
has a lemma per conjunct, each with a step per action, then one per step of the
refinement: the barrier `Sync1` is `Consume`, every other step a stutter.

**HotStartProofs.** For any networks, streams, block size and queue length
(`BlockDimAssumption`, `QueueSizeAssumption`, `JobsAssumption`; the last bounds a
network by what the table's entries or its edges of 16 bits can name), for all
kernels at once:

- `QueueNeverOverrun`: `Spec => []QueueInv`.
- `Refinement`: `Spec /\ AllRoomy => Implements`.
- `ReportsAreExact`: `Spec /\ AllRoomy => []ReportsExact`.

`AllRoomy` is about the job only: the queue has a cell for each cold state of a
group, or the kernel asserts that a cell exists (`Roomy`). `hotstart_ea_kernel`
does neither, and with a shorter queue it writes past its end; `QueueInv` has the
premise inside.

`QueueInv` is not inductive: it looks at the queue that is run, and that is the
one filled during the symbol before. `IInv` follows a block through its barriers
(`Lockstep`, `Phase`). Between the symbol's barriers `NextSound` says of the next
queue that each state in it, stored or still held by a thread, has its bit in the
set and is there once; `Dedup` keeps this because it tests and sets the bit in one
step. At the last barrier it becomes `QueueSound` of the queue that is run, in the
table kernel because every thread has copied the cells that are its own
(`ThreadInv`). That a queue is not overrun is then a count: claimed cells have
different cold states, so the tail never passes the number of cold states
(`SlotFits`).

The refinement needs that when the barrier after the stages opens, the next queue
and the cells have all that the symbol enables and nothing else (`AtStageEnd`). `Stage`
says so for every moment of the stages. The states to run are shared out: thread i
has hot state i and every cell of the queue whose index is i modulo the block
size (`Share`); `Done` says that what a thread has no longer before it is handled,
`AtWork` what the state it is at still needs, `OnlyWanted` that nothing is
marked, enabled or reported that no firing state wants, and `Kept` that a state
with its bit is in the queue or held by a thread that is about to store it; `Once`
that a report is claimed once. `Cleared` carries over that bits and cells are clear when
the stages begin, and `StageSymbol` that what fires, with the hot states as
each kernel takes them, is a step of the network. The barrier after the stages is
then `Consume`; at every other step the queue and the cells only change hands
(`ThreadStutters`, `BarrierStutters`).

`ReportsAreExact` follows as in ObatKernel. Its last part compares the network given to
the kernel with the one read. A network and its copies print the same lines
(`CopiesLines`, from `CopiesRun`), and so do two networks that differ in edges to states
that are always enabled, or in a state that nothing enables (`AlikeLines`). With the
table, the new starts enable at every symbol what they start (`FakeStarts`), and
with both `TablePrintsMeant` goes from the network with split new starts back to
the one read. `JobsAssumption` also says that the starts are shared out to components
(`AreStartsByComponent`) and that the network given has copies of all states, with at
most four edges each.

**Ppopp12Proofs.** For every set of networks and streams, block size, number of slots
and capacity, both kernels, and any slots in which incompatible states differ
(`SlotsFor`):

- `SlotsAreIncompatible`: `Spec => []ActiveIncompatible`.
- `Refinement`: `Spec => Implements`.
- `ReportsAreExact`: `Spec => []ReportsExact`.

`ActiveIncompatible` says nothing of a symbol in progress, when the next array is half
filled and threads hold states they have yet to store; it does not carry over a step.
`IInv`, which TLC was first asked to check on the instance of the run, follows a block
through its five phases, between which all its threads are at a barrier (`Control`). A
slot belongs to the thread whose number it has modulo the block size, and `Through`
says that this thread has had it in the phase: then it is loaded (`LoadInv`), cleared
(`ClearInv`), its state's targets are in their slots of the next array
(`TransitInv`), it has reported (`OutputInv`), or it is moved (`SwapInv`). A thread
that stores has its targets either still to store or in their slots (`Storing`), and
every symbol of the chunk that the others need has been read (`HasRead`). The one step
that could undo another thread's is `Store`: a state stored over one that the symbol
has woken has its slot, both come from active states that are pairwise incompatible,
the matrix is closed, so they are incompatible too (`SaneStep`), and then they are the
same state (`NextKept`). When the barrier after the reports opens, the next array holds
what the symbol has woken and the matches of this position are its reports
(`OutputDone`); `WholeStep` says that this is what the symbol does to the network
read, without clones and before splitting, and so that barrier is `Consume` and every
other step a stutter. It needs that a split state is active in all its copies or in none,
as then what its copies lead to is what the state led to: that is `WholeInv`,
which only the barrier has to restore.
`ReportsAreExact` follows with `RunGoesOn` and `RunEnds`; the matches are counted as they
are made, one for each copy of the state (`Accounts`, `CopiesOf`), and the copies of a
state write the same line (`NamesOfCopies`).

What it takes from the analysis is that the matrix is closed and the slots tell its
pairs apart, the assumption `SlotsFor`; `AnalysisGivesSlots` (below) is the theorem that
calc_incompatible_states and MyGraph1 together provide just that.

**NetworkProofs** on clones: `ClonesFacts` says that the clones stand for the start
states one by one, by counting the starts below one (`Ranks`). On packed nodes:
`PackedTestIsMembership`: for any number of symbols, any set
and any symbol, the test of the packed node is membership. A set with one run is
that run (`OneRun`, from `InARun`: every member is in some run), and the inclusive
end of a run fits in the bits although the end itself may not. On edges: `OrderRanks`
says that a finite table in the order of its rows has one row at each place, by
counting the rows before one.

**InfantProofs.** For every set of networks and streams, block size, word width and
capacity, whatever the interleaving (`BlockDimAssumption`, `WordBitsAssumption`,
`CapacityAssumption`, `JobsAssumption`, and `GridAssumption`: groups and streams are
finite, as they index vectors of the host, so that their reports can be counted):

- `Types`: `Spec => []TypeOK`; its last part is that the match array, which the
  kernel indexes with the old count, is never overrun.
- `Refinement`: `Spec => Implements`: the vectors move as one step of
  `EnableActiveNFA` on the network without clones.
- `ReportsAreLate`: `Spec => []ReportsLate`.

None of the three is inductive: what the vectors hold matters only between the
barriers. `IInv`, which TLC was first asked to check on the instance of the run, has the
threads of a block at one symbol and one phase (`Control`, `Positions`), the vector that
is read sound (`Sane`), and for each loop what it has done so far. A word, a transition or
a state belongs to the thread whose number it has modulo the block size (`Owner`), and
`Through` says that this thread has had it in this loop: then the word is loaded or
cleared (`LoadInv`, `ClearInv`), the transition has fired (`TransitInv`), the state has
reported (`OutputInv`), the all-input start is set (`AlwaysInv`); and nothing else has
been. When a barrier opens all items are through, and the next loop's conjunct follows
from the last one's (`Sync0Keeps` to `Sync5Keeps`). Two things make that so.
`TransitionFacts`: the table of a symbol has every transition once, so that the places
below its length are all of it; and `VectorFacts`: the vectors are as long as the largest
network needs, so that no state falls outside the words that are loaded and cleared.
That threads of different words do not undo each other is `WordsApart`.

In the refinement the last barrier (`Sync5`) is `Consume` (`BarrierConsumes`): by the
lemmas on clones that Ppopp12's proof uses, what the transitions and the all-input
starts have set is what the symbol activates without them. Every other step is a stutter,
`Output` too: the report it stores was waiting since the symbol before (`Made`,
`Waiting`). For `ReportsAreLate`, `Accounts` counts every match once. When the threads
are done the reports that still wait are those of the last symbol, and the matches are
all the others (`DoneMatches`), by `RunGoesOn` and `RunEnds`; when the kernel traps, the
array is full of late reports and one more was found (`Trap`), so they do not fit.

**CompatibleGroupsProofs.** The two analyses, and the two together. Of
`calc_incompatible_states`:

- `Invariance`: the matrix is symmetric, has the initial pairs, and each pair in it is
  queued or worked off. From it `ClosedWhenDone`: when the queue is empty the matrix is
  closed, for every component and alphabet.
- `ActivateTogether`: if the states active before a symbol are pairwise in a closed
  matrix, so are those active after it. `ActiveTogether` is the induction on the length
  of the input: in a closed matrix any two states that any input activates at one place
  are a pair, and so `TogetherAreIncompatible`. This is the property the kernel of
  PPoPP12 relies on; TLC checks it for inputs up to `InputBound`.

Of MyGraph1, for every graph, whatever the loop that erases from its own vector leaves
in it:

- `GroupsAreIndependent`: two states with one number are compatible. The proof uses
  only that a node is put back after the test: numbers in use are below `n_set`, and
  the set being put back together is independent.
- `RoundsShareOut`: `RoundInv`. The invariant `RInv` adds what the range-for meets
  (`Vector`): the elements of `removed_nodes` are all different, and every other
  value in its memory is of a node already in the set, so that a stale element
  changes nothing. A round's first turn always puts a node back, as one node alone
  is independent; hence no set is empty, though a round may drop all its nodes, and
  the numbers are dense. The degrees are exact from the beginning of a round
  (`Degrees`), each drop takes an edge off each neighbour's, and so a set that is
  not independent has a pair with degrees above zero for `pick_edge`.

Of the two together, which no run joins:

- `MatrixIsAGraph`: the matrix of the analysis, when its queue is empty, is a graph as
  MyGraph1 takes it.
- `AnalysisGivesSlots`: if the rounds are run on that graph, the numbers they give are
  slots as the kernel assumes them (`SlotsFor`).
- `NoTwoInOneGroup`: so no input of any length activates two different states of one
  group at the same place.

**NetworkPreparationProofs.** For every network read, every limit of at least two on
the out-degrees, every size of a block and each of the three packings, whatever order the
components are packed in; that a limit is at least two is the assumption the code needs
and every caller meets.

- `GraphsStaySound`: in every graph the two lists of an edge agree, and the graph is
  made of copies of states of the network read.
- `BlocksFit`: no network is left with a state over the limit, and its components
  fit in a block together.
- `EachPackedOnce`: each component not deleted is in one group, once, and no state
  is missing but those deleted.
- `ReportsSurvivePreparation`: so the blocks together report on every input what the
  network read reports, but for the states of deleted components.

The program is loops in loops, and what each of them leaves is proved first. A loop of
the code is `Loop`, whose intermediate values a recursive function has by number. A
function like that exists because there is no least number where it stops to exist
(`Least`), and what holds of all its values follows in the same way (`UpTo`): so
induction on numbers needs no theorem that takes an operator. `...Loop` lemmas say for
each loop that there are values with the right beginning and the right steps, and nothing
else is used of it. From them, in the order of the module:

- lists and maps: what `addNode`, `addEdge` and `remove_node_unsafe` leave of a graph
  whose two lists agree (`Listed`), as a set of edges;
- a split: the copies made so far share the successors so far out among them and have
  all the edges into the state (`IsSplit`); a chunk of the list is a quotient of
  the place (`Chunks`). The new string ids are not in use, because no id of a component
  begins with another one (`PrefixFree`), which is the reason why `_dup_` can be
  strung together again and again. `SplitFaithful` is the result: the component stays
  `Faithful`, with the same originals;
- the components: connected states closed under edges both ways (`ConnectedHas`),
  sets that are equal or disjoint (`ConnectedMeet`), so that the graphs split from
  them share no state and miss none (`ComponentsHave`);
- merging: graphs that share no original share no string id, so the merged graph is
  their union, with numbers that continue (`MergedHas`);
- packing: `Packs` says that the first components are in the groups, in one place
  each, and nothing else is; a component joins a group (`JoinSpots`) or starts one
  (`OpenSpots`), and an empty group that is closed packs nothing (`EmptySpots`).

`PrepInv` holds these together, phase by phase: while limiting, the components before
`cc_id` are kept or deleted (`Limited`); while packing, those before it are in
groups that fit (`Packed`); from the merge on, the networks are faithful and enable the
copies of what the network read has enabled (`EnabledAreCopies`). There is a lemma per
action. `CopiesStep` and `CopiesReport` then lift the relation to inputs of any length.

**FpgaLoaderProofs.** For every file, chunk size, overlap that is a multiple of four,
number of cores and expressions:

- `SplitterCovers`: a match of at most one byte more than the overlap is whole in
  a chunk file, or the chunks are no longer than the overlap. The invariant says
  that everything up to the end of the chunk read last is covered, and where that
  chunk begins.
- `SeekingFails`: the script fails if and only if the first chunk is shorter than
  the overlap.
- `MatchesAreReal`: a chunk is counted only if the expression matches in it.
- `MissedMatchesEscape`: what is missed is what `Escapes` names.

`LoaderInv` holds them together. `WordsOfChunk`: the words that are searched are words
of the chunk in hand, because what a longer chunk left lies behind those that were
cleared (`SearchedPast < ClearedPast`); so nothing can be found that is not there.
`Slices`: a core that was given its slice has every word of it but perhaps the last
(`Loaded`), and all slices but the first begin where the count says, or the chunk
has ended. A match that does not escape is then in the slice of the core whose
number is a quotient of its position (`SomeCore`). `Answers` ties what the
host has read to what the cores found, and `Counts` the counts to the number
of chunks with a match.

**Model-checked only.** Liveness (out of the prover's reach), of which `Ends` of
NetworkPreparation is one; the properties of `Translator`, which has recursive operators.

## 6. Where code and comments disagree

Each has a run that ends in a violation.

- **obat_overflow.** The kernel takes a slot from the tail and
  stores without comparing it with the length of the output array; the host
  then reads every index below the tail through `Array2::get`, which says
  `assert(idx >= 0 && idx < size());` (`G/include/gpunfautils/array2.h:81`). Nothing in the build
  defines `NDEBUG`, so a run with more reports than `output_buffer_size` aborts,
  after the device has written past the array. HotStart's and PPoPP12's kernels do
  the same; iNFAnt has the comparison.
- **hotstart_enabled.** The comment before the hot stage says "If the node is not
  always enabled, we need to add another condition" (line 563); the condition is
  not there, and `group_nfas_by_hotcold` makes start-of-data states hot.

What the properties leave out says where else the code does less than one might
expect; nothing in the repository claims otherwise, so these have no run:

- `RegexExact` is about networks without cycles and without start states that
  others activate, and `EliminationKeepsLanguage` about steps for which `Careful`
  holds. Elsewhere the expression may denote other words: `loopLabel` keeps the
  label of the state with a loop that went before (237), a label beside a loop is
  not parenthesised (519), and an empty label gives way to a parallel one (627).
- `MissedOnlyThere` names what the cores miss (`Escapes`): a match longer than what
  two slices share, one in the last word of a chunk, which may be cleared by the
  data register (292), and one on the border of two cores after the second, since
  `data_counter` goes on as if nothing had been read twice (288).
- `SeeksInFile`: the loader fails on files or chunks shorter than the overlap.

## 7. What is abstracted

- Symbol tests are membership in the state's symbol set, but for HotStart and
  obat_MC, whose packed test is modelled. Edge words are sets of successors; the networks
  HotStart's and PPoPP12's kernels are given have at most four per state. Streams all
  have one length.
- `report_on` is taken as set: without it nothing is stored. In HotStart,
  Infant and Ppopp12 a report's slot and its store are one step, and the array is
  the set of its entries; ObatKernel has the two steps apart and shows what the
  other engines share with it.
- Shared memory is not initialised: Infant, HotStart and Ppopp12 start with it
  all clear or all set.
- A store past the output array is modelled as leaving the array as it was; what
  it hits is not modelled.
- The report file is a set of lines (offset, original id), as `print_to_file`
  leaves after sorting and removing duplicates; streams are not distinguished there.
- `hotstart_ea_kernel_without_MC2` and `hotstart_ea_kernel` differ in the symbol test
  only. `BlockDim` is at least 2, since thread 1 swaps the queues.
- `is_residual_independent_set` counts connected components; the model takes the
  meaning, no edge between the nodes.
- Preparation: the limit is at least 2 (all callers pass 4); which states besides
  the starts are hot is left open, and so is the number of compatible groups of a
  component; `order_nfa_intid_by_hotcold`, which renumbers, and packing by an
  activation file are left out. Preparation and kernels are joined by what the
  kernels assume of a network, not run together.
- Translator: the branch for texts of 2^30 characters is left out; automata are
  those the readers make, a start first and connected. Of an MNRL file the reporting
  elements are those that activate nothing, as the reader makes no other an end
  state; the ends the ANML reader makes at an "or" are left out. Weights
  are at most 1,000,000: a heavier state would come after "end" in the weight order.
- Loader: the splitter writes `.dat` files and the loader reads `.txt` files; the
  conversion between them is not in the repository and taken to keep the content.
  The addresses that are cleared and those that are searched are taken to count
  the same words. Whether the last word is cleared when the data register is
  zeroed before write enable is left open. An expression is the set of places where
  it matches.

## 8. Not modelled

- **Kernels that only read the input** (957-1010), and those that `main.cu` never
  reaches (10-84, 1012-2033).
- **Compatible groups from files or maximal independent sets**: `ppopp12.cu` does not
  call them.
- **Input streams**: `SymbolStream` and `main.cu` cut the input into segments; the
  symbols after the last full one are dropped. The engines take streams as
  parameters, and what a segment should promise is written nowhere.
- **Readers, GUI and statistics of the parser and of the GPU code**: input and output.
- **Drivers and scripts** (`hs_test.cpp`, `re2_test.cpp`, `grep_test.py`, `gpu_test.py`,
  `validation.py`, `anml_splitter.py`, `pcre2anml`, `G/scripts`): loops around calls
  of other programs, and text processing without state.
- **Vendored libraries** (pugixml, moderngpu, clara): three fifths of the
  implementation's lines, and the reason why the share of lines the map covers
  stays small.

## 9. Plan

Done: every engine that `main.cu` can start, with their preparation and analyses,
the translator, the splitter and the loader. Worth doing next, in order:

1. That the limiting ends: a measure that every split lowers, or a network on which the
   bound on the number of splits is what ends it.
2. The segments of the input, and the counts of the drivers that `validation.py`
   compares.
