# SoomRV in TLA+

Specifications, model-checking configurations and proofs for SoomRV, a
superscalar out-of-order RISC-V core written in SystemVerilog (`src/src/*.sv`),
and for its simulator, a C++ program (`src/sim/`) that runs the translated core
next to a reference model and compares the two. `docs/Overview.md` describes the
pipeline; the specifications are translated from the source.

There are four models, each with its own composition:

* `RenameCommit`: rename, reorder buffer, redirects, without data (section 2);
* `StoreDrain`: committed stores on their way to memory;
* `CoSim`: the core of `RenameCommit` executing programs, an in-order machine it
  implements, and the testbench that watches it;
* `Simulator` with `Fuzzer`, and `Wires`: the process around all of that, and how it
  reads the wires of the core.

One step of a specification of hardware is one clock cycle. A nonblocking assignment is a
primed variable, an `always_comb` block is an operator, an output register of
one module that is an input of another is a shared variable. One step of
`Simulator` is one half cycle of the clock, or one step of what happens between two.

## 1. Inventory

### The pipeline

    IFetch -> BranchHandler/InstrAligner -> InstrDecoder -> Rename -> IssueQueue
      -> Load (operands) -> IntALU / AGU / Multiply / Divide / FPU / CSR -> ROB -> TrapHandler

    AGU -> LoadBuffer, StoreQueue -> StoreQueueBackend -> LoadStoreUnit <-> CacheLineManager
                                                             <-> MemoryController <-> AXI
    PageWalker <-> TLB, TLBMissQueue, LoadStoreUnit

Everything that a wrong guess may cancel carries a sequence number, `sqN`. A
redirect (`BranchProv`) is broadcast to all units in one cycle, and each drops
what is younger by comparing with `$signed(sqN - branch.sqN)`. Nothing waits for
an acknowledgement of a redirect, so every unit has to get the same cycle right
on its own; most of what can go wrong in this design is in those cycles.

### Components

| Component | State | Operations | What makes it correct |
|---|---|---|---|
| Rename (`Rename.sv`) | `counterSqN`, `counterLoadSqN`, `counterStoreSqN`, `failSc`, output registers | take up to `DEC_WIDTH` uops, stall, redirect | sequence numbers are consecutive and fit the ROB; load/store numbers agree with the ROB |
| RenameTable | `comTag`, `specTag`, `tagAvail` | lookup, issue, write-back, commit, replay, redirect | the speculative map is what program order says; an operand is available iff it was produced |
| TagBuffer | `free`, `freeCom`, `mispredWait`, ready registers | refill, use, commit, replay, redirect | every physical register has exactly one owner |
| ROB | entries, flags, `baseIndex`, `lastIndex`, replay iterator, recovered load/store numbers | enqueue, complete, commit, trap, time out, replay | in-order precise commit, never overflows, replay ends |
| BranchSelector | redirect register | arbitrate | no mispredict is forgotten |
| TrapHandler | fence state, PC lookup | redirect on traps and flushes | precise restart point |
| IssueQueue, StoreDataIQ | queue of waiting uops | enqueue, wake, issue, squash | no lost or early wakeup; in-order CSR and SC |
| IntALU, AGU, Multiply, Divide, FPU, CSR | pipeline registers | execute | squashed uops have no effect |
| LoadBuffer | loads in flight, reservation | enter, conflict check, LR/SC | memory order violations are found; SC succeeds only with a reservation |
| StoreQueue | stores in flight | address, data, forward, commit, flush | committed stores drain in order, the others vanish |
| StoreQueueBackend | eviction entries with nonces | fuse, issue, re-issue, acknowledge | no committed byte is lost or goes backwards |
| LoadStoreUnit, LoadResultBuffer, BypassLSU | cache pipeline, miss queue | load, store, miss, forward | a load returns the newest older store's data |
| CacheLineManager, MemoryController | tags, dirty bits, transfers | miss, evict, flush | a line has one owner; dirty data is written back |
| IFetch, IFetchPipeline, BranchHandler | fetch PC, fetch ID, interrupt state | fetch, fault, interrupt, wait | fetch IDs of live instructions are distinct; an interrupt is injected once |
| ReturnStack, BranchPredictor, BTB, TAGE | predictions and recovery queues | predict, recover, update | recovery restores the stack (performance only) |
| PageWalker, TLB, TLBMissQueue | walk state, waiting uops | walk, refill, retry | a waiting uop is not lost; a walk answers its requester |
| CSR | privilege and trap state | read, write, trap, return | trap stack discipline |
| SoC, buses, peripherals, utility circuits, hardfloat | | | not part of the core's logic |
| Testbench (`Top_tb.cpp`, `Registers.hpp`, `Simif.cpp`) | copies of the instructions in `pd`, `de` and by `sqN`, results by tag, tags committed in this cycle, reference model | look at the wires once per cycle, step and compare the reference, back up and restore | it reports an error only if the core is wrong; its copies follow the core |
| Wire layouts (`slang.hpp`, `sc_stub.hpp`) | positions and widths of fields | take a struct apart | what is read is what the core drives |
| Simulator process (`Top_tb.cpp`, `TopWrapper.hpp`) | time, clock, last `minstret`, backup files | run, reset, check for a hang, back up, restore, end | hangs are found, and only hangs; a restarted simulation goes on where it was |
| Fuzzer (`Fuzzer.hpp`) | test case, memory | load, mutate, unpack, run | every run executes the program it is meant to |
| Reference models of the predictors, program loading, test programs | | | compare performance features, or pure I/O |

`PROJECT.json` lists each of them with its status, and the hazards: places where
several things may happen in one cycle, where state is one cycle old when it is
used, where a number wraps or a queue is full.

### The hard behaviours of the core

* **Redirect, then replay.** Rename keeps no checkpoints. On a redirect
  `specTag` and `free` fall back to the committed state, and the ROB replays the
  uops between `baseIndex` and the redirect through its *commit* port to bring
  them back (`mispredFlush` tells the rename structures not to take this for a
  commit). In the cycle of the redirect the ROB may still present a real commit;
  a second redirect may arrive during the replay; rename must not use a free
  register before the survivors have claimed theirs (`mispredWait`).
* **Write-back in the rename cycle.** Results are broadcast once. A consumer that
  is in the lookup stage, or between rename and its queue, has to see the
  broadcast of just that cycle.
* **Two commits of one register in one cycle**, two writers of one register
  renamed in one cycle, a reader behind them in the same cycle.
* **Competing redirects.** Two integer ports, the load buffer and the trap
  handler may all redirect in one cycle; only one is distributed.
* **Load and store numbers** are assigned at rename, recovered by the ROB from
  the instruction stream at commit, and handed back on a trap.
* **Stores after commit.** A committed store may be fused with its neighbour, merged
  into an entry whose earlier version is in the cache pipeline, refused, and answered
  late or negatively; entries are issued in another order than the stores were
  committed in. Loads read through all of it.
* **Forced exit.** A uop that does not finish for 65536 cycles is committed as a
  trap although it has not executed.

### The hard behaviours of the simulator

* **Two clocks of observation.** The testbench looks after the rising edge: registers
  already have their new values, the wires belong to the cycle that begins. Several
  instructions commit in one cycle, but `comTag` changes for all of them with the next
  edge; each comparison has to see the commits on lower ports and none on higher ones.
* **Copies by sequence number.** A sequence number is used again after a redirect,
  while the commits of the same cycle still refer to older instructions.
* **Interrupts** replace a fake instruction, or come together with a CSR write; the
  reference has no interrupts of its own and takes those of the core at the right place.
* **Backups** are two files written in place, while the process may be killed at any time.
* **Hang detection** compares `minstret` at fixed times, among sleep, restarts and an
  interval that reset makes shorter.
* **A generated layout**: the header holds the positions of one configuration of the core.

## 2. Modules

    SqN                arithmetic of sequence numbers
      Include          shared types and sizes
        RenameTable    alias table
          TagBuffer    free list
            Rename     rename
        ROB            reorder buffer
    RenameCommit       Rename + ROB + BranchSelector + redirects of TrapHandler,
                       LoadBuffer, IntALU + an abstract back end; the properties
    MCRenameCommit     instances for TLC
    RenameCommitProofs, FreeListProofs, RenameMapProofs    proofs

    StoreTypes         stores, blocks of bytes, memory
      OrderedMemory    abstract: committed stores take effect in order
      StoreQueueBackend
        StorePipeline  store pipeline of LoadStoreUnit
          StoreDrain   output ports of StoreQueue + StoreQueueBackend + StorePipeline
                       + memoryWait of TrapHandler; the properties
    MCStoreDrain       instances for TLC
    NatProofs, StoreDrainProofs    proofs (RenameCommitProofs uses NatProofs, too)

    ISA                instructions, one at a time
      InOrder          abstract: a machine that executes a program in order
      CoreExec         RenameCommit + fetch, decode, register file, results, branch
                       outcomes, redirect targets, minstret
        CoSim          CoreExec + reference model + testbench; the properties
    MCCoSim            instances for TLC
    CoSimProofs        proofs (on top of RenameMapProofs)

    BitVector          words and ranges of sc_stub.hpp
      Structs          layout of slang.hpp
        Wires          the core drives wires (PackedStructs), the testbench takes them apart
    PackedStructs      layout of Include.sv
    MCWires            instances for TLC
    WiresProofs        proofs (on top of NatProofs)

    Fuzzer             test cases and memory
      Simulator        the process; the properties
    MCSimulator        instances for TLC
    SimulatorProofs    proofs

A module declares the variables of the unit it models and operators for one
clock edge of it (`RATClock`, `TBClock`, `RNAccept`/`RNIdle`/`RNRedirect`,
`ROBReplay`/`ROBStop`/`ROBCommit`); they take the values on the unit's input
wires as parameters. `RenameCommit` connects them as `Core.sv` does and
distinguishes four kinds of cycle: redirect, replay, the cycle after a trap, and
normal operation. Because everything happens on one clock edge, `Cycle` is the
conjunction of what the back end, the redirect network, rename and the ROB do.

### Correspondence

| TLA+ | SystemVerilog |
|---|---|
| `SqNs`, `Plus`, `Minus`, `Diff` | `SqN`, `+`, `-`, `$signed(a - b)` on `ROB_SIZE_EXP + 1` bits |
| `Tag`, `TAG_ZERO` | `Tag`; the tags with the top bit set are immediates, 0 and 1 here |
| `issueTag[i] = NoTag` | `!OUT_issueTagsValid[i]` |
| `rnUOp` | `OUT_uop` of Rename with `valid` (one cycle) |
| `comUOp`, `trapUOp`, `mispredFlush` | the output registers of ROB |
| `Replaying(branch)` | `misprReplay_c` |
| `backend[k]` | what issue queues and units know of the uop in ROB slot `k`: operand tag and availability, destination, load/store number |
| `branch` | `OUT_branch` of BranchSelector |
| `intRes`, `memRes` | ghosts: uops whose redirect was raised in the last cycle. The first also says which branches write back now (`OUT_uop` of IntALU is one cycle behind `OUT_branch`) |

In the store path one step is also one clock cycle:

| TLA+ | SystemVerilog |
|---|---|
| `sqOut` | `OUT_uop` of StoreQueue, the valid ones, oldest first |
| `fusedUOp_r`, `evicted`, `stAck_r` | the registers of that name; `uopSt` is `OUT_uopSt` |
| `bytes` | `data` and `wmask` together: `NoByte` where the mask is 0 |
| `block`, `word` | `addr[31:4]`, `addr[3:2]` with the AXI width of 128 |
| `stOps[1]`, `stOps[2]` | `stOps[0]`, `stOps[1]` of LoadStoreUnit |
| `stStall`, `hit` | `OUT_stStall`, and `storeWriteToCache` or a miss the miss queue takes |
| `LookupThrough(cache)` | what `OUT_fwd` laid over the cache data gives a load; all words of a block at once |
| `memoryWait` | the register of TrapHandler |

In the simulator:

| TLA+ | C++ |
|---|---|
| `tbPd`, `tbDe`, `insts`, `phyRF` | `state.pd`, `state.de`, `state.insts`, `state.phyRF` |
| `spike` | the registers, pc, `minstret` and reservation of `simif.processor` |
| `ovr` in `LogCommit` | `registers.regTagOverride`, which `LogCycle` empties |
| `err` | the number `cosim_instr` returns, without the sign |
| `ExecCycle`, then `LogInstructions` | the rising edge in `HalfCycle`, then `LogInstructions()` |
| `de`, `rnInstr`, `slot` | what `DE_uop`, `RN_uop` and the ROB know of an instruction: its address (in the code, fetch ID and offset into the PC file) and the predicted next one |
| `mainTime`, `clk`, `restoreSave`, `lastMInstret` | the variables of that name; `args.restoreSave` |
| `at` | where `run_sim` is: `"loop"`, between the steps of `Save` (`"save"`, `"model"`, `"cosim"`, `"state"`), in the loop behind (`"drain"`), ended |
| `modelFile`, `cosimFile` | the two files; `full = FALSE` if missing, empty or partial, with which `Restore` aborts |
| a path such as `<<"bpi", "taken">>` | a field of a struct in a struct |

### What is abstracted

In the store path the cache is its contents: whether a store hits is free in every
cycle (`hit`), which covers misses, transfers in flight, evictions and a busy cache bank.
Only the store that wrote is visible in `cache`, and lines do not lose data on eviction;
that is the cache line manager's business. Of the management operations clean and
flush are modelled (they write back), inval is not. An internal device is written when the
operation is offered, even in a cycle in which the load/store unit refuses it, and then once more
(`LoadStoreUnit.sv:299`, `145`); the model does the same. A load reads the cache and what the backend
forwards in one step; in the code it reads the cache when it is selected and looks up the backend one cycle later, so that what moves from
an entry to the cache in between is seen by one of them at least.

In the core:

* Data: no values, addresses or program counters. A uop has one destination and
  one register operand; the two lookups of `RenameTable` are the same circuit.
* The front end may present any uops (`DUOps`) or nothing in a cycle. Whether a
  branch was mispredicted is chosen when it is decoded (`mispred`) and found out
  when it executes.
* The back end may complete any set of up to `MaxWB` waiting uops whose operand is
  available, and any branch may redirect; which queue a uop is in, queue
  capacity and latencies only restrict this. `Rename.OUT_stall` includes the
  queues' stalls: rename may idle at any time. `SQ_flush`, `IN_stComLimit` and
  `IN_ldComLimit` are covered the same way: the ROB may commit fewer uops than it
  could.
* A store is in conflict with a younger load whenever there is one (`YoungerLoad`),
  a store-conditional may always lose its reservation.
* The uop that the hang detection forced out is dropped by the back end. In the code
  it stays in its issue queue, because only uops *younger* than the redirect are
  squashed; this is hazard `IssueQueue.sv:225`, left to the issue queue's own
  module.
* The `FLAGS_NX` pseudo trap the ROB sends while it cannot commit only looks up a PC
  for debugging and is left out. FP flags, predictor updates and performance
  counters are left out. `FLAGS_FENCE`, `FLAGS_ORDERING` and `FLAGS_XRET` are one
  flag: commit and the redirect treat them alike.
* Wakeup at issue. In the model an operand becomes available when its producer reports its result
  (`WrittenBack`). The issue queues set the bit earlier when the producer's latency is known
  (`IssueQueue.sv:97-109`, `208`): as it is issued for INT, BRANCH and BITMANIP, a cycle later for FPU and FMUL. What the model
  keeps of it is when a uop may *report*: a consumer that is woken at issue is issued at least one cycle after its
  producer, so it reports its result at least one cycle after it, as in the model. One thing is earlier in the code: a branch that is
  issued right behind its producer raises its redirect in the cycle in which the producer reports, in the model in the next one.
* The ports by which an address unit reports an exception (`Core.sv:593`) lead to the ROB alone; rename and the issue queues
  do not see them (`Core.sv:161`, `204`). So `WrittenBack` leaves out the reports of faults.
* A uop that faults at decode keeps the destination x0. In the code its `rd` is overwritten by the cause (`Rename.sv:355-359`), and
  the ROB masks that when it replays the uop (`ROB.sv:258`); the masking is in `ReplayedUOp`, but this model never needs it.
* An atomic reports twice, from its address half and its integer half (`Reports`), and its address is checked with the first report.
  AMOSWAP, which has no integer half and reports once (`AGU.sv:186`), is left out.

In `CoreExec` and `CoSim`:

* An instruction of `ISA` stands for each way through the core: computed, executed by
  rename as an immediate, conditional and indirect branch, counter, load-reserved and store-conditional,
  flush after the instruction, exception in execution, exception in decode. Memory
  is not there: a load finds 0, a store-conditional succeeds if the reference has a
  reservation and the core's reports no failure.
* A program may run into any prediction, also a wrong one for an instruction behind a
  branch, and fetch delivers any number of instructions in a cycle. Fetch and
  decode take one cycle instead of several.
* An interrupt may come at any fetch, and with any CSR write. One cause, one handler, at address 0 as after
  reset; no delegation, no privilege levels, so XRET is like a CSR write.
* Counters other than `minstret` read anything, and the reference takes the value over. The reference has
  an address, registers, `minstret` and the reservation.
* `minstret` is only counted, never written (in `Simulator` it may be), so error 6 is a real check.
* Errors -2 (instruction bits), -3 (unused in the code) and -5 (predictor models) are left out; with them
  the console, Konata and performance output.

In `Simulator` a cycle of the core is free: it retires an instruction or not, sleeps, halts, or is stuck
for ever; `WFI` wakes up at any time up to `WFI_DELAY`. Retiring several instructions in a cycle changes
nothing the loop sees. A program may write `minstret` or stop it (`tampered`). The files hold what is needed to
continue: time, clock and core, and the count of logged cycles.

## 3. Runs

| Run | Instance | Checks | States |
|---|---|---|---|
| Wide | width 2, ROB 4, 1 register, 4 tags; computations end well or ask for a flush, time-outs are the exception | the safety invariants below | 215 300 |
| Mem | width 1, ROB 4, all memory uops and faults | load/store numbers, arbitration, wakeups of uops that fault | 233 505 |
| Live | width 1, ROB 3 | recovery ends | 77 740 |
| Cbo | width 1, illegal cache management | shows finding 1 | |
| Mask | 1 entry, 2 ports, stores of 1 and 2 bytes | `ImplementsOrderedMemory`, `NonceNamesVersion` | 125 776 |
| Device | 2 entries, an external device and memory | device stores | 96 512 |
| Fence | 2 entries, 2 blocks, fences | `OneEntryPerBlock`, `IdleMeansDone`, `FenceEnds` | 23 418 |
| Clean, Flush | a store and a management operation | show findings 2 and 3 | |
| CoSim | 6 programs, width 2, ROB 4, 1 register besides x0, restarts | `ImplementsInOrder`, `NoCosimError`, `ShadowFollowsCore` | 198 962 |
| Wires | all structs that are read, the shipped configuration | `SeenIsDriven`, `NeverThrows` | 1 764 |
| Simulator | with backups, without, and as a fuzzer; one kill | hangs, backups, restart, fuzzing | 214 416 |

The properties, in `RenameCommit.tla`:

* `TagPartition`: every physical register is held exactly once, by a uop in
  flight, a commit under way, a rename port's ready register, the committed map
  or the free list. It catches a double allocation and a leak alike.
* `CommittedFreeList`: the list a flush falls back to is the complement of the
  committed map, in every cycle.
* `SpecMapRecovered`: after every recovery `specTag` maps each register to its newest
  surviving writer in program order.
* `SourceTagLive`: a waiting uop's operand still belongs to an older uop or the committed state.
* `WakeupSound`: while the result of a uop is missing, because it has not executed or has faulted, rename's
  table does not call its register available, and no uop that reads it can report a result or redirect.
* `WakeupComplete`: a waiting uop whose operand looks unavailable reads that of an older uop without result
  (no lost wakeup). Whoever reads a result that a fault has made impossible waits for the trap.
* `CommittedProduced`: the committed map only names values that were produced.
* `Window`: the ROB does not overflow, redirects stay inside it (nothing committed
  is squashed), a flush finds its uop as the last committed one, rename is held
  during a replay.
* `RedirectCovers`, `MispredictResolved`: arbitration never forgets a mispredict.
* `LsqSqNAgree`: the numbers rename gave to loads and stores are those the ROB
  recovers from the instruction stream.
* `RecoveryCompletes` (liveness): after every redirect there is a cycle in which rename may
  go on.

Those of the store path, in `StoreDrain.tla`:

* `ImplementsOrderedMemory` is a refinement: under the mapping `queue <- sqOut`,
  `mem <- LookupThrough(cache)`, every cycle is a step of `OrderedMemory`, in which the
  oldest stores of the queue take effect in order, or a stutter. So what a load reads
  never goes backwards, not even for the cycle in which an entry is released or an old
  version is written to the cache, and no store is lost.
* `NonceNamesVersion`: an operation in flight whose nonce is that of its entry carries the data
  of the entry, so that its answer may delete it.
* `OneEntryPerBlock`, which the lookup relies on; `IdleMeansDone`: when a fence sees
  memory idle nothing is in the pipeline, not even an outdated version.
* `DeviceStoresInOrder`: only the one device store in `evicted` is ever offered.
* `ExternalWrittenOnce`: all that an external device is offered is the oldest store taken from the queue that it was
  not yet written with (the ghost `owed` lists them), and when the backend is idle it has got all of them. So it gets each store exactly once, in
  program order, also if an operation is refused for many cycles or answered and issued again; a second write of a store
  that was written is an offer that is not at the head of `owed`. The mutant answers device stores like cached ones.
* `FenceEnds` (liveness): a fence does not wait for ever.
* `ValuePersists`, `FlushReachesMemory`: see the findings.

Those of the core with data and of the testbench, in `CoSim.tla`:

* `ImplementsInOrder` is a refinement: under the mapping `reg[r] <- rf[comTag[r]]` and `pc`, reservation as the
  last commit left them, every cycle is up to two instructions or interrupts of `InOrder`, or a stutter. A wrong
  wakeup, a register freed too early, a mispredict that is forgotten, a redirect to the wrong address, an instruction
  counted twice: all of them show here.
* `NoCosimError`: the testbench never reports an error for this core. Since the reference executes the program, it is
  also a second view of the core's correctness; what it adds is the testbench's own bookkeeping: overrides,
  interrupts, restarts, `minstret` in a cycle with several commits.
* `ShadowFollowsCore`: the copies by sequence number are those of the instructions in the ROB.

Of the wires, in `Wires.tla`: `SeenIsDriven`, what is read from a wire is what the core drives, for every field of every
struct; `NeverThrows`, no wire of the core makes a constructor of an enumeration throw.

Of the process, in `Simulator.tla`:

* `HangIsReal`: a reported hang means that nothing has retired for the whole interval while the core was
  awake, or that the program has changed `minstret`. `StuckIsFound` (liveness): a core that is stuck ends the loop,
  also after restarts.
* `InStep`: the testbench has logged every cycle of the core once, also after a restart, unless
  the process was killed between the two files of a backup.
  Without that condition TLC finds the mixed pair: README.md:41 ("To restart a crashed or closed Linux boot at the last
  checkpoint") depends on not being killed in this moment.
* `BackupAtLowClock`: a backup is made before a rising edge, which is what `SaveRestore` in `CoSim` relies on.
* `RunsLoadedCase`: a fuzzing run starts with the program that was loaded, whatever earlier runs left.

Each property of a passing run has a mutant in `PROJECT.json`: the model with one plausible
mistake (a lost same-cycle commit, a missing wait, a swapped comparison), for which TLC
finds the property violated. The mistakes are the operators marked "Fault" next
to the definition they replace.

### Bounds

* `ROBSize = 4`, `Width = 2`: the ROB holds three uops (the last slot is never used,
  `OUT_maxSqN`), so a replay takes up to two cycles, sequence numbers wrap in a
  few steps, and two full rename cycles do not fit, which exercises `SqNStall`.
  With `Width = 1` replays take up to three cycles.
* `NumTags = 4` with one register: fewer registers than could be in flight, so
  rename does stall, and freed registers are reused at once.
* `MaxWB = 1`: besides branch results at most one completion per cycle. More
  completions of one cycle commute, each touches its own slot and tag; two that
  matter together (a branch and a result) are possible.
* `ImmTag` has the immediates 0 and 1, the two that rename itself makes.

`MCView` identifies states that differ only in what is never read again (slots
outside the ROB, operands of completed uops) and in the rotation of the rings.
The second is sound because sequence numbers are only compared by `Diff` and
advanced by `Plus` and `Minus`, all of which commute with a rotation, and ROB
slots are addressed by their low bits. The run `Live` does not use a view.

In `CoSim`:

* `CoreExec` uses the bounds of `Wide`. Programs of two instructions in a loop keep the core full of
  copies of both; each program brings one of the ways an instruction can go, next to one
  that produces its operand or competes for its register.
* Two values, one register besides x0: a wrong value or a wrong owner of a tag shows in every second case.
* `MinstretMod = 4` is more than the instructions that can retire between two comparisons.
* `Backups`: programs without load-reserved and store-conditional, see the last section. In the others each store-conditional follows a
  load-reserved (`ReservesFirst`), since the core's side of the model does not keep the reservation.
* `CoView` rotates sequence numbers like `MCView`, and keeps of `minstret` only its difference to the reference's.

In `Wires` the constants are those of `Config.sv`, with which `slang.hpp` was generated. From an empty and a full struct, one field at a time takes
all, none and every other of its bits, or every enumerator: a field that reads a bit of another shows in one of
them. `IF_Instr`, `MemController_Req` and the two structs around `MemController_LdDataFwd` are left out (section 7).

In `Simulator` the interval between two hang checks is 8 half cycles, that of backups 16, and time wraps at
32, in the proportions of the code (multiples; `WFI_DELAY` and `RESET_DELAY` below the interval; the fuzzer's
time-out below it, too). One kill at any point and a restart, followed by further backups, is all that a mixed pair needs. Two fuzzing runs; memories of three halfwords, in which
instructions of both sizes fit in every order.

In the store path:

* One entry (`Mask`) makes every store meet the entry in all its phases, two
  (`Device`, `Fence`) make entries compete; further entries behave like the second. The
  mapping of blocks to entries is fully associative, so two blocks suffice.
* `NumNonces = 5`; the code has 8. An operation that is issued in the cycle in which
  its entry is merged is one version old from the start, and the entry can be merged three more
  times before the answer is compared: with four nonces an old answer would look
  current (TLC finds it), with five it cannot. This is the
  margin the three bits of `StNonce_t` have.
* `NumPorts = 1` except in `Mask` and `Flush`, where fusing is the subject.
* The contents of memory are free in the initial state where a store of the run can reach it.

`MCView` of `MCStoreDrain` leaves out the address of a free entry, which is not read
again, and counts nonces relative to those of the entry: they are only incremented and
compared with those of the same entry. States with the same view have the same
steps up to that, with the same truth of `memoryWait`, `Accepted` and `Arrived`, so `Fence`
may use it for liveness as well.

### Fairness

In the store path (`FairSpec`) the clock ticks, and the load/store unit neither refuses nor misses
the operations of one entry for ever (strong fairness per entry, because an operation is
offered for one cycle at a time). It refuses only while the cache table is being written or the bus
unit is busy (`LoadStoreUnit.sv:142-145`), and a miss starts a transfer after which
the line is there. That no two parts of the core keep in step so as to refuse the same entry every
time is an assumption.

In the core, the only fairness is that the clock ticks: `WF_vars(Next)`. `RecoveryCompletes`
needs nothing of the back end or of the program, because the replay runs on the
clock alone, and a redirect that interrupts it is older than the previous one
and there are finitely many uops. It holds without assuming that redirects stop.

In `Simulator` (`FairSimSpec`) the operating system runs the process: `WF_simVars(Process)`. Nothing is assumed of kills
and restarts. `CoSim` has no fairness.

## 4. Findings

1. *Illegal cache management operation* (`Cbo`). Rename's next store number is one
   ahead of the ROB's after the trap. `AGU.sv:154-172` raises `FLAGS_ILLEGAL_INSTR` on
   what the ROB knows as a store; `ROB.sv:323` does not count it; `TrapHandler.sv:228`
   only subtracts for the `FLAGS_ST_*` exceptions. The `StoreQueue` expects the
   number in sequence (its `baseIndex` moves only by dequeueing), so the next store
   can never leave it. `cbo.*` with `cbie`/`cbcfe` cleared is needed to get there; a store
   that the hang detection times out has the same problem.

2. *A store is lost when a cbo.clean follows it* (`Clean`). `evInsert` puts the
   management operation into the entry of a pending store to the same block; its empty
   mask makes the enqueue replace the data of the entry (`StoreQueueBackend.sv:256`), and the
   entry becomes a management operation. If the line had not been in the cache yet the store is gone.
   `test_programs/cbo.s:12` wants the value to persist.
3. *A cbo.flush is dropped* (`Flush`). Offered in the same cycle as an older store to its
   block, it is fused into the store (`StoreQueueBackend.sv:91-95` does not look at `isMgmt`)
   and, without a mask, vanishes. `test_programs/cbo.s:50` wants the modification in
   main memory.

## 5. Proofs

`RenameCommitProofs` begins with the arithmetic of sequence numbers for every ring size: ranges, and
that comparison by `Diff` is comparison by distance among numbers that are not older
than a common base (`DiffByDistance`), and how distances change when a number or the base
advances (`DiffPlus`, `DiffMinus`, `DiffAdvance`, `DiffChain`).

It then proves `TypeCorrect == Spec => []TypeOK` for every ROB size,
register count, tag count, width and uop set that meets the assumptions in `Include`
and `RenameCommit`. `TypeOK` is inductive as it stands. The interesting parts are
that rename never passes on "no register" as a tag (it stalls instead), that
`lastIndex` and the counters stay sequence numbers because a cycle never adds more
than `Width` to them, and that the oldest redirect is one of those that were raised:
`Diff` is not an order on the ring, but it is one inside the ROB, so the proof picks
the least distance from `baseIndex`.

All lemmas about a step are about `AnyNext`, a cycle in which the back end may also report a branch that was predicted
correctly without a redirect (`PredictedReports`). `Next` is a special case (`CompletionsAreAny`), and so is a cycle of the core that
executes a program.

The module goes on to prove `WindowCorrect` (`Spec => []Window`) and `RedirectCoversCorrect`
(`Spec => []RedirectCovers`). `Window` is not inductive. `WindowInv` adds to it what the
argument needs, all of it in positions (`Pos(s)`, the distance from `baseIndex`):

* `RenamedInOrder`: the uops rename has handed over are numbered without a gap from
  `lastIndex` on, also while a redirect is being distributed. With `SQN_STALL` it follows
  that the ROB never overflows.
* `BranchesAreInt`: only uops of the integer units are mispredicted, in rename, in the back
  end and in the cycle in which they write back. It tells the redirects of the two sources
  apart. It needs `RenamedInOrder` too: rename must not overwrite the slot of the branch.
* `BranchInWindow`, `RecoveryState`: a redirect names a waiting uop. That uop was not
  committed in the same cycle (commit only takes executed uops, or one that timed out,
  alone), and the redirect before did not squash it. A trap's redirect names the last uop
  committed, and `stop` keeps the ROB from moving until it has been sent.

`RedirectCovers` follows from `WindowInv` in one step: inside the window the comparison of
sequence numbers is the comparison of positions, so the minimum over the ports and
the comparison with the load buffer's redirect are those of integers.

It also proves `MispredictResolvedCorrect` (`Spec => []MispredictResolved`), from `ResolvedInv`. What it
adds is `RedirectsRaised`: the branch of a pending redirect is still in the ROB, or right before its front (the
redirect of a failed store-conditional is always there). A branch reports back together with its own
redirect. If another redirect wins that cycle, `RedirectCovers` says that it is for an older uop, so the branch is
squashed; if the branch is not squashed the two are at the same position, that is, the same.

`FreeListProofs` proves `TagPartitionCorrect` and `CommittedFreeListCorrect` first. `TagPartition` says
something only in a settled state; its inductive form has to hold in every cycle, also while registers are in two
places at once. `FreeListInv` adds to `WindowInv`:

* `OwnedOnce`: leaving the free list aside, a register has at most one owner: a uop in the ROB, one that rename has just handed
  over, one being committed, a rename port, or a register of the committed map. In a cycle every owner hands
  on to exactly one other (`Hands`), and what is taken from the free list had no owner.
* `FreeApart`: a free register has no owner, except for a uop that survived a redirect and that the replay has yet to
  claim (`Pending`). `ReplayCovers` shows that the replay reaches every such uop, so at its end nothing is both.
  While there are such uops rename takes no registers (`mispredFlush`).
* `CommittedFreeList`: `FreeApart` alone would not survive a redirect, where the free list becomes the committed one.
* `ReplayRange`, `ReplayHeld`: the replay stays inside the ROB, whose entries do not change meanwhile.
* `NoLeak`: every register is free or owned, unless a redirect or a trap is on its way. What a trap throws away
  (an exception commits to no register) comes back with the redirect that follows it, since the committed list has it.

`CommittedMember` shows that the order in which the commit ports write the free list does not matter: no register is both
freed and claimed in one cycle, because it has one owner. `FreeListInv` was model-checked on the instances `Mem` and `Wide`
(the latter in part) before it was proved.

`FreeListProofs` also proves `CommittedProducedCorrect` (`Spec => []CommittedProduced`), from `ProducedInv`: the ROB and the back end
agree on the destination of a uop (`TagsAgree`), a uop that executed without an exception has produced its value
(`ExecutedProduced`), so has one being committed (`CommitsProduced`), and one that rename eliminates needs no register
(`EliminatedNeedsNone`). Only a rename port makes a register unavailable, and it owns that register; by
`OwnedOnce` no waiting, committing or committed uop does.

`RenameMapProofs` proves `SpecMapRecoveredCorrect`, `SourceTagLiveCorrect`, `WakeupSoundCorrect` and `WakeupCompleteCorrect` from one
inductive invariant, `MapInv`. It numbers the uops in flight by their distance from the front of the buffer, those that rename
has just handed over behind those in the buffer (`Uops`), so that a cycle takes `n` uops off the front, adds some at the end, and
leaves the others in order. `MapsTo(u, p, r, below, t)` says that the newest of the first `p` of them that writes `r` has tag `t`
(or that none does, and `t` is what the committed map says). Its parts:

* `SpecMap`: outside of a replay the speculative map is the map behind the last uop in flight. In a replay it is the map at the place
  that the replay has got to (`Rebuilt`), taken together with the uops in `comUOp`, which is written in the next cycle. So
  nothing is asserted about the map while a redirect or a trap is being distributed, and a redirect in the middle of a
  replay just starts it again.
* `SourceMap`: the operand of a uop that has not executed is what the map says at the uop's own place. Commits do not change
  that (what leaves the front of the uops enters the map below them), and neither do redirects (they only cut off the end).
  `SourceTagLive` is this, read with `OwnedOnce`: nobody else can have the register.
* `PendingUnavailable`, `PendingUnread`: a register whose producer has not returned a result (`Returned`: a fault returns none) is unavailable in rename and in the back
  end. `WakeupSound` follows. That a result once returned stays so (`ReturnedStays`) needs that a report of a fault is the only one of its uop (`FaultIsAlone`), which
  for branches is `RaisedUnresolved` of `RenameCommitProofs`.
* `ProducedAvailable`, `UnavailablePending`: the converse. A register with a result is available in rename and to each uop
  that reads it, also to one that is on its way from rename to the issue queue in the cycle of the report. `WakeupComplete` follows.
* `TrapsWriteNothing`, `FlushRedirects`, `ReplayAlone`, `ZeroIsConstant`: uops with `FLAGS_TRAP` write no register, a flush is a
  redirect, rename hands over nothing while a replay runs, and register 0 is never renamed.

All parts but `FlushRedirects` were model-checked on `Mem` and `Wide` before they were proved. `TrapsWriteNothing` needs that no unit reports
`FLAGS_TRAP`; only `ROB.sv:441` writes it, and `RenameCommitAssumption` says so.

`RenameMapProofs` also proves `LsqSqNAgreeCorrect`, from `LsqInv`, which adds the numbers of loads and stores to `MapInv`.
`StoreSqNAfter(p)` and `LoadSqNAfter(p)` count, from the numbers that the ROB has recovered, the stores and loads among the first `p` uops
in flight. Committing takes uops off the front and adds the same number to what the ROB has recovered, so the number at the
place of a uop that stays does not change. The parts say who has which number when:

* `UopNumbers`: each uop in flight has the numbers of its place, except between a trap and the end of its redirect, when
  everything in flight is void.
* `NextNumbers`: rename's counters are the numbers behind the last uop, unless a redirect is under way that will overwrite them.
* `RedirectNumbers`, `TrapNumbers`: a redirect brings the numbers behind the last uop it keeps; that of a trap those the ROB has recovered,
  for which `TrapHandler` has to know whether the uop that trapped was counted (`ST_FAULT` was).
* `KindsAgree`: the ROB and the back end agree on what is a load or store, and no uop has completed in a way that breaks the count.

`LsqNumbersKept` assumes the last of these of the units: no store traps other than by `ST_FAULT` (a cache management operation
that reports `FLAGS_ILLEGAL_INSTR` does, which is finding 1, and the constants of the run `Cbo` do not satisfy it), nothing else reports
`ST_FAULT`, no load reports `FLAGS_ORDERING`, and the hang detection times out no store, which would be an exception
of a store like that of finding 1. The parts were model-checked on `Mem` before they were proved.

`StoreDrainProofs` proves `TypeOK` and the five invariants of the store path, for every
number of blocks, words, values and entries. They rest on `DrainInv`, which follows the operations of
an entry through four stages (offered, two in the delay line, answered) and measures by how
many versions each is behind its entry (`Behind`, the distance of the nonces):

* `HeldIsValid`: only valid entries have operations under way; `SameBlock`.
* `OlderIsAhead`: of two operations of an entry the one that is further on is more versions behind.
  So the current version is alone behind all others, and when its answer comes nothing else is under
  way: that is why releasing the entry cannot leave a stray operation behind.
* `BehindBound`: at stage `k` an operation is at most `k` versions behind. An operation
  that is offered in the cycle in which its entry is merged starts one behind. With
  `NumNonces >= 5` a distance of zero therefore means the same version.
* `CurrentIsIssued`: while the current version is under way the entry is not issued again, and
  what is under way is a copy of the entry.
* `DeviceIsCurrent`, `OneDeviceStore`, `OneEntryPerBlock`: nothing merges with a device store.

`ExternalOnceCorrect` has an invariant of its own, `OwedInv`: the stores owed to external devices are in at most two places, the one
unwritten entry (`Unwritten`: not issued, or offered just now) and the waiting block, in that order, and no answer to a device store is negative
(`DeviceNotRefused`, which is the condition on `isMMIO` in `LoadStoreUnit.sv:712`). An entry stops being
unwritten in the very cycle in which the device is written, and is never issued again.

The theorems about nonces, idleness, and devices assume `NumNonces >= 5`. `NatProofs` has the facts on least
and greatest elements behind the priority encoders, and derives from them induction over an interval (`Upward`, `Downward`), stated of sets, so that
what a recursive function computes can be proved without the library's induction theorems. `DrainInv` was model-checked on the instances
`Mask` and `Device` before it was proved.

`OrderedMemoryCorrect` (`Spec => ImplementsOrderedMemory`) is the refinement: every clock cycle is a step of `OrderedMemory`, in which
the stores taken from the queue take effect one after the other on what a load would read, or changes nothing that a load sees.
A lookup is unfolded first (`LookupReads`): it reads the waiting block over the one entry of the block over the cache. Then
`EntriesRead` shows for every block that what lies below the waiting block changes by what enters `evicted`, and by nothing
else, and `WaitingRead` what taking stores does to the waiting block. The inductive invariant `ReadInv` adds to `DrainInv`:

* `Covered`: each byte that an operation under way may write is also in its entry. So an old version that reaches the cache late
  writes below what a load reads.
* `AnswerIsWritten`, `DeviceIsWritten`: when an answer releases an entry the cache has all its bytes, and nobody else has written them since; a
  device store is written from the moment it was accepted. So taking the entry away changes nothing.
* `FreeIsEmpty`: a free entry has no bytes, so the first block to enter it is not merged with what was there.
* `PlainStores`: there are no management operations. The theorem assumes that the program has none (`NoManagement`); findings 2 and 3 are what
  happens otherwise.

These parts were model-checked on `Mask` and `Device`, too.

The assumptions of the core's proofs are `ROBSizeAssumption`, `IncludeAssumption` and
`RenameCommitAssumption`; TLC evaluates them in every run. The theorems of
`RenameCommitProofs` from `WindowCorrect` on, and those of `FreeListProofs` and `RenameMapProofs`, also assume `ScNeverTimesOut`: a store-conditional rolls itself back, to
the number before its own. If the hang detection committed it in the very cycle in which it executes,
that number would be two below `baseIndex`, and `Window` would not hold for the one
cycle until the trap's redirect follows.

`WiresProofs` goes from `sc_stub.hpp` up to the testbench.

* Bit vectors, for every offset and width. `RangeIsRead`: a range of up to 64 bits is
  read correctly wherever it begins, also across two words. `VectorIsCopied`: the copy of `len` bits from bit `start`
  holds those bits if `Fits(len, start)`, the condition that the code does not check. `NestedFieldIsRead` combines them: a
  field of a struct in a struct is found at the sum of the positions.
* Packed structs, for every list of widths. `LowGrows` and `FieldsApart` say that no two fields share a bit, so `PackedIsPlaced`:
  at the place of a field the wires have the bits of that field and nothing else, also for fields of structs in the struct.
* The header. `HeaderIsCurrent` says of every struct of `slang.hpp` that its fields have the names, widths, types and enumerators
  that `Include.sv` declares, one after the other from the lowest bit on; that they are then at the same positions is `HeaderLow`. From it
  follows `GetIsValue`: whatever a constructor reads is the value of the field. `HeaderCurrent` proves it for
  `HeaderConfig`, the parameters of `Config.sv` for which the header was generated, struct by struct.
* The testbench. `PeekedIsValue` is about the single bits it looks at: that the lowest bit is the one called valid, or taken,
  is a fact about the order of declaration. The inductive invariant `WiresInv` gives `SeenIsDrivenCorrect` and `NeverThrowsCorrect`, for
  everything the core may drive (`ValuesAssumption`), not only for the patterns TLC tries. `NeverThrows` needs the values: a struct is
  taken apart only if its lowest bit is set, and where it is set the core drives an enumerator.

Besides `HeaderConfig` they assume `ConfigAssumption` and `TypesAssumption`: of the structs that are looked at, none has a wide field from which something would be
shifted out (`IsRead`). Those that have one are taken apart by nobody (section 7).

`SimulatorProofs` is about the process for every interval, delay, time-out, memory and number of kills:

* `SimTypeCorrect`, and `BackupsAtLowClock` from the parity of time: `ClockInv` says that the clock is low exactly at even times,
  which reset, the loop and a backup preserve, and backup times are even.
* `TestbenchInStep` (`InStep`) from `StepInv`: the log and the core agree in the loop and between the steps
  of `Save`, and the files agree with each other unless `torn` or half written, at each of the points where
  a kill may hit.
* `HangsAreReal` (`HangIsReal`) from `HangInv`: since the last check (or the restart, or reset) `minstret` has not decreased unless
  tampered with, and if it still has its old value, `quiet` has counted every half cycle since. At a check these are
  the whole interval: reset's four half cycles count as quiet, and after a restart the first check is skipped.
* `LoadedCaseRuns` (`RunsLoadedCase`) from `CaseInv`: memory always has the size it had when the test case was read from it, and in the
  loop it begins with that test case. The work is in `Reload`: a test case that was read from one memory, written over another one of the same size
  and read again is the same. `load` goes down from the end of memory and `unpack` up from its beginning, so `CaseInMemory` first says that instruction `k` is what `load`
  found at `Start(k)`, and `UnpackIs` what `unpack` leaves there; that an instruction is two halfwords long depends only on the first of them, which is
  written before it is looked at. It assumes `MemoriesAssumption`: memory is one array, whose size does not depend on the program.

`CoSimProofs` proves `ImplementsInOrderCorrect` (`CoSpec => ImplementsInOrder`), `NoCosimErrorCorrect`, `ShadowFollowsCoreCorrect` and
`CoTypeCorrect`, for all programs, all sizes of the core, all numbers of values and all predictions. A cycle of the core that executes a
program is a cycle of `RenameCommit` (`ExecIsCycle`), so `MapInv` holds in `CoSim`, too, and the uops in flight are numbered as there. The
inductive invariant `CoInv` adds to it what the data need. `Live` is the number of uops that the redirect on its way leaves, `Front` the address at which fetch
goes on behind them.

* `FrontInv`, `UopsInv`, `FlagsInv`: what is decoded is a piece of the predicted path that ends where fetch goes on; the uop at each place is what decode makes of
  the instruction at that place, and it completes only as that instruction can.
* `OperandInv`: the operand of every uop, executed or not, is what the map says at its place. `SourceMap` says so only of tags of registers.
* `PathInv`: the instruction behind each live uop is the one it was predicted to go to, or the one its operand sends it to, and after it has
  executed it is the latter. A mispredict moves `Live` to the branch and `Front` to the right address in the same cycle, and `RedirectCovers` says that no younger branch
  wins; a flush and a failed store-conditional are the same argument with other addresses. `RaisedInTime` is about the cycle between a branch and its report.
* `ValueInv`: a live uop that has completed has the result of its instruction, applied to the value of its operand. For this no cycle may write a register that somebody
  reads. A report writes the register of a uop that had not executed; that uop owns it (`OwnedOnce`), and by `PendingUnread` no uop reading it
  looked ready (`ValueStays`, `OwnedStaysValue`).
* `ShadowInv`: the testbench's copies follow the core from decode to commit, for all places, also those a redirect is about to free.
* `CommitInv`: the uops that commit in a cycle are a piece of the path which starts at the reference's pc, each with the right operand and result, and the last one
  may trap. Here `ComTag(k, r)` is the tag of a register after the first `k` of them.
* `ArchInv`: the reference has the committed map's registers, and `minstret`, or is freshly constructed and waits to be restored.

`RefAt(m, k, keep)` says what the reference is after `k` of the commits. `LogCommitStep` shows that the commit on port `k` leads from it to `RefAt(next, k + 1, keep)`,
reports nothing, and is one of the `Outcomes` of `InOrder`; because a commit reads registers through `ReadRegister`, the overrides have to be exactly the tags of `ComTag(k, _)` (`Overrides`).
Induction over the ports then gives the reference after the whole cycle, and that it is in `Arch!After`. A cycle that commits nothing, and `SaveRestore`, are stuttering steps
of `InOrder`. `Booted` covers both ways to begin, after reset and with a register set by `WriteRegister`.

Its assumptions are `ISAAssumption` and `CoSimAssumption`. The first is about programs: targets are inside of the program, and the destination of an ECALL, which is not encoded, is 0. The second
says that both sides count the same registers, that no unit stays silent (`~AllowTimeout`), that store-conditionals follow load-reserved and backups are made of programs without these (section 7), and
that rename takes every uop decode makes.

Only model-checked: deadlock freedom, and liveness under fairness (`RecoveryCompletes`, `FenceEnds`, `StuckIsFound`), which stays with TLC.

## 6. Plan

1. `StoreQueue`, `StoreDataIQ`, `StoreDataLoad` in front of `StoreDrain`: address and data
   fill, commit pointer, flush, forwarding; composed with the ROB's commit pointer
   (finding 1 then shows as a hang).
2. `IssueQueue`: positions, capacity, the `validIQ` handshake with rename, timed-out
   uops; shown to refine the abstract back end of `RenameCommit`.
3. `LoadBuffer`: memory order check, reservations, commit limit; loads and stores in `ISA`.
4. `LoadStoreUnit`, `LoadResultBuffer`, `CacheLineManager`, `MemoryController`: one cache line
   through miss, forward, dirty, evict and flush.
5. `TrapHandler` with `CSR`: trap and return, delegation; then XRET and privilege levels in `ISA`.
6. `PageWalker`, `TLBMissQueue`; `BranchHandler`.
7. Progress: the oldest uop retires; no rename port starves.

## 7. Not modelled

* The units of the plan above. The cache line manager and the memory controller are represented by what the store pipeline
  sees of them, the issue queues by the free back end.
* Branch prediction and prefetching: any prediction is allowed, so they cannot affect what `CoSim` shows.
  `models/ReturnStack.hpp` and `models/BranchHistory.hpp` demand exact agreement of a prediction structure; the
  first starts from an uninitialised index, and the hardware's recovery queue is limited, so neither
  side promises it.
* Multiplier, divider, FPU and `hardfloat/`: arithmetic.
* SoC, buses, peripherals; console input; loading of programs (`Initialize` runs the assembler); Konata and
  performance output: I/O.
* Packing in `slang.hpp` and `sc_stub.hpp` (conversion of a struct to words, `set_bit`, `range_t::operator=`): only
  `WriteRegister` uses `set_bit`, for bits below 32 at start, where the first free register is number 0.
  `set_bit` shifts an `int`, so it is not usable beyond.
* Four structs that nothing takes apart have a field of 128 bits whose position is not a multiple of
  eight, or contain one that has: `IF_Instr`, `MemController_Req`, `MemController_LdDataFwd`, `MemController_Res`. There `Fits` does not
  hold, and the last bits of the field would be lost.
* The reservation of a load-reserved is not part of a backup: restarted between LR and SC, the reference would let the SC fail while the
  core lets it succeed, and the testbench would report an error. `CoSim` backs up programs without LR and SC only.
* `Top_tb.cpp` does not reset the state of the testbench between two fuzzing runs (`run_sim` is called again, lines 839-845), and the last 128 half cycles of a run are
  not logged (line 821). `Simulator` counts logged cycles anew in each run (`Boot`); `CoSim` describes one run.
* In `Simulator` nothing retires while the core sleeps. In the code the sleep begins when WFI is decoded (`IFetch.sv:250`), and what is older still
  retires; the hang check ignores a sleeping core either way.
* Fuzzing as a whole does not run what it mutates: `Fuzzer::fuzz` passes `test_case`, not the mutated case, to `run`; the model does
  the same. An empty program (`load` of no bytes, `mutate` of an empty test case) is outside of what the functions accept.
