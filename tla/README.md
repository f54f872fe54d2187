# A verification project for the AttAcc / HBM3-PIM simulator

The repository simulates AttAcc, an HBM stack with processing in memory (PIM)
for the attention layers of transformers. A Python performance model drives a
modified Ramulator 2, a cycle-level DRAM simulator in C++. The modules here
model Ramulator: first the part AttAcc adds (the HBM3-PIM memory controller, its
scheduler, refresh manager and device), then what surrounds it (front ends,
memory system, main loop, set-up, address mappers) and what it was derived from
(the generic and HBM3 controllers, the other DRAM standards, the SimpleO3
processor with its cache, the RowHammer mitigations).

Paths below are relative to `src/attacc_simulator/ramulator2/src/`.

## 1. Inventory

| part | state | operations | interacts with |
|---|---|---|---|
| PIM memory controller `dram_controller/impl/hbm3_pim_controller.cpp` | five request buffers (active, priority, read, write, pim), `pending` reads, write mode, `is_pim` | `send`, `priority_send`, `tick` (serve completed reads, refresh, two scheduling rounds, two commands) | scheduler, device, refresh manager; callbacks of the front end |
| PIM scheduler `dram_controller/impl/scheduler/pim_scheduler.cpp` | the row hits of the buffer at hand | `compare`, `get_best_request` (drops barriers) | reads the device, edits the controller's buffer |
| PIM device `dram/impl/HBM3-PIM.cpp`, `dram/node.h`, `dram/lambdas/*` | a tree of nodes: per node and command the next ready clock and the issue history, per bank its open rows | `issue_command`, `get_preq_command`, `check_ready`, `check_rowbuffer_hit`, `tick` | called by the controller and the scheduler |
| refresh managers `dram_controller/impl/refresh/*` | next refresh cycle | `tick` | `priority_send` of their controller; throw when that fails |
| generic and HBM3 controllers, FRFCFS scheduler | four buffers, `pending`, write mode | as the PIM controller, one or two commands a cycle | devices of nine other standards |
| other DRAM standards `dram/impl/*.cpp` | the same node tree | the same | their controllers |
| set-up of a device: `set_organization`, `set_timing_vals` | organization, timing values | presets, overrides, tables, rounding | configuration; mapper, device |
| address mappers `addr_mapper/impl/*` | bits per level | `apply` | memory system |
| memory system `memory_system/impl/PIM_DRAM_system.cpp` | controllers of all channels, statistics | `send` (routing), `tick`, `is_pending` | front end, controllers, device |
| trace front ends `frontend/impl/memory_trace/*` | position in the trace | `tick`: send lines until a buffer is full | memory system |
| main loop `main.cpp` | step number | ticks front end and memory system by clock ratio, ends when nothing is pending | both |
| SimpleO3 cores, last-level cache, translation | instruction window, miss-status entries, cache lines, page map | ticks, `send`, `receive` | memory system |
| RowHammer plugins `dram_controller/impl/plugin/*` | activation counters, row indirection table | `update` per issued command | `priority_send` of the controller, `addr_mapper/impl/rit.cpp` |
| Python model, trace generators, recorders | none that lives across calls | arithmetic, text output | run the simulator |

There are no threads and nothing is persisted. What is hard is order within and
across cycles: a request that is copied and erased between buffers by two
scheduling rounds of one tick; rules about rows that were opened for one
request and are closed for another; timing constraints that hold at one level
of a tree and are looked up at another; reordering, write mode and refreshes
that may starve a request or each other; iterators and answers that are used
after what they refer to has moved; and tables of numbers that must fit together
and are matched by position. `PROJECT.json` lists these hazards at their lines.
What makes each part correct:

- controllers: every accepted request is finished once; a row opened for a
  request is kept until the request is served; nothing is dropped from a full
  buffer; a PIM request never crosses a barrier; every request finishes.
- scheduler: which request wins, as a rule and not as a loop.
- devices: every bank goes through its row cycle (nRAS open, nRP closed; one row
  at a time, except in LPDDR5) whichever command causes the change; refreshes are undisturbed;
  bursts do not collide; no more than four rows open in a window.
- refresh managers: their requests are served before the next ones are due.
- set-up and mappers: the values that come out fit together; different addresses
  are different places.
- front end, memory system, main loop: lines are sent once, in order; the
  program ends, and only when all is done.
- cores and cache: a line is fetched once however many ask for it; everyone who
  waits is told; every core makes progress.
- RowHammer plugins: no row is activated past its allowance; two copies of a
  count agree; a row that was swapped is found.

The build (`CMakeLists.txt`) compiles the HBM3 and HBM3-PIM devices, all
controllers, the trace recorders and counters, the trace front ends and the
linear mappers. The other standards, the RowHammer plugins and SimpleO3 are in
the tree but not in the build; they are modelled as written, with the slips that
keep them from compiling read as intended (the actions called `PREab` are those
of `action.h` named `PREA`; a brace is missing at `trr.cpp:46`).

## 2. Modules

| module | models | remarks |
|---|---|---|
| `HBM3PIMDevice` | the PIM device | operators on a device record: `TickDevice`, `IssueCommand`, `CheckReady`, `GetPreqCommand`, `CheckRowbufferHit` |
| `PIMScheduler` | its scheduler | `Compare`, `DropBarrier`, `BestRequest` on a sequence of requests |
| `HBM3PIMController` | controller and refresh manager on top of both | `VARIABLES dev, ctl`; actions `Send` and `Tick` |
| `PIMService` | abstract specification of the controller | accept, retire, barriers; nothing of scheduling |
| `BankProtocol` | abstract specification of the banks | the row cycle, bank by bank; an activation by two commands, of which the second may name another row |
| `ControllerProperties` | properties | instances of the two abstract specifications |
| `ControllerLiveness` | the controller under the clock of the main loop | fairness, `AllServed` |
| `TraceSimulation` | front end, memory system, main loop | one `PIMService` with bounded buffers per channel |
| `DRAMStandards` | commands, prerequisites and timing constraints of nine standards | tables only; `Timings(std, V)` |
| `DRAMDevice` | a device of any of them | actions `Issue` and `TickDevice`; any command a request leads to, in any order |
| `DRAMProperties` | its properties | instance of `BankProtocol` |
| `GenericController`, `GenericProperties` | generic and HBM3 controller, scheduler, refresh managers on `DRAMDevice` | `TickController`, then `SecondCommand` for HBM3 |
| `Bits` | shifts, masks, logarithms | shared by the mappers, the cache and Hydra; recursive functions, so that they can be proved about |
| `DRAMPresets` | preset organizations, speeds and tables | data |
| `AddressMappers` | the mappers' `setup` and `apply` | operators on the bits of the levels and an address |
| `DRAMSetup`, `SetupProperties` | set-up of organization, timing and mapper; properties | a phase per function |
| `SimpleO3LLC`, `SimpleO3`, `SimpleO3Properties` | cache; cores, translation and an answering memory | the cache is a record and operators on it |
| `RowHammerBank`, `Graphene`, `RowTrackers`, `Hydra`, `RowSwap`, `RowHammer` | one bank and the priority buffer; the plugins (`RowTrackers`: oracle, PARA, TWiCe, TRR); their composition and properties | one `...Update` action per plugin |
| `ProofLemmas` | what the proofs need of sequences, powers, division and bits, and induction over the naturals | checked by TLAPS, as the rows below |
| `ControllerProofs`, `CommandProofs` | theorems about the PIM controller | typing and places; commands and their timing, rows of the banks, scheduling and service |
| `StandardsProofs` | theorems about `DRAMDevice` and, on top of it, `GenericController` | |
| `SetupProofs` | theorems about `DRAMSetup` and `AddressMappers` | |
| `TraceProofs` | theorems about `TraceSimulation` | |
| `RowHammerProofs`, `CacheProofs` | theorems about `RowHammer` and `SimpleO3` | |
| `MC...` | timings, menus, traces for TLC | |

How the PIM controller and device correspond to the code:

- A node of the device tree is the path to it, and an address is a path; the
  `-1` entries of an address (a refresh names only channel and pseudo channel)
  make a shorter path. All walks of the tree are then over prefixes.
- `m_cmd_ready_clk` holds absolute clocks. `dev.since` holds, per node and
  command, the cycles since that command was last issued, capped at `Idle`
  once no constraint can still refuse anything. Both say the same: "ready at
  clk" is "issue clock + latency <= clk". `dev.acts` is the four-activation
  window. `dev.age` is a history variable that only `BankProtocol` reads.
- `ctl.buf` holds the five buffers as sequences; an iterator is an index.
  `arrive` is only compared, so it is the number of the first request of its
  cycle. `done` and `lost` are history: ids of requests that finished, and of
  requests that a full active buffer dropped.
- `Tick` is one call of `tick()` and includes every call it makes. The two
  scheduling functions of the code differ in one condition, the command types
  that may go together; the model has one operator with that condition as a
  parameter (`first`; "any" for the first round).
- Two reads of memory the code does not own are explicit. `req_it->command` is
  read after the list node was freed: the model takes the old value or none
  (`FirstCommands`). It is read from `end()` of an empty buffer: with the
  layout of `ReqBuffer` those bytes are the `max_size` of the next buffer, 32,
  which is no command (`NoPick`).
- `ReqBuffer::enqueue` compares before it appends, so `BufSize = 1` in a
  configuration is a buffer of two requests, as in the code.

The other modules:

- `DRAMDevice` keeps for each node and command the cycles until it is ready
  (`wait`), which is `m_cmd_ready_clk` relative to the clock. Whatever may drive
  the device is its environment: in each cycle one command that a read, a write
  or a refresh leads to is issued, and a cycle is idle only if no read or write
  has a command that is ready (idling only lengthens the gaps that the
  properties are about). `GenericController` replaces this
  environment by the controllers. Only commands that a request can lead to are
  modelled; timing constraints are families (`Rule`, `Window`, `Turnaround`,
  `RefreshAll`), because the tables of the standards repeat them.
- A cycle of the HBM3 controller is two steps, `TickController` and
  `SecondCommand`; nothing runs between them. The command the second round is
  given may be read from a request that was freed, and is nondeterministic there.
- `DRAMSetup` takes one preset of organization and speed, an override, and runs
  the functions of `init` in their order; the density and speed tables are data
  in `DRAMPresets`. A read before the start of a table returns something of
  `StackJunk`. TLC's integers have 32 bits, so products are taken by factors.
- `TraceSimulation` steps through the loop of the front end's `tick` line by
  line, and through the controllers one by one; the step of the main loop says
  which of them is next, so that no interleaving is added. A controller is what
  `PIMService` promises, with the places of its buffers: in a tick some requests
  are over, and some reads and writes leave their buffers for the active one.
  Every nREFI ticks refreshes of a channel are queued, and count in `is_pending`;
  they are served some time before the next are due, which is `RefreshQueued`.
- `DRAMDevice` keeps the open rows of a bank as a set. In LPDDR5 the second command
  of an activation may name another row than the first, and both are then in it;
  in `BankProtocol` this is a step of its own, `Complete`.
- In `SimpleO3` an address is a line and a page is a line. Index and tag of a
  line are masked and shifted as in the code, which for a number of sets that is no
  power of two does not tell all lines apart (see 3). The hit list calls
  `receive` like an arriving line does, as the code does. The memory takes a
  bounded number of reads and writes, and answers in any order.
- The plugins see one bank: an activation of any row, a refresh, a reset of the
  period, or nothing in a cycle; a priority buffer of few places that the
  controller empties at any time (`Serve`). `acts` counts what a row really got. Hydra's
  groups are taken twice, as in the code: by shift when a row is looked up
  (`GroupOf`), by size when a group is initialized (`GroupRows`).

Statistics (where no property is about them), logging, configuration parsing
and the factory are left out everywhere.

## 3. Runs

Timings are scaled down (`SmallTimings`, `SmallV`): the order and rough ratios
of the presets are kept, because only comparisons between sums of latencies
decide anything, and nREFI is long enough for a refresh to be served and short
enough to hit requests in every phase. Two banks and two rows give every case of
a bank conflict (hit, miss, conflict, other bank). Two pseudo channels, bank
groups or ranks appear where commands or constraints span them. `MaxRequests`
bounds the requests of a behaviour.

| run | instance | shows |
|---|---|---|
| `MemorySafety` | four requests, buffers of two, no refreshes | `TypeOK`, `ExactlyOnce`, `RowHeld`, `NothingLost`, `DataBus`, `RowCycle` of the PIM controller on reads and writes |
| `MemoryRefresh` | three requests, among them a same-bank MAC of another bank, refreshes | no PIM request is moved to the active buffer (`MemoryActive`), a refresh is undisturbed (`RefreshUndisturbed`) and served before the next is due (`RefreshQueued`; the priority buffer has room for those of one interval only), every request finishes (`AllServed`), the controller implements `PIMService` (`ServiceSpec`) |
| `AllBankTogether` | all-bank MACs, data movement, barriers; refreshes, two pseudo channels | `LockStep`, `FirstReadyWins`, `RowCycle`, `AllServed`, `ServiceSpec` |
| `Standards` | nine standards, two banks in each relation that the standard has (same bank group, other bank group, other rank or pseudo channel) | `OneBurst`, `FourActivates`, `RefreshQuiet`, `RowCycle` for every sequence of commands the tables admit |
| `Setup` | all presets of organization and speed, with overridden rank count, refresh cycles and rate; all mappers | `BurstsDisjoint`, `RowCycleKept`, `RefreshKeepsUp`, `PlacesDistinct` |
| `Generic` | DDR4 with the generic, HBM3 with the two-command controller; three requests, one refresh interval | `OnePlace`, `RowKept`, `EveryoneServed` |
| `RowHammer` | seven mitigations; four rows, groups of two, threshold three, a priority buffer that takes four requests | `Protected`, `CacheCoherent`, `SwappedFound` |
| `Processor` | two cores with loads, stores and a bubble, looped; one set of two ways, two miss-status entries, a memory that takes one read and one write; both translations | `InFlightTracked`, `HitsSettled`, `FetchedOnce`, `LoadAwaited`, `Finishes`; the latency is 1, see `LostWakeUp` |
| `Trace` | 347 traces of up to six lines, two channels, buffers of two, clock ratios 2 and 3, a refresh of each channel every two ticks | `LinesInOrder`, `BarriersKept`, `EndsDone`, `RatioKept`, `Terminates` |

Why the bounds are enough. In `MemorySafety` a buffer fills and refuses, and
four requests are the least in which both rounds of a tick, a row conflict and a
forwarded read meet. In `Processor` three lines compete for two ways and two
entries, so every reason of a refusal occurs; pages are mapped in every way,
also two pages to one, so the traces need no variety of their own. In `Trace` the
longer traces fill one channel's buffer again and again while lines of the other
wait behind. In `RowHammer` the threshold is reached through every table entry,
a full table, a full cache set and a full priority buffer. `Setup` has no bound
on presets; addresses are sampled as lines that differ in one bit or two, which
is where a mapper that cuts or xors bits can collide (`NoPlaceShared` is about all
lines). In `Generic` the active
buffer never fills (`BufSize = 2`, three requests): with a smaller one
`OnePlace` is false, see below. There the time of a request's arrival matters
and not its number.

Deadlock is not checked where a behaviour ends: after the last request
(`Generic`), the last phase (`Setup`), the last instruction (`Processor`), the end
of the program (`Trace`), or the bounds of the counters (`RowHammer`).

Each property is also violated when one definition is replaced by a plausible
bug (`mutants` in `PROJECT.json`; the mutated definitions stand before the
originals in the modules).

Three runs end in a violation and show where the code does something other than a
comment says:

| run | what happens |
|---|---|
| `MixedNeverServed` | `AllServed`: a MAC replaces the row of an activated read; the precharge the read then needs is refused because of the read itself, for ever |
| `StaleRead` | `ReadsSeeWrites`: writes are "forwarded to incoming read requests" from the write buffer only; a write that was activated is not found, and a read of its address is served before it |
| `LostWakeUp` | `LoadAwaited`: a hit of the cache is answered some cycles later as if the memory had answered (`llc.cpp:44`). If its line was evicted and is being fetched again, the answer marks the line as arrived and forgets the core that waits for it: its load is never ready, the second read of the line is outstanding without a miss-status entry, and the program does not end. Two cores and a latency of two cycles suffice; the default is 47 |

### Seen while modelling

Further places where the model, read with the code, contradicts a comment or an
intention. No run is kept for them; where one is named, change its
configuration as said.

- A refresh closes rows of active requests: the check that a closing command
  does not hit an active request compares bank addresses, and the PREA of a
  refresh has none (`MemorySafety` with `Refreshing = TRUE`: `RowHeld`).
- The nRAS from ACT to PREA (`HBM3-PIM.cpp:447`) is attached to the pseudo
  channel, but PREA is looked up at the channel only, so a refresh closes a
  bank early (`RowCycle` in `MemoryRefresh`). The HBM3 device has the
  same slip (`HBM3.cpp:336`, and line 340 for the nRP before REFab): `Standards`
  with HBM3 in `Refreshed` violates `RefreshQuiet`, and with nRAS = 5 `RowCycle`.
- PRESB closes the bank in one bank group, ACTSB opens it in all of them
  (`action.h:106`): banks of other groups get a second row. Per-bank MACs break
  `RowCycle` likewise, because `PIMPerBankActions` compares ids of different
  levels.
- The PIM buffer is documented as in-order (`hbm3_pim_controller.cpp:15`), but
  a ready younger request is served first (`pim_scheduler.cpp:91`).
- With `MixedMenu` and refreshes, the stuck state of `MixedNeverServed` also
  starves refreshes until the refresh manager throws (`RefreshQueued`).
- With two pseudo channels, an all-bank activation addressed to one opens banks
  of another that is refreshing (`RefreshUndisturbed`).
- A forwarded read does not "depart at the next cycle" when another read is
  pending before it: only the first pending read is looked at.
- In the generic controllers a request whose row a refresh closed is activated
  again, and enqueued again, while it is in the active buffer. If that is full
  the request is gone (`generic_dram_controller.cpp:128`; `Generic` with
  `BufSize = 1`: `OnePlace`).
- After HBM3's first command, the second is chosen with `req_it->command` of a
  request that may have been removed, or of `end()`
  (`hbm3_controller.cpp:137`).
- Ranks of an HBM3 pseudo channel share the data bus, but the bus occupancy
  constraint is attached to the rank (`TwoRanks` in `MCStandards`: bursts of two
  ranks overlap). The DDR standards bound a read after a read of another rank,
  but a write follows a read of another rank after nBL + nCS whatever nCL - nCWL
  is; bursts of the DDR3_1600K and DDR4_2400R presets overlap.
- `AllBankRefresh` sends a refresh per `get_level_size("rank")`, which is -1
  where no such level exists: GDDR6, HBM and HBM2 are never refreshed.
- LPDDR5 activates a row by two commands, and while a bank waits for the second
  its prerequisite does not look at the row (`LPDDR5.cpp:458`, 480). If a request
  of another row is served then, ACT-2 opens that one, and the row of the ACT-1 stays
  in the bank's state (415-419): both are hits (460, 482) until the bank closes.
  The row cycle is kept all the same (`Standards`, `RowCyclesOfAll`).
- Set-up: HBM2_8Gb has a density of 6 Gb and never passes the check; HBM_1Gb,
  LPDDR5_32Gb and GDDR6_32Gb read tables at index -1; the refresh columns of the
  GDDR6 speed presets are shifted by one; LPDDR5 presets have nRAS above nRC
  (`RowCycleKept` holds because nRP is added); HBM3's nREFISB is looked up with
  the rank count as an index; an HBM3 stack of three ranks gets one rank bit, so
  that rank 2 is never addressed; and the generic linear mappers take prefetch
  bits off HBM3 columns, so that an eighth of them is reached.
- The cache: `m_index_mask` is `m_set_size - 1`, and the tag is what is above
  `calc_log2(m_set_size)` bits (`llc.cpp:11`, 13). Three cores, everything else at
  its default, have 3 * 2^12 sets (`simpleO3.cpp:52`): the mask has a bit clear that
  the tag leaves out too, and two lines have one index and one tag. Asking for one
  while the other is on its way reaches the assertion at `llc.cpp:195` ("the
  program can't reach here"); without assertions the set grows, one line is taken
  for the other, and a line is in its set twice (`Processor` with `NumSets = 3`:
  `InFlightTracked`).
- The cache, further: a write-back that is refused stays in the list while
  the read of the same line behind it is sent (`llc.cpp:26`). The free page count
  of `RandomTranslation` goes down, but no page is ever marked as assigned
  (`random_translation.cpp:81`), so two virtual pages may share one.
- Hydra takes the group of a row from its upper bits, as many as number the groups
  (`hydra.cpp:161`, 290), but initializes `m_row_group_size` rows from the group
  number times that size (364-368). If the size is no power of two these are
  different rows; some start with no count, and others are reset while they are
  cached: `RowHammer` with Hydra alone, `NumRows = 8` and `GroupSize = 3` violates
  `Protected`, and with `Ways = 2` also `CacheCoherent`.
- RowHammer: all plugins but RRS ignore what `priority_send` returns and reset
  their counts; RRS draws a row one past the end, may loop for ever in
  `get_rand_row`, and a row swapped twice in an epoch leaves table and data
  apart; TRR keeps a table it never acts on.

Why `MixedMenu` has no refinement or liveness run: the code cannot serve this
mix, as `MixedNeverServed` shows; AttAcc traces do not mix ordinary reads
with PIM requests in a phase.

## 4. Fairness

- Controllers: the clock does not stop, `WF_clk(ClockTick)` and
  `WF_allvars(Cycles)`. The loop of `main.cpp:99` ticks the memory system for
  ever unless nothing is pending, and every tick is a whole call, so nothing
  else needs to be assumed; sends are not fair. `clk` is the parity of the
  clock: without it a tick that changes nothing would be a stuttering step, and
  a controller that is stuck could leave the fairness condition by being stuck.
- `TraceSimulation`: `WF_vars(Next)`, since the loop does not stop by itself,
  and strong fairness of `Retires(c)`: a controller that is ticked again and again
  retires what it accepted. That is `AllServed`, checked for the controller
  itself in `MemoryRefresh` and `AllBankTogether` (and false for the mix of
  `MixedNeverServed`, with which the program would not end).
- `SimpleO3`: weak fairness of the ticks, strong fairness of the memory's
  answers, by the same argument for the generic controllers
  (`EveryoneServed`).

## 5. Proofs

A theorem holds for every value of the constants that satisfies the named
assumptions of the modules (`DeviceAssumption`, `ControllerAssumption`,
`TraceSimulationAssumption`, `HydraAssumption`, `LLCAssumption`, ...): any number
of banks, requests, cores, lines and traces, any timing table. Where a theorem has a
further hypothesis, it says what traffic or geometry it is about, and this
section says why it is needed.

### The PIM controller

| theorem | states | holds for |
|---|---|---|
| `TypeCorrect`, `KindsKept`, `MemoryOnly` | `TypeOK`, `BufferKinds`, `MemoryActive` | everything |
| `HandledOnce` | `ExactlyOnce` | everything |
| `BurstsApart` | `DataBus` | everything (the property is about a channel of one pseudo channel) |
| `RefreshesUndisturbed` | `RefreshUndisturbed` | one pseudo channel, or no MACs |
| `RowsHeld`, `NoneAreLost` | `RowHeld`, `NothingLost` | reads and writes, no refreshes |
| `RowCyclesKept` | `RowCycle` | reads and writes without refreshes, or all-bank traffic |
| `BanksInStep` | `LockStep` | all-bank traffic |
| `FirstReadyServed` | `FirstReadyWins` | everything |
| `ServiceKept`, `PIMServed`, `MemoryServed` | `ServiceSpec` | while nothing is dropped; PIM requests; reads and writes with an active slot for every bank |

*Typing* (`ControllerProofs`). The inductive invariant is
`IInv == TypeOK /\ BufferKinds`. Neither half is inductive: opened rows stay in
`Rows` because the request that opens one is not a refresh, which `BufferKinds`
and the prerequisite of REFab give; and a buffer keeps its kind only while the
index that scheduling returns lies in it, which is typing. `MemoryActive` on its
own is far from inductive, since it speaks of one buffer and is_pim, set by one
round, decides in the next. The argument follows `tick()`. A controller is
`Good` when it is typed and sorted; the parts of a tick before scheduling keep it
good. What scheduling returns is `Sound`: a good controller, and, if a request
was found, an index inside its buffer, a command that belongs to the request,
and, for an opening command while is_pim is not set, a read or a write.
`ScheduleSound` proves it through the four levels of `schedule_request`; the crux is
that a PIM request is only ever found together with is_pim, and that a refresh
never opens a row (`OpeningIsRequest`). Issuing a sound pick leaves a good
controller and a typed device (`AfterIssueGood`, `IssueType`), so the second round
starts where the first did.

*Places* (`ControllerProofs`). `ExactlyOnce` says that the numbers of the
accepted requests are partitioned among the four buffers, the departing reads and
the finished or lost ones. That taking an element out of a line (`TakenOut`),
putting a number at the end of one (`PutBack`, `Added`) and both together (`Moved`)
keep a partition is proved for any lines of numbers; then each operation of the
controller is shown to be one of these on the lines of ids (`Ids`). `tick()` copies
before it erases, and in between the request is in two places, so the moves are
proved for the pair (`FinishWhole`, `ActivateWhole`). The inductive invariant is
`OnceInv == IInv /\ Whole(ctl)`: `IInv` is needed because a refresh is retired
without a record, which is right only if whatever is found in the priority
buffer is a refresh.

*Commands and timing* (`CommandProofs`). `Round` says of what a scheduling round
returns that its command is the one the request needs and has waited for all
constraints on the way from the channel to its scope, and that the request comes
from the menu or is a refresh (`AskedInv`). `Waited` turns a constraint of the
table into a distance in time: the command that precedes a ready one was issued
`lat` cycles ago or more. `RefreshInv` is that while the last REFab of a pseudo
channel is less than nRFC ago, its banks are closed. ACTAB, ACTSB and ACTPB open
banks of other pseudo channels, whose REFab they do not wait for, hence "one
pseudo channel, or no MACs" (with two and a MAC the property is false). `BusInv` says
that the departures of pending reads are nBL apart (`Spaced`) and that none is further off
than a read issued now would be (`Behind`), also those that wait for their turn
behind a forwarded read.

*Rows* (`CommandProofs`). `HoldingInv` says that the requests of the active buffer are
in different banks and that each such bank is open at the row of its request
(`Holding`); a request moves there only with an ACT, which needs the bank to be
closed, and what closes a bank of an active request is refused
(`RoundHolding`). Distinct banks also give the capacity: there is never a
request too many (`RoomForOneMore`). A refresh closes all banks whatever is active, and
an all-bank MAC too: with either, `RowHeld` is false, hence the hypothesis. For
`RowCycle` the two kinds of traffic use constraints at opposite ends of the tree,
ACT and PRE at their bank, ACTAB and PREA at the channel; `CycleInv` (`Cycling`)
relates the age of a bank to the age of those commands. Where both meet, an ACT and
a PREA, the table has a gap and `RowCycle` is false (see 3). `Lock` says that all
banks are closed or have the same row open, and is kept because with this
traffic every command acts on all of them.

*Scheduling and service* (`CommandProofs`). `get_best_request` is one pass over a
buffer of any length, a recursive function here. That such a function exists
(`PassExists`) and what it returns (`PassFinds`) is proved by induction on the
number of requests it has seen. The library's induction theorems take an operator
as parameter, which the installed provers cannot instantiate; the proofs use the
well-founded order of the naturals as a set instead (`NatSetInduction`,
from `WFMin`). `compare` is not transitive, and the pass amounts to a rule only
because buffers are in order of arrival at all times (`Arrived`), although
requests leave from their middle and arrive with equal stamps. From this follow
`FirstReadyServed` and that no PIM request overtakes a barrier, so a step of the
controller is a step of `PIMService` (`ServiceInv == ArrivedInv /\ Whole(ctl)`).
The only step that is not is a dropped request; `PIMServed` and `MemoryServed` show
that there is none, the former as nothing moves to the active buffer, the latter
from `RoomForOneMore`.

### The simulation

`TraceProofs` proves `SentInOrder` (`LinesInOrder`), `BarriersHold`
(`BarriersKept`) and `DoneAtEnd` (`EndsDone`), for every set of finite traces, number of
channels, buffer size and clock ratios. None of these three is inductive.
`LinesInOrder` speaks of the waiting requests, and says nothing of those that are
over; `EndsDone` speaks of the last state only; `BarriersKept` speaks of pairs of PIM
lines, while a controller compares a barrier with what is around it. The
inductive invariant is

- `Numbered`: a request has the number of its line among the lines of its channel;
- `Placed`: the numbers sent are partitioned into those waiting, each once, and
  those done;
- `Ordered`: of two lines of a channel that must not cross, the later is not
  done before the earlier, barriers themselves included;
- `Summed`: the statistics count the lines up to the current one;
- `Ended`: the loop has ended only with nothing left, refreshes included.

Numbers of lines are cardinalities (`Upto`), and the first part of the module
proves what is needed of them: one more position adds one (`UptoNext`), and
positions are numbered in order, so that a number names one line
(`UptoIncreases`, `UptoDistinct`). The crux is `Ordered` through a tick
(`TickIInv`): if the number of a later line becomes done while that of an
earlier one does not, then by `Placed` and `Numbered` both requests were waiting
in the same controller, one was retired and the other left behind, which
`PIMService` excludes. What the theorems assume of a controller is thus what
`ServiceKept`, `PIMServed` and `MemoryServed` prove of it.

`RatiosHold` states the action property `RatioKept` for every two clock ratios, also
those with a common divisor. Its invariant `InStep` says, for each turn of the loop, how
often each clock has ticked: a clock that ticks at the multiples of `m` has
ticked `k` times in `n` steps when `(k - 1) * m < n <= k * m` (`Passed`), where `n` is
`step` before the clock's turn and `step + 1` after it. At the end of a round `n` is
`tick_mult`, which leaves one value of `k` (`PassedAll`).

### The RowHammer mitigations

`RowHammerProofs` proves all three properties of `RowHammer`, for every number of
rows, threshold, table size and cache geometry:

| theorem | states | holds for |
|---|---|---|
| `CountsAgree` | `CacheCoherent` | groups that are the rows initialized together (`GroupsMatch`) |
| `SwappedRowsFound` | `SwappedFound` | everything (the property ends where a row is swapped twice in an epoch) |
| `RowsProtected` | `Protected` | thresholds and group sizes that fit (`SizesFit`) |

*Hydra's cache.* A row is
counted first with its group, then in a table in DRAM of which a small cache
holds some entries; every count is written to both, and the cache also fills,
evicts and resets. `CacheCoherent` is not inductive: the first suspect activation
of a group overwrites the counts of all its rows, which is harmless only if
none of them is cached - and if they are the rows of that group and no other, which
is `GroupsMatch`: it holds if the number of rows and the size of a group are powers
of two (`PowersMatch`), and a size that is no power of two breaks the property (see
3). `HydraInv` therefore adds that the group of every cached row has its rows
counted one by one already, and that an entry belongs to a row (the set and the tag
determine it, `SamePlace`). The crux is `RowCountAgree`, over a hit, a
fill of a free way and an eviction.

*Swapped rows.* `SwapInv` says that the table is an involution without fixed points
and that the data of the two rows of a pair has changed places (`Paired`). Adding a
pair of rows that are in none keeps it (`InsertedPaired`), taking a pair out and
swapping back too (`RemovedPaired`), and a swap is made of these (`SwapsPaired`),
except for a row that is locked (`SwapAgain`): there the code moves the data of the row
and of its partner crosswise to what the table says of the rows that make way for
them, which is the case the property leaves out.

*Protection.* `Protected` compares activations with the threshold; the plugins
compare counts. Each invariant bounds the activations of a row by what its
plugin knows of it. For OracleRH this is its count; for Graphene its entry, and
without one the spillover counter, which is never above an entry
(`GrapheneCounts`), so that a row which takes over the entry of another starts no
lower than it was; for TWiCe its count plus the activations that pruning lets pass
in the refreshes its entry has not survived (`PrunedBound`); for Hydra the count of its
group until the group is suspect, which is where its own then starts, and which the
cache has right because of `HydraInv` (`ComparedCount`). A step raises the bound of the
row that is activated and lowers no other (`CountedBounded`), or refreshes the row's
victims (`VictimsBounded`). `SizesFit` says that Hydra's group threshold is
below the tracking threshold and its groups match, and that the threshold is 2 or more with OracleRH or TWiCe:
neither compares a row's first activation with it, and Hydra's rows start at the
group's threshold. Nothing in the code checks any of them.

### The cache of SimpleO3

`CacheProofs` proves, for any number of cores, lines, sets, ways and miss-status
entries, any traces and whatever the memory takes and answers, as far as index and tag tell the
lines apart (`LinesApart`; `PowersTellApart` shows that they do if the number of
sets is a power of two; with others the properties are false, see 3):

| theorem | states | holds for |
|---|---|---|
| `InFlight` | `InFlightTracked` | every latency |
| `LoadsAwaited`, `LinesFetchedOnce` | `LoadAwaited`, `FetchedOnce` | every latency, if `HitsSettled` holds throughout |
| `EarlyHitsSettled` | `HitsSettled` | two cores, answers in the next tick |
| `RoomyHitsSettled` | `HitsSettled` | every latency and number of cores, if no set has more lines than ways |

`CacheInv == TypeOK /\ Homed(llc) /\ Tracked(llc)` is inductive and gives the first: a line is in its
set once and is in flight there exactly while it has an entry, which the late
answer of a hit keeps too, since it takes the entry and marks the line in one call.
The others are false in general (`LostWakeUp`). `HitsSettled` is what goes wrong
there, that a hit is still to be answered while its line is fetched again, and the
two theorems show that nothing else does: under `[]HitsSettled` every load is told
(`LoadInv`) and every line read once (`ReadInv`). `ReadInv` counts reads in the miss
list, and a tick sends any of those that are due, in one recursive pass that keeps
what the memory refuses; that no read is lost or made twice in it
(`SendMissesKeeps`) is proved by induction over the list.
`EarlyInv` and `RoomInv` are inductive for the two situations where `HitsSettled` can
be relied on. In the first, a hit that is not yet answered when the second core
runs was made by the first core in the same tick, and its line is still the youngest of its
set. With four cores it is false: the second hits another line of the set, the
third evicts the line of the first, and the fourth fetches it again.

### The devices of the other standards

`StandardsProofs` proves all four properties of `DRAMDevice`, for every set of
organizations, every timing and every sequence of commands:

| theorem | states | holds for |
|---|---|---|
| `FourActivatesOfAll` | `FourActivates` | everything |
| `OneBurstOfAll` | `OneBurst` | everything but a DDR5 with nCWL + nBL > nCL + nCCDSWTR (`BurstTimes`) |
| `RefreshesQuiet` | `RefreshQuiet` | refreshes of DDR3, DDR4, DDR4-VRR, DDR5 and LPDDR5 (`RefreshTimes`) |
| `RowCyclesOfAll` | `RowCycle` | the same, and organizations of two banks (`TwoBanks`) |

Of the others, GDDR6, HBM and HBM2 are never sent a refresh, and in HBM3 a refresh
looks at the channel only and misses the constraints of its banks (see 3), so that the
properties are false; they hold for HBM3 without refreshes. In LPDDR5, `RefreshTimes`
further asks that nRPab is at least nRP, because what follows a PREA
there waits nRPab and the property asks for nRP. All presets
satisfy both this and `BurstTimes`. `TwoBanks` is what `RowCycle` itself speaks
of: it maps two banks to `BankProtocol`.

*From the tables to waiting times.* The constraints of a standard are a set of some
hundred entries. That its latencies have a largest one for each pair of commands,
so that `Latency` is defined, and that only one level has a window, is `Fine`; it is
proved family by family (`FineBus`, `FineTurnaround`, ...) and holds for unions. What
the proofs need of a table is that it *asks* certain distances of certain commands at
a certain level: `BankTable` (ACT, PRE and column commands at the bank),
`RankTable` (PREA and REFab at the rank) and `BurstTable` (reads and writes at the
node that owns the bus). From there on no standard is mentioned. `Due(w, b, cmd, l, n)`
says that some node at or above level `l` on the way to `b` makes `cmd` wait for `n`
cycles: a command that is ready is not due (`ReadyNotDue`), issuing a command
makes due what the table asks (`AskedIsDue`), issuing another one does not lower
it (`DueLonger`), and a cycle takes one off (`DueNext`).

*Row cycle and refresh.* Neither property is inductive, as both speak of the time
since an event and not of what the device keeps. `TimedInv` relates the two: for each
bank, the commands that could break the protocol are due for as long as its age, or
the time since its refresh, is short (`Timed`). The steps are sorted by what they do
to a bank (`BankIdles`, `BankIssues`): leave it, open it, close it, refresh it. The
crux is the rank: PREA and REFab act on all banks, so the constraint that protects a
bank has to be at the rank and to follow from what happened at the bank
(`TimedOpened`, `TimedClosed`). `Shaped` says that a bank has a row exactly if it is
not closed, and one row unless the standard opens it in two steps. There a second
command for another row adds to the rows, which maps to `Complete`; the age of the
bank is that of its first.

*Four activates.* The device keeps only the time until the next activation, the
property counts the activations of the last nFAW cycles. `Windowed` relates them:
at most four, and if there are four, the next activation waits at least until
the oldest leaves (`Oldest`: the activation with three younger ones). It needs no
other constraint, and no assumption on nRRD.

*Data bus.* `BusInv` is that the bursts are apart, and that behind each of them a read
and a write is due until the burst they would make comes after it (`BurstDue`).
Entries below the level of the bus are not needed.

### The generic controllers

`StandardsProofs` also proves both safety properties of `GenericController`, with one
or two commands a cycle, all standards, menus and buffer sizes:

| theorem | states | holds for |
|---|---|---|
| `RowsKept` | `RowKept` | everything |
| `OnePlaceKept` | `OnePlace` | everything, as long as nothing was dropped |
| `NoneRefused` | `OnePlace` | the generic controller with an active slot for every bank |

`RowKept` says what a cycle may close. Its invariant `GInv` is typing, with the kind
of request each buffer holds (`Kept`): that a request of the priority buffer is
a refresh, and of the others a read or a write, is what tells apart the
commands that may close a row. The argument follows `schedule_request` as for
the PIM controller: what it finds is `Sound`, in both of HBM3's rounds, and what
closes the bank of an active request is refused or comes from a refresh
(`CycleKeepsRows`).

`OnePlace` follows from `Whole`, the partition that `HandledOnce` is about, here over
two controllers of which one finishes a request, or activates one, between the
commands of a cycle. The lemmas about lines of numbers are shared
(`ProofLemmas`). `OnePlace` also says that nothing is lost, which is false with small
buffers: a request is dropped if the active buffer refuses it. `NoneRefused` shows
that this is the only reason. Its invariant `Paced` says that the active requests
are of different banks, so that a buffer with a slot for each bank never refuses one; it is kept
because an ACT needs a closed bank, and the pass of the scheduler (`BestFacts`, by
induction over the queue) finds a ready request among the active ones if there is
one: had the bank an active request whose row a refresh closed, that request's own
ACT would be ready, and no other buffer would be looked at (`OpenedForActive`). With
two commands a cycle this argument fails: the second round takes commands of the
other type only and may pass over the active request. Whether a request can
be refused then is not settled; no instance TLC was given shows it (up to five requests,
two refreshes, four banks in two pseudo channels), and `OnePlace` is checked
there without its condition in `Generic`.

### The set-up and the mappers

`SetupProofs` proves the four properties of `Setup`, and two facts that no run can
check in full:

| theorem | states | holds for |
|---|---|---|
| `NoPlaceShared` | no two addresses of the memory share a node, row and column, and none is outside the organization | every preset, rank count and mapper |
| `SampledPlacesDistinct` | `PlacesDistinct`, the lines the run samples | the same |
| `BurstsNeverOverlap`, `RowCycleAlwaysKept` | `BurstsDisjoint`, `RowCycleKept` | the same, and whatever a table returns or the user overrides |
| `RefreshAlwaysKeepsUp` | `RefreshKeepsUp` | the densities the tables hold |
| `RoundingFaithful` | a time rounded to cycles lasts as long, but for 26 thousandths of a cycle, and at most 974 longer | every time and every clock period |

The assumption is `DRAMSetupAssumption`: rank counts are those an `int` holds. The
capacity that `NoPlaceShared` speaks of is what the mapper's bits can tell apart:
the simulator neither refuses a higher address nor keeps it apart from a lower one
(most mappers drop the bits that are left over).

*Invariant.* None of the properties is inductive, since they speak of what a phase has
left behind. `SetupInv` says where everything came from: `Shaped`, that the
organization has a positive size for each level and at least four bursts in a row; that
the values are a preset speed completed from the tables (`TimesOf`); that the bits are
those of the mapper for this organization.

*Mappers.* An address is cut into pieces from its lower end. A piece and what is left
give the rest before (`PieceFacts`), so by induction over the slices the pieces of two
lines are the same only if what is left is (`SamePieces`), and nothing is left below
`Capacity` (`NothingOver`): the pieces tell the lines apart (`PiecesTell`). All
mappers but one hand the pieces to the levels in an order that is a permutation
(`SliceOrderPermutes`, `SlicedFacts`). `MOP4CLXOR` puts two pieces together to a column and
xors the others with bits of it. The column is not changed, and a number xored with the
same mask tells itself (`XorTells`); the result stays within the level because an exclusive
or is no wider than its operands (`XorRange`). Both are proved bit by bit, on
the recursive `BitXor`, which is why `Bits` has its own. For the column to be cut in two
it needs two bits, which is where `Shaped` asks for four bursts (`AddrBitsFacts`).

*Values and tables.* What the constraint tables need of a speed (`Usual`) is shown of
the presets of each standard (`SpeedsUsual`), and that the tables of secondary and
refresh timings do not touch it (`KeptValues`). A constraint then keeps bursts apart
if its latency covers their distance (`RuleApart`), whatever the numbers: `BusRules`
names the four constraints that do, for each standard. GDDR6 has none
for the row cycle; there nRAS and nRP of its presets have to make it up.

*Refresh.* Cycles are bounded by their time and the clock (`RoundedUp`, `RoundedUpDDR5`), and
clocks of all presets lie between 300 and 2500 ps. Two times at least 600 ns apart
are then more than 200 cycles apart (`RoundedApart`), which is what nRC and nRP take at most.
The models of high-bandwidth memory have nREFI in their presets, and its
distance to a refresh of at most 650 ns follows from their clock (`RoundedShort`).

### Model-checked only

Liveness (`AllServed`, `EveryoneServed`, `Finishes`, `Terminates`), which the prover
does not handle; `RefreshQueued`, which bounds how long a refresh may wait, and
so depends on liveness; and `OnePlace` of the two-command controller without
its condition. All other properties of the passing runs are theorems, under
the conditions the tables above name.

## 6. Plan

1. Done: device, scheduler, controller, refresh manager; abstract service and
   bank protocol; the simulation around them; the other standards, controllers,
   set-up and mappers; processor and cache; RowHammer plugins. Every safety property
   of the PIM controller but `RefreshQueued`, its refinement of `PIMService` and
   `BankProtocol`, the safety properties of the other standards' devices and
   controllers, of the set-up and mappers, of the simulation, of SimpleO3 and of the
   RowHammer plugins proved.
2. Proofs next: `NoneRefused` for the two-command controller.
3. Models next: Hydra with several banks of a rank in one cache, and the
   single-bank refreshes, should something ever issue them.

## 7. Not modelled

- `frontend/impl/memory_trace/readwrite_trace.cpp`: not compiled, its
  `is_finished` is a TODO that always answers true, and its requests carry
  address vectors that the mapper overwrites.
- Trace recorders and the command counter: output only. The gem5 wrapper: hands
  calls on. Dummy controller and memory system: accept everything, do nothing.
- The framework (`base/`): configuration, factory, parameters, statistics;
  start-up code without behaviour of its own.
- That accesses to one line may have different byte addresses: `llc.cpp` keys
  `m_receive_requests` and the answers of hits by byte address, lines and
  miss-status entries by line. In the model an access is to the line.
- Single-bank, same-bank and fine-granularity refreshes, RFM, power-down: no
  request or plugin issues them, in any of the standards.
- The AttAcc performance model (`src/attacc_simulator/src/`, `main.py`):
  sequential arithmetic over floating-point latencies and energies, no state.
- Trace generators: text output. `pim_ramulator_src/`: copies of files modelled
  where the build takes them from.
