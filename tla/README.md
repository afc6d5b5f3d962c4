# TLA+ specifications of the OS simulator

This directory holds TLA+ models of the operating-system simulator in
`ossim_source_code_part2_hk231_paging/` (called `ossim/` below), the TLC
configurations that check them on small instances, and TLAPS proofs of what
holds for every value of the constants. Every definition is translated from the
C source; `PROJECT.json` maps each one to its lines.

## The system

`os.c:main` reads a configuration, formats the physical memories, and starts
one thread per CPU, a loader thread and a timer thread. Simulated time advances
in slots. In each slot every CPU runs one instruction of its process and the
loader admits at most one process.

| Part | State | Operations | Interacts with |
|---|---|---|---|
| timer (`timer.c`) | `_time`, `dev_list`, per device the flags `done` and `fsh`, two mutexes, two condition variables | `attach_event`, `start_timer`, `timer_routine`, `next_slot`, `detach_event`, `stop_timer` | every CPU and the loader, through the flags and the condition variables |
| scheduler (`sched.c`, `queue.c`) | one array queue and one budget `time_slot` per priority, `queue_lock` | `init_scheduler`, `add_proc`, `put_proc`, `get_proc`; `enqueue`, `dequeue` | called by the loader and by every CPU |
| CPUs (`os.c:cpu_routine`, `cpu.c`) | per CPU `proc`, `time_left`; per process `pc` | get, preempt, finish, run, skip a slot, stop | scheduler, timer, memory, the flag `done` |
| loader (`os.c:ld_routine`, `loader.c`) | position in the configuration, the flag `done` | load a process, wait for its start time, hand it over, finish | scheduler, timer |
| physical memory (`mm-memphy.c`) | storage, free-frame list, access mode and cursor of each device | format, take a frame, put a frame back, read, write | shared by every CPU without a lock |
| page table entries (`mm.h`, `mm.c`) | a 32-bit word | set a frame, set a swap offset, test and extract | virtual memory |
| regions (`mm-vm.c`) | per process one area, a list of free regions, a symbol table | alloc, free, the search for a free region | called by `cpu.c:run`; growing the area maps pages |
| paging (`mm-vm.c`, `mm.c`) | per process a page table and a FIFO of pages | map, read, write, page fault, swap out and in | called by `cpu.c:run`, calls physical memory, which processes share |

Also in the repository, and not modelled: the segmentation memory `mem.c`
(linked, but no path of the `MM_PAGING` build calls it), the stand-alone test
program `paging.c`, the second scheduler build (`sched.c` without `MLQ_SCHED`,
compiled out), the printing functions.

### What is hard about it, and what makes each part correct

* **Timer.** Two mutexes per device, and the flag `done` is set under one and
  cleared under the other. Correct means: no data race on the flags, no lost
  wake-up, the clock advances only when every device has finished its slot, a
  device continues only after the clock has advanced, every `next_slot`
  returns, and shutdown terminates without using a freed container.
* **Scheduler.** Correct means: no PCB is lost or duplicated, a level is served
  at most `MAX_PRIO - prio` times between two refills, every process is
  dispatched, an array of ten cells is never overrun.
* **CPUs and loader.** Correct means: one owner for each PCB although `proc`
  keeps stale pointers, whole time slices, nothing left behind when the CPUs
  stop (they read `done` without a lock), every process finishes, the program
  ends.
* **Physical memory.** Correct means: a frame has one holder, no frame or node
  is lost, no pointer dangles, also when CPUs race, also at the boundary of one
  frame and of an exhausted device.
* **Regions.** Correct means: the search finds a region exactly if there is one
  that is large enough, it ends, regions do not overlap and stay in the area.
* **Paging.** Correct means: what is read back is what was written last, also
  after the page has been swapped out; a frame belongs to one page; the victim
  is the oldest page; a failed allocation gives its frames back.

The places where this can go wrong are listed, line by line, under `hazards` in
`PROJECT.json`.

## Modules

| Module | Models | Role |
|---|---|---|
| `SlotBarrier` | what `timer.h` promises | abstract specification; used by `Os`, implemented by `Timer` |
| `Timer` | `timer.c`, and how `main` drives it | detailed specification |
| `Config` | the constants of `sched.h`, `queue.h` and `read_config` that the next two share | assumptions |
| `MlqSched` | `sched.c` (MLQ build) and `queue.c` | component; its actions are used by `Os` |
| `Os` | `cpu_routine`, `ld_routine`, `run`, `load` | composition of `MlqSched` and `SlotBarrier` |
| `MemPhy` | free-frame list of `mm-memphy.c` | component |
| `Storage` | bytes of `mm-memphy.c`, `__swap_cp_page` of `mm.c` | component |
| `PteWord` | the entry layout of `mm.h`, `bitops.h` | operators on words; used by `Pte` and `Paging` |
| `Pte` | the setters of `mm.c` | component |
| `Regions` | ALLOC and FREE of `mm-vm.c`: regions of one process | component |
| `Paging` | ALLOC, READ and WRITE of `mm-vm.c` and `mm.c`: pages of several processes on shared devices | composition of page tables (`PteWord`), page lists and devices |
| `MCTimer`, `MCOs`, `MCMemPhy`, `MCStorage`, `MCPte`, `MCRegions`, `MCPaging` | | constants for TLC |
| `TimerProofs`, `MlqSchedProofs`, `OsProofs`, `MemPhyProofs`, `StorageProofs`, `PteProofs`, `RegionsProofs`, `PagingProofs` | | theorems |

Definitions named `x_Something` after "Bug variant:" are not part of any
specification. Each is the definition `x` with a plausible bug, and the
property named for it in `PROJECT.json` fails when it takes the place of `x`.

### Timer

`dpc[d]`, `tpc` and `mpc` are the positions of device `d`, of the timer thread
and of `main`. Taking a mutex is one action; the accesses made under it, the
signal and the unlock are the next one. That is sound because the accesses to
`done` and `fsh` of two threads never meet (`DoneRaceFree`, checked and
proved). A condition wait is three positions: test and sleep (which gives the
mutex up), woken, mutex taken back. A signal moves the sleeper if there is one
and is lost otherwise, and a sleeper may also wake without a signal. A device
between two calls may call `next_slot` or `detach_event`, nothing else is said
of it. `dev_list` is a counter: containers are pushed on the front and never
removed, so the list is `N, N-1, ..., 1`. `_time` is read only for comparison
with start times and saturates at `MaxTime`.

### MlqSched

Every operation runs under `queue_lock` from its first to its last access, so
each is one action. `ScanLevels` is the set of levels the two loops of
`get_mlq_proc` visit. As written, `for (prio = MAX_PRIO; prio < 0; prio++)`
visits none: that is `CodeScan`. The recorded outputs in `ossim/output/` come
from a scan from the highest priority down: that is `FullScan`. With the
program's own scan no process leaves its queue (`os_dispatch`), so the passing
run uses `FullScan`, to reach the budgets, the queues and the CPU loop. No
property presupposes it: `NoneStranded` and `WorkEnds` speak of the processes
whose level is scanned (`Reachable`), all the others hold whatever is scanned,
and the theorems are proved for any `ScanLevels`, the program's own included.
(With `ScanLevels <- CodeScan` the run passes as well, on some 370 states.)
`enqueue` has no bound check; a store past the array raises
`overrun`, after which nothing is said of the state (the store hits `size` and
`time_slot`).

### Os

Threads interleave at the accesses to what they share: the ready queues, the
clock, `done`. Work on a thread's own variables and on a PCB it owns belongs to
the action before it. `proc[c]` keeps its pointer after `put_proc` and after
the PCB is freed, until `get_proc` returns, as in the code. `ld_load` may end
the program, as `load()` does with `exit(1)` for a missing file or an unknown
opcode. An instruction advances `pc` before it is executed. The return value of
the memory operations is ignored by `cpu_routine`, and their effect on memory is
in `Regions` and `Paging`; but not every instruction comes back: `ALLOC 0` and a
search for a victim in a cyclic list loop for ever, and some are undefined
behaviour. `cpu_hang` is any instruction doing so. The CPU then never ends its
slot, and through the barrier everybody waits for it; `Broken` names these ends
together with `exit(1)` and the overrun of a queue.

What is excluded, since `read_config` checks nothing: a time slice of 0
(`OsAssumption`), with which `time_left` would go negative and never be 0 again,
and a priority of `MAX_PRIO` or more (`MlqAssumption`), which would index past
the array of queues.

### MemPhy

Nothing protects the list, so every access to a shared word is an action; the
statement at `mm-memphy.c:148` is two (`get_next` reads, `get_store` stores). Nodes
are numbered; `alive` is the set that is allocated. Following a pointer to a
node that is not alive, or freeing one, raises `undefined`, after which nothing
is said. `put_freefp` is part of the model under the constant `Releases`: in the
program `free_pcb_memph` would put frames back on a device, but has no caller,
so the run with two CPUs leaves it out.

With a single frame (`MaxSz = PAGESZ`) `MEMPHY_format` leaves `fp_next` of its
only node unset, and `NoUndefined` fails on the second `get_freefp`; the run
has three frames.

### Storage

The CPUs write to frames (`pg_setval`) and copy between them with
`__swap_cp_page`, one access per action. The frames are any frames, those of
another CPU too, because the code does not keep them apart: it uses a page number
as a frame number (`mm-vm.c:205`, `:211`), writes through a frame number that was
never set (`:258-266`), and may take one frame twice (`memphy_race`). The history
variable `touched` records that another CPU wrote to one of the two frames of a
copy; the properties say that nothing else can spoil it.
`rdmflg` is a constant: `main` sets it for every device. Without it
`MEMPHY_read` leaves the byte uninitialized, because `MEMPHY_seq_read` and
`MEMPHY_seq_write` refuse exactly the devices they are called for; `CopyExact`
then fails, and the theorem has random access as its premise. The cursor is left
out: no call ever moves it.

### PteWord and Pte

A 32-bit word is the set of positions of its 1 bits, so that `|`, `&`, `~` and
the masks are set operations, which TLC and the provers both handle. `kind`,
`fpn`, `swptyp` and `swpoff` remember the last call. An entry starts as malloc
left it.

### Regions

One process, one area: every caller passes `vmaid` 0. The walk of
`get_free_vmrg_area` is one action per iteration, because its loop is what is
hard: it stays on a region after a fit (`split`, `use_up`) and moves on only
when the region is too small (`skip`). Removing a node by copying the next one
into it is modelled by what it does to the sequence of regions. Three things
have no defined outcome and raise `undefined`: `init_mm` links the first region
to a pointer that was never set (`rg_next` is `"wild"`); `__free` enlists the
address of a parameter (`param`), so a later walk finds the region still there
or anything else, and `free()` of such a node is undefined; an id one past the
table is let through; and an area that grows may send `alloc_pages_range` through
pointers that are none (`Paging` tells these outcomes apart). `before` and `grown` are history: the list when the call
began, and how often the area has grown. `sbrk` is a constant, since nothing
assigns it after `init_mm`.

`ALLOC 0` does not return: a region of any size has room for nothing, and taking
nothing does not shrink it. It is among the inputs; `FoundIfRoom` and
`AllocReturns` have the premise `size > 0`.

The comments of `get_free_vmrg_area` speak of one region: "find a fit space"
(`mm-vm.c:513`), "Update left space in chosen region" (`:521`). The loop takes a
piece off every region that is large enough, as often as it fits, and all pieces
but the last are lost. `FoundIfRoom` therefore claims only what does hold: that
the request is served if it can be, and that the regions too small for it are
kept. What happens to the others is described, not approved, by the closed form
in the theorem `ScanComputes`. The disagreement has no run of its own: a region
with room is met only through the dead parameter that `__free` enlists, so every
execution that shows the loss is one that undefined behaviour happened to let
through.

### Paging

One action is one instruction of one process; a page has one cell. The
operators `hit`, `fault_load`, `fault_evict` and `fault_empty` are the paths
through `pg_getpage`, with the instruction whose access follows as a parameter. What is
particular to this code is kept:

* After a fault the caller's `fpn` is not set, so the access goes to any frame
  (or ends the program: `fault_undefined`). On a hit it is what `PAGING_FPN`
  makes of the entry.
* When RAM is full, the page number of the victim is used as a frame number,
  the entry of the page that faulted is not set, and neither the result of the
  search for a victim nor of the search for a swap frame is looked at. A
  variable left unset by a failed search has any value.
* `find_victim_page` frees the last node and does not unlink it. Nodes are
  explicit, and malloc may return one that was freed: a list can then continue
  into another process's, or into itself (`fault_loop`).
* `alloc_pages_range` passes pointers to `MEMPHY_put_freefp` that do not point
  to a device. That may end the program; if it does not, the frames taken from
  RAM are lost, `frm_lst` stays NULL, no entry is set and one page is enlisted.
* Entries, `fifo_pgn` and the cells of the devices start as malloc left them.
  The page table is malloc'ed for one entry; `NPages` counts the entries that
  really fit in what malloc returns.

`kind`, `order`, `dangling`, `swapFull` and `last` are history variables that
the properties use. `SwappedOutKept` is one half of what swapping is for: what was
put on the swap device stays there. The other half, that it comes back, is
`SwappedBack`, and fails: `pte_set_swap` marks the entry present, so no later
access faults on it. `ReadsBack` is stated for consecutive instructions, which
is the weakest form of read-your-writes, and it already fails. It does not
depend on an `ALLOC` that survives the wrong pointers: when RAM is exhausted the
area grows without any frame being put anywhere, and the next `WRITE` and `READ`
disagree as well.

## Runs

| Run | Instance | What it shows |
|---|---|---|
| `timer` | 2 CPUs and the loader, clock to 2; about 30000 states | race freedom, no lost wake-up, no use after free, refinement of `SlotBarrier`, under all interleavings and spurious wake-ups; every `next_slot` returns; shutdown ends |
| `os` | 2 CPUs, 5 processes on 2 levels, arrays of 3, slice 2 | scheduler, CPUs and loader together: nothing lost, duplicated or shared, budgets kept, no overrun, whole slices, nobody stranded; the work ends unless an instruction or `load()` ends everything |
| `memphy_alone` | 1 caller, 3 frames and a remainder, 4 nodes; about 480000 states | frames held once, nothing leaked, no dangling pointer |
| `os_dispatch` (violation) | the scan as `sched.c` has it | no process is ever dispatched |
| `os_stop` (violation) | a full scan, 1 process, 2 CPUs | a CPU that is idle when the loader ends never stops, so `main` never returns |
| `memphy_race` (violation) | 2 callers | both are given the same frame |
| `storage` | 2 CPUs on any of 2 neighbouring frames of 2 cells on each device | a copy is exact unless another CPU writes to one of its very frames |
| `pte` | arguments with bits at, next to and past the ends of the fields; 133 states | fields read back, other bits are kept |
| `regions` | 3 symbols, pages of 2 bytes, an area of 12, requests of 0, 1, 2 and 5; about 204000 states | the search finds a piece exactly if a region has room and keeps the smaller ones (`FoundIfRoom`); regions are disjoint until the area grows for the second time and stay inside it; every `ALLOC` of a byte or more returns |
| `paging` | 2 processes of 2 pages, 2 RAM and 2 swap frames, 3 list nodes, 2 values; about 226000 states | no frame in two entries, FIFO order until the first eviction from a list of several, what was swapped out is kept on the swap device until that is full |
| `paging_read` (violation) | the same | a `READ` right after a `WRITE` of the same page returns another value |
| `paging_swap` (violation) | the same | an access to a page that was swapped out does not swap it in |

**Why the bounds are enough.** Three devices is the least number for which the
timer's loop over `dev_list` has a first, a middle and a last element, and one
device can call `next_slot` again while the timer still releases another; the
clock saturates, so the slots themselves are not bounded: devices go on for
ever. In `MCOs_finish` three processes fill one array to its last cell, the two
levels have different budgets, so that they are exhausted and refilled in several
orders, the sizes are below, at and above a slice, more processes than CPUs are
ready at once, and the last arrives after every CPU has been idle. In `MCMemPhy_alone`
malloc can return a freed node or one never used, and the device can be
exhausted and refilled. In
`MCStorage` the frames are neighbours, so an off-by-one in the loop reaches the
page of the other CPU, and both CPUs may use one frame; the CPUs are symmetric. `MCPte` sets bits at both ends of every field
and past them; since every operation works bit by bit, other bits behave like
one of these. `MCRegions` has requests smaller than, equal to and larger than a
page, room for the area to grow more than once, symbols that are freed twice or
allocated again while they are live, and ids at and past the end of the table.
In `MCPaging` `ALLOC` can take all of RAM, so that every one of the four pages
can fault with RAM full: lists of several nodes are evicted from, freed nodes are
taken by the other process, cycles arise and the swap device overflows; an
entry may start as zeroes or say "present" with a frame number outside RAM.
Processes, nodes and values are symmetric, and
the view of `MCPaging.cfg` leaves out `last`, which no action reads; of its
properties only the type of `last` in `TypeOK` depends on it, and that is proved.

**Fairness.** Weak fairness of each thread: the host schedules a thread that can
run. For a mutex weak fairness suffices, since no thread takes one again before
the other side has acted. `Timer` also assumes that spurious wake-ups stop
eventually; POSIX allows them and no implementation produces them for ever. In
`Os` nothing is assumed of an instruction: it may return or not. `Regions` assumes that the CPU goes on with the
`ALLOC` it is in (`get_free_vmrg_area`, `Return`), never that one is called.
Nothing is assumed of when a device detaches.

`CHECK_DEADLOCK` is on in every run but `memphy_race`, where a race may end in
undefined behaviour and nothing follows. The stutter actions `Terminated` (main
has returned), `Halted` (after `exit(1)`, an overrun, or in an instruction that does not return) and
`Stopped` (after undefined behaviour or in an endless loop) mark the only states in which the system may stop.

## Proofs

`TimerProofs`, for any number `N > 0` of devices and any clock bound:

* `Invariance`: the inductive invariant `IInv`. None of the properties is
  inductive. `MainInv` ties the position of `main` to who exists;
  `CursorInv` says where the list cursor may be; `LockInv` says who holds a
  mutex at each position; `FlagInv` ties `done` and `fsh` to the device's
  position and to whether the timer has already passed the device in this slot
  (the fact that replaces the missing common mutex); `CountInv` bounds the two
  counters by the cursor.
* `TypeCorrect`, `RaceFree`, `WakeupsKept`, `FreeSafe` follow from it.
* `Refinement`: `Spec => ImplementsBarrier`. Each step of a thread is a step of
  the barrier or a stutter, under the mapping `PhaseOf`; the step that advances
  the clock is the only one that needs the counting argument: the cursor has
  passed every device, so each is held in `next_slot` or gone.

`MlqSchedProofs`, for any number of levels, cells and processes and any
`ScanLevels`:

* `Invariance`: type, placement and budgets together. The budget is what keeps
  `time_slot` a natural number, and placement is what makes the head of a queue
  a waiting process.
* `TypeCorrect`, `Budgets`, `OnePlace`.
* `QueuesFit`: if `LevelsFit` (at most `MAX_QUEUE_SIZE` processes per
  priority), no enqueue overruns. It rests on placement: the cells of a queue
  hold distinct processes of its priority, so their number is bounded by the
  cardinality of that set. The premise is needed: `enqueue` compares nothing
  with `MAX_QUEUE_SIZE`, and the eleventh process of one priority is stored past
  the array.

`PteProofs`, for every word and every argument: `TypeCorrect`,
`FramesReadBack`, `SwapsReadBack`, `UserBits`. They rest on one lemma about
`SETVAL` and `GETVAL` on the same field (`FieldReadBack`) and one about the bits
outside it (`OtherBits`); `StepForms` reduces the setters to two words.

`StorageProofs`, for any number of CPUs, any page size and device size, and any
choice of frames, shared or not: `TypeCorrect`, `CopyUndisturbed`, `CopiesExact`.
`AddrInjective` and `AddrInDevice` are the arithmetic: cells of different frames
have different addresses, within the device, so that a write leaves every other
frame as it was (`OthersKept`). The inductive invariant adds to
`CopyPrefix` that a copy about to write is still inside its loop. The premise
is `RandomAccess`.

`OsProofs`, for any number of CPUs and processes, any slice, sizes, priorities
and start times, and any `ScanLevels`:

* `Invariance`: the inductive invariant joins the scheduler's own (`SchedP!IInv`,
  taken over from `MlqSchedProofs`) with `LoaderInv` (the loader hands over the
  processes in order, and `done` is set only afterwards), `PhaseInv` (where a
  CPU is in its loop, by its phase at the barrier), `ExclusivePcb`, and
  `SliceInv`, which relates `time_left` to the program counter. `ActiveInv` says
  that once the loader is through and its slot is over, some CPU is not on its
  way out as long as a process of a scanned level is left; `IdleInv` that with an
  empty scan no CPU ever gets past its first `get_proc`.
* `TypeCorrect`, `OneCpuPerPcb` and `SlicesAreWhole` follow. `ExclusivePcb` is
  inductive only together with the placement of the scheduler: a PCB taken from
  a queue was ready, so nobody held it.
* `NoProcessStranded` has no premise on the scan. The CPU that finds no process
  and reads `done` without a lock can only do so after the slot in which the last
  process was added; if it finds the queues it scans empty then, the processes of
  those levels that are left are held by CPUs that will look again.
* `UsesScheduler` and `UsesBarrier`: the composition implements the
  specifications of its two parts, so what is proved of the scheduler alone
  holds in the simulator: `SchedulerKept`, `BudgetsKept`, and
  `QueuesNotOverrun` under `LevelsFit`.

`MemPhyProofs`: `TypeCorrect` for any number of CPUs. For a single caller and a
device of two frames or more (the boundary of one frame is the unset pointer
described above, the case of two callers is `memphy_race`), of any size and
with any order in which malloc returns nodes: `FramesExclusiveAlone`,
`NoUndefinedAlone`, `NoneLostAlone`. The inductive invariant `IInv(c)` describes
the list as a stack of distinct nodes linked by `fp_next`, with the frames that
are not held; `Detached` is the node that a call has unlinked and not freed, or
malloc'ed and not linked. That the nodes reached from the head are exactly the
malloc'ed ones is a statement on the walk, derived from the stack.

`RegionsProofs`, for any number of symbols, page size and requests:

* `Invariance`: `AreaInv` (all regions lie in the area, and there is room for
  the request being served), `EmptyInv` (before the area grows nothing can be
  handed out) and `DisjointInv` (which adds to the property the piece that the
  search has found so far).
* `TypeCorrect`, `RegionsWithinArea`, `DisjointRegions` follow.
* `ScanComputes` and `SearchFinds`: the loop against its closed form, and
  `FoundIfRoom` from the same invariant. The invariant `CutInv` says
  how far the search has come (`Progress`): which region of the list at the call
  each present one is left of (`g`), how many pieces are cut off the current one
  (`c`), that the regions missing were used up, and whose last piece `newrg` is.
  `CutOne`, `PassOn` and `DropOne` are its steps, stated on lists; `Quotient` and
  `RestAfter` are the division in the closed form.

`PagingProofs`, for any number of processes, pages, frames and list nodes, and
any words left by malloc:

* `TypeCorrect`.
* `FramesNamedOnce` has the premise `FieldsFit`: RAM has at most 2^13 and swap at
  most 2^21 frames, the widths of the two fields of an entry. (Beyond them two
  frames have the same field.) The invariant `OnceInv` says that the frames in
  entries and on the free list are distinct. Its step for a setter needs that a
  number goes into a field and out again unchanged: `RoundTrip`, which rests on
  `SumOfBits` (a number is the sum of its bits) and on the field lemmas of
  `PteProofs`.
* `SwapKept` has the same premise: a page is swapped out to a frame that was
  free, and no entry names a free frame (`OnceInv`), so the frame written to is
  nobody's; nothing else writes to the swap device (`SwapWrites`, `NextKeeps`).
* `FifoKept`: the invariant `ChainInv` says that each list is a chain of
  malloc'ed nodes, one per page enlisted, and that no node is in two places. It
  rests on `WalkChain`, which computes the walk of `find_victim_page` along such
  a chain: the recursive function that defines the walk is unique
  (`WalkUnique`), and a chain has at most as many nodes as there are, so the
  walk reaches its end. `OldestIsLast` is what an eviction needs: the node freed
  is the end of the chain, so if no pointer to it is left the list had one page.

Only model-checked:

* Liveness (`NextSlotReturns`, `Shutdown`, `WorkEnds`, `AllocReturns`), which needs fairness and is out of the prover's reach.
* The five violations below: TLC's counterexamples are the evidence.

## Findings

Five disagreements between the code and what its comments, its headers, the
recorded outputs or the assignment text say; each is shown by a run above and
quoted in `PROJECT.json`: the loops of `get_mlq_proc` are never entered; an idle
CPU never sees `done`; the free-frame list is shared without a lock; what a
process writes is not what it reads back, because the frame number is not set
after a fault and read from the wrong bits otherwise; a page that was swapped
out is not swapped in again, because its entry still says "present". A sixth, the
region search that takes from more than the chosen region, is described under
`Regions`.

What the passing runs show of regions and paging is narrower than one would
want, and says so in the properties: regions are disjoint only
until the area grows a second time; FIFO order holds only until the first
eviction from a list of several pages; no swap frame is used twice, and swapped
pages are kept, only until the swap device is full; a page copy is exact only if
no other CPU uses its frames; no queue is overrun only if the configuration has
at most as many processes of one priority as an array has cells.

## Not modelled

* `mem.c` and `mem.h`: linked, but no path of the `MM_PAGING` build calls them,
  and the functions are stubs ("This mem is obsoleted"). `paging.c` is a separate
  test program that the default target does not build.
* `free_pcb_memph`, `MEMPHY_mv_csr` on a serial device, `queue_empty`: nothing in
  the program reaches them.
* Printing (`print_list_*`, `print_pgtbl`, `MEMPHY_dump`): no state.
* Overlapping memory instructions of two CPUs on the whole of `Paging`. What they
  can do to each other is in the free-frame list (`MemPhy`) and in page copies
  (`Storage`); after the race that `memphy_race` shows, nothing of `FramesOnce`
  is left to check.
* What happens after undefined behaviour.

## Plan

1. **Done**: timer and its abstract specification, scheduler, CPU and loader
   composition, free-frame list, storage and page copy, page table entries,
   regions, paging; proofs of the safety invariants of all of them.
2. **To come**: the liveness properties stay with TLC; what is left for proofs is
   to carry theorems across compositions, as `OsProofs` does for the scheduler:
   the timer under the use that `Os` makes of it.
