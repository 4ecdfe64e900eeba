# A verification project for RospOS

RospOS is a 32-bit virtual machine written in C++ (`rospovm/`), the assembler
and the C-like compiler that target it (`rospoas/`, `rospocc/`, Python), and
the small guest system compiled with them (`rospos/`, `.rosc`). This directory
holds TLA+ models of its stateful parts, the TLC runs that check them, and
proofs checked by TLAPS.

## The system

| Part | State | Operations | Interacts with |
|---|---|---|---|
| CPU, `backend/RospOSVM.cpp` | pc, 16 registers, snapshot history, `waitingForInput` | `step`, `runSteps`, `stepBackward`, loading | memory, TTY, shutdown flag |
| Memory, `backend/Memory.cpp` | 4 GiB of bytes (dense or paged), special ranges, a one-entry range cache | byte, half, word access, `loadBinary` | MMIO handlers of TTY, display, block device |
| TTY, `backend/TTY.cpp` and `TTYWidget.cpp` | input queue, two callbacks, output batch, document | `TTYPush`, `TTYReadHandler`, `TTYHasInput`, `TTYRequestInput`, `appendOutputByte`, `flushOutput` | keyboard, CPU, event loop |
| Block device, `backend/BlockDevice.cpp` | five registers | READ and WRITE commands by DMA | memory, backing file |
| Backing file, `backend/BlockDeviceBacking.cpp` | the image, its index in the file and in memory | load, append, compact | host file system |
| Display, `backend/Display.cpp` | frame buffer, mirror image, queued repaint | byte read and write, paint | memory, Qt |
| Headless program, `frontend/headless` | step count, exit status | the loop around `runSteps`, SIGINT | CPU, shutdown flag |
| Controller, `frontend/qt/shared/VMControllerCore.cpp` | running, speed, two timers, step backlog, the VM it owns | run, pause, step, step back, restart, reset, tick | CPU, windows |
| Guest library, `rospos/lib/*.rosc` | heap list, file directory | `malloc`, `free`, `write_file`, `read_file` | block device, TTY |
| Compiler and assembler | register pool, label table | one-shot translation | files |

What is hard here is not concurrency in the usual sense. Each program runs the
guest on one thread: with a window in slices between the handlers of the event loop,
headless in one loop that a read of the TTY may hold up. The hard behaviours are: a
process that ends between two file operations of the block device or two commands of the
guest, host file operations that fail in the middle of a command or lose what they were given, state kept twice (an
index in the file and in memory, a snapshot and the memory it restores, a frame buffer
and its image, a page and what a cached range says of it, a queue and the flag that
waits for it), commands that fail after half their work, and guest-visible arithmetic
that wraps. `PROJECT.json` lists each of these hazards at its line, with the
properties that cover it.

## Plan

In the order of importance; all of it is done.

1. `BlockMap`, `BlockDeviceBacking` and proofs: what survives a crash.
2. `BlockDevice`: registers and commands over the backing file.
3. `Machine` and proofs: step, step back, what a snapshot restores, and reads of
   the TTY that must be complete before they start.
4. `Controller` over `Machine`, and proofs: commands, timers, bursts, breakpoints,
   and the liveness of a polled machine.
5. `Heap` and proofs: `malloc`, `free` and the debugger's walk of the list.
6. `FileSystem` over `BlockMap`, and proofs: what a file is after failures and
   crashes between its commands.
7. `Terminal` and `Console`, and proofs: output, display and the headless loop.
   `FlatMemory` and `Memory`, and the proof that one implements the other.

Worth doing next: the compiler's register pool with its spills, over a small model of the
expressions that are compiled.

Modules that compose: `BlockDevice` extends `BlockDeviceBacking`, `Controller`
extends `Machine`, `Console` extends `Terminal`; `BlockDeviceBacking` implements
`BlockMap`, over which `FileSystem` is built; `Memory` implements `FlatMemory`.

## Block device

### Modules

- `BlockMap` is the abstract promise: a map that the machine sees (`visible`),
  the map a restart would bring back (`durable`), and writes that become
  durable only when they are published. Publishing withdraws the old durable map
  first, because the code removes the old file before renaming the new one.
- `BlockDeviceBacking` models `BlockDeviceBacking.cpp`. The variable `main` is the
  file at `backingFilePath`, `tmp` the file with `.tmp` appended, `blockIndex` the
  index in memory, `phase` the point between two file operations where the process
  is (`down`, `create`, `load`, `idle`, and `copy`, `remove`, `rename` inside
  `rewrite_index_section`), and `loading` tells whether the compaction was started by
  `load_index`. One action per file operation, and one for its failure. `Faulty` says that
  the operations of the host may fail: a file cannot be opened, read, written or removed,
  or an append throws after it has created the file or left part of a record in it.
  `Losing` says that it may also do one of two things the code cannot make good: lose an
  append unseen, or fail between the removal of the old image and the renaming of the new
  one.
- `BlockDevice` extends it with the registers of `BlockDevice.cpp`, one step per
  block moved by `execute_read_command` and `execute_write_command`, the failure
  path of `run_command_if_needed`, and restart of the machine around it.
- `BlockDeviceBackingProofs` and `BlockDeviceProofs` hold the theorems.

Abstractions. A record is addressed by its place in the file, not by byte offset,
and compression is left out: neither decides which record a read returns. A file
that lost its header starts its records 20 bytes earlier, so a place also carries
whether its file had a header; reading it in a file of the other kind yields
anything or throws. A payload that does not decode is the model value `Bad`.
Guest memory is a ring of block-sized slots and ids a ring of `NumIds`, as both
wrap at 2^32. The clock, random and information blocks hold any contents. A
DMA whose buffer is a device register is not modelled. `lastWrite` is a history
variable.

### Runs

| Run | Host files | Shows |
|---|---|---|
| `device_sound` | may fail, but lose nothing; the process may end anywhere | the file with its two indexes implements `BlockMap`; the index in memory names whole records of the right blocks; a file without a header is empty; blocks moved agree with guest memory, wrapped ranges included; guest and disk disagree only during a WRITE or after one that ended in Error; the device uses the backing file only as its specification allows |
| `device_faulty` | may fail or lose an append, or fail between removal and rename; the process may end anywhere, inside an append too; a buffer slot that cannot be accessed; the guest stores any bits in Status and Command | what a restart finds changes only when the file is replaced; the temporary file is complete by then; the index of an image with a header is sound; every compaction ends; Busy is exact, an outcome is never both Error and Data Ready, commands end |
| `device_error_report` | as above | violated: a WRITE can end without Error although a block was lost |

Bounds. Two storable blocks and two contents tell "own", "other" and "nothing"
apart. A file holds at most three records in `device_sound`: two compacted blocks and an
append, or one and two, so a record can be superseded and moved. It holds two in
`device_faulty`, where failures, bad slots and stray bits multiply the states: a block and
its successor, or two blocks. Two slots, three ids (one read-only) and commands of up
to two blocks let a range wrap, span both slots, and run into the read-only id.
`ToolImages` are the images a host tool may leave: empty, one record with a right
or a wrong count, or one id indexed twice.

Fairness. `FairSpec` assumes that a command handler, and the initialisation of the
device, run to their end once they are entered: straight-line code on one thread under
`g_mutex`. Nothing is assumed of crashes, of the guest, or of which host operations fail.

### The finding

`persist_block` (line 488) does not look at the stream after `out.flush()` and
updates the index in any case. When the bytes of a record do not reach the file
and the next block's do, the first block's place holds the second block's record: a
WRITE ends without Error and a block reads back as another's bytes.
`doc/Design.md:109` promises that the device sets the Error bit if an error
occurs.

The models also reach a file that no later start can load: one that was opened and not
yet given its header, by `create_empty_backing_file` when the process ends there, or by an
append after a failed rename. No property is about it, since the code does nothing about
it and no doc or test promises anything; `DiskIndexSound` and `OnlySwapChangesDisk` speak
of images with a header.

### Proofs

All theorems hold for any finite set of ids, any contents, any number of records,
and any sound initial images.

- `TypeCorrect`, `DiskIndexIsSound`, `OnlySwapChangesTheDisk` hold with failing host
  files. `DiskIndexSound` is not inductive alone: what a compaction writes is sound
  only because the temporary file is complete between the copy and the rename
  (`CopyComplete`), which in turn needs the layout of a compaction to be a bijection
  between its blocks and an initial segment of places (`LayoutFacts`, by cardinality of
  initial segments of a finite set of integers). The two together, with `TypeOK`, are
  inductive.
- `BackingImplementsMap` and `MemoryIndexIsSound` assume a host that loses nothing
  (`~Losing`); its operations may still fail. The invariant `MapInv` adds that the index in memory names own
  whole records of `main` before the swap, that `tmp` holds what the index names
  during the swap, and that a file without a header is blank. Each step is then shown
  to map to a step of `BlockMap` or to a stutter (`LoadStarts`, `PersistWrites`,
  `RemoveWithdraws`, `RenamePublishes`).
- `DeviceTypeCorrect`, `DeviceUsesStore` and `OutcomeAlwaysUnambiguous` hold of the device
  with failing host files, for any ids, slots, operands and stores of the guest. The
  invariant `RegistersInv` ties the command to the phase of the file: a READ or WRITE
  finds it idle, a save finds it in a compaction that it began itself. `DeviceStep` then
  carries every theorem about the backing file to the device.
- `MovedBlocksAlwaysAgree` (`~Losing`) is inductive with `MapInv`: a block that moves
  disturbs none of the earlier ones because fewer steps than a ring is long never come
  back to the same place (`RingApart`), and what a READ yields and a WRITE changes is what
  the map shows.
- `UnsavedOnlyEverAfterError` (`~Losing`) needs one more argument at load: an index with as
  many entries as ids names each block once, by cardinality (`EntriesAreDistinct`), so a
  start that repairs nothing shows what the file holds.

- `CommandEnds` asks that commands and compactions end. `RewriteAlwaysEnds` proves the second
  half: a compaction goes from copy to remove to rename, and nothing but its end or a crash
  comes between (`RewriteGoesOn`). It takes as hypothesis that a compaction that has begun is
  enabled to go on, see "What is proved" below. A command has as many steps as it has blocks,
  which the temporal prover cannot count; `CommandGoesOn` proves that each step leaves fewer
  of them (`StepsLeft`) and that nothing else happens meanwhile. With fairness that is
  why a command ends, and TLC checks the conclusion.

## Machine and debugger

### Modules

- `Machine` models `RospOSVM.cpp` as a debugger sees it. `pc`, `reg` and `ram` are the
  state an instruction changes; `history` is `stateHistory`; `waiting` is
  `waitingForInput`; `input` the number of bytes in the TTY's queue; `shutdown` the
  process-wide flag of `Shutdown.cpp`; `attached` tells whether the block device's
  memory pointer is to this machine. `step` is taken apart into `WaitForInput`
  (`prepareInstruction` says no), `Executes` (the instruction is committed) and `Throws`
  (its snapshot is thrown away). Loading and construction are `Load`, `LoadFails`,
  `Construct`, `ConstructAndLoad` and `ConstructThrows`. `past` is a history variable:
  the whole state in which each snapshot was taken.
- `Controller` extends it with `VMControllerCore.cpp` and what the full window adds:
  the two timers, the speed, the backlog of a limited speed, the breakpoint check of
  `RegisterView`, the Pause button, and what the views show. Each handler of the event
  loop is one action. The execution tick is the exception: it begins, executes
  instruction after instruction, and ends (`gui` is `tick`, then `end`), so that a
  fault, a wait or the end of its time may come after any of them.
- `MachineProofs` and `ControllerProofs` hold the theorems.

Abstractions. A memory cell is a word with a meaning (`Decode`): its kind of instruction
and the cells it reads or writes. RAM comes first, then the TTY, then one register of
the block device, a store to which moves data into RAM. Programs are in RAM and may
overwrite themselves. What an instruction computes is any register file, any stored
word and, for a branch or jump, any target: history and input do not depend on it.
An instruction is never fetched from a device. The controller's time is the
number of fractions of an instruction (`Unit` to the whole) that fall due between two
ticks. A breakpoint expression is the set of program counters it matches.

### Runs

| Run | Setting | Shows |
|---|---|---|
| `machine_history` | three words of RAM, stores over two of them, a read half in the TTY, a DMA, a history of three | every step back restores the state before an instruction, except what a DMA wrote since; input is not lost |
| `controller` | every command, three speeds, files that may be unreadable, a breakpoint, fair timers, half an instruction due per tick up to two | the timers match the running flag, views are not left stale, breakpoints stop, what is due is bounded, Pause and the running flag change together; input resumes a waiting machine, a running machine executes, a shutdown request stops it |
| `controller_reset` | load, run, restart | violated: after BREAK the next program is stopped before it begins |
| `controller_device` | files may be unreadable | violated: a failed reset leaves the device without valid memory |

Bounds. Three words of RAM hold a store that covers two of them and the program
that does it; with two addresses of TTY a read can lie half in it. Three snapshots let
one be dropped while two are undone in a row. Of the controller, a burst of two
instructions is cut short after the first or not at all. With `Unit = 2` and up to four
halves due per tick, what is due adds up to more than a burst and is capped, and what a
tick did not execute is given back to what is left. One half is less than an instruction,
so a tick may find nothing to do; the speeds of the code are never that slow (250 a second
every 8 ms, two at a time, is the slowest), and the liveness properties do not rely on
it. The history of the controller's machine has one snapshot: its depth is the machine's
matter, and the theorem `ControllerDrivesMachine` ties the two.

Fairness. `FairControllerSpec` assumes that an active timer fires (`WF(RefreshTick)`)
and that ticks come and their handler runs to its end (`WF(Tick)`): Qt's event loop
delivers both timers, and the tick is bounded by 65536 instructions. `InputResumes`
and `RunningExecutes` hold once the user is done (`UserIsDone`), because every change of
the speed restarts the timer and clears the backlog, and a user who
does so forever starves the machine. `ShutdownStops` needs no such premise.

Two things these runs do not promise. A breakpoint is looked at after a burst, not after
each instruction, so a burst runs over it; `BreakpointsStop` is about the places
between two handlers. And after a failed reset the Pause button is disabled though the
old machine may go on running: `ButtonsMatchRunning` says that this (`RecreateFails`) is
the only step that parts the two.

### The findings

`controller_reset`: `g_shutdownRequested` is set by BREAK and by every unknown
instruction and nothing clears it. A program that has ended stops the tick of every
program loaded, restarted or reset after it (`onExecutionTick`, line 290), though
`doc/Design.md:128-133` ends the description of a reset with "Execution begins".

`controller_device`: `BlockDeviceInitialize` stores the new machine's memory before it
reads the backing file. When that throws, `recreateVm` keeps the old machine and
the new one is destroyed, so the device is left with a pointer to memory that is gone.
`BlockDevice.cpp:278` calls for "a valid memory instance".

### Proofs

All theorems hold for any size of memory and TTY, any programs, any length of the
history and, for the controller, any burst, speeds, breakpoints and failing files.

- `HistoryAlwaysRestores` is the inductive one, and only proved: with the types, each snapshot, applied
  to the RAM in which the next one was taken, gives the RAM in which it was taken
  itself, except where a DMA has written since. A step appends a link to this
  chain, dropping the oldest shifts it (`KeepFacts`, `CommitFacts`), a step back takes
  the last link. `SteppingBackRestores` reads it off the last link.
- `InputIsNotLost` rests on `NeededIsExact`: the interval arithmetic of
  `prepareInstruction` counts the addresses that `Memory` reads from the TTY.
- `ControllerDrivesMachine` is a lemma, as each handler is written with the machine's
  actions: it maps each handler to a step of the machine or to none; it
  needs that the binary loaded again is one that was loaded. `DebuggerStepsBack` draws
  the conclusion for the debugger.
- `TimersAlwaysMatch`, `ViewsAlwaysFollow` and `BreakpointsAlwaysStop` follow from
  `ControllerInv`, which adds what holds inside a tick: the machine runs and no
  tick is due, what was changed was changed by an instruction counted in `executed`, and
  a tick that has executed nothing has not moved.
- `ControllerTypeCorrect` needs that what a tick took from the backlog and what is left
  of it never exceed a burst together (`BudgetOK`), so giving back stays in bounds.
- `ButtonsAlwaysMatch` needs no invariant: each handler stops both, leaves both, or sets
  both.

- `ShutdownAlwaysStops` proves `ShutdownStops` from the fairness of ticks. Its invariant is
  that no burst goes on once the flag is set (`NoBurstAfterShutdown`); so a machine that runs
  with the flag set has a tick due that stops it (`LastTick`), and every command keeps that
  tick due or stops the machine itself. The hypothesis
  `[](LastTick => ENABLED <<Tick>>_vars)` says that a due tick can be handled, see
  "What is proved" below.

`InputResumes` and `RunningExecutes` are model-checked only: how many ticks pass until an
instruction is due depends on `Unit`, and the temporal prover has no induction.
`EmptyTicksAddUp` proves what they need besides fairness at rates slower than the
committed ones: a tick in which less than one instruction falls due leaves more due than it
found, so `Unit` of them cannot come in a row.

## Guest heap

### Modules

- `Heap` models `malloc`, `free` and `init_heap` of `rospos/lib/stdlib.rosc` as
  `rospocc` compiles them, and `VMController::getMallocHeapSnapshot`. Memory is the
  words of `__heap_area`, headers and payloads in one function, under byte addresses.
  `mem`, `used` and `head` are the guest's memory and globals; `pc`, `size`, `payload`
  and `node` stand for the CPU inside a call: the walk moves block by block, and each
  store to a header or a global is an action, since the debugger may look after any
  instruction. `live` is what the guest holds. `blocks` is history: what was put into
  the list since `init_heap`; no action reads it.
- `FoldedAnd` is what the compiler makes of `&&`: the bitwise AND of two values.
  `Signed` is what `BLT` and `BGE` compare. Sums wrap at `2^WordBits`.
- The guest stores words from `Values` into its allocations, and frees only what it
  holds; other pointers are outside the contract the tests state
  (`tests/test_vm_malloc.py:5`). `memset` is one step: nobody reads the payload of a
  freed block meanwhile. A block device command that moves data into an allocation counts
  as the guest's own store. The model ends where the allocator stores outside its area.

### Runs

- `heap_odd`: words of nine bits, an area of fifteen words that holds three small blocks
  exactly, sizes that are zero, negative, rounded up, and larger than the area. That is
  enough for reuse at the head, in the middle and at the tail, for a small request in a
  larger block, for exhaustion and for a new start over old contents.
  `ListSound` (`SnapshotFaithful`, `BlocksTile`, `FreeBlocksAreClear`) is evaluated between
  any two stores.
  `CallsReturn` assumes weak fairness of the steps inside a call only: the CPU
  continues, the guest need not call again.
- `heap_even` is the finding below.

### The finding

`heap_even`: `while (node && node->exists)` tests bit 0 of the address of `node`, since
`exists` is 1. If the assembler places `__heap_area` at an even address (nothing aligns
it or keeps it odd), the loop ends at once and every `malloc` takes new space; the tests
expect the freed block back (`test_vm_malloc.py:152`). In the committed
build the area is at `0x7C2F` and the loop works.

The sizes of the runs stay clear of the sign bit (`BelowSignBit`), and `OversizedRefused` is
about such sizes only. Just below `2^31` the signed sum `__heap_used + aligned` of
`_heap_alloc_raw` wraps to a negative number and the request is granted, though
`test_vm_malloc.py:300-320` expects null. `OversizedBySignBit` proves both sides, for every
size: a request larger than the area that finds no free block is refused exactly if the sum
that is compared has its sign bit clear, and otherwise `__heap_used` becomes negative. After
that nothing keeps blocks apart, so the other properties are about guests that make no
such request.

### Proofs

`HeapProofs` holds for every word size, area, even or odd address and set of
sizes, provided no size comes near the sign bit (`SizesInRange`). `HeapInv` is inductive: blocks lie apart in the used part
of the area, links lead to blocks, each allocation is the payload of a block of its own
whose mark is clear, and a block in the making lies behind all others
and holds what was stored so far. `AllocationsApart` and `AlwaysHandsOutOnce` follow
from it, and `PayloadAlwaysKept` goes through the stores one by one: each is
to a header or to the payload of a block that is no allocation. Only `OversizedBySignBit`
does without `SizesInRange`: it is about one call, from any state in which `__heap_used`
is within the area.

`ListAlwaysSound` is about the list as a whole. `ListInv`, inductive together with
`HeapInv`, says what a walk relies on between any two stores: links go down and skip no
block (`Descends`), a listed block is whole and its mark is 0 or 1 (`BlocksWhole`), a
block in use is one the guest holds (`TakenAreLive`), a header about to be linked is marked
as existing (`CallSoFar`), and blocks tile the used part. The debugger's walk is
a recursive function: it is shown to have a solution, built header by header
(`HeadersDefined`), and to meet each block once and then null within `MaxBlocks` headers
(`WalkMeets`), as each step goes down by a header at least. Induction over numbers is
`CountUp`: the least number missing from a set would have a predecessor in it.

`AlwaysReusesFreed` assumes that the area is at an odd address, as in the committed
build; at an even one it is false, which is the finding. The walk of `malloc` has then
passed only blocks that are in use or too small (`SkippedTooSmall`).

`CallsReturn` is model-checked only, its rank being the length of the list. Two theorems
are its safety half: `WalkGoesDown`, no list sends the walk round in a circle, and
`HeadersStayInside`, no store to a header leaves the area, where the model would stop.

## Guest file system

### Module

`FileSystem` models `rospos/lib/file.rosc`: `initialize_filesystem`,
`ensure_filesystem_initialized`, `write_file` and `read_file`, one action per command of
the block device. The device is not the files again but `BlockMap`, the map they are
shown to implement on a host that loses nothing: a WRITE is `Map!Write`, then `Map!Withdraw` and `Map!Publish`, and the
process may end between any two. `call` is the function the guest is in and the command
it is at, `buffer` the string in the caller's buffer, `answer` the read that has just
returned. `last` and `clean` are history: the last file written, and that nothing failed
or was cut short since. `FileSystemProofs` holds the theorems.

The guest never looks at Status. So `WriteFails` goes on with the next command, and a READ
that fails leaves in its buffer what was there before (`Arrives`). A WRITE fails before its
block is stored, or before the old image is removed, which leaves the map as it is: this is
a host whose operations may fail but that loses nothing, the scope in which `device_sound`
and `BackingImplementsMap` show the map to be implemented. On a host that loses an append
unseen the directory may read back as a block of data, as `device_error_report` shows, and
nothing here is claimed. `MallocFails` lets a
call return at once. `RestartGuest` is the user loading the program again over the same
device, `EndProcess` the end of the virtual machine.

The comment at the head of `file.rosc` speaks of a list of files. The code keeps one entry
and one block of data, so a second file replaces the first; the model follows the code.

### Run

`file_system` has names and texts one too long for an entry and a block (two bytes each:
one that fits, one that is cut, two names that agree in what is kept), failing commands, an
exhausted heap, restarts and ends of the process anywhere, from an empty device or one
with a file. `ReadsBack` says what a user expects, with the limits the code has: the text
cut to a block under each name that agrees in the bytes an entry holds. It excludes reads
one of whose commands failed and files that were torn; `NeverMixes` is about those: what
is read is never put together from two texts.

### Proofs

All three properties are proved, for any names, texts, lengths and failures of a host that
loses nothing.
`FileSystemTypeOK` is inductive alone. `ReadsBack` needs where in a call the three blocks
already agree with `last`, on the device and on disk, while an image is being saved too.
`NeverMixes` rests on every string that is left being a prefix of one text: a cut of a
prefix is a prefix, and the size in the directory can only shorten.

## Terminal, display and the loops around the machine

### Modules

`Terminal` models the output of `TTYWidget.cpp`: the batch, the flag, the queued call that
starts the timer, and the document. `Console` extends it with the display
(`Display.cpp`) and the two programs around the machine. With a window, slices of
instructions (`BeginSlice`, `EndSlice`) alternate with what the event loop serves
(`Posted`, `Timeout`, `Paint`). Without one, the loop of `main_headless.cpp` tests the
shutdown flag, the limit, and the flag again in `runSteps`; a read waits in
`TTYReadHandler`, and SIGINT may come at any point. An access of several bytes calls the
handler for each. The document keeps `MaxLines` lines and drops the oldest at the end of a
batch (`Kept`). `meant`, `long` and `ended` are history variables: what the document would
show had each byte been shown at once and no line dropped, whether that ever had too many
lines, and the instruction that ended the program. `ConsoleProofs` holds the
theorems.

Everything with a window runs on one thread, so the two mutexes of the display are never
contended and have no part in the model. `TTYShutdown`, which would notify a waiting reader,
has no caller; without a window nothing pushes bytes either. `Notified` is therefore FALSE
and only the timeout of the wait ends it. `MaxSteps` is `--max-steps` of the headless
program; with a window it bounds the run. Reading the TTY with a window is in `Machine`.

### Run

`console` takes a letter, newline, backspace and return, a document of two lines that three
newlines overfill, a frame buffer of two bytes that shows
three values in two colours (so that a byte can change and look the same), and three
instructions: enough for two batches, a backspace that reaches into an earlier one, and a
limit reached by BREAK. `BatchesSound` and `WindowCatchesUp` say that the document shows
the end of what was meant, and all of it as long as that never had more lines than are
kept.

`ExitTells` says what a result of the headless program means. Result 0 stands for the
shutdown flag. It does not tell BREAK from SIGINT or from an opcode or sub-opcode that does
not exist, which sets the flag in the same way (`UnknownInstruction`); by
`doc/instr_encode.md:139` that would be an exception, which ends in result 1.

Fairness. The program goes on (`WF(Program)`): it is straight-line code, and the event
loop posts the next tick. What is queued is served although slices keep interrupting it
(`SF` of `Posted`, `Timeout`, `Paint`): each is enabled again between any two slices, and
Qt serves its queue before it waits. `InterruptEnds` needs only the former.

### Proofs

`ConsoleTypeOK`, `BatchesSound`, `ExitTells` and `NothingLost` are proved for any letters,
frame buffer, colours, limit and number of lines. The invariant adds where a program that has executed
BREAK or an instruction that does not exist can be, that an access is within the limit, and that only the program without a
window reads and returns.

`BatchesAlwaysSound` holds for batches of any length. `Interpreted` is a recursive function
over the bytes of a batch; it is shown to have a solution, so that one byte more is
interpreted after all others (`InterpretedOneMore`). Inserting text as a whole and deleting
from document and text together then does to the end of the text what the bytes would do
one at a time, and dropping lines keeps an end (`KeptIsEnd`, `EndOfEnd`).

`InterruptAlwaysEnds` proves `InterruptEnds` from the fairness of the program. Once the flag
is set without a window, only the program moves (`HaltedStays`), and each of its steps leads
nearer to the end (`PlaceLeft`): out of a wait, through at most two more bytes of an access,
to the test of the flag. The hypothesis is that an unfinished program is enabled, see
below. `WindowCatchesUp` is model-checked only: it needs the number of steps that are left.

## Memory

### Modules

`AddressSpace` has the addresses and the ranges of devices. `FlatMemory` is what memory
promises: a row of bytes, in which ranges belong to devices; a word of plain RAM moves in
one piece, every other access byte by byte and stops where one is rejected. `Memory` is
`Memory.cpp` in its sparse layout: pages allocated at the first write, words that straddle
two pages, the one-entry cache of `findSpecialRange`, and each bound in the order the code
checks it. `MemoryProofs` holds the theorems.

A device is a handler: a read returns any byte, and a write may move bytes of RAM before
it returns (`TransferIn`, `TransferOut`), as the block device does; both consult and
change the cache in the middle of the access that called the handler. A handler may also
throw (`HandlerThrows`), as that of the TTY does when nothing can be read: the access ends
rejected, and the bytes before it have moved. A handler whose transfer reaches a device
again is left out.

The dense layout of native builds is `FlatMemory`, with one difference: its `loadBinary`
copies with `std::copy` and writes under the ranges of devices, where the sparse one calls
`writeByte` and so the device. `Memory` and `FlatMemory` do the latter.

### Run

`memory` has nine addresses, six bytes of RAM, two pages of four (the second one cut off by
the end of RAM), one device within RAM and one past it that cannot be read, and words at
every address: within a page, across two, over a device, over the end of RAM and over the
last address. A range may be added between any two accesses.

### Proofs

`MemoryTypeCorrect` and `MemoryIsFlat` hold for every size, page size and map of disjoint
ranges. The refinement maps the row of bytes to the content of the pages; it rests on the
arithmetic of pages (an address is its page and offset, and an unaligned word lies in one
page or in two), and on the observation that with disjoint ranges whatever range the cache
holds is the only answer for the addresses it contains.

## What is proved and what is only model-checked

| Run | Proved for all values of the constants | Only model-checked |
|---|---|---|
| `device_sound` | all four | |
| `device_faulty` | `DeviceTypeOK`, `DiskIndexSound`, `OnlySwapChangesDisk`, `OutcomeIsUnambiguous`; of `CommandEnds` that compactions end, with the hypothesis below | that commands end |
| `machine_history` | all three | |
| `controller` | all but two; `ShutdownStops` with the hypothesis below | `InputResumes`, `RunningExecutes` |
| `heap_odd` | all but one | `CallsReturn` |
| `file_system` | all three | |
| `console` | all but one; `InterruptEnds` with the hypothesis below | `WindowCatchesUp` |
| `memory` | both | |

Of liveness, what needs a bounded number of steps is proved (`ShutdownStops`,
`InterruptEnds`, `RewriteEnds`); what needs as many as a constant or a list says stays with
TLC, since the temporal prover has no induction. Each of these proofs takes one fact as
hypothesis: that an explicit condition (`LastTick`, `Unfinished`, `Rewriting`) enables the
fair action. The provers treat `ENABLED` as opaque, so its guard cannot be compared with
anything. The runs do not depend on it: TLC evaluates `ENABLED` itself when it checks the
properties, under the fairness of the specification alone.

Recursive functions are proved about by induction over a set of numbers, once
their definitions are shown to have a solution. The model has no other recursion.

## Not modelled

`components` in `PROJECT.json` lists every part. Left out for good:

- `lib/exprtk/exprtk.hpp`, a third-party library: 46766 of the 55043 lines of C++ in the
  repository. The debugger asks it whether a breakpoint expression is true; `Breakpoints`
  stands for the answers.
- Layout, painting and forwarding of clicks in the windows, logging, disassembly, the
  parsing of files and of debug information: sequential code without state that outlives
  a call.
- What arithmetic and logical instructions compute. `Machine` lets them compute anything;
  its properties do not depend on it.
- The compiler and the assembler, which translate a file and end. What they do to the heap's
  code is in `Heap`.
- Three hazards have no property, with the reason at each in `PROJECT.json`: a transfer into
  the block device's own registers, which locks a mutex twice and is undefined; a
  halfword at the last address, which wraps with snapshots and throws without; and a file
  without a header. Of a failed reset, what becomes of the Pause button has none either.

## Noticed in reading, not the subject of a run

- `rospoas/lower.py:324-361`: a load or store whose offset does not fit is always lowered
  to `lw`, also for stores, bytes and halves.
- `rospoas/encode.py:42` calls a branch offset relative to the next instruction; it is computed
  relative to the instruction itself.
- `doc/instr_encode.md:139` says that an invalid instruction should trigger an exception;
  the machine requests a shutdown (`RospOSVM.cpp:566-570`), as `UnknownInstruction` has it.
- `tests/test_vm_malloc.py:300-320` expects null for sizes just below `2^31`, which are
  granted; see `OversizedBySignBit`.
- `tests/test_vm_correctness.py:109-113` expects a halfword at the last address to be
  rejected, in a machine without snapshots; with them it is stored and wraps to address 0.
- `RospOSVM::rTypeInstruction` divides signed numbers without excluding the smallest one by
  minus one, which is undefined.
