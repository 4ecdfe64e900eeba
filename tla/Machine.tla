------------------------------- MODULE Machine -------------------------------
(***************************************************************************)
(* The virtual machine (rospovm/backend/RospOSVM.cpp) as its debugger      *)
(* drives it: one instruction at a time, forwards and backwards, with the  *)
(* input queue of the TTY and the process-wide shutdown flag.              *)
(*                                                                         *)
(* Memory is a row of words: RAM, then the TTY, then one device register   *)
(* through which the block device moves data into RAM.  Programs are in    *)
(* RAM and may overwrite themselves.  What an instruction computes is left *)
(* open: any register file, any stored word.  The input queue is the       *)
(* number of bytes in it.                                                  *)
(***************************************************************************)
EXTENDS Integers, Sequences, FiniteSets

CONSTANTS
    NumRam,         \* words of RAM; the program counter wraps here
    TtyLen,         \* addresses of the TTY
    Words,          \* contents of a word of RAM
    Regs,           \* contents of the registers 1..15
    ResetRegs,      \* the registers after a reset
    Zero,           \* the word in RAM that was never written
    Decode,         \* what a word means as an instruction, and as an address (.to)
    Images,         \* binaries: the words their segments place in RAM
    DmaCells,       \* where the block device moves data to
    DmaWords,       \* the words it moves there
    StoredWords,    \* the words the programs store
    MaxHistory,     \* kMaxStateHistory
    MaxInput        \* bound on the bytes waiting in the TTY

Ram == 0 .. NumRam - 1
TtyBase == NumRam
TtyEnd == NumRam + TtyLen - 1
DeviceRegister == TtyEnd + 1
Addresses == 0 .. DeviceRegister
ResetVector == NumRam - 1

\* "compute" stands for every instruction that only changes registers, "halt" for
\* BREAK and unknown instructions, "stuck" for an unknown J-type instruction, "fault" for
\* an access that is rejected.
Kinds == {"compute", "jump", "load", "store", "halt", "stuck", "fault"}
Instructions == [kind : Kinds, lo : Addresses, hi : Addresses, to : Ram]

ASSUME LayoutAssumption == NumRam \in Nat \ {0} /\ TtyLen \in Nat \ {0}
ASSUME WordsAssumption ==
    /\ Zero \in Words /\ DmaWords \subseteq Words /\ StoredWords \subseteq Words
    /\ ResetRegs \in Regs
    /\ Decode \in [Words -> Instructions]
    /\ \A w \in Words : Decode[w].lo <= Decode[w].hi
ASSUME ImagesAssumption ==
    \A image \in Images : DOMAIN image \subseteq Ram /\ \A a \in DOMAIN image : image[a] \in Words
ASSUME DmaAssumption == DmaCells \subseteq Ram
ASSUME BoundsAssumption == MaxHistory \in Nat \ {0} /\ MaxInput \in Nat

VARIABLES
    pc, reg, ram,
    history,        \* stateHistory: what stepBackward restores, oldest first
    waiting,        \* waitingForInput
    input,          \* bytes in the TTY's queue
    shutdown,       \* g_shutdownRequested
    attached,       \* whether the block device's pointer is to this machine's memory
    past            \* history variable: the whole state each snapshot was taken in,
                    \* and the addresses a DMA has changed since (behind)

machineVars == <<pc, reg, ram, history, waiting, input, shutdown, attached, past>>

-----------------------------------------------------------------------------
(* Snapshots *)

\* (mutant) Only the first byte of a store is recorded.
FirstDelta(cells) == [a \in {b \in cells : \A c \in cells : b <= c} |-> ram[a]]

\* recordMemoryDeltaForByte: the words a store is about to overwrite.
Deltas(cells) == [a \in cells |-> ram[a]]

\* (mutant) One snapshot too many is kept.
KeepOneMore(s) == IF Len(s) > MaxHistory + 1 THEN Tail(s) ELSE s

\* The oldest snapshot is dropped when there are too many.
Keep(s) == IF Len(s) > MaxHistory THEN Tail(s) ELSE s

\* beginStateCapture and commitStateCapture, around a store to cells of RAM and a
\* DMA to the cells behind.
Commit(cells, behind) ==
    /\ history' = Keep(Append(history, [pc |-> pc, reg |-> reg, deltas |-> Deltas(cells)]))
    /\ past' = Keep(Append([i \in DOMAIN past |-> [past[i] EXCEPT !.behind = @ \cup behind]],
                           [pc |-> pc, reg |-> reg, ram |-> ram, behind |-> behind]))

NoSnapshot == UNCHANGED <<history, past>>

Undone(memory, deltas) ==
    [a \in Ram |-> IF a \in DOMAIN deltas THEN deltas[a] ELSE memory[a]]

-----------------------------------------------------------------------------
(* Steps *)

Instruction == Decode[ram[pc]]
Following == (pc + 1) % NumRam

Least(a, b) == IF a < b THEN a ELSE b
Greatest(a, b) == IF a < b THEN b ELSE a

\* (mutant) One byte is enough for a read of any width.
NeededOne(i) ==
    IF i.kind = "load" /\ i.lo <= TtyEnd /\ i.hi >= TtyBase THEN 1 ELSE 0

\* prepareInstruction: how many bytes of input the instruction reads.
Needed(i) ==
    IF i.kind = "load" /\ i.lo <= TtyEnd /\ i.hi >= TtyBase
    THEN Least(i.hi, TtyEnd) - Greatest(i.lo, TtyBase) + 1
    ELSE 0

\* The reads of the TTY that the instruction performs, one per address.
TtyReads(i) ==
    IF i.kind = "load" THEN Cardinality((i.lo .. i.hi) \cap (TtyBase .. TtyEnd)) ELSE 0

\* A complete read is not available: the instruction is not started.
WaitForInput ==
    /\ Needed(Instruction) > input
    /\ waiting' = TRUE
    /\ UNCHANGED <<pc, reg, ram, input, shutdown, attached>>
    /\ NoSnapshot

Prepared(kind) ==
    /\ Instruction.kind = kind
    /\ Needed(Instruction) <= input
    /\ waiting' = FALSE

Compute ==
    /\ Prepared("compute")
    /\ reg' \in Regs
    /\ pc' = Following
    /\ Commit({}, {})
    /\ UNCHANGED <<ram, input, shutdown, attached>>

\* Branches, taken or not, and jumps, by an offset or to what a register holds.
Jump ==
    /\ Prepared("jump")
    /\ reg' \in Regs
    /\ pc' \in Ram
    /\ Commit({}, {})
    /\ UNCHANGED <<ram, input, shutdown, attached>>

\* Memory or a device throws; TTYReadHandler does when its queue is empty.
Rejected(i) == i.kind = "fault" \/ TtyReads(i) > input

LoadWord ==
    /\ Prepared("load")
    /\ ~Rejected(Instruction)
    /\ reg' \in Regs
    /\ input' = input - TtyReads(Instruction)
    /\ pc' = Following
    /\ Commit({}, {})
    /\ UNCHANGED <<ram, shutdown, attached>>

\* The bytes stored in RAM are recorded one by one; a byte stored in the device's
\* register may start a transfer to RAM, which is not. (A device that is attached to
\* memory that is gone reaches no RAM.)
StoreWord ==
    /\ Prepared("store")
    /\ LET range == Instruction.lo .. Instruction.hi
           cells == range \cap Ram
           moved == IF attached /\ DeviceRegister \in range THEN DmaCells ELSE {}
       IN \E stored \in [cells -> StoredWords], read \in [moved -> DmaWords] :
              /\ ram' = [a \in Ram |-> IF a \in moved THEN read[a]
                                       ELSE IF a \in cells THEN stored[a] ELSE ram[a]]
              /\ Commit(cells, moved)
    /\ pc' = Following
    /\ UNCHANGED <<reg, input, shutdown, attached>>

\* BREAK and unknown instructions: the instruction is committed like any other.
Halt ==
    /\ Prepared("halt") \/ Prepared("stuck")
    /\ pc' = IF Instruction.kind = "halt" THEN Following ELSE pc
    /\ shutdown' = TRUE
    /\ Commit({}, {})
    /\ UNCHANGED <<reg, ram, input, attached>>

\* The instruction throws and its snapshot is thrown away. A read of the TTY that
\* finds the queue empty has taken the bytes that were in it.
Throws ==
    /\ Prepared(Instruction.kind)
    /\ Rejected(Instruction)
    /\ input' = input - Least(TtyReads(Instruction), input)
    /\ UNCHANGED <<pc, reg, ram, shutdown, attached>>
    /\ NoSnapshot

\* An instruction that completes.
Executes == Compute \/ Jump \/ LoadWord \/ StoreWord \/ Halt

Step == WaitForInput \/ Executes \/ Throws

\* Devices, the input queue, waitingForInput and the shutdown flag stay as they are.
StepBackward ==
    /\ history # <<>>
    /\ LET snapshot == history[Len(history)] IN
           /\ ram' = Undone(ram, snapshot.deltas)
           /\ pc' = snapshot.pc
           /\ reg' = snapshot.reg
    /\ history' = SubSeq(history, 1, Len(history) - 1)
    /\ past' = SubSeq(past, 1, Len(past) - 1)
    /\ UNCHANGED <<waiting, input, shutdown, attached>>

-----------------------------------------------------------------------------
(* Loading *)

\* resetCpuState: RAM is kept.
ResetCpuState ==
    /\ waiting' = FALSE
    /\ reg' = ResetRegs
    /\ history' = <<>>
    /\ past' = <<>>

Loaded(memory, image) == [a \in Ram |-> IF a \in DOMAIN image THEN image[a] ELSE memory[a]]

\* loadBinaryFromFile: the reset vector is read from RAM after the segments are there.
Load(image) ==
    /\ ResetCpuState
    /\ ram' = Loaded(ram, image)
    /\ pc' = Decode[ram'[ResetVector]].to
    /\ UNCHANGED <<input, shutdown, attached>>

\* The file cannot be read, or a segment does not fit after others were placed.
LoadFails(image) ==
    /\ ResetCpuState
    /\ \E placed \in SUBSET DOMAIN image :
           ram' = [a \in Ram |-> IF a \in placed THEN image[a] ELSE ram[a]]
    /\ pc' = 0
    /\ UNCHANGED <<input, shutdown, attached>>

\* A machine is constructed in the place of the old one. The queue of the TTY and
\* the shutdown flag belong to the process.
Construct ==
    /\ ResetCpuState
    /\ ram' = [a \in Ram |-> Zero]
    /\ pc' = 0
    /\ attached' = TRUE
    /\ UNCHANGED <<input, shutdown>>

\* recreateVm loads the binary into the new machine before it takes the old one's place.
ConstructAndLoad(image) ==
    /\ ResetCpuState
    /\ ram' = Loaded([a \in Ram |-> Zero], image)
    /\ pc' = Decode[ram'[ResetVector]].to
    /\ attached' = TRUE
    /\ UNCHANGED <<input, shutdown>>

\* The constructor throws after BlockDeviceInitialize has taken the memory of the
\* machine that never comes to be; the old machine stays.
ConstructThrows ==
    /\ attached' = FALSE
    /\ UNCHANGED <<pc, reg, ram, history, waiting, input, shutdown, past>>

\* TTYPush
Push ==
    /\ input < MaxInput
    /\ input' = input + 1
    /\ UNCHANGED <<pc, reg, ram, history, waiting, shutdown, attached, past>>

MachineInit ==
    /\ pc = 0
    /\ reg = ResetRegs
    /\ ram = [a \in Ram |-> Zero]
    /\ history = <<>>
    /\ past = <<>>
    /\ waiting = FALSE
    /\ input = 0
    /\ shutdown = FALSE
    /\ attached = TRUE

MachineNext ==
    \/ Step \/ StepBackward \/ Push \/ Construct \/ ConstructThrows
    \/ \E image \in Images : Load(image) \/ LoadFails(image) \/ ConstructAndLoad(image)

MachineSpec == MachineInit /\ [][MachineNext]_machineVars

-----------------------------------------------------------------------------
(* Properties *)

Snapshots == [pc : Ram, reg : Regs, deltas : UNION {[cells -> Words] : cells \in SUBSET Ram}]
States == [pc : Ram, reg : Regs, ram : [Ram -> Words], behind : SUBSET Ram]

MachineTypeOK ==
    /\ pc \in Ram
    /\ reg \in Regs
    /\ ram \in [Ram -> Words]
    /\ history \in Seq(Snapshots) /\ Len(history) <= MaxHistory
    /\ past \in Seq(States) /\ Len(past) = Len(history)
    /\ waiting \in BOOLEAN
    /\ input \in Nat
    /\ shutdown \in BOOLEAN
    /\ attached \in BOOLEAN

\* The RAM that the snapshot i is applied to when it is reached by stepping back.
Above(i) == IF i = Len(past) THEN ram ELSE past[i + 1].ram

\* Each snapshot turns the state after its instruction into the state before it,
\* except where a DMA has written since: stepBackward can be repeated to the oldest
\* snapshot that is kept (commitStateCapture, recordMemoryDeltaForByte).
HistoryRestores ==
    \A i \in 1 .. Len(history) :
        /\ history[i].pc = past[i].pc
        /\ history[i].reg = past[i].reg
        /\ \A a \in Ram \ past[i].behind :
               Undone(Above(i), history[i].deltas)[a] = past[i].ram[a]
        /\ i < Len(history) => past[i + 1].behind \subseteq past[i].behind

\* A step back returns to the state before the last instruction: program counter,
\* registers, and every word of RAM that no DMA has written since.
StepBackRestores ==
    [][StepBackward =>
          LET before == past[Len(past)] IN
              /\ pc' = before.pc
              /\ reg' = before.reg
              /\ \A a \in Ram \ before.behind : ram'[a] = before.ram[a]]_machineVars

\* No byte of input is lost: the queue only shrinks by what an instruction that
\* completes has read, because prepareInstruction counts the bytes of a read that
\* lies partly in the TTY exactly as Memory reads them.
NoInputLost ==
    [][input' < input =>
          /\ history' # <<>> /\ history'[Len(history')].pc = pc
          /\ input - input' = TtyReads(Instruction)]_machineVars
=============================================================================
