----------------------------- MODULE BlockDevice -----------------------------
(***************************************************************************)
(* The block device (rospovm/backend/BlockDevice.cpp) over its backing     *)
(* file: the registers the guest sees, a READ or WRITE of several blocks   *)
(* moved by DMA, and the restart of the machine around them.               *)
(*                                                                         *)
(* Guest memory is a ring of 512-byte slots and block ids a ring of        *)
(* NumIds, because both wrap at 2^32 in the code.  The registers BlockId,  *)
(* BufferAddr and BlockCount are whatever the guest last stored in them:   *)
(* no command changes them, so a command takes any operands.               *)
(***************************************************************************)
EXTENDS BlockDeviceBacking

CONSTANTS
    NumIds,         \* block ids wrap here
    SpecialIds,     \* read-only ids served by the device itself
    NumSlots,       \* block-sized slots of guest memory; addresses wrap here
    BadSlots,       \* slots whose bytes a DMA cannot access: the access throws
    MaxCount,       \* kMaxCommandBlockCount
    MayStop,        \* whether the process may end while it is used
    StatusStores,   \* sets of bits the guest may store in Status
    HighStores      \* whether what it stores in Command's upper bytes is not zero

Ids == 0 .. NumIds - 1
Slots == 0 .. NumSlots - 1

ASSUME IdsArePartitioned ==
    /\ NumIds \in Nat \ {0}
    /\ SpecialIds \subseteq Ids
    /\ BlockIds = Ids \ SpecialIds
ASSUME SlotsExist == NumSlots \in Nat \ {0} /\ BadSlots \subseteq Slots
ASSUME MaxCountFits == MaxCount \in Nat /\ MaxCount <= NumIds /\ MaxCount <= NumSlots

Bits == {"busy", "error", "ready"}

ASSUME MayStopIsBoolean == MayStop \in BOOLEAN
ASSUME StoresAreBits == StatusStores \subseteq SUBSET Bits /\ HighStores \subseteq BOOLEAN

VARIABLES
    status,         \* the set bits of the Status register
    commandHigh,    \* whether an upper byte of the Command register is not zero
    op,             \* the command being executed, with its operands
    done,           \* blocks of it already moved
    mem,            \* guest memory
    lastWrite       \* history: how the last WRITE since the start ended

deviceVars == <<status, commandHigh, op, done, mem, lastWrite>>
vars == <<storeVars, deviceVars>>

Idle == [kind |-> "none", id |-> 0, slot |-> 0, count |-> 0]

\* g_state.blockId + i and bufferAddr + i * kBlockSize, modulo 2^32.
IdAt(i) == (op.id + i) % NumIds
SlotAt(i) == (op.slot + i) % NumSlots

\* read_block: the clock, random and information blocks are not stored.
Contents(id) == IF id \in SpecialIds THEN Data ELSE ReadBlock(id)

-----------------------------------------------------------------------------
(* The guest *)

\* The machine runs and no command is being executed.
Ready == phase = "idle" /\ op = Idle

\* A store to the Status register: the device clears Busy only.
WriteStatus(bits) ==
    /\ Ready
    /\ status' = bits \ {"busy"}
    /\ UNCHANGED <<storeVars, commandHigh, op, done, mem, lastWrite>>

\* A store to one of the three upper bytes of Command starts nothing.
WriteCommandHigh(nonzero) ==
    /\ Ready
    /\ commandHigh' = nonzero
    /\ UNCHANGED <<storeVars, status, op, done, mem, lastWrite>>

StoreMemory(s, d) ==
    /\ Ready
    /\ s \notin BadSlots
    /\ mem' = [mem EXCEPT ![s] = d]
    /\ UNCHANGED <<storeVars, status, commandHigh, op, done, lastWrite>>

\* (mutants) The failure forgets to clear Busy, or Data Ready.
FailWith(kept) ==
    /\ status' = (status \cap kept) \cup {"error"}
    /\ commandHigh' = FALSE
    /\ op' = Idle
    /\ done' = 0
    /\ lastWrite' = IF op.kind \in {"write", "save"} THEN "failed" ELSE lastWrite
    /\ UNCHANGED mem

FailStaysBusy == FailWith({"error", "busy"})
FailStaysReady == FailWith({"error", "ready"})

\* The catch block of run_command_if_needed.
Fail ==
    /\ status' = (status \ {"busy", "ready"}) \cup {"error"}
    /\ commandHigh' = FALSE
    /\ op' = Idle
    /\ done' = 0
    /\ lastWrite' = IF op.kind \in {"write", "save"} THEN "failed" ELSE lastWrite
    /\ UNCHANGED mem

\* The low byte of Command is stored: an unknown value, or a count out of range.
RejectCommand(kind, count) ==
    /\ Ready
    /\ commandHigh \/ kind = "unknown" \/ count \notin 1..MaxCount
    /\ Fail
    /\ UNCHANGED storeVars

StartCommand(kind, id, slot, count) ==
    /\ Ready
    /\ ~commandHigh
    /\ count \in 1..MaxCount
    /\ kind = "write" => Opened(main).end + count <= MaxEnd
    /\ status' = (status \ {"error"}) \cup {"busy"}
    /\ op' = [kind |-> kind, id |-> id, slot |-> slot, count |-> count]
    /\ UNCHANGED <<storeVars, commandHigh, done, mem, lastWrite>>

-----------------------------------------------------------------------------
(* A command *)

ReadStep ==
    /\ op.kind = "read" /\ done < op.count
    /\ SlotAt(done) \notin BadSlots
    /\ \E d \in Contents(IdAt(done)) \ {Throw} : mem' = [mem EXCEPT ![SlotAt(done)] = d]
    /\ done' = done + 1
    /\ UNCHANGED <<storeVars, status, commandHigh, op, lastWrite>>

\* (mutant) An exception of the memory access is not caught.
ReadThrowsFromFileOnly ==
    /\ op.kind = "read" /\ done < op.count
    /\ SlotAt(done) \notin BadSlots /\ Throw \in Contents(IdAt(done))
    /\ Fail
    /\ UNCHANGED storeVars

ReadThrows ==
    /\ op.kind = "read" /\ done < op.count
    /\ SlotAt(done) \in BadSlots \/ Throw \in Contents(IdAt(done))
    /\ Fail
    /\ UNCHANGED storeVars

ReadDone ==
    /\ op.kind = "read" /\ done = op.count
    /\ status' = (status \ {"busy"}) \cup {"ready"}
    /\ op' = Idle
    /\ done' = 0
    /\ UNCHANGED <<storeVars, commandHigh, mem, lastWrite>>

\* (mutant) Read-only ids are not checked.
WritableAnywhere(i) == SlotAt(i) \notin BadSlots

Writable(i) == IdAt(i) \notin SpecialIds /\ SlotAt(i) \notin BadSlots

\* (mutant) Every block is taken from the first buffer.
WriteStepOneBuffer ==
    /\ op.kind = "write" /\ done < op.count
    /\ Writable(done)
    /\ PersistBlock(IdAt(done), mem[op.slot])
    /\ done' = done + 1
    /\ UNCHANGED <<status, commandHigh, op, mem, lastWrite>>

WriteStep ==
    /\ op.kind = "write" /\ done < op.count
    /\ Writable(done)
    /\ \/ PersistBlock(IdAt(done), mem[SlotAt(done)])
       \/ PersistBlockLost(IdAt(done))
    /\ done' = done + 1
    /\ UNCHANGED <<status, commandHigh, op, mem, lastWrite>>

\* A special block, memory that cannot be read, or a file that cannot be written:
\* the blocks before it stay where they are.
WriteThrows ==
    /\ op.kind = "write" /\ done < op.count
    /\ IF Writable(done) THEN PersistThrows(IdAt(done)) ELSE UNCHANGED storeVars
    /\ Fail

\* (mutant) The command ends without rewriting the index.
StartSaveSkipped ==
    /\ op.kind = "write" /\ done = op.count
    /\ status' = status \ {"busy", "ready"}
    /\ op' = Idle
    /\ done' = 0
    /\ lastWrite' = "done"
    /\ UNCHANGED <<storeVars, commandHigh, mem>>

\* After the last block the whole file is compacted.
StartSave ==
    /\ op.kind = "write" /\ done = op.count
    /\ BeginRewrite
    /\ op' = [op EXCEPT !.kind = "save"]
    /\ UNCHANGED <<status, commandHigh, done, mem, lastWrite>>

SaveProceeds ==
    /\ op.kind = "save"
    /\ CopyLiveRecords \/ RemoveOld
    /\ UNCHANGED deviceVars

SaveThrows ==
    /\ op.kind = "save"
    /\ CopyThrows \/ RemoveThrows \/ RenameThrows
    /\ Fail

WriteDone ==
    /\ op.kind = "save"
    /\ RenameTmp
    /\ status' = status \ {"busy", "ready"}
    /\ op' = Idle
    /\ done' = 0
    /\ lastWrite' = "done"
    /\ UNCHANGED <<commandHigh, mem>>

-----------------------------------------------------------------------------
(* The machine *)

ResetDevice ==
    /\ status' = {}
    /\ commandHigh' = FALSE
    /\ op' = Idle
    /\ done' = 0
    /\ mem' = [s \in Slots |-> Zero]
    /\ lastWrite' = "none"

\* BlockDeviceInitialize; a fresh machine has fresh memory.
Restart == EnsureBackingFileExists /\ ResetDevice

\* The rest of BlockDeviceInitialize, before the guest runs.
Initialize ==
    /\ op = Idle
    /\ \/ CreateEmptyBackingFile
       \/ LoadIndex
       \/ LoadFails
       \/ loading /\ (CopyLiveRecords \/ RemoveOld \/ RenameTmp)
       \/ loading /\ (CopyThrows \/ RemoveThrows \/ RenameThrows)
    /\ UNCHANGED deviceVars

Stop ==
    /\ MayStop
    /\ \/ Crash
       \/ /\ op.kind = "write" /\ done < op.count /\ Writable(done)
          /\ CrashInAppend(IdAt(done))
    /\ ResetDevice

DeviceInit ==
    /\ StoreInit
    /\ status = {}
    /\ commandHigh = FALSE
    /\ op = Idle
    /\ done = 0
    /\ mem = [s \in Slots |-> Zero]
    /\ lastWrite = "none"

Guest ==
    \/ \E bits \in StatusStores : WriteStatus(bits)
    \/ \E nonzero \in HighStores : WriteCommandHigh(nonzero)
    \/ \E s \in Slots, d \in Data : StoreMemory(s, d)
    \/ \E kind \in {"read", "write", "unknown"}, count \in 0 .. MaxCount + 1 :
          RejectCommand(kind, count)
    \/ \E kind \in {"read", "write"}, id \in Ids, slot \in Slots, count \in 1..MaxCount :
          StartCommand(kind, id, slot, count)

Command ==
    \/ ReadStep \/ ReadThrows \/ ReadDone
    \/ WriteStep \/ WriteThrows
    \/ StartSave \/ SaveProceeds \/ SaveThrows \/ WriteDone

Next == Guest \/ Command \/ Restart \/ Initialize \/ Stop

Spec == DeviceInit /\ [][Next]_vars

\* The handler, and the initialisation of the device, run to their end once they are
\* entered (the handler holds g_mutex; nothing else stands between two of their steps).
FairSpec == Spec /\ WF_vars(Command \/ Initialize)

-----------------------------------------------------------------------------
(* Properties *)

BusyIffExecuting == "busy" \in status <=> op # Idle

\* The registers and the files keep their types, Busy is set exactly while a command is
\* executed, whatever bits the guest stores in Status, and the cursor of a command stays
\* within it (run_command_if_needed, BlockDeviceWriteHandler).
DeviceTypeOK ==
    /\ TypeOK
    /\ BusyIffExecuting
    /\ status \subseteq Bits
    /\ commandHigh \in BOOLEAN
    /\ op \in [kind : {"none", "read", "write", "save"}, id : Ids, slot : Slots,
               count : 0..MaxCount]
    /\ done \in 0..op.count
    /\ mem \in [Slots -> Data]
    /\ lastWrite \in {"none", "done", "failed"}

\* A command never ends with both Error and Data Ready set, though the guest can
\* have set either before it.
OutcomeIsUnambiguous ==
    [][op # Idle /\ op' = Idle /\ phase' # "down"
          => ~({"error", "ready"} \subseteq status')]_vars

\* With a host that loses nothing, the blocks a READ has moved are in the buffer, and the
\* ones a WRITE has moved are in the device, in the order of the ids, also where
\* the id or the address wraps (execute_read_command, execute_write_command).
MovedBlocksAgree ==
    \A i \in 0 .. done - 1 :
        IdAt(i) \in BlockIds => mem[SlotAt(i)] = Seen[IdAt(i)]

\* With a host that loses nothing, the guest and a restart disagree about a block only
\* while a WRITE runs or after one that ended in Error: the blocks before the one
\* that failed were appended and indexed in memory, and the file's index was not
\* rewritten (execute_write_command, lines 192-207).
UnsavedOnlyAfterError ==
    phase = "idle" /\ Restorable(main) # Map!Certain(Seen) =>
        op.kind \in {"write", "save"} \/ lastWrite = "failed"

\* Once a command is started the device comes back to the guest; a compaction ends, in
\* success or by throwing, at load too.
CommandEnds == (op # Idle ~> op = Idle) /\ RewriteEnds

\* "If an error occurs, the device will set the Error bit" (doc/Design.md): a WRITE
\* that ends without it has stored every block it was given.
ErrorIsReported ==
    [][op.kind = "save" /\ op' = Idle /\ phase' = "idle" /\ "error" \notin status'
          => \A i \in 0 .. op.count - 1 : Seen'[IdAt(i)] = mem[SlotAt(i)]]_vars
=============================================================================
