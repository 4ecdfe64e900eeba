-------------------------- MODULE BlockDeviceProofs --------------------------
(***************************************************************************)
(* What holds of the device for any ids, slots of memory, commands and     *)
(* stores of the guest: its registers whatever the host's file operations  *)
(* do, and, when they succeed, what a command has moved and what a restart *)
(* would find.                                                             *)
(***************************************************************************)
EXTENDS BlockDevice, BlockDeviceBackingProofs

-----------------------------------------------------------------------------
(* Types *)

Ops == [kind : {"none", "read", "write", "save"}, id : Ids, slot : Slots, count : 0..MaxCount]

\* Inductive: a command holds the process where only its own steps go on.
RegistersInv ==
    /\ BusyIffExecuting
    /\ status \subseteq Bits /\ commandHigh \in BOOLEAN
    /\ op \in Ops /\ done \in 0..op.count
    /\ mem \in [Slots -> Data]
    /\ lastWrite \in {"none", "done", "failed"}
    /\ op.kind = "none" => op = Idle
    /\ op # Idle => "error" \notin status
    /\ op.kind \in {"read", "write"} => phase = "idle" /\ op.count > 0
    /\ op.kind = "save" => phase \in {"copy", "remove", "rename"} /\ ~loading /\ done = op.count
    /\ phase \in {"copy", "remove", "rename"} /\ op = Idle => loading
    /\ phase = "idle" => ~loading

DeviceInv == DiskInv /\ RegistersInv

LEMMA IdleFacts == Idle \in Ops /\ Idle.kind = "none" /\ Idle.count = 0 /\ Idle.id = 0 /\ Idle.slot = 0
BY IdsArePartitioned, SlotsExist, MaxCountFits DEF Idle, Ops, Ids, Slots

LEMMA RingFacts ==
    ASSUME RegistersInv, NEW i \in Nat
    PROVE  IdAt(i) \in Ids /\ SlotAt(i) \in Slots
BY IdsArePartitioned, SlotsExist DEF RegistersInv, Ops, Ids, Slots, IdAt, SlotAt

LEMMA ContentsType ==
    ASSUME TypeOK, NEW id \in Ids
    PROVE  Contents(id) \subseteq Data \cup {Throw}
<1>1. ASSUME NEW p \in Places
      PROVE  ReadPayload(main, p) \subseteq Data \cup {Bad, Throw}
  <2>1. main # NoFile /\ p.at \in DOMAIN main.recs => main.recs[p.at].data \in Data \cup {Bad}
    <3>1. main # NoFile => main.recs \in Partial(Positions, Records)
      BY DEF TypeOK, Files
    <3> QED
      BY <3>1 DEF Partial, Records, Payloads
  <2> QED
    BY <2>1 DEF ReadPayload, ReadFault, Payloads
<1>2. ASSUME NEW b \in DOMAIN blockIndex
      PROVE  blockIndex[b] \in Places
  BY DEF TypeOK, Partial
<1>3. ReadBlock(id) \subseteq Data \cup {Throw}
  BY <1>1, <1>2, ZeroIsData DEF ReadBlock
<1> QED
  BY <1>3 DEF Contents

\* A device that executes no command.
Resting ==
    /\ op = Idle /\ done = 0 /\ "busy" \notin status /\ status \subseteq Bits
    /\ commandHigh \in BOOLEAN /\ mem \in [Slots -> Data]
    /\ lastWrite \in {"none", "done", "failed"}
    /\ phase \in {"copy", "remove", "rename"} => loading
    /\ phase = "idle" => ~loading

LEMMA RestFacts == Resting => RegistersInv
BY IdleFacts DEF Resting, RegistersInv, BusyIffExecuting

LEMMA DeviceInvInit == DeviceInit => DeviceInv
<1> SUFFICES ASSUME DeviceInit PROVE DeviceInv
  OBVIOUS
<1>1. DiskInv
  BY DiskInvInit DEF DeviceInit
<1>2. mem \in [Slots -> Data]
  BY ZeroIsData DEF DeviceInit
<1>3. op = Idle /\ phase = "down" /\ done = 0 /\ status = {}
  BY DEF DeviceInit, StoreInit
<1>4. RegistersInv
  BY <1>2, <1>3, RestFacts DEF DeviceInit, Resting
<1> QED
  BY <1>1, <1>4 DEF DeviceInv

\* Whatever the device does, the backing file sees calls its specification allows.
LEMMA DeviceStep == DeviceInv /\ [Next]_vars => [StoreNext]_storeVars
<1> SUFFICES ASSUME DeviceInv, [Next]_vars PROVE [StoreNext]_storeVars
  OBVIOUS
<1>1. CASE Guest
  BY <1>1 DEF Guest, WriteStatus, WriteCommandHigh, StoreMemory, RejectCommand, StartCommand
<1>2. CASE WriteStep
  <2>1. done \in Nat /\ IdAt(done) \in Ids /\ SlotAt(done) \in Slots
    BY RingFacts DEF DeviceInv, RegistersInv, Ops
  <2>2. IdAt(done) \in BlockIds /\ mem[SlotAt(done)] \in Data
    BY <1>2, <2>1, IdsArePartitioned DEF WriteStep, Writable, DeviceInv, RegistersInv
  <2> QED
    BY <1>2, <2>2 DEF WriteStep, StoreNext
<1>3. CASE Command /\ ~WriteStep /\ ~WriteThrows
  BY <1>3 DEF Command, ReadStep, ReadThrows, ReadDone, StartSave, SaveProceeds,
              SaveThrows, WriteDone, StoreNext, Progress
<1>7. CASE WriteThrows
  <2>1. done \in Nat /\ IdAt(done) \in Ids
    BY RingFacts DEF DeviceInv, RegistersInv, Ops
  <2>2. Writable(done) => IdAt(done) \in BlockIds
    BY <2>1, IdsArePartitioned DEF Writable
  <2> QED
    BY <1>7, <2>2 DEF WriteThrows, StoreNext
<1>4. CASE Restart \/ Initialize
  BY <1>4 DEF Restart, Initialize, StoreNext, Progress
<1>5. CASE Stop
  <2>1. ASSUME op.kind = "write", done < op.count, Writable(done)
        PROVE  IdAt(done) \in BlockIds
    BY <2>1, RingFacts, IdsArePartitioned DEF DeviceInv, RegistersInv, Ops, Writable
  <2> QED
    BY <1>5, <2>1 DEF Stop, StoreNext
<1>6. CASE UNCHANGED vars
  BY <1>6 DEF vars
<1> QED
  BY <1>1, <1>2, <1>3, <1>4, <1>5, <1>6, <1>7 DEF Next

LEMMA FailRests ==
    ASSUME RegistersInv, Fail, phase' \in {"copy", "remove", "rename"} => loading',
           phase' = "idle" => ~loading'
    PROVE  RegistersInv'
<1>1. Resting'
  BY DEF Fail, Resting, RegistersInv, Bits
<1> QED
  BY <1>1, RestFacts, PTL

LEMMA ResetRests ==
    ASSUME ResetDevice, phase' \notin {"copy", "remove", "rename", "idle"}
    PROVE  RegistersInv'
<1>1. mem' \in [Slots -> Data]
  BY ZeroIsData DEF ResetDevice
<1>2. Resting'
  BY <1>1 DEF ResetDevice, Resting
<1> QED
  BY <1>2, RestFacts, PTL

LEMMA RegistersStep == DeviceInv /\ [Next]_vars => RegistersInv'
<1> SUFFICES ASSUME DeviceInv, [Next]_vars PROVE RegistersInv'
  OBVIOUS
<1> USE DEF DeviceInv
<1>1. ASSUME NEW bits \in StatusStores, WriteStatus(bits) PROVE RegistersInv'
  <2>1. bits \subseteq Bits
    BY StoresAreBits
  <2>2. Resting'
    BY <1>1, <2>1, IdleFacts DEF WriteStatus, Ready, Resting, RegistersInv, storeVars
  <2> QED
    BY <2>2, RestFacts, PTL
<1>2. ASSUME NEW nonzero \in HighStores, WriteCommandHigh(nonzero) PROVE RegistersInv'
  <2>1. Resting'
    BY <1>2, StoresAreBits, IdleFacts DEF WriteCommandHigh, Ready, Resting, RegistersInv, BusyIffExecuting, storeVars
  <2> QED
    BY <2>1, RestFacts, PTL
<1>3. ASSUME NEW s \in Slots, NEW d \in Data, StoreMemory(s, d) PROVE RegistersInv'
  <2>1. mem' \in [Slots -> Data]
    BY <1>3 DEF StoreMemory, RegistersInv
  <2>2. Resting'
    BY <1>3, <2>1, IdleFacts DEF StoreMemory, Ready, Resting, RegistersInv, BusyIffExecuting, storeVars
  <2> QED
    BY <2>2, RestFacts, PTL
<1>4. ASSUME NEW kind, NEW count, RejectCommand(kind, count) PROVE RegistersInv'
  <2>1. Fail /\ phase' = "idle" /\ loading' = loading /\ ~loading
    BY <1>4 DEF RejectCommand, Ready, RegistersInv, storeVars
  <2> QED
    BY <2>1, FailRests
<1>5. ASSUME NEW kind \in {"read", "write"}, NEW id \in Ids, NEW slot \in Slots, NEW count \in 1..MaxCount,
             StartCommand(kind, id, slot, count)
      PROVE  RegistersInv'
  <2>1. op' = [kind |-> kind, id |-> id, slot |-> slot, count |-> count] /\ op' \in Ops /\ count \in Nat /\ count > 0
    BY <1>5, MaxCountFits DEF StartCommand, Ops
  <2>2. op'.kind = kind /\ op'.count = count /\ op' # Idle
    BY <2>1, IdleFacts
  <2>3. done' = 0 /\ phase' = "idle" /\ "busy" \in status' /\ "error" \notin status' /\ status' \subseteq Bits
    BY <1>5, IdleFacts DEF StartCommand, Ready, RegistersInv, storeVars, Bits
  <2>4. commandHigh' = commandHigh /\ mem' = mem /\ lastWrite' = lastWrite
    BY <1>5 DEF StartCommand
  <2>5. ~loading'
    BY <1>5 DEF StartCommand, Ready, RegistersInv, storeVars
  <2>6. BusyIffExecuting' /\ op'.kind \notin {"none", "save"} /\ done' \in 0 .. op'.count
    BY <2>2, <2>3, <2>1 DEF BusyIffExecuting
  <2>7. mem' \in [Slots -> Data] /\ commandHigh' \in BOOLEAN /\ lastWrite' \in {"none", "done", "failed"}
    BY <2>4 DEF RegistersInv
  <2> QED
    BY <2>1, <2>2, <2>3, <2>5, <2>6, <2>7 DEF RegistersInv
<1>6. CASE ReadStep
  <2>1. done \in Nat /\ IdAt(done) \in Ids /\ SlotAt(done) \in Slots
    BY RingFacts DEF RegistersInv, Ops
  <2>2. mem' \in [Slots -> Data]
    BY <1>6, <2>1, ContentsType DEF ReadStep, RegistersInv, DiskInv
  <2>3. done' \in 0 .. op.count
    BY <1>6 DEF ReadStep, RegistersInv, Ops
  <2> QED
    BY <1>6, <2>2, <2>3 DEF ReadStep, RegistersInv, BusyIffExecuting, storeVars
<1>7. CASE ReadThrows \/ WriteThrows
  <2>1. Fail /\ phase' = "idle" /\ loading' = loading /\ ~loading
    BY <1>7 DEF ReadThrows, WriteThrows, PersistThrows, RegistersInv, storeVars
  <2> QED
    BY <2>1, FailRests
<1>8. CASE ReadDone
  <2>1. Resting'
    BY <1>8 DEF ReadDone, Resting, RegistersInv, Bits, storeVars
  <2> QED
    BY <2>1, RestFacts, PTL
<1>9. CASE WriteStep
  <2>1. done' \in 0 .. op.count /\ phase' = "idle" /\ loading' = loading
    BY <1>9 DEF WriteStep, RegistersInv, Ops, PersistBlock, PersistBlockLost
  <2> QED
    BY <1>9, <2>1 DEF WriteStep, RegistersInv, BusyIffExecuting
<1>10. CASE StartSave
  <2>1. /\ op' = [kind |-> "save", id |-> op.id, slot |-> op.slot, count |-> op.count]
        /\ op' \in Ops
    BY <1>10 DEF StartSave, RegistersInv, Ops
  <2>2. phase' = "copy" /\ loading' = loading /\ ~loading
    BY <1>10 DEF StartSave, BeginRewrite, RegistersInv
  <2> QED
    BY <1>10, <2>1, <2>2, IdleFacts DEF StartSave, RegistersInv, BusyIffExecuting
<1>11. CASE SaveProceeds
  <2>1. phase' \in {"remove", "rename"} /\ loading' = loading /\ UNCHANGED deviceVars
    BY <1>11 DEF SaveProceeds, CopyLiveRecords, RemoveOld
  <2> QED
    BY <1>11, <2>1 DEF SaveProceeds, RegistersInv, BusyIffExecuting, deviceVars
<1>12. CASE SaveThrows
  <2>1. phase' \in {"idle", "down"} /\ ~loading'
    BY <1>12 DEF SaveThrows, CopyThrows, RemoveThrows, RenameThrows, Unwind
  <2> QED
    BY <1>12, <2>1, FailRests DEF SaveThrows
<1>13. CASE WriteDone
  <2>1. Resting'
    BY <1>13 DEF WriteDone, RenameTmp, Resting, RegistersInv, Bits
  <2> QED
    BY <2>1, RestFacts, PTL
<1>14. CASE Restart
  <2>1. phase' \notin {"copy", "remove", "rename", "idle"}
    BY <1>14 DEF Restart, EnsureBackingFileExists
  <2> QED
    BY <1>14, <2>1, ResetRests DEF Restart
<1>15. CASE Initialize
  <2>1. op = Idle /\ op' = op /\ UNCHANGED deviceVars
    BY <1>15 DEF Initialize, deviceVars
  <2>2. /\ phase' \in {"copy", "remove", "rename"} => loading'
        /\ phase' = "idle" => ~loading'
    BY <1>15 DEF Initialize, CreateEmptyBackingFile, LoadIndex, LoadFails, CopyLiveRecords, CopyThrows,
                 RemoveOld, RemoveThrows, RenameTmp, RenameThrows, Unwind
  <2>3. Resting'
    BY <2>1, <2>2, IdleFacts DEF Resting, RegistersInv, BusyIffExecuting, deviceVars
  <2> QED
    BY <2>3, RestFacts, PTL
<1>16. CASE Stop
  <2>1. phase' = "down" /\ ResetDevice
    BY <1>16 DEF Stop, Crash, CrashInAppend
  <2> QED
    BY <2>1, ResetRests
<1>17. CASE UNCHANGED vars
  BY <1>17 DEF vars, deviceVars, storeVars, RegistersInv, BusyIffExecuting
<1> QED
  BY <1>1, <1>2, <1>3, <1>4, <1>5, <1>6, <1>7, <1>8, <1>9, <1>10, <1>11, <1>12, <1>13,
     <1>14, <1>15, <1>16, <1>17 DEF Next, Guest, Command, StartCommand

LEMMA DeviceInvStep == DeviceInv /\ [Next]_vars => DeviceInv'
BY DeviceStep, DiskInvStep, RegistersStep DEF DeviceInv

\* The registers and the files keep their types, and Busy is set exactly while a command
\* is executed, for any stores of the guest and any failures of the host.
THEOREM DeviceTypeCorrect == Spec => []DeviceTypeOK
<1>1. DeviceInv => DeviceTypeOK
  BY DEF DeviceInv, RegistersInv, DiskInv, DeviceTypeOK, Ops
<1> QED
  BY DeviceInvInit, DeviceInvStep, <1>1, PTL DEF Spec

\* The device calls its backing file as the specification of the file allows, so what is
\* proved of the file holds under the device.
THEOREM DeviceUsesStore == Spec => StoreSpec
<1>1. DeviceInit => StoreInit
  BY DEF DeviceInit
<1> QED
  BY <1>1, DeviceInvInit, DeviceInvStep, DeviceStep, PTL DEF Spec, StoreSpec

\* With a host that loses nothing the file under the device implements the map of blocks.
THEOREM DeviceImplementsMap ==
    ASSUME ~Losing
    PROVE  Spec => ImplementsMap
BY DeviceUsesStore, BackingImplementsMap, PTL

\* A command that ends has set Error or Data Ready, never both, though the guest can
\* have set either before it.
THEOREM OutcomeAlwaysUnambiguous == Spec => OutcomeIsUnambiguous
<1>1. DeviceInv /\ [Next]_vars =>
        [op # Idle /\ op' = Idle /\ phase' # "down"
            => ~({"error", "ready"} \subseteq status')]_vars
  <2> SUFFICES ASSUME DeviceInv, Next, op # Idle, op' = Idle
               PROVE  ~({"error", "ready"} \subseteq status')
    OBVIOUS
  <2>1. "error" \notin status
    BY DEF DeviceInv, RegistersInv
  <2>2. CASE Guest
    BY <2>2 DEF Guest, WriteStatus, WriteCommandHigh, StoreMemory, RejectCommand, StartCommand, Ready
  <2>3. CASE Command
    <3>1. Fail => "ready" \notin status'
      BY DEF Fail
    <3>2. ReadDone => "error" \notin status'
      BY <2>1 DEF ReadDone
    <3>3. WriteDone => "ready" \notin status'
      BY DEF WriteDone
    <3>4. ReadStep \/ WriteStep \/ StartSave \/ SaveProceeds => status' = status
      BY DEF ReadStep, WriteStep, StartSave, SaveProceeds, deviceVars
    <3> QED
      BY <2>1, <2>3, <3>1, <3>2, <3>3, <3>4 DEF Command, ReadThrows, WriteThrows, SaveThrows
  <2>4. CASE Restart \/ Stop
    BY <2>4 DEF Restart, Stop, ResetDevice
  <2>5. CASE Initialize
    BY <2>5 DEF Initialize
  <2> QED
    BY <2>2, <2>3, <2>4, <2>5 DEF Next
<1> QED
  BY DeviceInvInit, DeviceInvStep, <1>1, PTL DEF Spec, OutcomeIsUnambiguous

-----------------------------------------------------------------------------
(* What a command has moved *)

\* Fewer steps than a ring is long never come back to the same place.
LEMMA RingApart ==
    ASSUME NEW n \in Nat \ {0}, NEW a \in Nat, NEW i \in 0 .. n - 1, NEW j \in 0 .. n - 1,
           (a + i) % n = (a + j) % n
    PROVE  i = j
<1> DEFINE p == (a + i) \div n
           q == (a + j) \div n
           r == (a + i) % n
<1>1. /\ p \in Nat /\ q \in Nat /\ r \in 0 .. n - 1
      /\ a + i = p * n + r /\ a + j = q * n + r
  OBVIOUS
<1> HIDE DEF p, q, r
<1>2. ~(p < q)
  <2>1. p < q => p * n + n <= q * n
    BY <1>1
  <2> QED
    BY <1>1, <2>1
<1>3. ~(q < p)
  <2>1. q < p => q * n + n <= p * n
    BY <1>1
  <2> QED
    BY <1>1, <2>1
<1>4. p = q
  BY <1>1, <1>2, <1>3
<1> QED
  BY <1>1, <1>4

LEMMA PlacesApart ==
    ASSUME RegistersInv, NEW i \in 0 .. op.count - 1, NEW j \in 0 .. op.count - 1, i # j
    PROVE  IdAt(i) # IdAt(j) /\ SlotAt(i) # SlotAt(j)
<1>1. op.id \in Nat /\ op.slot \in Nat /\ i \in 0 .. NumIds - 1 /\ j \in 0 .. NumIds - 1
      /\ i \in 0 .. NumSlots - 1 /\ j \in 0 .. NumSlots - 1
  BY MaxCountFits, IdsArePartitioned, SlotsExist DEF RegistersInv, Ops, Ids, Slots
<1> QED
  BY <1>1, RingApart, IdsArePartitioned, SlotsExist DEF IdAt, SlotAt

\* A guest reads what the map shows, unless the host fails the read.
LEMMA ReadSeen ==
    ASSUME MapInv, phase = "idle", NEW b \in BlockIds
    PROVE  ReadBlock(b) \subseteq {Seen[b], Throw}
<1>1. CASE b \in DOMAIN blockIndex
  <2>1. /\ ReadPayload(main, blockIndex[b]) \subseteq {Live[b], Throw}
        /\ Live[b] # Bad /\ Seen[b] = Live[b] /\ Throw # Bad
    BY <1>1, LiveRead, SeenNow, OutcomesDiffer DEF ReadFault
  <2> QED
    BY <1>1, <2>1 DEF ReadBlock
<1>2. CASE b \notin DOMAIN blockIndex
  BY <1>2, SeenNow DEF ReadBlock
<1> QED
  BY <1>1, <1>2

LEMMA MovedStep ==
    ~Losing /\ DeviceInv /\ MapInv /\ MapInv' /\ MovedBlocksAgree /\ [Next]_vars => MovedBlocksAgree'
<1> SUFFICES ASSUME ~Losing, DeviceInv, MapInv, MapInv', MovedBlocksAgree, [Next]_vars
             PROVE  MovedBlocksAgree'
  OBVIOUS
<1> DEFINE Same == op'.id = op.id /\ op'.slot = op.slot /\ mem' = mem /\ done' = done
<1>1. done' = 0 => MovedBlocksAgree'
  BY DEF MovedBlocksAgree
<1>2. Same /\ Seen' = Seen => MovedBlocksAgree'
  BY DEF MovedBlocksAgree, IdAt, SlotAt
<1>3. done \in 0 .. op.count /\ op.count \in Nat /\ (op = Idle => done = 0)
  BY IdleFacts DEF DeviceInv, RegistersInv, Ops
<1>4. UNCHANGED storeVars => Seen' = Seen
  BY DEF storeVars, Seen, Running, LiveFile, LivePlace
<1>5. CASE Guest
  BY <1>1, <1>3, <1>5 DEF Guest, WriteStatus, WriteCommandHigh, StoreMemory, RejectCommand,
                          StartCommand, Ready, Fail
<1>6. CASE ReadStep
  <2>1. op' = op /\ done < op.count /\ done' = done + 1 /\ Seen' = Seen
    BY <1>4, <1>6 DEF ReadStep
  <2>2. PICK d \in Contents(IdAt(done)) \ {Throw} : mem' = [mem EXCEPT ![SlotAt(done)] = d]
    BY <1>6 DEF ReadStep
  <2>3. IdAt(done) \in Ids /\ SlotAt(done) \in Slots /\ mem \in [Slots -> Data]
    BY <1>3, RingFacts DEF DeviceInv, RegistersInv
  <2>4. IdAt(done) \in BlockIds => d = Seen[IdAt(done)]
    BY <2>2, <1>6, ReadSeen, IdsArePartitioned DEF Contents, ReadStep, DeviceInv, RegistersInv
  <2>5. ASSUME NEW i \in 0 .. done, IdAt(i) \in BlockIds
        PROVE  mem'[SlotAt(i)] = Seen[IdAt(i)]
    <3>1. CASE i = done
      BY <2>2, <2>3, <2>4, <2>5, <3>1
    <3>2. CASE i # done
      <4>1. i \in 0 .. done - 1 /\ i \in 0 .. op.count - 1 /\ done \in 0 .. op.count - 1 /\ i \in Nat
        BY <1>3, <2>1, <3>2
      <4>2. SlotAt(i) # SlotAt(done) /\ SlotAt(i) \in Slots
        BY <3>2, <4>1, PlacesApart, RingFacts DEF DeviceInv
      <4>3. mem[SlotAt(i)] = Seen[IdAt(i)]
        BY <2>5, <4>1 DEF MovedBlocksAgree
      <4> QED
        BY <2>2, <2>3, <4>2, <4>3
    <3> QED
      BY <3>1, <3>2
  <2>6. 0 .. done' - 1 = 0 .. done
    BY <1>3, <2>1
  <2> QED
    BY <2>1, <2>5, <2>6 DEF MovedBlocksAgree, IdAt, SlotAt
<1>7. CASE WriteStep
  <2>1. op' = op /\ mem' = mem /\ done < op.count /\ done' = done + 1
    BY <1>7 DEF WriteStep
  <2>2. IdAt(done) \in BlockIds /\ mem[SlotAt(done)] \in Data /\ done \in Nat
    BY <1>3, <1>7, RingFacts, IdsArePartitioned DEF WriteStep, Writable, DeviceInv, RegistersInv
  <2>3. PersistBlock(IdAt(done), mem[SlotAt(done)])
    BY <1>7 DEF WriteStep, PersistBlockLost
  <2>4. Seen' = [Seen EXCEPT ![IdAt(done)] = mem[SlotAt(done)]]
    BY <2>2, <2>3, PersistWrites DEF Map!Write
  <2>5. Seen \in [BlockIds -> Data]
    BY SeenType
  <2>6. ASSUME NEW i \in 0 .. done, IdAt(i) \in BlockIds
        PROVE  mem[SlotAt(i)] = Seen'[IdAt(i)]
    <3>1. CASE i = done
      BY <2>2, <2>4, <2>5, <3>1
    <3>2. CASE i # done
      <4>1. i \in 0 .. done - 1 /\ i \in 0 .. op.count - 1 /\ done \in 0 .. op.count - 1
        BY <1>3, <2>1, <3>2
      <4>2. IdAt(i) # IdAt(done)
        BY <3>2, <4>1, PlacesApart DEF DeviceInv
      <4>3. mem[SlotAt(i)] = Seen[IdAt(i)]
        BY <2>6, <4>1 DEF MovedBlocksAgree
      <4> QED
        BY <2>4, <2>5, <2>6, <4>2, <4>3
    <3> QED
      BY <3>1, <3>2
  <2>7. 0 .. done' - 1 = 0 .. done
    BY <1>3, <2>1
  <2> QED
    BY <2>1, <2>6, <2>7 DEF MovedBlocksAgree, IdAt, SlotAt
<1>8. CASE StartSave
  <2>1. Same
    BY <1>8 DEF StartSave, DeviceInv, RegistersInv, Ops
  <2>2. Seen' = Seen
    BY <1>8, CopyShowsNothing DEF StartSave
  <2> QED
    BY <1>2, <2>1, <2>2
<1>9. CASE SaveProceeds
  <2>1. Seen' = Seen
    BY <1>9, CopyShowsNothing, RemoveWithdraws DEF SaveProceeds, Map!Withdraw
  <2> QED
    BY <1>2, <1>9, <2>1 DEF SaveProceeds, deviceVars
<1>10. CASE ReadThrows \/ ReadDone \/ WriteThrows \/ SaveThrows \/ WriteDone
  BY <1>1, <1>10 DEF ReadThrows, ReadDone, WriteThrows, SaveThrows, WriteDone, Fail
<1>11. CASE Restart \/ Stop
  BY <1>1, <1>11 DEF Restart, Stop, ResetDevice
<1>12. CASE Initialize
  BY <1>1, <1>3, <1>12 DEF Initialize, deviceVars
<1>13. CASE UNCHANGED vars
  BY <1>2, <1>4, <1>13 DEF vars, deviceVars
<1> QED
  BY <1>5, <1>6, <1>7, <1>8, <1>9, <1>10, <1>11, <1>12, <1>13 DEF Next, Command

LEMMA MapInvUnderDevice == ~Losing /\ DeviceInv /\ MapInv /\ [Next]_vars => MapInv'
BY DeviceStep, MapInvStep

LEMMA MapInvAtStart == DeviceInit => MapInv
BY MapInvInit DEF DeviceInit

\* With a host that loses nothing, what a READ has moved is in the buffer and what a WRITE has
\* moved is in the device, for any ids and buffers, also where either wraps.
THEOREM MovedBlocksAlwaysAgree ==
    ASSUME ~Losing
    PROVE  Spec => []MovedBlocksAgree
<1> DEFINE IInv == DeviceInv /\ MapInv /\ MovedBlocksAgree
<1>1. DeviceInit => IInv
  BY DeviceInvInit, MapInvAtStart DEF DeviceInit, MovedBlocksAgree
<1>2. IInv /\ [Next]_vars => IInv'
  BY DeviceInvStep, MapInvUnderDevice, MovedStep
<1> QED
  BY <1>1, <1>2, PTL DEF Spec

-----------------------------------------------------------------------------
(* What a restart would find *)

LEMMA EntriesAreFinite ==
    ASSUME NEW S \in SUBSET Entries
    PROVE  IsFiniteSet(S)
<1> DEFINE pair == [e \in Entries |-> <<e.id, e.at>>]
<1>1. IsFiniteSet(BlockIds \X Positions)
  <2>1. IsFiniteSet(Positions)
    BY FS_Interval, RoomToCompact DEF Positions
  <2> QED
    BY <2>1, BlockIdsAreFinite, FS_Product
<1>2. pair \in Injection(Entries, BlockIds \X Positions)
  <2>1. pair \in [Entries -> BlockIds \X Positions]
    BY DEF Entries
  <2>2. ASSUME NEW e \in Entries, NEW f \in Entries, pair[e] = pair[f] PROVE e = f
    BY <2>2 DEF Entries
  <2> QED
    BY <2>1, <2>2 DEF Injection, IsInjective
<1>3. IsFiniteSet(Entries)
  BY <1>1, <1>2, FS_Injection
<1> QED
  BY <1>3, FS_Subset

\* An index with as many entries as ids names each block once.
LEMMA EntriesAreDistinct ==
    ASSUME NEW S \in SUBSET Entries, Cardinality({e.id : e \in S}) = Cardinality(S)
    PROVE  \A e, f \in S : e.id = f.id => e = f
<1> DEFINE I == {e.id : e \in S}
           name == [e \in S |-> e.id]
<1>1. IsFiniteSet(S)
  BY EntriesAreFinite
<1>2. name \in Surjection(S, I)
  BY DEF Surjection
<1>3. name \in Injection(S, I)
  BY <1>1, <1>2, FS_Surjection
<1> QED
  BY <1>3 DEF Injection, IsInjective

\* A start that does not repair the index shows the guest what is in the file.
LEMMA LoadAgrees ==
    ASSUME MapInv, MapInv', LoadIndex, phase' = "idle"
    PROVE  Restorable(main) = Map!Certain(Seen')
<1> DEFINE durable == Restorable(main)
<1>1. Map!Start
  BY LoadStarts
<1>2. main # NoFile /\ main.index \in SUBSET Entries
  BY DEF MapInv, DiskInv, TypeOK, LoadIndex, Files
<1>3. Cardinality({e.id : e \in main.index}) = Cardinality(main.index)
  BY DEF LoadIndex
<1>4. ASSUME NEW b \in BlockIds PROVE durable[b] = {Seen'[b]}
  <2> DEFINE mine == {e \in main.index : e.id = b}
  <2>1. durable[b] = IF mine = {} THEN {Zero} ELSE {main.recs[e.at].data : e \in mine}
    BY <1>2 DEF Restorable
  <2>2. Seen'[b] \in durable[b]
    BY <1>1 DEF Map!Start
  <2>3. \A e, f \in mine : e = f
    BY <1>2, <1>3, EntriesAreDistinct
  <2> QED
    BY <2>1, <2>2, <2>3
<1> QED
  BY <1>4 DEF Map!Certain, Restorable

LEMMA UnsavedStep ==
    ~Losing /\ DeviceInv /\ MapInv /\ MapInv' /\ UnsavedOnlyAfterError /\ [Next]_vars
        => UnsavedOnlyAfterError'
<1> SUFFICES ASSUME ~Losing, DeviceInv, MapInv, MapInv', UnsavedOnlyAfterError, [Next]_vars
             PROVE  UnsavedOnlyAfterError'
  OBVIOUS
<1> DEFINE Saved == Restorable(main) = Map!Certain(Seen)
           Same == UNCHANGED storeVars /\ UNCHANGED lastWrite /\ op.kind \notin {"write", "save"}
<1>1. Saved' \/ phase' # "idle" \/ lastWrite' = "failed" \/ op'.kind \in {"write", "save"}
          => UnsavedOnlyAfterError'
  BY DEF UnsavedOnlyAfterError
<1>2. UNCHANGED storeVars => phase' = phase /\ (Saved => Saved')
  BY DEF storeVars, Seen, Running, LiveFile, LivePlace, Restorable, Map!Certain
<1>3. Same => UnsavedOnlyAfterError'
  BY <1>1, <1>2 DEF UnsavedOnlyAfterError
<1>4. RenameTmp => Saved'
  <2> SUFFICES ASSUME RenameTmp PROVE Saved'
    OBVIOUS
  <2>1. Map!Publish
    BY RenamePublishes
  <2>2. Restorable(main)' = Map!Certain(Seen) /\ Seen' = Seen
    BY <2>1 DEF Map!Publish
  <2> QED
    BY <2>2 DEF Map!Certain
<1>5. CASE Guest
  BY <1>3, <1>5, IdleFacts DEF Guest, WriteStatus, WriteCommandHigh, StoreMemory, RejectCommand,
                               StartCommand, Ready, Fail
<1>6. CASE ReadStep \/ ReadThrows \/ ReadDone
  BY <1>3, <1>6 DEF ReadStep, ReadThrows, ReadDone, Fail
<1>7. CASE WriteStep \/ StartSave
  BY <1>1, <1>7 DEF WriteStep, StartSave, BeginRewrite
<1>8. CASE WriteThrows \/ SaveThrows
  BY <1>1, <1>8 DEF WriteThrows, SaveThrows, Fail
<1>9. CASE SaveProceeds
  BY <1>1, <1>9 DEF SaveProceeds, CopyLiveRecords, RemoveOld
<1>10. CASE WriteDone
  BY <1>1, <1>4, <1>10 DEF WriteDone
<1>11. CASE Restart \/ Stop
  BY <1>1, <1>11 DEF Restart, Stop, EnsureBackingFileExists, Crash, CrashInAppend
<1>12. CASE Initialize
  <2>1. CASE LoadIndex
    <3>1. CASE phase' = "idle"
      <4>1. Restorable(main) = Map!Certain(Seen') /\ main' = main
        BY <2>1, <3>1, LoadAgrees DEF LoadIndex
      <4>2. Saved'
        BY <4>1 DEF Map!Certain, Restorable
      <4> QED
        BY <1>1, <4>2
    <3> QED
      BY <1>1, <3>1
  <2>2. CASE RenameTmp
    BY <1>1, <1>4, <2>2
  <2>3. CASE CreateEmptyBackingFile \/ LoadFails \/ CopyLiveRecords \/ RemoveOld
    BY <1>1, <2>3 DEF CreateEmptyBackingFile, LoadFails, CopyLiveRecords, RemoveOld
  <2>4. CASE loading /\ (CopyThrows \/ RemoveThrows \/ RenameThrows)
    BY <1>1, <2>4 DEF CopyThrows, RemoveThrows, RenameThrows, Unwind
  <2> QED
    BY <1>12, <2>1, <2>2, <2>3, <2>4 DEF Initialize
<1>13. CASE UNCHANGED vars
  <2>1. UNCHANGED storeVars /\ lastWrite' = lastWrite /\ op' = op
    BY <1>13 DEF vars, deviceVars
  <2> QED
    BY <1>1, <1>2, <2>1 DEF UnsavedOnlyAfterError
<1> QED
  BY <1>5, <1>6, <1>7, <1>8, <1>9, <1>10, <1>11, <1>12, <1>13 DEF Next, Command

\* With a host that loses nothing, the guest and a restart disagree about a block only while a
\* WRITE runs or after one that ended in Error, for any file the device starts from.
THEOREM UnsavedOnlyEverAfterError ==
    ASSUME ~Losing
    PROVE  Spec => []UnsavedOnlyAfterError
<1> DEFINE IInv == DeviceInv /\ MapInv /\ UnsavedOnlyAfterError
<1>1. DeviceInit => IInv
  BY DeviceInvInit, MapInvAtStart DEF DeviceInit, StoreInit, UnsavedOnlyAfterError
<1>2. IInv /\ [Next]_vars => IInv'
  BY DeviceInvStep, MapInvUnderDevice, UnsavedStep
<1> QED
  BY <1>1, <1>2, PTL DEF Spec

-----------------------------------------------------------------------------
(* Progress *)

\* Steps a command has left: a block each, and at most the four of a save.
StepsLeft ==
    IF op.kind = "save"
    THEN IF phase = "copy" THEN 3 ELSE IF phase = "remove" THEN 2 ELSE 1
    ELSE op.count - done + 4

\* Nothing else happens while a command is executed, and each of its steps leaves fewer to
\* do: what the end of commands (CommandEnds) needs besides fairness, for any number of
\* blocks, failures and ids.
THEOREM CommandGoesOn ==
    Spec => [][op # Idle /\ op' # Idle => StepsLeft' \in 0 .. StepsLeft - 1]_vars
<1>1. ASSUME DeviceInv, Next, op # Idle, op' # Idle
      PROVE  StepsLeft' \in 0 .. StepsLeft - 1
  <2>1. op \in Ops /\ op.kind \in {"read", "write", "save"} /\ done \in 0 .. op.count /\ op.count \in Nat
    BY <1>1, MaxCountFits DEF DeviceInv, RegistersInv, Ops
  <2>2. ReadStep \/ WriteStep \/ StartSave \/ SaveProceeds
    BY <1>1
       DEF Next, Guest, WriteStatus, WriteCommandHigh, StoreMemory, RejectCommand, StartCommand,
           Ready, Command, ReadThrows, ReadDone, WriteThrows, SaveThrows, WriteDone, Fail,
           Restart, Initialize, Stop, ResetDevice
  <2>3. CASE ReadStep \/ WriteStep
    <3>1. op' = op /\ op.kind # "save" /\ done' = done + 1 /\ done < op.count
      BY <2>3 DEF ReadStep, WriteStep
    <3> QED
      BY <2>1, <3>1 DEF StepsLeft
  <2>4. CASE StartSave
    <3>1. op'.kind = "save" /\ phase' = "copy" /\ op.kind = "write" /\ done = op.count
      BY <2>1, <2>4 DEF StartSave, BeginRewrite, Ops
    <3> QED
      BY <2>1, <3>1 DEF StepsLeft
  <2>5. CASE SaveProceeds
    <3>1. /\ op' = op /\ op.kind = "save"
          /\ \/ phase = "copy" /\ phase' = "remove"
             \/ phase = "remove" /\ phase' = "rename"
      BY <2>5 DEF SaveProceeds, CopyLiveRecords, RemoveOld, deviceVars
    <3> QED
      BY <3>1 DEF StepsLeft
  <2> QED
    BY <2>2, <2>3, <2>4, <2>5
<1>2. DeviceInv /\ [Next]_vars
        => [op # Idle /\ op' # Idle => StepsLeft' \in 0 .. StepsLeft - 1]_vars
  BY <1>1
<1> QED
  BY <1>2, DeviceInvInit, DeviceInvStep, PTL DEF Spec

\* The three places of a compaction, begun by a command or at load.
Copying  == DeviceInv /\ phase = "copy"
Removing == DeviceInv /\ phase = "remove"
Renaming == DeviceInv /\ phase = "rename"
Rewriting == phase \in {"copy", "remove", "rename"}
Rewritten == phase \in {"idle", "down"}

LEMMA RewriteGoesOn ==
    ASSUME DeviceInv, Rewriting, Next
    PROVE  \/ phase = "copy" /\ phase' = "remove"
           \/ phase = "remove" /\ phase' = "rename"
           \/ Rewritten'
<1>1. ~Guest /\ ~Restart
  BY DEF Guest, WriteStatus, WriteCommandHigh, StoreMemory, RejectCommand, StartCommand, Ready,
         Restart, EnsureBackingFileExists, Rewriting
<1>2. CASE Stop
  BY <1>2 DEF Stop, Crash, CrashInAppend, Rewritten
<1>3. CASE Initialize
  BY <1>3
     DEF Initialize, CreateEmptyBackingFile, LoadIndex, LoadFails, CopyLiveRecords, CopyThrows,
         RemoveOld, RemoveThrows, RenameTmp, RenameThrows, Unwind, Rewriting, Rewritten
<1>4. CASE Command
  <2>1. SaveProceeds \/ SaveThrows \/ WriteDone
    BY <1>4 DEF Command, ReadStep, ReadThrows, ReadDone, WriteStep, WriteThrows, StartSave,
                DeviceInv, RegistersInv, Rewriting
  <2> QED
    BY <2>1 DEF SaveProceeds, SaveThrows, WriteDone, CopyLiveRecords, CopyThrows, RemoveOld,
                RemoveThrows, RenameTmp, RenameThrows, Unwind, Rewritten
<1> QED
  BY <1>1, <1>2, <1>3, <1>4 DEF Next

\* A compaction ends, in success or by throwing, begun by a WRITE or at load, with host
\* operations that fail anywhere.  That one that has begun can go on is the hypothesis:
\* the provers have no rule for ENABLED.
THEOREM RewriteAlwaysEnds ==
    FairSpec /\ [](Rewriting => ENABLED <<Command \/ Initialize>>_vars) => RewriteEnds
<1>1. Copying /\ [Next]_vars => Copying' \/ Removing' \/ Rewritten'
  <2>1. ASSUME Copying, UNCHANGED vars PROVE phase' = "copy"
    BY <2>1 DEF Copying, vars, storeVars
  <2> QED
    BY <2>1, DeviceInvStep, RewriteGoesOn DEF Copying, Removing, Rewriting
<1>2. Removing /\ [Next]_vars => Removing' \/ Renaming' \/ Rewritten'
  <2>1. ASSUME Removing, UNCHANGED vars PROVE phase' = "remove"
    BY <2>1 DEF Removing, vars, storeVars
  <2> QED
    BY <2>1, DeviceInvStep, RewriteGoesOn DEF Removing, Renaming, Rewriting
<1>3. Renaming /\ [Next]_vars => Renaming' \/ Rewritten'
  <2>1. ASSUME Renaming, UNCHANGED vars PROVE phase' = "rename"
    BY <2>1 DEF Renaming, vars, storeVars
  <2> QED
    BY <2>1, DeviceInvStep, RewriteGoesOn DEF Renaming, Rewriting
<1>4. Copying /\ <<Command \/ Initialize>>_vars => Removing' \/ Rewritten'
  BY DeviceInvStep, RewriteGoesOn DEF Copying, Removing, Rewriting, Next
<1>5. Removing /\ <<Command \/ Initialize>>_vars => Renaming' \/ Rewritten'
  BY DeviceInvStep, RewriteGoesOn DEF Removing, Renaming, Rewriting, Next
<1>6. Renaming /\ <<Command \/ Initialize>>_vars => Rewritten'
  BY RewriteGoesOn DEF Renaming, Rewriting, Next
<1>7. Copying \/ Removing \/ Renaming => Rewriting
  BY DEF Copying, Removing, Renaming, Rewriting
<1>8. DeviceInv /\ phase = "copy" => Copying
  BY DEF Copying
<1> QED
  BY <1>1, <1>2, <1>3, <1>4, <1>5, <1>6, <1>7, <1>8, DeviceInvInit, DeviceInvStep, PTL
     DEF FairSpec, Spec, RewriteEnds, Rewritten
=============================================================================
