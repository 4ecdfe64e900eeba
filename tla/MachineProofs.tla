--------------------------- MODULE MachineProofs ---------------------------
(***************************************************************************)
(* What holds of the machine for any memory, programs, devices and length  *)
(* of the history: its types, what stepping back restores, and that input  *)
(* is only taken by instructions that complete.                            *)
(***************************************************************************)
EXTENDS Machine, FiniteSetTheorems, SequenceTheorems, TLAPS

-----------------------------------------------------------------------------
(* Operators *)

\* How many of the oldest elements Keep drops from a sequence that has grown by one.
Dropped(s) == IF Len(s) = MaxHistory THEN 1 ELSE 0

\* Keep leaves the newest elements in their order.
LEMMA KeepFacts ==
    ASSUME NEW S, NEW s \in Seq(S), NEW e \in S, Len(s) <= MaxHistory
    PROVE  LET t == Keep(Append(s, e)) IN
           /\ t \in Seq(S)
           /\ Len(t) = Len(s) + 1 - Dropped(s)
           /\ Len(t) \in 1 .. MaxHistory
           /\ t[Len(t)] = e
           /\ \A i \in 1 .. Len(t) - 1 : t[i] = s[i + Dropped(s)]
<1> DEFINE a == Append(s, e)
<1>1. /\ a \in Seq(S)
      /\ Len(a) = Len(s) + 1
      /\ a[Len(s) + 1] = e
      /\ \A i \in 1 .. Len(s) : a[i] = s[i]
  OBVIOUS
<1>2. CASE Len(s) = MaxHistory
  <2>1. Keep(a) = Tail(a) /\ a # <<>>
    BY <1>1, <1>2, BoundsAssumption DEF Keep
  <2>2. /\ Tail(a) \in Seq(S)
        /\ Len(Tail(a)) = Len(s)
        /\ \A i \in 1 .. Len(s) : Tail(a)[i] = a[i + 1]
    <3> HIDE DEF a
    <3> QED
      BY <1>1, <2>1, HeadTailProperties
  <2> HIDE DEF a
  <2> QED
    BY <1>1, <1>2, <2>1, <2>2, BoundsAssumption DEF Dropped, a
<1>3. CASE Len(s) < MaxHistory
  <2>1. Keep(a) = a
    BY <1>1, <1>3, BoundsAssumption DEF Keep
  <2> HIDE DEF a
  <2> QED
    BY <1>1, <1>3, <2>1, BoundsAssumption DEF Dropped, a
<1> QED
  BY <1>2, <1>3, BoundsAssumption

\* What a word means lies in the address space.
LEMMA DecodeFacts ==
    ASSUME NEW w \in Words
    PROVE  /\ Decode[w] \in Instructions
           /\ Decode[w].lo \in Int /\ Decode[w].hi \in Int /\ Decode[w].lo <= Decode[w].hi
           /\ Decode[w].to \in Ram
           /\ TtyBase \in Int /\ TtyEnd \in Int
BY WordsAssumption, LayoutAssumption
   DEF Instructions, Addresses, Ram, DeviceRegister, TtyBase, TtyEnd

\* The overlap that prepareInstruction computes from the two ends of a read is the
\* number of its bytes that lie in the TTY.
LEMMA NeededIsExact ==
    ASSUME NEW w \in Words
    PROVE  Needed(Decode[w]) = TtyReads(Decode[w]) /\ TtyReads(Decode[w]) \in Nat
<1> DEFINE lo == Decode[w].lo
           hi == Decode[w].hi
           first == Greatest(lo, TtyBase)
           last == Least(hi, TtyEnd)
<1>1. lo \in Int /\ hi \in Int /\ lo <= hi /\ TtyBase \in Int /\ TtyEnd \in Int /\ TtyBase <= TtyEnd
  BY DecodeFacts, LayoutAssumption DEF TtyBase, TtyEnd
<1>2. first \in Int /\ last \in Int
  BY <1>1 DEF Greatest, Least
<1>3. (lo .. hi) \cap (TtyBase .. TtyEnd) = first .. last
  BY <1>1 DEF Greatest, Least
<1>4. Cardinality(first .. last) = IF first > last THEN 0 ELSE last - first + 1
  BY <1>2, FS_Interval
<1>5. lo <= TtyEnd /\ hi >= TtyBase <=> first <= last
  BY <1>1 DEF Greatest, Least
<1> HIDE DEF first, last
<1>6. CASE Decode[w].kind = "load"
  <2>1. TtyReads(Decode[w]) = IF first > last THEN 0 ELSE last - first + 1
    BY <1>3, <1>4, <1>6 DEF TtyReads
  <2>2. Needed(Decode[w]) = IF first <= last THEN last - first + 1 ELSE 0
    BY <1>5, <1>6 DEF Needed, first, last
  <2> QED
    BY <2>1, <2>2, <1>2
<1>7. CASE Decode[w].kind # "load"
  BY <1>7 DEF Needed, TtyReads
<1> QED
  BY <1>6, <1>7

-----------------------------------------------------------------------------
(* Snapshots *)

\* The recorded words are words of RAM.
LEMMA DeltasType ==
    ASSUME ram \in [Ram -> Words], NEW cells \in SUBSET Ram
    PROVE  /\ Deltas(cells) \in UNION {[c -> Words] : c \in SUBSET Ram}
           /\ DOMAIN Deltas(cells) = cells
           /\ \A a \in cells : Deltas(cells)[a] = ram[a]
<1>1. Deltas(cells) \in [cells -> Words]
  BY DEF Deltas
<1> QED
  BY <1>1 DEF Deltas

\* Committing a snapshot keeps the newest of the old ones, in order, and adds the
\* present state; a DMA is added to what may differ from every state before it.
LEMMA CommitFacts ==
    ASSUME MachineTypeOK, NEW cells \in SUBSET Ram, NEW moved \in SUBSET Ram,
           Commit(cells, moved)
    PROVE  /\ history' \in Seq(Snapshots) /\ Len(history') \in 1 .. MaxHistory
           /\ past' \in Seq(States) /\ Len(past') = Len(history')
           /\ Dropped(history) \in {0, 1}
           /\ Len(history') = Len(history) + 1 - Dropped(history)
           /\ history'[Len(history')] = [pc |-> pc, reg |-> reg, deltas |-> Deltas(cells)]
           /\ past'[Len(history')] = [pc |-> pc, reg |-> reg, ram |-> ram, behind |-> moved]
           /\ \A i \in 1 .. Len(history') - 1 :
                 /\ i + Dropped(history) \in 1 .. Len(history)
                 /\ history'[i] = history[i + Dropped(history)]
                 /\ past'[i] = [past[i + Dropped(history)] EXCEPT !.behind = @ \cup moved]
<1> DEFINE d == Dropped(history)
           h == [pc |-> pc, reg |-> reg, deltas |-> Deltas(cells)]
           p == [pc |-> pc, reg |-> reg, ram |-> ram, behind |-> moved]
           q == [i \in DOMAIN past |-> [past[i] EXCEPT !.behind = @ \cup moved]]
<1>1. /\ history \in Seq(Snapshots) /\ Len(history) \in Nat /\ Len(history) <= MaxHistory
      /\ past \in Seq(States) /\ Len(past) = Len(history)
      /\ pc \in Ram /\ reg \in Regs /\ ram \in [Ram -> Words]
  BY DEF MachineTypeOK
<1>2. h \in Snapshots
  BY <1>1, DeltasType DEF Snapshots
<1>3. p \in States
  BY <1>1 DEF States
<1>4. q \in Seq(States) /\ Len(q) = Len(history) /\ \A i \in 1 .. Len(history) :
          q[i] = [past[i] EXCEPT !.behind = @ \cup moved]
  <2>1. DOMAIN past = 1 .. Len(history)
    BY <1>1
  <2>2. \A i \in 1 .. Len(history) : [past[i] EXCEPT !.behind = @ \cup moved] \in States
    <3> TAKE i \in 1 .. Len(history)
    <3>1. past[i] \in States
      BY <1>1
    <3> QED
      BY <3>1 DEF States
  <2> QED
    BY <1>1, <2>1, <2>2
<1>5. history' = Keep(Append(history, h)) /\ past' = Keep(Append(q, p))
  BY DEF Commit
<1>6. d = Dropped(q) /\ d \in {0, 1} /\ (d = 1 => Len(history) >= 1)
  BY <1>1, <1>4, BoundsAssumption DEF Dropped
<1> HIDE DEF h, p, q, d
<1>7. /\ history' \in Seq(Snapshots) /\ Len(history') \in 1 .. MaxHistory
      /\ Len(history') = Len(history) + 1 - d
      /\ history'[Len(history')] = h
      /\ \A i \in 1 .. Len(history') - 1 : history'[i] = history[i + d]
  <2> DEFINE t == Keep(Append(history, h))
  <2>0. history \in Seq(Snapshots) /\ Len(history) <= MaxHistory
    BY <1>1
  <2>1. /\ t \in Seq(Snapshots) /\ Len(t) \in 1 .. MaxHistory
        /\ Len(t) = Len(history) + 1 - Dropped(history)
        /\ t[Len(t)] = h
        /\ \A i \in 1 .. Len(t) - 1 : t[i] = history[i + Dropped(history)]
    BY <1>2, <2>0, KeepFacts
  <2> HIDE DEF t
  <2>2. history' = t
    BY <1>5 DEF t
  <2> QED
    BY <2>1, <2>2 DEF d
<1>8. /\ past' \in Seq(States) /\ Len(past') = Len(q) + 1 - d
      /\ past'[Len(past')] = p
      /\ \A i \in 1 .. Len(past') - 1 : past'[i] = q[i + d]
  <2> DEFINE t == Keep(Append(q, p))
  <2>0. q \in Seq(States) /\ Len(q) <= MaxHistory
    BY <1>1, <1>4
  <2>1. /\ t \in Seq(States)
        /\ Len(t) = Len(q) + 1 - Dropped(q)
        /\ t[Len(t)] = p
        /\ \A i \in 1 .. Len(t) - 1 : t[i] = q[i + Dropped(q)]
    BY <1>3, <2>0, KeepFacts
  <2> HIDE DEF t
  <2>2. past' = t
    BY <1>5 DEF t
  <2> QED
    BY <2>1, <2>2, <1>6
<1>9. \A i \in 1 .. Len(history') - 1 :
          /\ i + d \in 1 .. Len(history)
          /\ history'[i] = history[i + d]
          /\ past'[i] = [past[i + d] EXCEPT !.behind = @ \cup moved]
  <2> TAKE i \in 1 .. Len(history') - 1
  <2>1. i + d \in 1 .. Len(history)
    BY <1>1, <1>6, <1>7
  <2> QED
    BY <2>1, <1>4, <1>7, <1>8
<1> QED
  BY <1>4, <1>6, <1>7, <1>8, <1>9 DEF h, p, d

\* An instruction that changes RAM only where its snapshot records it, or a DMA
\* writes, keeps the history sound.
LEMMA CommitRestores ==
    ASSUME MachineTypeOK, HistoryRestores,
           NEW cells \in SUBSET Ram, NEW moved \in SUBSET Ram,
           Commit(cells, moved),
           \A a \in Ram \ (cells \cup moved) : ram'[a] = ram[a]
    PROVE  HistoryRestores'
<1> DEFINE d == Dropped(history)
           n == Len(history')
<1>1. /\ history \in Seq(Snapshots) /\ Len(history) \in Nat
      /\ past \in Seq(States) /\ Len(past) = Len(history)
      /\ ram \in [Ram -> Words]
  BY DEF MachineTypeOK
<1>2. /\ n \in Nat /\ n >= 1 /\ d \in {0, 1} /\ n = Len(history) + 1 - d
      /\ Len(past') = n
      /\ history'[n] = [pc |-> pc, reg |-> reg, deltas |-> Deltas(cells)]
      /\ past'[n] = [pc |-> pc, reg |-> reg, ram |-> ram, behind |-> moved]
  BY CommitFacts, BoundsAssumption
<1>3. \A i \in 1 .. n - 1 :
          /\ i + d \in 1 .. Len(history)
          /\ history'[i] = history[i + d]
          /\ past'[i].pc = past[i + d].pc
          /\ past'[i].reg = past[i + d].reg
          /\ past'[i].ram = past[i + d].ram
          /\ past'[i].behind = past[i + d].behind \cup moved
  <2> TAKE i \in 1 .. n - 1
  <2>1. /\ i + d \in 1 .. Len(history)
        /\ history'[i] = history[i + d]
        /\ past'[i] = [past[i + d] EXCEPT !.behind = @ \cup moved]
    BY CommitFacts
  <2>2. past[i + d] \in States
    BY <1>1, <2>1
  <2> QED
    BY <2>1, <2>2 DEF States
<1> HIDE DEF d, n
<1>4. ASSUME NEW i \in 1 .. n, i = n
      PROVE  /\ history'[i].pc = past'[i].pc
             /\ history'[i].reg = past'[i].reg
             /\ \A a \in Ram \ past'[i].behind :
                    Undone(Above(i)', history'[i].deltas)[a] = past'[i].ram[a]
  <2>1. /\ history'[i].pc = pc /\ history'[i].reg = reg /\ history'[i].deltas = Deltas(cells)
        /\ past'[i].pc = pc /\ past'[i].reg = reg /\ past'[i].ram = ram
        /\ past'[i].behind = moved
    BY <1>2, <1>4
  <2>2. Above(i)' = ram'
    BY <1>2, <1>4 DEF Above
  <2>3. \A a \in Ram \ moved : Undone(ram', Deltas(cells))[a] = ram[a]
    BY <1>1, DeltasType DEF Undone
  <2> QED
    BY <2>1, <2>2, <2>3
<1>5. ASSUME NEW i \in 1 .. n, i # n
      PROVE  /\ history'[i].pc = past'[i].pc
             /\ history'[i].reg = past'[i].reg
             /\ \A a \in Ram \ past'[i].behind :
                    Undone(Above(i)', history'[i].deltas)[a] = past'[i].ram[a]
             /\ past'[i + 1].behind \subseteq past'[i].behind
  <2>1. i \in 1 .. n - 1 /\ i + d \in 1 .. Len(history)
    BY <1>2, <1>3, <1>5
  <2>2. Above(i)' = past'[i + 1].ram
    BY <1>2, <1>5 DEF Above
  <2>3. Above(i)' = Above(i + d) /\ past'[i + 1].behind \subseteq past'[i].behind
    <3>1. CASE i + 1 = n
      <4>1. past'[i + 1].ram = ram /\ past'[i + 1].behind = moved
        BY <1>2, <3>1
      <4>2. i + d = Len(past)
        BY <1>1, <1>2, <3>1
      <4> QED
        BY <4>1, <4>2, <1>3, <2>1, <2>2 DEF Above
    <3>2. CASE i + 1 # n
      <4>1. i + 1 \in 1 .. n - 1 /\ (i + 1) + d = (i + d) + 1
        BY <1>2, <2>1, <3>2
      <4>2. /\ past'[i + 1].ram = past[(i + d) + 1].ram
            /\ past'[i + 1].behind = past[(i + d) + 1].behind \cup moved
        BY <1>3, <4>1
      <4>3. i + d < Len(history) /\ i + d # Len(past)
        BY <1>1, <1>2, <4>1
      <4>4. past[(i + d) + 1].behind \subseteq past[i + d].behind
        BY <2>1, <4>3 DEF HistoryRestores
      <4> QED
        BY <4>2, <4>3, <4>4, <1>3, <2>1, <2>2 DEF Above
    <3> QED
      BY <3>1, <3>2
  <2>4. /\ history[i + d].pc = past[i + d].pc
        /\ history[i + d].reg = past[i + d].reg
        /\ \A a \in Ram \ past[i + d].behind :
               Undone(Above(i + d), history[i + d].deltas)[a] = past[i + d].ram[a]
    BY <2>1 DEF HistoryRestores
  <2> QED
    BY <1>3, <2>1, <2>3, <2>4
<1>6. \A i \in 1 .. n :
          /\ history'[i].pc = past'[i].pc
          /\ history'[i].reg = past'[i].reg
          /\ \A a \in Ram \ past'[i].behind :
                 Undone(Above(i)', history'[i].deltas)[a] = past'[i].ram[a]
          /\ i < n => past'[i + 1].behind \subseteq past'[i].behind
  <2> TAKE i \in 1 .. n
  <2>1. CASE i = n
    BY <1>2, <1>4, <2>1
  <2>2. CASE i # n
    BY <1>5, <2>2
  <2> QED
    BY <2>1, <2>2
<1> QED
  BY <1>6 DEF HistoryRestores, n, Above, Undone

-----------------------------------------------------------------------------
(* Steps *)

\* A store changes RAM only where it is recorded or a DMA writes.
LEMMA StoreWordFacts ==
    ASSUME MachineTypeOK, StoreWord
    PROVE  \E cells, moved \in SUBSET Ram :
              /\ Commit(cells, moved)
              /\ ram' \in [Ram -> Words]
              /\ \A a \in Ram \ (cells \cup moved) : ram'[a] = ram[a]
<1> DEFINE range == Instruction.lo .. Instruction.hi
           cells == range \cap Ram
           moved == IF attached /\ DeviceRegister \in range THEN DmaCells ELSE {}
<1>1. cells \in SUBSET Ram /\ moved \in SUBSET Ram
  BY DmaAssumption
<1>2. PICK stored \in [cells -> StoredWords], read \in [moved -> DmaWords] :
          /\ ram' = [a \in Ram |-> IF a \in moved THEN read[a]
                                   ELSE IF a \in cells THEN stored[a] ELSE ram[a]]
          /\ Commit(cells, moved)
  BY DEF StoreWord
<1> HIDE DEF cells, moved
<1>3. ram' \in [Ram -> Words]
  BY <1>1, <1>2, WordsAssumption DEF MachineTypeOK
<1>4. \A a \in Ram \ (cells \cup moved) : ram'[a] = ram[a]
  BY <1>2
<1> QED
  BY <1>1, <1>2, <1>3, <1>4

\* Every instruction that completes commits one snapshot.
LEMMA ExecutesCommits ==
    ASSUME MachineTypeOK, Executes
    PROVE  \E cells, moved \in SUBSET Ram :
              /\ Commit(cells, moved)
              /\ ram' \in [Ram -> Words]
              /\ \A a \in Ram \ (cells \cup moved) : ram'[a] = ram[a]
<1>1. CASE StoreWord
  BY <1>1, StoreWordFacts
<1>2. CASE ~StoreWord
  <2>1. Commit({}, {}) /\ ram' = ram
    BY <1>2 DEF Executes, Compute, Jump, LoadWord, Halt
  <2> QED
    BY <2>1 DEF MachineTypeOK
<1> QED
  BY <1>1, <1>2

\* The instruction that is fetched, and the place after it.
LEMMA InstructionFacts ==
    ASSUME MachineTypeOK
    PROVE  /\ ram[pc] \in Words
           /\ Instruction \in Instructions
           /\ Instruction.to \in Ram
           /\ Following \in Ram
           /\ Needed(Instruction) = TtyReads(Instruction)
           /\ TtyReads(Instruction) \in Nat
<1>1. ram[pc] \in Words
  BY DEF MachineTypeOK
<1>2. Following \in Ram
  BY LayoutAssumption DEF MachineTypeOK, Following, Ram
<1> QED
  BY <1>1, <1>2, DecodeFacts, NeededIsExact DEF Instruction

\* prepareInstruction lets no read of the TTY through that would be rejected.
LEMMA OnlyFaultsThrow ==
    ASSUME MachineTypeOK, Throws
    PROVE  input' = input
<1>1. Needed(Instruction) <= input /\ Needed(Instruction) = TtyReads(Instruction)
  BY InstructionFacts DEF Throws, Prepared
<1>2. TtyReads(Instruction) \in Nat /\ input \in Nat
  BY InstructionFacts DEF MachineTypeOK
<1>3. Instruction.kind = "fault"
  BY <1>1, <1>2 DEF Throws, Rejected
<1>4. TtyReads(Instruction) = 0
  BY <1>3 DEF TtyReads
<1> QED
  BY <1>2, <1>4 DEF Throws, Least

\* The last snapshot is removed and what it holds becomes the state.
LEMMA StepBackwardFacts ==
    ASSUME MachineTypeOK, StepBackward
    PROVE  LET n == Len(history) IN
           /\ n \in Nat /\ n >= 1 /\ Len(past) = n
           /\ history' \in Seq(Snapshots) /\ Len(history') = n - 1
           /\ past' \in Seq(States) /\ Len(past') = n - 1
           /\ \A i \in 1 .. n - 1 : history'[i] = history[i] /\ past'[i] = past[i]
           /\ pc' = history[n].pc /\ pc' \in Ram
           /\ reg' = history[n].reg /\ reg' \in Regs
           /\ ram' = Undone(ram, history[n].deltas) /\ ram' \in [Ram -> Words]
<1> DEFINE n == Len(history)
<1>1. /\ history \in Seq(Snapshots) /\ past \in Seq(States) /\ Len(past) = n
      /\ n \in Nat /\ n >= 1 /\ ram \in [Ram -> Words]
  BY DEF MachineTypeOK, StepBackward
<1>2. history[n] \in Snapshots
  BY <1>1
<1>3. Undone(ram, history[n].deltas) \in [Ram -> Words]
  <2>1. PICK cells \in SUBSET Ram : history[n].deltas \in [cells -> Words]
    BY <1>2 DEF Snapshots
  <2> QED
    BY <1>1, <2>1 DEF Undone
<1>4. history' = SubSeq(history, 1, n - 1) /\ past' = SubSeq(past, 1, n - 1)
  BY <1>1 DEF StepBackward
<1> HIDE DEF n
<1>5. /\ history' \in Seq(Snapshots) /\ Len(history') = n - 1
      /\ \A i \in 1 .. n - 1 : history'[i] = history[i]
  BY <1>1, <1>4 DEF n
<1>6. /\ past' \in Seq(States) /\ Len(past') = n - 1
      /\ \A i \in 1 .. n - 1 : past'[i] = past[i]
  BY <1>1, <1>4
<1> QED
  BY <1>1, <1>2, <1>3, <1>5, <1>6 DEF StepBackward, Snapshots, n

-----------------------------------------------------------------------------
(* Types *)

LEMMA InitType == MachineInit => MachineTypeOK
BY WordsAssumption, BoundsAssumption, LayoutAssumption DEF MachineInit, MachineTypeOK, Ram

\* Loading, or a new machine, starts with an empty history.
LEMMA ResetType ==
    ASSUME ResetCpuState
    PROVE  /\ waiting' \in BOOLEAN
           /\ reg' \in Regs
           /\ history' = <<>> /\ history' \in Seq(Snapshots) /\ Len(history') = 0
           /\ past' = <<>> /\ past' \in Seq(States) /\ Len(past') = 0
<1>1. \A S : <<>> \in Seq(S) /\ Len(<<>>) = 0
  BY EmptySeq
<1> QED
  BY <1>1, WordsAssumption DEF ResetCpuState

LEMMA StepType ==
    ASSUME MachineTypeOK, [MachineNext]_machineVars
    PROVE  MachineTypeOK'
<1>1. CASE WaitForInput
  BY <1>1 DEF WaitForInput, NoSnapshot, MachineTypeOK
<1>2. CASE Executes
  <2>1. /\ history' \in Seq(Snapshots) /\ Len(history') <= MaxHistory
        /\ past' \in Seq(States) /\ Len(past') = Len(history')
        /\ ram' \in [Ram -> Words]
    <3>1. PICK cells \in SUBSET Ram, moved \in SUBSET Ram :
              Commit(cells, moved) /\ ram' \in [Ram -> Words]
      BY <1>2, ExecutesCommits
    <3>2. Len(history') \in 1 .. MaxHistory
      BY <3>1, CommitFacts
    <3>3. history' \in Seq(Snapshots) /\ past' \in Seq(States) /\ Len(past') = Len(history')
      BY <3>1, CommitFacts
    <3> QED
      BY <3>1, <3>2, <3>3, BoundsAssumption
  <2>2. pc' \in Ram
    BY <1>2, InstructionFacts
       DEF Executes, Compute, Jump, LoadWord, StoreWord, Halt, MachineTypeOK
  <2>3. reg' \in Regs
    BY <1>2 DEF Executes, Compute, Jump, LoadWord, StoreWord, Halt, MachineTypeOK
  <2>4. input' \in Nat
    <3>1. CASE LoadWord
      <4>1. TtyReads(Instruction) \in Nat /\ input \in Nat
        BY InstructionFacts DEF MachineTypeOK
      <4>2. TtyReads(Instruction) <= input
        BY <3>1, <4>1 DEF LoadWord, Rejected
      <4> QED
        BY <3>1, <4>1, <4>2 DEF LoadWord
    <3>2. CASE ~LoadWord
      BY <1>2, <3>2 DEF Executes, Compute, Jump, StoreWord, Halt, MachineTypeOK
    <3> QED
      BY <3>1, <3>2
  <2>5. waiting' \in BOOLEAN /\ shutdown' \in BOOLEAN /\ attached' \in BOOLEAN
    BY <1>2 DEF Executes, Compute, Jump, LoadWord, StoreWord, Halt, Prepared, MachineTypeOK
  <2> QED
    BY <2>1, <2>2, <2>3, <2>4, <2>5 DEF MachineTypeOK
<1>3. CASE Throws
  BY <1>3, OnlyFaultsThrow DEF Throws, Prepared, NoSnapshot, MachineTypeOK
<1>4. CASE StepBackward
  <2>1. /\ Len(history) \in Nat /\ Len(history) <= MaxHistory
        /\ history' \in Seq(Snapshots) /\ Len(history') = Len(history) - 1
        /\ past' \in Seq(States) /\ Len(past') = Len(history) - 1
        /\ pc' \in Ram /\ reg' \in Regs /\ ram' \in [Ram -> Words]
    BY <1>4, StepBackwardFacts DEF MachineTypeOK
  <2>2. UNCHANGED <<waiting, input, shutdown, attached>>
    BY <1>4 DEF StepBackward
  <2> QED
    BY <2>1, <2>2, BoundsAssumption DEF MachineTypeOK
<1>5. CASE Push
  BY <1>5 DEF Push, MachineTypeOK
<1>6. CASE Construct
  <2>1. ram' \in [Ram -> Words] /\ pc' \in Ram
    BY <1>6, WordsAssumption, LayoutAssumption DEF Construct, Ram
  <2> QED
    BY <1>6, <2>1, ResetType, BoundsAssumption DEF Construct, MachineTypeOK
<1>7. ASSUME NEW image \in Images, Load(image)
      PROVE  MachineTypeOK'
  <2>1. ram' \in [Ram -> Words]
    BY <1>7, ImagesAssumption DEF Load, Loaded, MachineTypeOK
  <2>2. pc' \in Ram
    <3>1. ResetVector \in Ram
      BY LayoutAssumption DEF ResetVector, Ram
    <3>2. ram'[ResetVector] \in Words
      BY <2>1, <3>1
    <3> QED
      BY <1>7, <3>2, DecodeFacts DEF Load
  <2> QED
    BY <1>7, <2>1, <2>2, ResetType, BoundsAssumption DEF Load, MachineTypeOK
<1>8. ASSUME NEW image \in Images, LoadFails(image)
      PROVE  MachineTypeOK'
  <2>1. ram' \in [Ram -> Words] /\ pc' \in Ram
    BY <1>8, ImagesAssumption, LayoutAssumption DEF LoadFails, MachineTypeOK, Ram
  <2> QED
    BY <1>8, <2>1, ResetType, BoundsAssumption DEF LoadFails, MachineTypeOK
<1>11. ASSUME NEW image \in Images, ConstructAndLoad(image)
       PROVE  MachineTypeOK'
  <2>1. ram' \in [Ram -> Words]
    BY <1>11, ImagesAssumption, WordsAssumption DEF ConstructAndLoad, Loaded
  <2>2. pc' \in Ram
    <3>1. ResetVector \in Ram
      BY LayoutAssumption DEF ResetVector, Ram
    <3>2. ram'[ResetVector] \in Words
      BY <2>1, <3>1
    <3> QED
      BY <1>11, <3>2, DecodeFacts DEF ConstructAndLoad
  <2> QED
    BY <1>11, <2>1, <2>2, ResetType, BoundsAssumption DEF ConstructAndLoad, MachineTypeOK
<1>9. CASE ConstructThrows
  BY <1>9 DEF ConstructThrows, MachineTypeOK
<1>10. CASE UNCHANGED machineVars
  BY <1>10 DEF machineVars, MachineTypeOK
<1> QED
  BY <1>1, <1>2, <1>3, <1>4, <1>5, <1>6, <1>7, <1>8, <1>9, <1>10, <1>11 DEF MachineNext, Step

\* Every variable of the machine keeps its type, and the history never holds more
\* than MaxHistory snapshots (commitStateCapture).
THEOREM MachineTypeCorrect == MachineSpec => []MachineTypeOK
BY InitType, StepType, PTL DEF MachineSpec

-----------------------------------------------------------------------------
(* Stepping back *)

LEMMA InitRestores == MachineInit => HistoryRestores
BY DEF MachineInit, HistoryRestores

LEMMA StepRestores ==
    ASSUME MachineTypeOK, HistoryRestores, [MachineNext]_machineVars
    PROVE  HistoryRestores'
<1>1. CASE UNCHANGED <<ram, history, past>>
  BY <1>1 DEF HistoryRestores, Above, Undone
<1>2. CASE Executes
  <2>1. PICK cells \in SUBSET Ram, moved \in SUBSET Ram :
            /\ Commit(cells, moved)
            /\ \A a \in Ram \ (cells \cup moved) : ram'[a] = ram[a]
    BY <1>2, ExecutesCommits
  <2> QED
    BY <2>1, CommitRestores
<1>3. CASE StepBackward
  <2> DEFINE n == Len(history)
  <2>1. /\ n \in Nat /\ n >= 1 /\ Len(past) = n
        /\ Len(history') = n - 1 /\ Len(past') = n - 1
        /\ \A i \in 1 .. n - 1 : history'[i] = history[i] /\ past'[i] = past[i]
        /\ ram' = Undone(ram, history[n].deltas)
        /\ ram \in [Ram -> Words]
    BY <1>3, StepBackwardFacts DEF MachineTypeOK
  <2> HIDE DEF n
  <2>2. \A i \in 1 .. n - 1 :
            /\ history'[i].pc = past'[i].pc
            /\ history'[i].reg = past'[i].reg
            /\ \A a \in Ram \ past'[i].behind :
                   Undone(Above(i)', history'[i].deltas)[a] = past'[i].ram[a]
            /\ i < n - 1 => past'[i + 1].behind \subseteq past'[i].behind
    <3> TAKE i \in 1 .. n - 1
    <3>1. /\ i \in 1 .. n /\ i < n /\ i # Len(past)
          /\ i < n - 1 => i + 1 \in 1 .. n - 1
      BY <2>1
    <3>2. /\ history[i].pc = past[i].pc /\ history[i].reg = past[i].reg
          /\ \A a \in Ram \ past[i].behind :
                 Undone(past[i + 1].ram, history[i].deltas)[a] = past[i].ram[a]
          /\ past[i + 1].behind \subseteq past[i].behind
      BY <3>1 DEF HistoryRestores, Above, n
    <3>3. CASE i < n - 1
      <4>1. Above(i)' = past[i + 1].ram
        BY <2>1, <3>1, <3>3 DEF Above
      <4> QED
        BY <2>1, <3>1, <3>2, <3>3, <4>1
    <3>4. CASE i = n - 1
      <4>1. Above(i)' = ram' /\ i + 1 = n
        BY <2>1, <3>4 DEF Above
      <4>2. n \in 1 .. Len(history) /\ Above(n) = ram
        BY <2>1 DEF Above, n
      <4>3. \A a \in Ram \ past[n].behind : ram'[a] = past[n].ram[a]
        BY <2>1, <4>2 DEF HistoryRestores
      <4>4. \A a \in Ram \ past[i].behind : ram'[a] = past[n].ram[a]
        BY <3>2, <4>1, <4>3
      <4>5. \A a \in Ram : Undone(ram', history[i].deltas)[a]
                              = IF a \in DOMAIN history[i].deltas
                                THEN history[i].deltas[a] ELSE ram'[a]
        BY DEF Undone
      <4>6. \A a \in Ram : Undone(past[n].ram, history[i].deltas)[a]
                              = IF a \in DOMAIN history[i].deltas
                                THEN history[i].deltas[a] ELSE past[n].ram[a]
        BY DEF Undone
      <4>7. \A a \in Ram \ past[i].behind :
                Undone(ram', history[i].deltas)[a] = past[i].ram[a]
        BY <3>2, <4>1, <4>4, <4>5, <4>6
      <4> QED
        BY <2>1, <3>2, <3>4, <4>1, <4>7
    <3> QED
      BY <2>1, <3>3, <3>4
  <2> QED
    BY <2>1, <2>2 DEF HistoryRestores, Above, Undone
<1>4. CASE ResetCpuState
  BY <1>4, ResetType DEF HistoryRestores
<1> QED
  BY <1>1, <1>2, <1>3, <1>4
     DEF MachineNext, Step, WaitForInput, Throws, NoSnapshot, Push, Construct, ConstructThrows,
         ConstructAndLoad, Load, LoadFails, machineVars

\* Whatever programs, loads and devices do, every snapshot that is kept undoes its
\* instruction exactly, except where a DMA has written since.
THEOREM HistoryAlwaysRestores == MachineSpec => []HistoryRestores
<1>1. MachineInit => MachineTypeOK /\ HistoryRestores
  BY InitType, InitRestores
<1>2. MachineTypeOK /\ HistoryRestores /\ [MachineNext]_machineVars
        => (MachineTypeOK /\ HistoryRestores)'
  BY StepType, StepRestores
<1> QED
  BY <1>1, <1>2, PTL DEF MachineSpec

\* stepBackward returns to the state before the last instruction.
THEOREM SteppingBackRestores == MachineSpec => StepBackRestores
<1>1. ASSUME MachineTypeOK, HistoryRestores, StepBackward
      PROVE  LET before == past[Len(past)] IN
                 /\ pc' = before.pc
                 /\ reg' = before.reg
                 /\ \A a \in Ram \ before.behind : ram'[a] = before.ram[a]
  <2> DEFINE n == Len(history)
  <2>1. /\ n \in 1 .. Len(history) /\ Len(past) = n
        /\ pc' = history[n].pc /\ reg' = history[n].reg
        /\ ram' = Undone(ram, history[n].deltas)
    BY <1>1, StepBackwardFacts
  <2> HIDE DEF n
  <2>2. Above(n) = ram
    BY <2>1 DEF Above
  <2>3. /\ history[n].pc = past[n].pc /\ history[n].reg = past[n].reg
        /\ \A a \in Ram \ past[n].behind :
               Undone(ram, history[n].deltas)[a] = past[n].ram[a]
    BY <1>1, <2>1, <2>2 DEF HistoryRestores
  <2> QED
    BY <2>1, <2>3
<1>2. MachineTypeOK /\ HistoryRestores =>
        (StepBackward =>
           LET before == past[Len(past)] IN
               /\ pc' = before.pc
               /\ reg' = before.reg
               /\ \A a \in Ram \ before.behind : ram'[a] = before.ram[a])
  BY <1>1
<1> QED
  BY <1>2, MachineTypeCorrect, HistoryAlwaysRestores, PTL DEF StepBackRestores

\* Input is only taken by instructions that complete, byte for byte.
THEOREM InputIsNotLost == MachineSpec => NoInputLost
<1>1. ASSUME MachineTypeOK, [MachineNext]_machineVars, input' < input
      PROVE  /\ history' # <<>> /\ history'[Len(history')].pc = pc
             /\ input - input' = TtyReads(Instruction)
  <2>1. input \in Nat /\ TtyReads(Instruction) \in Nat
    BY <1>1, InstructionFacts DEF MachineTypeOK
  <2>2. LoadWord
    BY <1>1, <2>1, OnlyFaultsThrow
       DEF MachineNext, Step, WaitForInput, Executes, Compute, Jump, StoreWord, Halt,
           StepBackward, Push, Construct, ConstructThrows, ConstructAndLoad, Load, LoadFails, machineVars
  <2>3. input' = input - TtyReads(Instruction)
    BY <2>2 DEF LoadWord
  <2>4. Commit({}, {})
    BY <2>2 DEF LoadWord
  <2>5. /\ history' \in Seq(Snapshots) /\ Len(history') \in 1 .. MaxHistory
        /\ history'[Len(history')] = [pc |-> pc, reg |-> reg, deltas |-> Deltas({})]
    BY <1>1, <2>4, CommitFacts
  <2>6. history' # <<>>
    BY <2>5, EmptySeq
  <2> QED
    BY <2>1, <2>3, <2>5, <2>6
<1>2. MachineTypeOK /\ [MachineNext]_machineVars =>
        (input' < input =>
           /\ history' # <<>> /\ history'[Len(history')].pc = pc
           /\ input - input' = TtyReads(Instruction))
  BY <1>1
<1> QED
  BY <1>2, MachineTypeCorrect, PTL DEF NoInputLost, MachineSpec

=============================================================================
