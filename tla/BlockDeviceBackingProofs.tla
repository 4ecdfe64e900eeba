---------------------- MODULE BlockDeviceBackingProofs ----------------------
(***************************************************************************)
(* What holds of the backing file for any set of blocks, any contents and  *)
(* any number of records: its types, the soundness of the index on disk    *)
(* whatever the host's file operations do, and, when they succeed, that    *)
(* the file, its index and the index in memory implement the abstract map  *)
(* of BlockMap, with crashes anywhere.                                     *)
(***************************************************************************)
EXTENDS BlockDeviceBacking, FiniteSetTheorems, TLAPS

-----------------------------------------------------------------------------
(* Operators *)

\* No record lies beyond the end of its file.
Fits(file) == \A o \in DOMAIN file.recs : o <= file.end

WellFormed(file) == Fits(file) /\ IndexSound(file)

\* Storing one more pair keeps a partial function a partial function.
LEMMA PutType ==
    ASSUME NEW S, NEW T, NEW f \in Partial(S, T), NEW k \in S, NEW v \in T
    PROVE  Put(f, k, v) \in Partial(S, T)
<1>1. PICK D \in SUBSET S : f \in [D -> T]
  BY DEF Partial
<1>2. Put(f, k, v) \in [D \cup {k} -> T]
  BY <1>1 DEF Put
<1>3. D \cup {k} \in SUBSET S
  BY <1>1
<1> QED
  BY <1>2, <1>3 DEF Partial

LEMMA PartialFacts ==
    ASSUME NEW S, NEW T, NEW f \in Partial(S, T)
    PROVE  /\ DOMAIN f \subseteq S
           /\ f \in [DOMAIN f -> T]
BY DEF Partial

LEMMA PartialIntro ==
    ASSUME NEW S, NEW T, NEW D \in SUBSET S, NEW f \in [D -> T]
    PROVE  f \in Partial(S, T)
BY DEF Partial

\* Compaction gives every entry a place of its own, none beyond the number of
\* entries (rewrite_index_section appends the records in index order).
LEMMA LayoutFacts ==
    ASSUME NEW index \in Partial(BlockIds, Places)
    PROVE  /\ Cardinality(DOMAIN index) \in 0..MaxEnd
           /\ Layout(index) \in [DOMAIN index -> 1 .. Cardinality(DOMAIN index)]
           /\ \A b, c \in DOMAIN index :
                 Layout(index)[b] = Layout(index)[c] => b = c
<1> DEFINE D == DOMAIN index
           Upto(b) == {c \in D : c <= b}
<1>1. D \subseteq BlockIds /\ D \subseteq Int
  BY PartialFacts, BlockIdsAreFinite
<1>2. IsFiniteSet(D) /\ Cardinality(D) \in Nat /\ Cardinality(D) <= MaxEnd
  <2>1. IsFiniteSet(D) /\ Cardinality(D) <= Cardinality(BlockIds)
    BY <1>1, BlockIdsAreFinite, FS_Subset
  <2>2. Cardinality(D) \in Nat /\ Cardinality(BlockIds) \in Nat
    BY <2>1, BlockIdsAreFinite, FS_CardinalityType
  <2> QED
    BY <2>1, <2>2, RoomToCompact
<1>3. \A b \in D : /\ IsFiniteSet(Upto(b))
                   /\ Cardinality(Upto(b)) \in 1 .. Cardinality(D)
  <2> TAKE b \in D
  <2>1. Upto(b) \in SUBSET D /\ b \in Upto(b)
    BY <1>1
  <2>2. IsFiniteSet(Upto(b)) /\ Cardinality(Upto(b)) <= Cardinality(D)
    BY <2>1, <1>2, FS_Subset
  <2>3. Cardinality(Upto(b)) \in Nat /\ Cardinality(Upto(b)) # 0
    BY <2>1, <2>2, FS_CardinalityType, FS_EmptySet
  <2> QED
    BY <2>2, <2>3, <1>2
<1>4. \A b, c \in D : b < c => Cardinality(Upto(b)) # Cardinality(Upto(c))
  <2> TAKE b, c \in D
  <2> HAVE b < c
  <2>1. Upto(b) \in SUBSET Upto(c)
    BY <1>1
  <2>2. c \in Upto(c) /\ c \notin Upto(b)
    BY <1>1
  <2>3. IsFiniteSet(Upto(c))
    BY <1>3
  <2>4. Cardinality(Upto(c)) = Cardinality(Upto(b)) => Upto(c) = Upto(b)
    BY <2>1, <2>3, FS_Subset
  <2> QED
    BY <2>2, <2>4
<1>5. \A b \in D : Layout(index)[b] = Cardinality(Upto(b))
  BY DEF Layout
<1>6. Layout(index) \in [D -> 1 .. Cardinality(D)]
  BY <1>3 DEF Layout
<1>7. \A b, c \in D : Layout(index)[b] = Layout(index)[c] => b = c
  <2> SUFFICES ASSUME NEW b \in D, NEW c \in D, Layout(index)[b] = Layout(index)[c]
               PROVE  b = c
    OBVIOUS
  <2>1. Cardinality(Upto(b)) = Cardinality(Upto(c))
    BY <1>5
  <2>2. ~(b < c) /\ ~(c < b)
    BY <2>1, <1>4
  <2> QED
    BY <2>2, <1>1
<1> QED
  BY <1>2, <1>6, <1>7

\* A compacted image is well formed: its index names a whole record of each block.
LEMMA CompactedFacts ==
    ASSUME NEW index \in Partial(BlockIds, Places),
           NEW payload \in [DOMAIN index -> Payloads]
    PROVE  /\ Compacted(index, payload) \in Files
           /\ Compacted(index, payload).headed
           /\ IndexSound(Compacted(index, payload))
           /\ Fits(Compacted(index, payload))
           /\ {e.id : e \in Compacted(index, payload).index} = DOMAIN index
           /\ \A b \in DOMAIN index :
                 /\ Layout(index)[b] \in DOMAIN Compacted(index, payload).recs
                 /\ Compacted(index, payload).recs[Layout(index)[b]] = Record(b, payload[b])
                 /\ [id |-> b, at |-> Layout(index)[b]] \in Compacted(index, payload).index
           /\ \A e \in Compacted(index, payload).index :
                 e.id \in DOMAIN index /\ e.at = Layout(index)[e.id]
<1> DEFINE at == Layout(index)
           n == Cardinality(DOMAIN index)
           at2b(o) == CHOOSE c \in DOMAIN index : at[c] = o
           R == [o \in {at[b] : b \in DOMAIN index} |-> Record(at2b(o), payload[at2b(o)])]
           I == {[id |-> b, at |-> at[b]] : b \in DOMAIN index}
<1>1. /\ n \in 0..MaxEnd
      /\ at \in [DOMAIN index -> 1..n]
      /\ \A b, c \in DOMAIN index : at[b] = at[c] => b = c
  BY LayoutFacts
<1>2. DOMAIN index \subseteq BlockIds
  BY PartialFacts
<1>3. Compacted(index, payload) = File(TRUE, n, I, R, n)
  BY DEF Compacted
<1> HIDE DEF at, n
<1>4. \A b \in DOMAIN index : at2b(at[b]) = b
  BY <1>1
<1>5. \A b \in DOMAIN index : at[b] \in 1..MaxEnd /\ at[b] <= n
  BY <1>1, RoomToCompact
<1>6. R \in [{at[b] : b \in DOMAIN index} -> Records]
  <2>1. \A o \in {at[b] : b \in DOMAIN index} : at2b(o) \in DOMAIN index
    BY <1>4
  <2>2. \A b \in DOMAIN index : Record(b, payload[b]) \in Records
    BY <1>2 DEF Record, Records
  <2> QED
    BY <2>1, <2>2
<1>7. {at[b] : b \in DOMAIN index} \in SUBSET Positions
  BY <1>5 DEF Positions
<1>8. R \in Partial(Positions, Records)
  BY <1>6, <1>7, PartialIntro
<1>9. I \subseteq Entries
  BY <1>2, <1>5 DEF Entries, Positions
<1>10. Compacted(index, payload) \in Files
  BY <1>1, <1>3, <1>8, <1>9 DEF Files, File
<1>11. \A b \in DOMAIN index : R[at[b]] = Record(b, payload[b])
  BY <1>4
<1>12. IndexSound(Compacted(index, payload)) /\ Fits(Compacted(index, payload))
  <2> SUFFICES /\ \A e \in I : e.at \in DOMAIN R /\ R[e.at].id = e.id /\ R[e.at].whole
               /\ \A o \in DOMAIN R : o <= n
    BY <1>3 DEF IndexSound, Fits, File
  <2>1. ASSUME NEW e \in I
        PROVE  e.at \in DOMAIN R /\ R[e.at].id = e.id /\ R[e.at].whole
    <3>1. PICK b \in DOMAIN index : e = [id |-> b, at |-> at[b]]
      OBVIOUS
    <3>2. e.at = at[b] /\ e.id = b /\ at[b] \in DOMAIN R
      BY <3>1
    <3> QED
      BY <3>2, <1>11 DEF Record
  <2>2. \A o \in DOMAIN R : o <= n
    BY <1>5
  <2> QED
    BY <2>1, <2>2
<1>13. {e.id : e \in I} = DOMAIN index
  <2>1. \A e \in I : e.id \in DOMAIN index
    OBVIOUS
  <2>2. \A b \in DOMAIN index : [id |-> b, at |-> at[b]] \in I /\ [id |-> b, at |-> at[b]].id = b
    OBVIOUS
  <2> HIDE DEF I
  <2> QED
    BY <2>1, <2>2
<1>14. \A e \in I : e.id \in DOMAIN index /\ e.at = at[e.id]
  OBVIOUS
<1>15. \A b \in DOMAIN index : at[b] \in DOMAIN R /\ [id |-> b, at |-> at[b]] \in I
  BY DEF I
<1>16. /\ Compacted(index, payload).headed
       /\ Compacted(index, payload).index = I
       /\ Compacted(index, payload).recs = R
  BY <1>3 DEF File
<1>17. at = Layout(index)
  BY DEF at
<1> HIDE DEF I, R
<1> QED
  BY <1>10, <1>11, <1>12, <1>13, <1>14, <1>15, <1>16, <1>17

LEMMA FreshFiles ==
    /\ Blank \in Files /\ WellFormed(Blank) /\ ~Blank.headed
    /\ EmptyFile \in Files /\ WellFormed(EmptyFile) /\ EmptyFile.headed
<1>1. NoEntries \in [{} -> Records]
  BY DEF NoEntries
<1>2. NoEntries \in Partial(Positions, Records) /\ DOMAIN NoEntries = {}
  BY <1>1, PartialIntro
<1> QED
  BY <1>2, RoomToCompact DEF Blank, EmptyFile, File, Files, WellFormed, Fits, IndexSound

LEMMA OpenedFacts ==
    ASSUME NEW file \in Files \cup {NoFile}, file # NoFile => WellFormed(file)
    PROVE  Opened(file) \in Files /\ WellFormed(Opened(file))
BY FreshFiles DEF Opened

\* An append leaves the index, the header and every earlier record as they were.
LEMMA AppendedFacts ==
    ASSUME NEW file \in Files, WellFormed(file), NEW r \in Records, file.end < MaxEnd
    PROVE  /\ Appended(file, r) \in Files
           /\ WellFormed(Appended(file, r))
           /\ Appended(file, r).headed = file.headed
           /\ Appended(file, r).index = file.index
           /\ Appended(file, r).end = file.end + 1
           /\ DOMAIN Appended(file, r).recs = DOMAIN file.recs \cup {file.end + 1}
           /\ Appended(file, r).recs[file.end + 1] = r
           /\ \A o \in DOMAIN file.recs : Appended(file, r).recs[o] = file.recs[o]
<1> DEFINE new == Put(file.recs, file.end + 1, r)
<1>1. /\ file.headed \in BOOLEAN /\ file.index \subseteq Entries
      /\ file.recs \in Partial(Positions, Records)
      /\ file.end \in 0..MaxEnd /\ file.count \in 0..MaxEnd
  BY DEF Files
<1>2. file.end + 1 \in Positions
  BY <1>1, RoomToCompact DEF Positions
<1>3. /\ new \in Partial(Positions, Records)
      /\ DOMAIN new = DOMAIN file.recs \cup {file.end + 1}
      /\ new[file.end + 1] = r
      /\ \A x \in DOMAIN file.recs : x # file.end + 1 => new[x] = file.recs[x]
  <2>1. file.recs \in Partial(Positions, Records)
    BY <1>1
  <2>2. new \in Partial(Positions, Records)
    BY <1>2, <2>1, PutType
  <2> QED
    BY <2>2 DEF Put
<1>4. \A o \in DOMAIN file.recs : o \in Int /\ o <= file.end /\ o # file.end + 1
  <2>1. DOMAIN file.recs \subseteq Positions
    BY <1>1, PartialFacts
  <2>2. \A o \in DOMAIN file.recs : o <= file.end
    BY DEF WellFormed, Fits
  <2>3. file.end \in Int
    BY <1>1, RoomToCompact
  <2>4. \A o \in Positions : o \in Int
    BY RoomToCompact DEF Positions
  <2> QED
    BY <2>1, <2>2, <2>3, <2>4
<1> HIDE DEF new
<1>5. Appended(file, r) = [file EXCEPT !.recs = new, !.end = file.end + 1]
  BY DEF Appended, new
<1>6. /\ Appended(file, r).headed = file.headed
      /\ Appended(file, r).index = file.index
      /\ Appended(file, r).end = file.end + 1
      /\ Appended(file, r).recs = new
  BY <1>5 DEF Files
<1>7. Appended(file, r) \in Files
  <2>1. Appended(file, r) = [headed |-> file.headed, count |-> file.count,
                             index |-> file.index, recs |-> new, end |-> file.end + 1]
    BY <1>5 DEF Files
  <2>2. file.end + 1 \in 0..MaxEnd
    BY <1>1, <1>2 DEF Positions
  <2> QED
    BY <1>1, <1>3, <2>1, <2>2 DEF Files
<1>8. Fits(Appended(file, r))
  <2>1. \A o \in DOMAIN file.recs : o <= file.end + 1
    BY <1>1, <1>4
  <2> QED
    BY <1>1, <1>3, <1>6, <2>1 DEF Fits
<1>9. IndexSound(Appended(file, r))
  BY <1>3, <1>4, <1>6 DEF IndexSound, WellFormed
<1> QED
  BY <1>3, <1>4, <1>6, <1>7, <1>8, <1>9 DEF WellFormed

-----------------------------------------------------------------------------
(* Types and the index on disk *)

\* Inductive: the types, that a file is there while it is loaded, and that the
\* file, and its replacement once complete, are well formed.
DiskInv ==
    /\ TypeOK
    /\ phase \in {"create", "load"} => main # NoFile
    /\ phase = "create" => ~main.headed
    /\ phase = "rename" => main = NoFile
    /\ main # NoFile => WellFormed(main)
    /\ tmp # NoFile /\ phase \in {"remove", "rename"} => WellFormed(tmp)
    /\ CopyComplete

LEMMA DiskInvInit == StoreInit => DiskInv
<1> SUFFICES ASSUME StoreInit PROVE DiskInv
  OBVIOUS
<1>1. NoEntries \in Partial(BlockIds, Places)
  <2>1. NoEntries \in [{} -> Places]
    BY DEF NoEntries
  <2> QED
    BY <2>1, PartialIntro
<1>2. main # NoFile => main \in Files /\ WellFormed(main)
  BY ImagesAreSound DEF StoreInit, WellFormed, Fits
<1> QED
  BY <1>1, <1>2 DEF StoreInit, DiskInv, TypeOK, CopyComplete

LEMMA NoEntriesIsIndex == NoEntries \in Partial(BlockIds, Places)
<1>1. NoEntries \in [{} -> Places]
  BY DEF NoEntries
<1> QED
  BY <1>1, PartialIntro

\* PersistBlock, PersistBlockLost, PersistThrows and CrashInAppend all leave such a file.
LEMMA AppendKeepsDiskInv ==
    ASSUME DiskInv, phase = "idle", NEW b \in BlockIds, NEW r \in Records,
           Opened(main).end < MaxEnd
    PROVE  /\ Opened(main) \in Files /\ WellFormed(Opened(main))
           /\ Appended(Opened(main), r) \in Files /\ WellFormed(Appended(Opened(main), r))
           /\ Put(blockIndex, b, [headed |-> Opened(main).headed, at |-> Opened(main).end + 1])
                 \in Partial(BlockIds, Places)
<1>1. Opened(main) \in Files /\ WellFormed(Opened(main))
  BY OpenedFacts DEF DiskInv, TypeOK
<1>2. [headed |-> Opened(main).headed, at |-> Opened(main).end + 1] \in Places
  BY <1>1, RoomToCompact DEF Files, Places, Positions
<1> QED
  BY <1>1, <1>2, AppendedFacts, PutType DEF DiskInv, TypeOK

LEMMA DiskInvStep == DiskInv /\ [StoreNext]_storeVars => DiskInv'
<1> SUFFICES ASSUME DiskInv, [StoreNext]_storeVars PROVE DiskInv'
  OBVIOUS
<1> USE DEF DiskInv, TypeOK
<1>1. CASE EnsureBackingFileExists
  BY <1>1, FreshFiles, NoEntriesIsIndex, NoFileIsNoFile
     DEF EnsureBackingFileExists, CopyComplete
<1>2. CASE CreateEmptyBackingFile
  BY <1>2, FreshFiles, NoFileIsNoFile DEF CreateEmptyBackingFile, CopyComplete
<1>3. CASE LoadIndex
  <2>1. blockIndex' \in Partial(BlockIds, Places)
    <3>1. main \in Files
      BY <1>3 DEF LoadIndex
    <3>2. {e.id : e \in main.index} \in SUBSET BlockIds
      BY <3>1 DEF Files, Entries
    <3>3. {[headed |-> TRUE, at |-> e.at] : e \in main.index} \subseteq Places
      <4>1. \A e \in main.index : e.at \in Positions
        BY <3>1 DEF Files, Entries
      <4>2. \A e \in main.index : [headed |-> TRUE, at |-> e.at] \in Places
        BY <4>1 DEF Places
      <4> QED
        BY <4>2
    <3>4. blockIndex' \in [{e.id : e \in main.index} -> Places]
      BY <1>3, <3>3 DEF LoadIndex
    <3> QED
      BY <3>2, <3>4, PartialIntro
  <2>2. phase' \in {"copy", "idle"} /\ loading' \in BOOLEAN /\ main' = main
    BY <1>3 DEF LoadIndex
  <2>3. tmp' \in Files \cup {NoFile}
    BY <1>3, FreshFiles DEF LoadIndex
  <2> QED
    BY <2>1, <2>2, <2>3 DEF CopyComplete
<1>4. CASE LoadFails
  BY <1>4 DEF LoadFails, CopyComplete
<1>5. CASE CopyLiveRecords
  <2>1. PICK payload \in [DOMAIN blockIndex -> Payloads] :
           tmp' = Compacted(blockIndex, payload)
    BY <1>5 DEF CopyLiveRecords
  <2>2. /\ tmp' \in Files /\ WellFormed(tmp') /\ tmp'.headed
        /\ {e.id : e \in tmp'.index} = DOMAIN blockIndex
    BY <2>1, CompactedFacts DEF WellFormed
  <2>3. /\ phase' = "remove" /\ main' = main /\ blockIndex' = blockIndex
        /\ loading' = loading
    BY <1>5 DEF CopyLiveRecords
  <2> QED
    BY <2>2, <2>3, NoFileIsNoFile DEF CopyComplete, WellFormed
<1>6. CASE CopyThrows
  BY <1>6 DEF CopyThrows, Unwind, CopyComplete
<1>7. CASE RemoveOld
  BY <1>7 DEF RemoveOld, CopyComplete
<1>8. CASE RemoveThrows
  BY <1>8 DEF RemoveThrows, Unwind, CopyComplete
<1>9. CASE RenameTmp
  <2>1. main' = tmp /\ tmp' = NoFile /\ phase' = "idle" /\ loading' = FALSE
    BY <1>9 DEF RenameTmp
  <2>2. blockIndex' \in Partial(BlockIds, Places)
    <3> DEFINE n == Cardinality(DOMAIN blockIndex)
    <3>1. n \in 0..MaxEnd /\ Layout(blockIndex) \in [DOMAIN blockIndex -> 1..n]
      BY LayoutFacts
    <3>2. \A b \in DOMAIN blockIndex :
             [headed |-> TRUE, at |-> Layout(blockIndex)[b]] \in Places
      BY <3>1, RoomToCompact DEF Places, Positions
    <3>3. blockIndex' \in [DOMAIN blockIndex -> Places]
      BY <1>9, <3>2 DEF RenameTmp
    <3>4. DOMAIN blockIndex \in SUBSET BlockIds
      BY PartialFacts
    <3> QED
      BY <3>3, <3>4, PartialIntro
  <2>3. phase = "rename"
    BY <1>9 DEF RenameTmp
  <2> QED
    BY <2>1, <2>2, <2>3 DEF CopyComplete
<1>10. CASE RenameThrows
  BY <1>10 DEF RenameThrows, Unwind, CopyComplete
<1>11. ASSUME NEW b \in BlockIds, NEW d \in Data, PersistBlock(b, d) PROVE DiskInv'
  <2>1. Record(b, d) \in Records
    BY DEF Record, Records, Payloads
  <2>2. /\ main' \in Files /\ WellFormed(main')
        /\ blockIndex' \in Partial(BlockIds, Places)
    BY <1>11, <2>1, AppendKeepsDiskInv DEF PersistBlock
  <2> QED
    BY <1>11, <2>2 DEF PersistBlock, CopyComplete
<1>12. ASSUME NEW b \in BlockIds, PersistBlockLost(b) PROVE DiskInv'
  <2>1. Torn(b) \in Records
    BY DEF Torn, Records, Payloads
  <2>2. /\ main' \in Files /\ WellFormed(main')
        /\ blockIndex' \in Partial(BlockIds, Places)
    BY <1>12, <2>1, AppendKeepsDiskInv DEF PersistBlockLost
  <2> QED
    BY <1>12, <2>2 DEF PersistBlockLost, CopyComplete
<1>13. CASE BeginRewrite
  BY <1>13, FreshFiles DEF BeginRewrite, CopyComplete
<1>14. CASE Crash
  BY <1>14, NoEntriesIsIndex DEF Crash, CopyComplete
<1>15. ASSUME NEW b \in BlockIds, CrashInAppend(b) PROVE DiskInv'
  <2>1. Torn(b) \in Records
    BY DEF Torn, Records, Payloads
  <2>2. main' \in Files /\ WellFormed(main')
    BY <1>15, <2>1, AppendKeepsDiskInv DEF CrashInAppend
  <2> QED
    BY <1>15, <2>2, NoEntriesIsIndex DEF CrashInAppend, CopyComplete
<1>16. CASE UNCHANGED storeVars
  BY <1>16 DEF storeVars, CopyComplete
<1>17. ASSUME NEW b \in BlockIds, PersistThrows(b) PROVE DiskInv'
  <2>1. /\ phase = "idle" /\ phase' = "idle"
        /\ tmp' = tmp /\ blockIndex' = blockIndex /\ loading' = loading
    BY <1>17 DEF PersistThrows
  <2>2. main' \in Files \cup {NoFile} /\ (main' # NoFile => WellFormed(main'))
    <3>1. Torn(b) \in Records
      BY DEF Torn, Records, Payloads
    <3>2. CASE main' \in {main, Opened(main)}
      BY <3>2, OpenedFacts
    <3>3. CASE Opened(main).end < MaxEnd /\ main' = Appended(Opened(main), Torn(b))
      BY <2>1, <3>1, <3>3, AppendKeepsDiskInv
    <3> QED
      BY <1>17, <3>2, <3>3 DEF PersistThrows
  <2> QED
    BY <2>1, <2>2 DEF CopyComplete
<1> QED
  BY <1>1, <1>2, <1>3, <1>4, <1>5, <1>6, <1>7, <1>8, <1>9, <1>10, <1>11, <1>12,
     <1>13, <1>14, <1>15, <1>16, <1>17 DEF StoreNext, Progress

\* Every variable keeps its type, whatever the host's file operations do.
THEOREM TypeCorrect == StoreSpec => []TypeOK
<1>1. DiskInv => TypeOK
  BY DEF DiskInv
<1> QED
  BY DiskInvInit, DiskInvStep, <1>1, PTL DEF StoreSpec

\* A restart never reads a block from another block's record, and no file is
\* removed before its replacement is complete: also when appends are cut short,
\* compactions fail and the process ends anywhere.
THEOREM DiskIndexIsSound == StoreSpec => [](DiskIndexSound /\ CopyComplete)
<1>1. DiskInv => DiskIndexSound /\ CopyComplete
  BY DEF DiskInv, DiskIndexSound, WellFormed
<1> QED
  BY DiskInvInit, DiskInvStep, <1>1, PTL DEF StoreSpec

-----------------------------------------------------------------------------
(* What a restart finds *)

LEMMA AppendKeepsRestorable ==
    ASSUME NEW file \in Files, WellFormed(file), file.headed, NEW r \in Records,
           file.end < MaxEnd
    PROVE  /\ Appended(file, r) \in Files /\ Appended(file, r).headed
           /\ Restorable(Appended(file, r)) = Restorable(file)
<1> DEFINE new == Appended(file, r)
<1>1. /\ new \in Files /\ new.headed /\ new.index = file.index
      /\ \A o \in DOMAIN file.recs : new.recs[o] = file.recs[o]
  BY AppendedFacts
<1>2. file # NoFile /\ new # NoFile
  BY <1>1, NoFileIsNoFile
<1>3. \A e \in file.index : new.recs[e.at].data = file.recs[e.at].data
  BY <1>1 DEF WellFormed, IndexSound
<1> HIDE DEF new
<1>4. ASSUME NEW b \in BlockIds
      PROVE  Restorable(new)[b] = Restorable(file)[b]
  <2> DEFINE mine == {e \in file.index : e.id = b}
  <2>1. {new.recs[e.at].data : e \in mine} = {file.recs[e.at].data : e \in mine}
    BY <1>3
  <2>2. {e \in new.index : e.id = b} = mine
    BY <1>1
  <2> QED
    BY <1>2, <2>1, <2>2 DEF Restorable
<1>5. Restorable(new) = Restorable(file)
  BY <1>4 DEF Restorable
<1> QED
  BY <1>1, <1>5 DEF new

LEMMA StepKeepsDisk ==
    ASSUME DiskInv, [StoreNext]_storeVars,
           main # NoFile, main.headed, phase # "remove"
    PROVE  main' # NoFile /\ main'.headed /\ Restorable(main') = Restorable(main)
<1>1. CASE main' = main
  BY <1>1
<1>2. ASSUME NEW r \in Records, phase = "idle", Opened(main).end < MaxEnd,
             main' = Appended(Opened(main), r)
      PROVE  main' # NoFile /\ main'.headed /\ Restorable(main') = Restorable(main)
  <2>1. Opened(main) = main /\ main \in Files /\ WellFormed(main)
    BY DEF Opened, DiskInv, TypeOK
  <2> QED
    BY <1>2, <2>1, AppendKeepsRestorable, NoFileIsNoFile
<1>3. \A b \in BlockIds, d \in Data : Record(b, d) \in Records /\ Torn(b) \in Records
  BY DEF Record, Torn, Records, Payloads
<1>4. ASSUME NEW b \in BlockIds, NEW d \in Data, PersistBlock(b, d)
      PROVE  main' # NoFile /\ main'.headed /\ Restorable(main') = Restorable(main)
  BY <1>4, <1>2, <1>3 DEF PersistBlock
<1>5. ASSUME NEW b \in BlockIds, PersistBlockLost(b)
      PROVE  main' # NoFile /\ main'.headed /\ Restorable(main') = Restorable(main)
  <2>1. Opened(main) = main
    BY DEF Opened
  <2> QED
    BY <1>1, <1>2, <1>3, <1>5, <2>1, ZeroIsData DEF PersistBlockLost
<1>6. ASSUME NEW b \in BlockIds, CrashInAppend(b)
      PROVE  main' # NoFile /\ main'.headed /\ Restorable(main') = Restorable(main)
  BY <1>2, <1>3, <1>6, ZeroIsData DEF CrashInAppend
<1>7. ASSUME NEW b \in BlockIds, PersistThrows(b)
      PROVE  main' # NoFile /\ main'.headed /\ Restorable(main') = Restorable(main)
  <2>1. Opened(main) = main
    BY DEF Opened
  <2> QED
    BY <1>1, <1>2, <1>3, <1>7, <2>1, ZeroIsData DEF PersistThrows
<1>8. CASE Progress \/ BeginRewrite \/ Crash \/ UNCHANGED storeVars
  <2>1. main' = main
    BY <1>8 DEF Progress, EnsureBackingFileExists, CreateEmptyBackingFile, LoadIndex,
                LoadFails, CopyLiveRecords, CopyThrows, RemoveOld, RemoveThrows,
                RenameTmp, RenameThrows, BeginRewrite, Crash, storeVars, DiskInv
  <2> QED
    BY <1>1, <2>1
<1> QED
  BY <1>4, <1>5, <1>6, <1>8, <1>7 DEF StoreNext

\* Appends, torn appends, failed compactions and crashes never change what a
\* restart would find: a torn tail is not indexed and a compaction that throws
\* has only touched the temporary file.
THEOREM OnlySwapChangesTheDisk == StoreSpec => OnlySwapChangesDisk
<1>1. DiskInv /\ [StoreNext]_storeVars =>
        [main # NoFile /\ main.headed /\ phase # "remove"
            => main' # NoFile /\ main'.headed
               /\ Restorable(main') = Restorable(main)]_storeVars
  BY StepKeepsDisk
<1> QED
  BY DiskInvInit, DiskInvStep, <1>1, PTL DEF StoreSpec, OnlySwapChangesDisk

-----------------------------------------------------------------------------
(* With a host that loses nothing, though its operations may fail *)

\* Every whole record holds the bytes of a block.
Decodable(file) ==
    \A o \in DOMAIN file.recs : file.recs[o].whole => file.recs[o].data \in Data

\* The contents the machine sees in the file, record by record.
Live == [b \in DOMAIN blockIndex |-> main.recs[blockIndex[b].at].data]

\* Inductive: the index in memory points at whole records, and the replacement
\* file holds what the machine sees.
MapInv ==
    /\ DiskInv
    /\ MemoryIndexSound
    /\ HeaderlessIsEmpty
    /\ main # NoFile => Decodable(main)
    /\ phase \in {"idle", "copy", "remove", "load"} => main # NoFile
    /\ phase = "remove" => tmp = Compacted(blockIndex, Live)
    /\ phase = "rename" =>
          \E payload \in [DOMAIN blockIndex -> Data] : tmp = Compacted(blockIndex, payload)

AbstractMode == IF phase = "rename" THEN "swap" ELSE IF Running THEN "up" ELSE "down"

LEMMA LiveType ==
    ASSUME DiskInv, MemoryIndexSound, phase \in {"idle", "copy", "remove"}
    PROVE  /\ Live \in [DOMAIN blockIndex -> Data]
           /\ Live \in [DOMAIN blockIndex -> Payloads]
BY DEF Live, MemoryIndexSound, OwnRecord, Payloads

\* A place the index in memory gives is read back as the record there, or the read
\* throws because the host fails it.
LEMMA LiveRead ==
    ASSUME MapInv, phase \in {"idle", "copy", "remove"}, NEW b \in DOMAIN blockIndex
    PROVE  ReadPayload(main, blockIndex[b]) = {Live[b]} \cup ReadFault /\ Live[b] # Throw
<1>1. /\ main # NoFile /\ main.headed
      /\ blockIndex[b].headed = main.headed
      /\ blockIndex[b].at \in DOMAIN main.recs
      /\ main.recs[blockIndex[b].at].whole
      /\ main.recs[blockIndex[b].at].data \in Data
  BY DEF MapInv, MemoryIndexSound, OwnRecord
<1> QED
  BY <1>1, OutcomesDiffer DEF ReadPayload, Live

LEMMA MapInvInit == StoreInit => MapInv
<1> SUFFICES ASSUME StoreInit PROVE MapInv
  OBVIOUS
<1>1. main # NoFile => main.headed /\ Decodable(main)
  BY ImagesAreSound DEF StoreInit, Decodable
<1> QED
  BY <1>1, DiskInvInit DEF StoreInit, MapInv, MemoryIndexSound, HeaderlessIsEmpty

\* The three appends: the file stays decodable and, if it had a header, keeps it.
LEMMA AppendKeepsMapInv ==
    ASSUME MapInv, phase = "idle", NEW r \in Records, r.whole => r.data \in Data,
           Opened(main).end < MaxEnd
    PROVE  /\ Opened(main) = main /\ main \in Files /\ main.headed
           /\ Appended(main, r) \in Files /\ Appended(main, r).headed
           /\ Decodable(Appended(main, r))
           /\ DOMAIN Appended(main, r).recs = DOMAIN main.recs \cup {main.end + 1}
           /\ Appended(main, r).recs[main.end + 1] = r
           /\ \A o \in DOMAIN main.recs : Appended(main, r).recs[o] = main.recs[o]
           /\ Restorable(Appended(main, r)) = Restorable(main)
<1>1. /\ main # NoFile /\ main.headed /\ Opened(main) = main
      /\ main \in Files /\ WellFormed(main) /\ Decodable(main)
  BY DEF MapInv, DiskInv, TypeOK, MemoryIndexSound, Opened
<1>2. /\ DOMAIN Appended(main, r).recs = DOMAIN main.recs \cup {main.end + 1}
      /\ Appended(main, r).recs[main.end + 1] = r
      /\ \A o \in DOMAIN main.recs : Appended(main, r).recs[o] = main.recs[o]
  BY <1>1, AppendedFacts
<1>3. Decodable(Appended(main, r))
  BY <1>1, <1>2 DEF Decodable
<1> QED
  BY <1>1, <1>2, <1>3, AppendKeepsRestorable

LEMMA MapInvStep == ~Losing /\ MapInv /\ [StoreNext]_storeVars => MapInv'
<1> SUFFICES ASSUME ~Losing, MapInv, [StoreNext]_storeVars PROVE MapInv'
  OBVIOUS
<1>1. DiskInv'
  BY DiskInvStep DEF MapInv
<1>2. CASE EnsureBackingFileExists
  <2>1. Decodable(Blank)
    BY DEF Blank, File, NoEntries, Decodable
  <2> QED
    BY <1>1, <1>2, <2>1 DEF EnsureBackingFileExists, MapInv, MemoryIndexSound, HeaderlessIsEmpty
<1>3. CASE CreateEmptyBackingFile
  <2>1. Decodable(EmptyFile) /\ EmptyFile.headed /\ EmptyFile # NoFile
    BY FreshFiles, NoFileIsNoFile DEF EmptyFile, File, NoEntries, Decodable
  <2> QED
    BY <1>1, <1>3, <2>1 DEF CreateEmptyBackingFile, MapInv, MemoryIndexSound, HeaderlessIsEmpty
<1>4. CASE LoadIndex
  <2>1. main' = main /\ main # NoFile /\ main.headed /\ WellFormed(main) /\ Decodable(main)
    BY <1>4 DEF LoadIndex, Loadable, MapInv, DiskInv
  <2>2. OwnRecord(main, blockIndex')
    <3> SUFFICES ASSUME NEW b \in DOMAIN blockIndex'
                 PROVE  /\ blockIndex'[b].headed = main.headed
                        /\ blockIndex'[b].at \in DOMAIN main.recs
                        /\ main.recs[blockIndex'[b].at].id = b
                        /\ main.recs[blockIndex'[b].at].whole
                        /\ main.recs[blockIndex'[b].at].data \in Data
      BY DEF OwnRecord
    <3>1. PICK e \in main.index : e.id = b /\ blockIndex'[b] = [headed |-> TRUE, at |-> e.at]
      <4>1. LoadedFrom(main, blockIndex')
        BY <1>4 DEF LoadIndex
      <4> QED
        BY <4>1 DEF LoadedFrom
    <3>2. e.at \in DOMAIN main.recs /\ main.recs[e.at].id = e.id /\ main.recs[e.at].whole
      BY <2>1 DEF WellFormed, IndexSound
    <3>3. main.headed = TRUE
      BY <2>1 DEF DiskInv, TypeOK, MapInv, Files
    <3>4. blockIndex'[b].headed = TRUE /\ blockIndex'[b].at = e.at
      BY <3>1
    <3>5. main.recs[e.at].data \in Data
      BY <2>1, <3>2 DEF Decodable
    <3> QED
      BY <3>1, <3>2, <3>3, <3>4, <3>5
  <2>3. phase' \in {"idle", "copy"}
    BY <1>4 DEF LoadIndex
  <2> QED
    BY <1>1, <2>1, <2>2, <2>3 DEF MapInv, MemoryIndexSound, HeaderlessIsEmpty
<1>5. CASE LoadFails
  BY <1>1, <1>5 DEF LoadFails, MapInv, MemoryIndexSound, HeaderlessIsEmpty
<1>6. CASE CopyLiveRecords
  <2>1. PICK payload \in [DOMAIN blockIndex -> Payloads] :
           /\ \A b \in DOMAIN blockIndex : payload[b] \in ReadPayload(main, blockIndex[b])
           /\ tmp' = Compacted(blockIndex, payload)
    BY <1>6 DEF CopyLiveRecords
  <2>2. phase = "copy" /\ phase' = "remove" /\ main' = main /\ blockIndex' = blockIndex
    BY <1>6 DEF CopyLiveRecords
  <2>3. Live \in [DOMAIN blockIndex -> Payloads]
    BY <2>2, LiveType DEF MapInv
  <2>4. \A b \in DOMAIN blockIndex : payload[b] = Live[b]
    <3>1. Throw \notin Payloads
      BY OutcomesDiffer DEF Payloads
    <3> QED
      BY <2>1, <2>2, <3>1, LiveRead DEF ReadFault
  <2>5. payload = Live
    BY <2>3, <2>4
  <2>6. Live' = Live
    BY <2>2 DEF Live
  <2> QED
    BY <1>1, <2>1, <2>2, <2>5, <2>6 DEF MapInv, MemoryIndexSound, HeaderlessIsEmpty
<1>7. CASE CopyThrows \/ RemoveThrows
  BY <1>1, <1>7 DEF CopyThrows, RemoveThrows, Unwind, MapInv, MemoryIndexSound, HeaderlessIsEmpty
<1>8. CASE RemoveOld
  <2>1. Live \in [DOMAIN blockIndex -> Data]
    BY <1>8, LiveType DEF RemoveOld, MapInv
  <2>2. tmp' = Compacted(blockIndex', Live) /\ blockIndex' = blockIndex
    BY <1>8 DEF RemoveOld, MapInv
  <2> QED
    BY <1>1, <1>8, <2>1, <2>2 DEF RemoveOld, MapInv, MemoryIndexSound, HeaderlessIsEmpty
<1>9. CASE RenameTmp
  <2>1. PICK payload \in [DOMAIN blockIndex -> Data] : tmp = Compacted(blockIndex, payload)
    BY <1>9 DEF RenameTmp, MapInv
  <2>2. payload \in [DOMAIN blockIndex -> Payloads] /\ blockIndex \in Partial(BlockIds, Places)
    BY <2>1 DEF Payloads, MapInv, DiskInv, TypeOK
  <2>3. /\ tmp \in Files /\ tmp.headed
        /\ \A b \in DOMAIN blockIndex :
              /\ Layout(blockIndex)[b] \in DOMAIN tmp.recs
              /\ tmp.recs[Layout(blockIndex)[b]] = Record(b, payload[b])
    BY <2>1, <2>2, CompactedFacts
  <2>4. Decodable(tmp)
    <3> SUFFICES ASSUME NEW o \in DOMAIN tmp.recs PROVE tmp.recs[o].data \in Data
      BY DEF Decodable
    <3>1. DOMAIN tmp.recs = {Layout(blockIndex)[b] : b \in DOMAIN blockIndex}
      BY <2>1 DEF Compacted, File
    <3>2. PICK b \in DOMAIN blockIndex : o = Layout(blockIndex)[b]
      BY <3>1
    <3>3. tmp.recs[o] = Record(b, payload[b]) /\ payload[b] \in Data
      BY <2>1, <2>3, <3>2
    <3> QED
      BY <3>3 DEF Record
  <2>5. /\ main' = tmp /\ phase' = "idle" /\ DOMAIN blockIndex' = DOMAIN blockIndex
        /\ \A b \in DOMAIN blockIndex :
              blockIndex'[b] = [headed |-> TRUE, at |-> Layout(blockIndex)[b]]
    BY <1>9 DEF RenameTmp
  <2>6. OwnRecord(tmp, blockIndex')
    <3> SUFFICES ASSUME NEW b \in DOMAIN blockIndex
                 PROVE  /\ blockIndex'[b].headed = tmp.headed
                        /\ blockIndex'[b].at \in DOMAIN tmp.recs
                        /\ tmp.recs[blockIndex'[b].at].id = b
                        /\ tmp.recs[blockIndex'[b].at].whole
                        /\ tmp.recs[blockIndex'[b].at].data \in Data
      BY <2>5 DEF OwnRecord
    <3>1. blockIndex'[b].headed = TRUE /\ blockIndex'[b].at = Layout(blockIndex)[b]
      BY <2>5
    <3>2. /\ Layout(blockIndex)[b] \in DOMAIN tmp.recs
          /\ tmp.recs[Layout(blockIndex)[b]] = Record(b, payload[b])
          /\ payload[b] \in Data
      BY <2>1, <2>3
    <3>3. tmp.headed = TRUE
      BY <2>3 DEF Files
    <3>4. blockIndex'[b].headed = tmp.headed
      BY <3>1, <3>3
    <3>5. /\ blockIndex'[b].at \in DOMAIN tmp.recs
          /\ tmp.recs[blockIndex'[b].at] = Record(b, payload[b])
      BY <3>1, <3>2
    <3> QED
      BY <3>2, <3>4, <3>5 DEF Record
  <2>7. tmp # NoFile
    BY <2>3, NoFileIsNoFile
  <2> QED
    BY <1>1, <2>3, <2>4, <2>5, <2>6, <2>7 DEF MapInv, MemoryIndexSound, HeaderlessIsEmpty
<1>10. ASSUME NEW b \in BlockIds, NEW d \in Data, PersistBlock(b, d) PROVE MapInv'
  <2> DEFINE r == Record(b, d)
  <2>1. r \in Records /\ r.id = b /\ r.whole /\ r.data = d
    BY DEF Record, Records, Payloads
  <2>2. phase = "idle" /\ phase' = "idle" /\ Opened(main).end < MaxEnd
    BY <1>10 DEF PersistBlock
  <2> HIDE DEF r
  <2>3. /\ Opened(main) = main /\ main \in Files /\ main.headed
        /\ Appended(main, r) \in Files /\ Appended(main, r).headed
        /\ Decodable(Appended(main, r))
        /\ DOMAIN Appended(main, r).recs = DOMAIN main.recs \cup {main.end + 1}
        /\ Appended(main, r).recs[main.end + 1] = r
        /\ \A o \in DOMAIN main.recs : Appended(main, r).recs[o] = main.recs[o]
    BY <2>1, <2>2, AppendKeepsMapInv
  <2>4. main' = Appended(main, r) /\ blockIndex' = Put(blockIndex, b, [headed |-> TRUE, at |-> main.end + 1])
    BY <1>10, <2>3 DEF PersistBlock, r, Files
  <2>5. OwnRecord(main, blockIndex)
    BY <2>2 DEF MapInv, MemoryIndexSound
  <2>8. \A c \in DOMAIN blockIndex :
           /\ blockIndex[c].headed = main.headed
           /\ blockIndex[c].at \in DOMAIN main.recs
           /\ main.recs[blockIndex[c].at].id = c
           /\ main.recs[blockIndex[c].at].whole
           /\ main.recs[blockIndex[c].at].data \in Data
    BY <2>5 DEF OwnRecord
  <2>6. OwnRecord(main', blockIndex')
    <3> SUFFICES ASSUME NEW c \in DOMAIN blockIndex'
                 PROVE  /\ blockIndex'[c].headed = main'.headed
                        /\ blockIndex'[c].at \in DOMAIN main'.recs
                        /\ main'.recs[blockIndex'[c].at].id = c
                        /\ main'.recs[blockIndex'[c].at].whole
                        /\ main'.recs[blockIndex'[c].at].data \in Data
      BY DEF OwnRecord
    <3>1. main'.headed = TRUE /\ main.headed = TRUE
      BY <2>3, <2>4 DEF Files
    <3>2. CASE c = b
      <4>1. blockIndex'[c] = [headed |-> TRUE, at |-> main.end + 1]
        BY <2>4, <3>2 DEF Put
      <4>2. blockIndex'[c].headed = main'.headed
        <5>1. blockIndex'[c].headed = TRUE
          BY <4>1
        <5> QED
          BY <3>1, <5>1
      <4>3. blockIndex'[c].at \in DOMAIN main'.recs /\ main'.recs[blockIndex'[c].at] = r
        BY <2>3, <2>4, <4>1
      <4> QED
        BY <2>1, <3>2, <4>2, <4>3
    <3>3. CASE c # b
      <4>1. c \in DOMAIN blockIndex /\ blockIndex'[c] = blockIndex[c]
        BY <2>4, <3>3 DEF Put
      <4>2. blockIndex[c].headed = main.headed
        BY <2>8, <4>1
      <4>3. blockIndex'[c].headed = main'.headed
        BY <3>1, <4>1, <4>2
      <4>4. /\ blockIndex[c].at \in DOMAIN main.recs
            /\ main.recs[blockIndex[c].at].id = c
            /\ main.recs[blockIndex[c].at].whole
            /\ main.recs[blockIndex[c].at].data \in Data
        BY <2>8, <4>1
      <4>5. /\ blockIndex'[c].at \in DOMAIN main'.recs
            /\ main'.recs[blockIndex'[c].at] = main.recs[blockIndex[c].at]
        BY <2>3, <2>4, <4>1, <4>4
      <4> QED
        BY <4>3, <4>4, <4>5
    <3> QED
      BY <3>2, <3>3
  <2>7. main' # NoFile
    BY <2>3, <2>4, NoFileIsNoFile
  <2> QED
    BY <1>1, <2>2, <2>3, <2>4, <2>6, <2>7 DEF MapInv, MemoryIndexSound, HeaderlessIsEmpty
<1>11. ASSUME NEW b \in BlockIds, CrashInAppend(b) PROVE MapInv'
  <2>1. Torn(b) \in Records /\ ~Torn(b).whole
    BY DEF Torn, Records, Payloads
  <2>2. phase = "idle" /\ phase' = "down" /\ Opened(main).end < MaxEnd
        /\ main' = Appended(Opened(main), Torn(b))
    BY <1>11 DEF CrashInAppend
  <2>3. main' \in Files /\ main'.headed /\ Decodable(main')
    BY <2>1, <2>2, AppendKeepsMapInv
  <2> QED
    BY <1>1, <2>2, <2>3 DEF MapInv, MemoryIndexSound, HeaderlessIsEmpty
<1>12. CASE BeginRewrite
  BY <1>1, <1>12 DEF BeginRewrite, MapInv, MemoryIndexSound, HeaderlessIsEmpty
<1>13. CASE Crash
  BY <1>1, <1>13 DEF Crash, MapInv, MemoryIndexSound, HeaderlessIsEmpty
<1>14. CASE UNCHANGED storeVars
  <2>1. Live' = Live
    BY <1>14 DEF storeVars, Live
  <2> QED
    BY <1>1, <1>14, <2>1 DEF storeVars, MapInv, MemoryIndexSound, HeaderlessIsEmpty
<1>15. ASSUME NEW b \in BlockIds, PersistThrows(b) PROVE MapInv'
  <2>1. /\ phase = "idle" /\ phase' = "idle" /\ blockIndex' = blockIndex
        /\ main # NoFile /\ main.headed /\ Opened(main) = main
        /\ OwnRecord(main, blockIndex) /\ Decodable(main)
    BY <1>15 DEF PersistThrows, MapInv, MemoryIndexSound, Opened
  <2>2. CASE main' = main
    BY <1>1, <2>1, <2>2 DEF MapInv, MemoryIndexSound, HeaderlessIsEmpty
  <2>3. CASE main.end < MaxEnd /\ main' = Appended(main, Torn(b))
    <3>1. Torn(b) \in Records /\ ~Torn(b).whole
      BY DEF Torn, Records, Payloads
    <3>2. /\ main \in Files /\ main' \in Files /\ main'.headed /\ Decodable(main')
          /\ DOMAIN main'.recs = DOMAIN main.recs \cup {main.end + 1}
          /\ \A o \in DOMAIN main.recs : main'.recs[o] = main.recs[o]
      BY <2>1, <2>3, <3>1, AppendKeepsMapInv
    <3>3. main.headed = TRUE /\ main'.headed = TRUE
      BY <2>1, <3>2 DEF Files
    <3>4. OwnRecord(main', blockIndex')
      BY <2>1, <3>2, <3>3 DEF OwnRecord
    <3> QED
      BY <1>1, <2>1, <3>2, <3>4, NoFileIsNoFile DEF MapInv, MemoryIndexSound, HeaderlessIsEmpty
  <2> QED
    BY <1>15, <2>1, <2>2, <2>3 DEF PersistThrows
<1> QED
  BY <1>2, <1>3, <1>4, <1>5, <1>6, <1>7, <1>8, <1>9, <1>10, <1>11, <1>12, <1>13, <1>14, <1>15
     DEF StoreNext, Progress, PersistBlockLost, RenameThrows

-----------------------------------------------------------------------------
(* Every step of the store is a step of the map, or leaves it alone *)

LEMMA RestorableType ==
    ASSUME NEW file \in Files \cup {NoFile},
           file # NoFile => WellFormed(file) /\ Decodable(file),
           file # NoFile /\ ~file.headed => file.index = {}
    PROVE  /\ Restorable(file) \in [BlockIds -> SUBSET Data]
           /\ \A b \in BlockIds : Restorable(file)[b] # {}
<1> SUFFICES ASSUME NEW b \in BlockIds
             PROVE  Restorable(file)[b] \subseteq Data /\ Restorable(file)[b] # {}
  BY DEF Restorable
<1> DEFINE mine == IF file = NoFile THEN {} ELSE {e \in file.index : e.id = b}
<1>1. Restorable(file)[b] = IF mine = {} THEN {Zero} ELSE {file.recs[e.at].data : e \in mine}
  BY DEF Restorable
<1>2. CASE mine = {}
  BY <1>1, <1>2, ZeroIsData
<1>3. CASE mine # {}
  <2>1. file # NoFile /\ file.headed
    BY <1>3
  <2>2. \A e \in mine : file.recs[e.at].data \in Data
    BY <2>1 DEF Decodable, WellFormed, IndexSound
  <2>3. Restorable(file)[b] = {file.recs[e.at].data : e \in mine}
    BY <1>1, <1>3
  <2>4. PICK e \in mine : TRUE
    BY <1>3
  <2>5. file.recs[e.at].data \in {file.recs[x.at].data : x \in mine}
    OBVIOUS
  <2>6. {file.recs[x.at].data : x \in mine} \subseteq Data
    BY <2>2
  <2> QED
    BY <2>3, <2>5, <2>6
<1> QED
  BY <1>2, <1>3

LEMMA SeenNow ==
    ASSUME MapInv, NEW b \in BlockIds
    PROVE  /\ ~Running => Seen[b] = Zero
           /\ b \notin DOMAIN blockIndex => Seen[b] = Zero
           /\ phase \in {"idle", "copy", "remove"} /\ b \in DOMAIN blockIndex =>
                 Seen[b] = Live[b] /\ Live[b] \in Data
           /\ phase = "rename" /\ b \in DOMAIN blockIndex =>
                 Seen[b] = tmp.recs[Layout(blockIndex)[b]].data
<1>1. phase \in {"idle", "copy", "remove"} /\ b \in DOMAIN blockIndex => Live[b] \in Data
  BY LiveType DEF MapInv
<1> QED
  BY <1>1 DEF Seen, LiveFile, LivePlace, Live, Running

\* In the swap, what the machine sees is in the new file.
LEMMA SwapFacts ==
    ASSUME MapInv, phase = "rename"
    PROVE  /\ \A b \in DOMAIN blockIndex :
                 /\ tmp.recs[Layout(blockIndex)[b]].data \in Data
                 /\ {e \in tmp.index : e.id = b} = {[id |-> b, at |-> Layout(blockIndex)[b]]}
           /\ \A e \in tmp.index : e.id \in DOMAIN blockIndex
           /\ tmp # NoFile
<1>1. PICK payload \in [DOMAIN blockIndex -> Data] : tmp = Compacted(blockIndex, payload)
  BY DEF MapInv
<1>2. payload \in [DOMAIN blockIndex -> Payloads] /\ blockIndex \in Partial(BlockIds, Places)
  BY <1>1 DEF Payloads, MapInv, DiskInv, TypeOK
<1>3. /\ tmp \in Files
      /\ \A b \in DOMAIN blockIndex :
            /\ tmp.recs[Layout(blockIndex)[b]] = Record(b, payload[b])
            /\ [id |-> b, at |-> Layout(blockIndex)[b]] \in tmp.index
      /\ \A e \in tmp.index : e.id \in DOMAIN blockIndex /\ e.at = Layout(blockIndex)[e.id]
  BY <1>1, <1>2, CompactedFacts
<1>4. ASSUME NEW b \in DOMAIN blockIndex
      PROVE  {e \in tmp.index : e.id = b} = {[id |-> b, at |-> Layout(blockIndex)[b]]}
  <2>1. \A e \in tmp.index : e = [id |-> e.id, at |-> e.at]
    BY <1>3 DEF Files, Entries
  <2>2. \A e \in tmp.index : e.id = b => e = [id |-> b, at |-> Layout(blockIndex)[b]]
    BY <1>3, <2>1
  <2> QED
    BY <1>3, <2>2
<1>5. ASSUME NEW b \in DOMAIN blockIndex
      PROVE  tmp.recs[Layout(blockIndex)[b]].data \in Data
  <2>1. tmp.recs[Layout(blockIndex)[b]] = Record(b, payload[b]) /\ payload[b] \in Data
    BY <1>1, <1>3
  <2> QED
    BY <2>1 DEF Record
<1> QED
  BY <1>3, <1>4, <1>5, NoFileIsNoFile

LEMMA SeenType == MapInv => Seen \in [BlockIds -> Data]
<1> SUFFICES ASSUME MapInv, NEW b \in BlockIds PROVE Seen[b] \in Data
  BY DEF Seen
<1>1. CASE phase \in {"idle", "copy", "remove"}
  BY <1>1, SeenNow, ZeroIsData
<1>2. CASE phase = "rename"
  BY <1>2, SeenNow, SwapFacts, ZeroIsData
<1>3. CASE ~Running
  BY <1>3, SeenNow, ZeroIsData
<1> QED
  BY <1>1, <1>2, <1>3 DEF Running

LEMMA DurableType ==
    MapInv => /\ Restorable(main) \in [BlockIds -> SUBSET Data]
              /\ \A b \in BlockIds : Restorable(main)[b] # {}
<1> SUFFICES ASSUME MapInv
             PROVE  /\ Restorable(main) \in [BlockIds -> SUBSET Data]
                    /\ \A b \in BlockIds : Restorable(main)[b] # {}
  OBVIOUS
<1>1. Blank.index = {}
  BY DEF Blank, File
<1> QED
  BY <1>1, RestorableType DEF MapInv, HeaderlessIsEmpty, DiskInv, TypeOK

\* A file that holds nothing restores nothing.
LEMMA FreshRestorable ==
    /\ Restorable(NoFile) = Map!Certain(Map!Fresh)
    /\ Restorable(Blank) = Map!Certain(Map!Fresh)
    /\ Restorable(EmptyFile) = Map!Certain(Map!Fresh)
<1>1. Blank.index = {} /\ EmptyFile.index = {}
  BY DEF Blank, EmptyFile, File
<1> QED
  BY <1>1 DEF Restorable, Map!Certain, Map!Fresh

LEMMA MapInit == StoreInit => Map!Init
<1> SUFFICES ASSUME StoreInit PROVE Map!Init
  OBVIOUS
<1>1. MapInv
  BY MapInvInit
<1>2. ~Running /\ phase # "rename"
  BY DEF StoreInit, Running
<1>3. Seen = Map!Fresh
  BY <1>2 DEF Seen, Map!Fresh
<1> QED
  BY <1>1, <1>2, <1>3, DurableType DEF Map!Init

\* Loading an image starts the map with what it may restore.
LEMMA LoadStarts ==
    ASSUME MapInv, MapInv', LoadIndex
    PROVE  Map!Start
<1> DEFINE durable == Restorable(main)
<1>1. phase = "load" /\ phase' \in {"idle", "copy"} /\ main' = main /\ main # NoFile
  BY DEF LoadIndex, MapInv
<1>2. (Seen \in [BlockIds -> Data])'
  BY SeenType, PTL
<1>3. ASSUME NEW b \in BlockIds PROVE Seen'[b] \in durable[b]
  <2> DEFINE mine == {e \in main.index : e.id = b}
  <2>1. durable[b] = IF mine = {} THEN {Zero} ELSE {main.recs[e.at].data : e \in mine}
    BY <1>1 DEF Restorable
  <2>2. LoadedFrom(main, blockIndex')
    BY DEF LoadIndex
  <2>3. CASE b \in DOMAIN blockIndex'
    <3>1. PICK e \in main.index : e.id = b /\ blockIndex'[b] = [headed |-> TRUE, at |-> e.at]
      BY <2>2, <2>3 DEF LoadedFrom
    <3>2. Seen'[b] = main.recs[e.at].data
      BY <1>1, <2>3, <3>1 DEF Seen, Running, LiveFile, LivePlace
    <3> QED
      BY <2>1, <3>1, <3>2
  <2>4. CASE b \notin DOMAIN blockIndex'
    <3>1. mine = {}
      BY <2>2, <2>4 DEF LoadedFrom
    <3>2. Seen'[b] = Zero
      BY <2>4 DEF Seen
    <3> QED
      BY <2>1, <3>1, <3>2
  <2> QED
    BY <2>3, <2>4
<1>4. durable' = durable
  BY <1>1
<1> QED
  BY <1>1, <1>2, <1>3, <1>4 DEF Map!Start, Map!Maps, Running

\* Writing the temporary file shows nowhere.
LEMMA CopyShowsNothing ==
    ASSUME MapInv, CopyLiveRecords \/ BeginRewrite
    PROVE  Seen' = Seen /\ AbstractMode' = AbstractMode /\ Restorable(main)' = Restorable(main)
<1> DEFINE durable == Restorable(main)
<1>1. /\ phase \in {"copy", "idle"} /\ phase' \in {"remove", "copy"}
      /\ main' = main /\ blockIndex' = blockIndex
  BY DEF CopyLiveRecords, BeginRewrite
<1>2. Seen' = Seen /\ durable' = durable
  BY <1>1 DEF Seen, Running, LiveFile, LivePlace
<1> QED
  BY <1>1, <1>2 DEF AbstractMode, Running

\* Removing the old file withdraws the durable map.
LEMMA RemoveWithdraws ==
    ASSUME MapInv, RemoveOld
    PROVE  Map!Withdraw
<1> DEFINE durable == Restorable(main)
<1>1. /\ phase = "remove" /\ phase' = "rename" /\ main' = NoFile
      /\ tmp' = tmp /\ blockIndex' = blockIndex
  BY DEF RemoveOld
<1>2. tmp = Compacted(blockIndex, Live) /\ Live \in [DOMAIN blockIndex -> Payloads]
  BY <1>1, LiveType DEF MapInv
<1>3. \A b \in DOMAIN blockIndex : tmp.recs[Layout(blockIndex)[b]].data = Live[b]
  <2>1. blockIndex \in Partial(BlockIds, Places)
    BY DEF MapInv, DiskInv, TypeOK
  <2>2. \A b \in DOMAIN blockIndex : tmp.recs[Layout(blockIndex)[b]] = Record(b, Live[b])
    BY <1>2, <2>1, CompactedFacts
  <2>3. \A b, d : Record(b, d).data = d
    BY DEF Record
  <2> QED
    BY <2>2, <2>3
<1>4. \A b \in BlockIds : Seen'[b] = Seen[b]
  BY <1>1, <1>3, SeenNow DEF Seen, Running, LiveFile, LivePlace
<1>5. Seen' = Seen
  BY <1>4 DEF Seen
<1>6. durable' = Map!Certain(Map!Fresh)
  BY <1>1, FreshRestorable
<1> QED
  BY <1>1, <1>5, <1>6 DEF Map!Withdraw, Running

\* Renaming the new one publishes what the machine sees.
LEMMA RenamePublishes ==
    ASSUME MapInv, RenameTmp
    PROVE  Map!Publish
<1> DEFINE durable == Restorable(main)
<1>1. /\ phase = "rename" /\ phase' = "idle" /\ main' = tmp
      /\ DOMAIN blockIndex' = DOMAIN blockIndex
      /\ \A b \in DOMAIN blockIndex :
            blockIndex'[b] = [headed |-> TRUE, at |-> Layout(blockIndex)[b]]
  BY DEF RenameTmp
<1>2. \A b \in BlockIds : Seen'[b] = Seen[b]
  BY <1>1 DEF Seen, Running, LiveFile, LivePlace
<1>3. Seen' = Seen
  BY <1>2 DEF Seen
<1>4. \A b \in BlockIds : Restorable(tmp)[b] = {Seen[b]}
  <2> TAKE b \in BlockIds
  <2>1. tmp # NoFile /\ Restorable(tmp)[b] =
           IF {e \in tmp.index : e.id = b} = {} THEN {Zero}
           ELSE {tmp.recs[e.at].data : e \in {e \in tmp.index : e.id = b}}
    BY <1>1, SwapFacts DEF Restorable
  <2>2. CASE b \in DOMAIN blockIndex
    <3>1. Seen[b] = tmp.recs[Layout(blockIndex)[b]].data
      BY <1>1, <2>2, SeenNow
    <3> DEFINE mine == {e \in tmp.index : e.id = b}
               own == [id |-> b, at |-> Layout(blockIndex)[b]]
    <3>2. mine = {own}
      BY <1>1, <2>2, SwapFacts
    <3>3. own.at = Layout(blockIndex)[b]
      OBVIOUS
    <3> HIDE DEF own
    <3>4. {tmp.recs[e.at].data : e \in {own}} = {tmp.recs[own.at].data}
      OBVIOUS
    <3>5. Restorable(tmp)[b] = {tmp.recs[e.at].data : e \in {own}}
      BY <2>1, <3>2
    <3> QED
      BY <3>1, <3>3, <3>4, <3>5
  <2>3. CASE b \notin DOMAIN blockIndex
    BY <1>1, <2>1, <2>3, SeenNow, SwapFacts
  <2> QED
    BY <2>2, <2>3
<1>5. durable' = Map!Certain(Seen)
  <2>1. durable' = Restorable(tmp)
    BY <1>1
  <2> QED
    BY <1>4, <2>1 DEF Map!Certain, Restorable
<1> QED
  BY <1>1, <1>3, <1>5 DEF Map!Publish, Running

\* An append is seen at once, and by no other block.
LEMMA PersistWrites ==
    ASSUME ~Losing, MapInv, MapInv', NEW b \in BlockIds, NEW d \in Data, PersistBlock(b, d)
    PROVE  Map!Write(b, d)
<1> DEFINE r == Record(b, d)
<1>1. r \in Records /\ r.whole /\ r.data = d
  BY DEF Record, Records, Payloads
<1>2. phase = "idle" /\ phase' = "idle" /\ Opened(main).end < MaxEnd
  BY DEF PersistBlock
<1> HIDE DEF r
<1>3. /\ Opened(main) = main /\ main \in Files /\ main.headed
      /\ Appended(main, r).recs[main.end + 1] = r
      /\ \A o \in DOMAIN main.recs : Appended(main, r).recs[o] = main.recs[o]
      /\ Restorable(Appended(main, r)) = Restorable(main)
  BY <1>1, <1>2, AppendKeepsMapInv
<1>4. main' = Appended(main, r)
  BY <1>3 DEF PersistBlock, r
<1>5. /\ DOMAIN blockIndex' = DOMAIN blockIndex \cup {b}
      /\ blockIndex'[b].at = main.end + 1
      /\ \A c \in DOMAIN blockIndex : c # b => blockIndex'[c] = blockIndex[c]
  BY <1>3 DEF PersistBlock, Put
<1>6. \A c \in DOMAIN blockIndex : blockIndex[c].at \in DOMAIN main.recs
  BY <1>2 DEF MapInv, MemoryIndexSound, OwnRecord
<1>7. \A c \in BlockIds : Seen'[c] = IF c = b THEN d ELSE Seen[c]
  BY <1>1, <1>2, <1>3, <1>4, <1>5, <1>6 DEF Seen, Running, LiveFile, LivePlace
<1>8. Seen' = [Seen EXCEPT ![b] = d]
  BY <1>7 DEF Seen
<1> QED
  BY <1>2, <1>3, <1>4, <1>8 DEF Map!Write, Running

\* A compaction that throws shows nothing to the device's command, or ends the start.
LEMMA ThrowsShowNothing ==
    ASSUME MapInv, CopyThrows \/ RemoveThrows
    PROVE  \/ Map!Crash
           \/ /\ Seen' = Seen /\ AbstractMode' = AbstractMode
              /\ Restorable(main)' = Restorable(main)
<1> DEFINE durable == Restorable(main)
<1>1. /\ phase \in {"copy", "remove"} /\ phase' = IF loading THEN "down" ELSE "idle"
      /\ main' = main /\ blockIndex' = blockIndex
  BY DEF CopyThrows, RemoveThrows, Unwind
<1>2. CASE loading
  <2>1. Seen' = Map!Fresh /\ durable' = durable
    BY <1>1, <1>2 DEF Seen, Running, Map!Fresh
  <2> QED
    BY <1>1, <1>2, <2>1 DEF Map!Crash, Running
<1>3. CASE ~loading
  <2>1. Seen' = Seen /\ durable' = durable
    BY <1>1, <1>3 DEF Seen, Running, LiveFile, LivePlace
  <2> QED
    BY <1>1, <1>3, <2>1 DEF AbstractMode, Running
<1> QED
  BY <1>2, <1>3

\* An append that throws leaves at most bytes that no index names.
LEMMA FailedAppendShowsNothing ==
    ASSUME MapInv, NEW b \in BlockIds, PersistThrows(b)
    PROVE  /\ Seen' = Seen /\ AbstractMode' = AbstractMode
           /\ Restorable(main)' = Restorable(main)
<1> DEFINE durable == Restorable(main)
<1>1. /\ phase = "idle" /\ phase' = "idle" /\ blockIndex' = blockIndex
      /\ main # NoFile /\ Opened(main) = main /\ OwnRecord(main, blockIndex)
  BY DEF PersistThrows, MapInv, MemoryIndexSound, Opened
<1>2. CASE main' = main
  BY <1>1, <1>2 DEF Seen, Running, LiveFile, LivePlace, AbstractMode
<1>3. CASE main.end < MaxEnd /\ main' = Appended(main, Torn(b))
  <2>1. Torn(b) \in Records /\ ~Torn(b).whole
    BY DEF Torn, Records, Payloads
  <2>2. /\ \A o \in DOMAIN main.recs : main'.recs[o] = main.recs[o]
        /\ durable' = durable
    BY <1>1, <1>3, <2>1, AppendKeepsMapInv
  <2>3. \A c \in DOMAIN blockIndex : blockIndex[c].at \in DOMAIN main.recs
    BY <1>1 DEF OwnRecord
  <2>4. \A c \in BlockIds : Seen'[c] = Seen[c]
    BY <1>1, <2>2, <2>3 DEF Seen, Running, LiveFile, LivePlace
  <2>5. Seen' = Seen
    BY <2>4 DEF Seen
  <2> QED
    BY <1>1, <2>2, <2>5 DEF AbstractMode, Running
<1> QED
  BY <1>1, <1>2, <1>3 DEF PersistThrows

LEMMA MapStep ==
    ~Losing /\ MapInv /\ MapInv' /\ [StoreNext]_storeVars => [Map!Next]_(Map!vars)
<1> SUFFICES ASSUME ~Losing, MapInv, MapInv', [StoreNext]_storeVars
             PROVE  [Map!Next]_(Map!vars)
  OBVIOUS
<1> DEFINE durable == Restorable(main)
\* A step that stays in one mode and changes neither map is a stutter.
<1> DEFINE Still == AbstractMode' = AbstractMode /\ Seen' = Seen /\ durable' = durable
<1>1. Still => [Map!Next]_(Map!vars)
  BY DEF Map!vars, AbstractMode
<1>2. ~Running /\ ~Running' => Seen' = Seen
  BY DEF Seen
<1>3. CASE EnsureBackingFileExists
  <2>1. ~Running /\ ~Running' /\ phase # "rename" /\ phase' # "rename"
    BY <1>3 DEF EnsureBackingFileExists, Running
  <2>2. durable' = durable
    BY <1>3, FreshRestorable DEF EnsureBackingFileExists
  <2> QED
    BY <1>1, <1>2, <2>1, <2>2 DEF AbstractMode
<1>4. CASE CreateEmptyBackingFile
  <2>1. ~Running /\ ~Running' /\ phase # "rename" /\ phase' # "rename"
    BY <1>4 DEF CreateEmptyBackingFile, Running
  <2>2. main = Blank /\ main' = EmptyFile
    BY <1>4 DEF CreateEmptyBackingFile, MapInv, HeaderlessIsEmpty, DiskInv
  <2>3. durable' = durable
    BY <2>2, FreshRestorable
  <2> QED
    BY <1>1, <1>2, <2>1, <2>3 DEF AbstractMode
<1>5. CASE LoadIndex
  BY <1>5, LoadStarts DEF Map!Next
<1>6. CASE LoadFails
  BY <1>1, <1>2, <1>6 DEF LoadFails, AbstractMode, Running
<1>7. CASE CopyLiveRecords \/ BeginRewrite
  BY <1>1, <1>7, CopyShowsNothing
<1>8. CASE CopyThrows \/ RemoveThrows
  BY <1>1, <1>8, ThrowsShowNothing DEF Map!Next
<1>9. CASE RemoveOld
  BY <1>9, RemoveWithdraws DEF Map!Next
<1>10. CASE RenameTmp
  BY <1>10, RenamePublishes DEF Map!Next
<1>11. ASSUME NEW b \in BlockIds, NEW d \in Data, PersistBlock(b, d)
       PROVE  Map!Write(b, d)
  BY <1>11, PersistWrites
<1>12. CASE Crash
  <2>1. phase # "down" /\ phase' = "down" /\ main' = main
    BY <1>12 DEF Crash
  <2>2. Seen' = Map!Fresh
    BY <2>1 DEF Seen, Running, Map!Fresh
  <2>3. CASE Running
    <3>1. Map!Crash
      BY <2>1, <2>2, <2>3 DEF Map!Crash, Running
    <3> QED
      BY <3>1 DEF Map!Next
  <2>4. CASE ~Running
    BY <1>1, <1>2, <2>1, <2>4 DEF AbstractMode, Running
  <2> QED
    BY <2>3, <2>4
<1>13. ASSUME NEW b \in BlockIds, CrashInAppend(b)
       PROVE  Map!Crash
  <2>1. phase = "idle" /\ phase' = "down" /\ Opened(main).end < MaxEnd
        /\ main' = Appended(Opened(main), Torn(b))
    BY <1>13 DEF CrashInAppend
  <2>2. Torn(b) \in Records /\ ~Torn(b).whole
    BY DEF Torn, Records, Payloads
  <2>3. durable' = durable
    BY <2>1, <2>2, AppendKeepsMapInv
  <2>4. Seen' = Map!Fresh
    BY <2>1 DEF Seen, Running, Map!Fresh
  <2> QED
    BY <2>1, <2>3, <2>4 DEF Map!Crash, Running
<1>14. CASE UNCHANGED storeVars
  BY <1>1, <1>14 DEF storeVars, Seen, Running, LiveFile, LivePlace, AbstractMode
<1>15. ASSUME NEW b \in BlockIds, PersistThrows(b)
       PROVE  Still
  BY <1>15, FailedAppendShowsNothing
<1> QED
  BY <1>1, <1>3, <1>4, <1>5, <1>6, <1>7, <1>8, <1>9, <1>10, <1>11, <1>12, <1>13, <1>14, <1>15
     DEF StoreNext, Progress, PersistBlockLost, RenameThrows, Map!Next

\* With a host that loses nothing, every behaviour of the backing file is one of the map:
\* a write is seen at once and by that block only, a compaction changes nothing a
\* reader sees, and a crash brings back a published map or, inside the swap,
\* nothing.
THEOREM BackingImplementsMap ==
    ASSUME ~Losing
    PROVE  StoreSpec => ImplementsMap
<1>1. MapInv /\ [StoreNext]_storeVars => MapInv'
  BY MapInvStep
<1>2. MapInv /\ MapInv' /\ [StoreNext]_storeVars => [Map!Next]_(Map!vars)
  BY MapStep
<1> QED
  BY MapInvInit, MapInit, <1>1, <1>2, PTL DEF StoreSpec, ImplementsMap, Map!Spec

\* With a host that loses nothing, the index in memory points every block at a whole record
\* of its own, and an image without a header holds nothing.
THEOREM MemoryIndexIsSound ==
    ASSUME ~Losing
    PROVE  StoreSpec => [](MemoryIndexSound /\ HeaderlessIsEmpty)
<1>1. MapInv => MemoryIndexSound /\ HeaderlessIsEmpty
  BY DEF MapInv
<1>2. MapInv /\ [StoreNext]_storeVars => MapInv'
  BY MapInvStep
<1> QED
  BY MapInvInit, <1>1, <1>2, PTL DEF StoreSpec
=============================================================================
