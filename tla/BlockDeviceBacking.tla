------------------------- MODULE BlockDeviceBacking -------------------------
(***************************************************************************)
(* The backing file of the block device (rospovm/backend/                  *)
(* BlockDeviceBacking.cpp): an append-only run of records, an index that   *)
(* only a compaction writes, and the index the process keeps in memory.    *)
(*                                                                         *)
(* Records are addressed by their place in the file rather than by byte    *)
(* offset, and compression is left out: neither decides which record a     *)
(* read returns.  A file that lost its header starts its records 20 bytes  *)
(* earlier, so a place carries whether the file it was taken in had one.   *)
(***************************************************************************)
EXTENDS Integers, FiniteSets

CONSTANTS
    BlockIds,       \* ids a record can be stored under
    Data,           \* contents of one block
    Zero,           \* contents of a block that has no record
    Bad,            \* a stored payload that does not decode to a block
    Throw,          \* the outcome of a read that throws
    NoFile,         \* stands for a path with no file
    Images,         \* files the device may be given at first
    Faulty,         \* whether the host's file operations may fail
    Losing,         \* whether they may also lose an append, or fail between removing
                    \* the old image and renaming the new one into its place
    MaxEnd          \* bound on the records of one file

ASSUME BlockIdsAreFinite == BlockIds \subseteq Int /\ IsFiniteSet(BlockIds)
ASSUME ZeroIsData == Zero \in Data
ASSUME OutcomesDiffer == Bad \notin Data /\ Throw \notin Data /\ Throw # Bad
ASSUME FaultsAreBoolean == Faulty \in BOOLEAN /\ Losing \in BOOLEAN
ASSUME RoomToCompact == MaxEnd \in Nat /\ Cardinality(BlockIds) <= MaxEnd

VARIABLES
    main,           \* the file at backingFilePath
    tmp,            \* the file at backingFilePath + ".tmp"
    blockIndex,     \* BlockDeviceState::blockIndex, from id to place
    phase,          \* where the process is between two file operations
    loading         \* whether the compaction under way was started by load_index

storeVars == <<main, tmp, blockIndex, phase, loading>>

-----------------------------------------------------------------------------
(* Files *)

Payloads == Data \cup {Bad}

Record(b, d) == [id |-> b, data |-> d, whole |-> TRUE]

\* What is left of a record whose append was cut short.
Torn(b) == [id |-> b, data |-> Bad, whole |-> FALSE]

Positions == 1..MaxEnd
Partial(S, T) == UNION {[D -> T] : D \in SUBSET S}

Records == [id : BlockIds, data : Payloads, whole : BOOLEAN]
Entries == [id : BlockIds, at : Positions]
Places == [headed : BOOLEAN, at : Positions]
Files == [headed : BOOLEAN, count : 0..MaxEnd, index : SUBSET Entries,
          recs : Partial(Positions, Records), end : 0..MaxEnd]

ASSUME NoFileIsNoFile == NoFile \notin Files

Put(f, k, v) == [x \in DOMAIN f \cup {k} |-> IF x = k THEN v ELSE f[x]]
NoEntries == [x \in {} |-> 0]

File(headed, count, index, recs, end) ==
    [headed |-> headed, count |-> count, index |-> index, recs |-> recs, end |-> end]

\* create_empty_backing_file opens the file before it writes the header.
Blank == File(FALSE, 0, {}, NoEntries, 0)
EmptyFile == File(TRUE, 0, {}, NoEntries, 0)

\* (mutant) The append opens the file with trunc instead of app.
Truncated(file, r) == [Blank EXCEPT !.recs = Put(NoEntries, 1, r), !.end = 1]

Appended(file, r) ==
    [file EXCEPT !.recs = Put(file.recs, file.end + 1, r), !.end = file.end + 1]

\* Opening a missing file in append mode creates it, without a header.
Opened(file) == IF file = NoFile THEN Blank ELSE file

\* Opening the file, reading the record's header and reading its payload may each fail.
ReadFault == IF Faulty THEN {Throw} ELSE {}

\* What reading the payload at a place may yield.  The id stored in the record
\* is not looked at.  A place taken in a file of the other kind falls inside
\* some record, and a torn record borrows the bytes that follow it.
ReadPayload(file, p) ==
    IF file = NoFile THEN {Throw}
    ELSE IF p.headed # file.headed THEN Payloads \cup {Throw}
    ELSE IF p.at \notin DOMAIN file.recs THEN {Throw}
    ELSE IF file.recs[p.at].whole THEN {file.recs[p.at].data} \cup ReadFault
    ELSE IF p.at = file.end THEN {Throw}
    ELSE Payloads \cup {Throw}

\* read_persisted_block, then decompress_buffer: what a guest may read.
ReadBlock(b) ==
    IF b \notin DOMAIN blockIndex THEN {Zero}
    ELSE {IF x = Bad THEN Throw ELSE x : x \in ReadPayload(main, blockIndex[b])}

\* The layout a compaction gives the file: index order, one record per entry.
Layout(index) ==
    [b \in DOMAIN index |-> Cardinality({c \in DOMAIN index : c <= b})]

\* (mutant) The new index keeps the places of the old file.
CompactedStale(index, payload) ==
    LET n == Cardinality(DOMAIN index)
    IN  File(TRUE, n, {[id |-> b, at |-> index[b].at] : b \in DOMAIN index},
             [o \in {Layout(index)[b] : b \in DOMAIN index} |->
                 LET b == CHOOSE c \in DOMAIN index : Layout(index)[c] = o
                 IN  Record(b, payload[b])],
             n)

Compacted(index, payload) ==
    LET at == Layout(index)
        n == Cardinality(DOMAIN index)
    IN  File(TRUE, n,
             {[id |-> b, at |-> at[b]] : b \in DOMAIN index},
             [o \in {at[b] : b \in DOMAIN index} |->
                 LET b == CHOOSE c \in DOMAIN index : at[c] = o
                 IN  Record(b, payload[b])],
             n)

\* The in-memory index a place list on disk may be loaded as: std::sort is not
\* stable, so any of several entries for one id may be the one kept.
Loadable(file) ==
    /\ file.headed
    /\ \A e \in file.index : e.at <= file.end

LoadedFrom(file, index) ==
    /\ DOMAIN index = {e.id : e \in file.index}
    /\ \A b \in DOMAIN index :
          \E e \in file.index : e.id = b /\ index[b] = [headed |-> TRUE, at |-> e.at]

\* The index of an image that has a header names whole records of its blocks.
IndexSound(file) ==
    file.headed =>
        \A e \in file.index :
            /\ e.at \in DOMAIN file.recs
            /\ file.recs[e.at].id = e.id
            /\ file.recs[e.at].whole

\* Images as a host tool may leave them: empty, one record, or one id twice, with
\* a header that may miscount.
ToolImages ==
    {EmptyFile}
    \cup {File(TRUE, c, {[id |-> b, at |-> 1]}, [o \in {1} |-> Record(b, d)], 1) :
             c \in 0..1, b \in BlockIds, d \in Data}
    \cup {File(TRUE, 2, {[id |-> b, at |-> 1], [id |-> b, at |-> 2]},
               [o \in {1, 2} |-> Record(b, d[o])], 2) :
             b \in BlockIds, d \in [{1, 2} -> Data]}

ASSUME ImagesAreSound ==
    \A f \in Images :
        /\ f \in Files
        /\ f.headed
        /\ IndexSound(f)
        /\ \A o \in DOMAIN f.recs : f.recs[o].data \in Data /\ o <= f.end

-----------------------------------------------------------------------------
(* The process *)

\* BlockDeviceInitialize, ensure_backing_file_exists.
EnsureBackingFileExists ==
    /\ phase = "down"
    /\ IF main = NoFile
       THEN main' = Blank /\ phase' = "create"
       ELSE main' = main /\ phase' = "load"
    /\ blockIndex' = NoEntries
    /\ UNCHANGED <<tmp, loading>>

CreateEmptyBackingFile ==
    /\ phase = "create"
    /\ main' = EmptyFile
    /\ phase' = "load"
    /\ UNCHANGED <<tmp, blockIndex, loading>>

\* load_index_from_file; a miscounted or duplicated index is rewritten at once.
LoadIndex ==
    /\ phase = "load"
    /\ Loadable(main)
    /\ \E index \in [{e.id : e \in main.index} -> {[headed |-> TRUE, at |-> e.at] : e \in main.index}] :
          /\ LoadedFrom(main, index)
          /\ blockIndex' = index
    /\ LET n == Cardinality({e.id : e \in main.index})
           repair == main.count # n \/ Cardinality(main.index) # n
       IN  /\ phase' = IF repair THEN "copy" ELSE "idle"
           /\ loading' = repair
           /\ tmp' = IF repair THEN Blank ELSE tmp
    /\ UNCHANGED main

\* The header cannot be written, or load_index_from_file throws: no VM is constructed.
LoadFails ==
    /\ \/ phase = "create" /\ Faulty
       \/ phase = "load" /\ (Faulty \/ ~Loadable(main))
    /\ phase' = "down"
    /\ UNCHANGED <<main, tmp, blockIndex, loading>>

\* persist_block with compactAfterWrite = false, as the device calls it.
PersistBlock(b, d) ==
    /\ phase = "idle"
    /\ LET file == Opened(main)
       IN  /\ file.end < MaxEnd
           /\ main' = Appended(file, Record(b, d))
           /\ blockIndex' = Put(blockIndex, b, [headed |-> file.headed, at |-> file.end + 1])
    /\ UNCHANGED <<tmp, phase, loading>>

\* persist_block does not look at the stream after its flush: when the bytes
\* reach the file only in part, or not at all, the index is updated just the same.
PersistBlockLost(b) ==
    /\ Losing
    /\ phase = "idle"
    /\ LET file == Opened(main)
       IN  /\ file.end < MaxEnd
           /\ main' \in {file, Appended(file, Torn(b))}
           /\ blockIndex' = Put(blockIndex, b, [headed |-> file.headed, at |-> file.end + 1])
    /\ UNCHANGED <<tmp, phase, loading>>

\* persist_block throws: the file was not opened, or it was and perhaps created, or
\* some bytes of the record are in it already.  The index is as it was.
PersistThrows(b) ==
    /\ Faulty
    /\ phase = "idle"
    /\ LET file == Opened(main)
       IN  \/ main' \in {main, file}
           \/ file.end < MaxEnd /\ main' = Appended(file, Torn(b))
    /\ UNCHANGED <<tmp, blockIndex, phase, loading>>

\* rewrite_index_section opens (and truncates) the temporary file.
BeginRewrite ==
    /\ phase = "idle"
    /\ phase' = "copy"
    /\ tmp' = Blank
    /\ UNCHANGED <<main, blockIndex, loading>>

\* (mutant) Every record is written with the payload of one of them.
CopyReusesBuffer ==
    /\ phase = "copy"
    /\ \E d \in Data :
          /\ DOMAIN blockIndex # {} =>
                \E b \in DOMAIN blockIndex : d \in ReadPayload(main, blockIndex[b])
          /\ tmp' = Compacted(blockIndex, [b \in DOMAIN blockIndex |-> d])
    /\ phase' = "remove"
    /\ UNCHANGED <<main, blockIndex, loading>>

\* The copy loop, the new index and the new header, up to out.close().
CopyLiveRecords ==
    /\ phase = "copy"
    /\ \E payload \in [DOMAIN blockIndex -> Payloads] :
          /\ \A b \in DOMAIN blockIndex : payload[b] \in ReadPayload(main, blockIndex[b])
          /\ tmp' = Compacted(blockIndex, payload)
    /\ phase' = "remove"
    /\ UNCHANGED <<main, blockIndex, loading>>

\* Where control goes when a compaction throws: back to the device's command,
\* or out of BlockDeviceInitialize.
Unwind ==
    /\ phase' = IF loading THEN "down" ELSE "idle"
    /\ loading' = FALSE

\* A record cannot be read back, or the temporary file cannot be written.
CopyThrows ==
    /\ phase = "copy"
    /\ \/ Faulty
       \/ \E b \in DOMAIN blockIndex : Throw \in ReadPayload(main, blockIndex[b])
    /\ Unwind
    /\ UNCHANGED <<main, tmp, blockIndex>>

\* std::remove(backingFilePath); a file that is already missing is not an error.
RemoveOld ==
    /\ phase = "remove"
    /\ main' = NoFile
    /\ phase' = "rename"
    /\ UNCHANGED <<tmp, blockIndex, loading>>

RemoveThrows ==
    /\ Faulty
    /\ phase = "remove"
    /\ main # NoFile
    /\ Unwind
    /\ UNCHANGED <<main, tmp, blockIndex>>

\* std::rename, then the new index replaces the one in memory.
RenameTmp ==
    /\ phase = "rename"
    /\ main' = tmp
    /\ tmp' = NoFile
    /\ blockIndex' = [b \in DOMAIN blockIndex |->
                        [headed |-> TRUE, at |-> Layout(blockIndex)[b]]]
    /\ phase' = "idle"
    /\ loading' = FALSE

RenameThrows ==
    /\ Losing
    /\ phase = "rename"
    /\ Unwind
    /\ UNCHANGED <<main, tmp, blockIndex>>

\* The process ends, with or without leave; only the files survive.
Crash ==
    /\ phase # "down"
    /\ phase' = "down"
    /\ blockIndex' = NoEntries
    /\ loading' = FALSE
    /\ UNCHANGED <<main, tmp>>

\* The process ends while an append is being written.
CrashInAppend(b) ==
    /\ phase = "idle"
    /\ LET file == Opened(main)
       IN  file.end < MaxEnd /\ main' = Appended(file, Torn(b))
    /\ phase' = "down"
    /\ blockIndex' = NoEntries
    /\ loading' = FALSE
    /\ UNCHANGED tmp

-----------------------------------------------------------------------------
StoreInit ==
    /\ main \in {NoFile} \cup Images
    /\ tmp = NoFile
    /\ blockIndex = NoEntries
    /\ phase = "down"
    /\ loading = FALSE

\* What the process does between two calls of the device.
Progress ==
    \/ EnsureBackingFileExists
    \/ CreateEmptyBackingFile
    \/ LoadIndex
    \/ LoadFails
    \/ CopyLiveRecords
    \/ CopyThrows
    \/ RemoveOld
    \/ RemoveThrows
    \/ RenameTmp
    \/ RenameThrows

StoreNext ==
    \/ Progress
    \/ \E b \in BlockIds, d \in Data : PersistBlock(b, d)
    \/ \E b \in BlockIds : PersistBlockLost(b) \/ PersistThrows(b)
    \/ BeginRewrite
    \/ Crash
    \/ \E b \in BlockIds : CrashInAppend(b)

StoreSpec == StoreInit /\ [][StoreNext]_storeVars

-----------------------------------------------------------------------------
(* Properties *)

TypeOK ==
    /\ main \in Files \cup {NoFile}
    /\ tmp \in Files \cup {NoFile}
    /\ blockIndex \in Partial(BlockIds, Places)
    /\ phase \in {"down", "create", "load", "idle", "copy", "remove", "rename"}
    /\ loading \in BOOLEAN

\* Whatever the host's file operations do, the index of an image that has a
\* header names whole records of the right blocks, so a restart never serves one
\* block's bytes as another's (load_index trusts the index, lines 282-289).
DiskIndexSound == main # NoFile => IndexSound(main)

\* While the old image is being replaced the temporary file is complete: at no
\* step of rewrite_index_section (lines 379-385) is there no image on disk.
CopyComplete ==
    phase \in {"remove", "rename"} =>
        /\ tmp # NoFile
        /\ tmp.headed
        /\ IndexSound(tmp)
        /\ {e.id : e \in tmp.index} = DOMAIN blockIndex

\* What a restart finds for each block.
Restorable(file) ==
    [b \in BlockIds |->
        LET mine == IF file = NoFile THEN {} ELSE {e \in file.index : e.id = b}
        IN  IF mine = {} THEN {Zero} ELSE {file.recs[e.at].data : e \in mine}]

\* Appends, torn appends, failed compactions and crashes leave what a restart
\* would find as it was: only the replacement of the file changes it.
OnlySwapChangesDisk ==
    [][main # NoFile /\ main.headed /\ phase # "remove"
          => main' # NoFile /\ main'.headed /\ Restorable(main') = Restorable(main)]_storeVars

\* With a host that loses nothing, the index in memory points every
\* block at a whole record of its own.
OwnRecord(file, index) ==
    \A b \in DOMAIN index :
        /\ index[b].headed = file.headed
        /\ index[b].at \in DOMAIN file.recs
        /\ file.recs[index[b].at].id = b
        /\ file.recs[index[b].at].whole
        /\ file.recs[index[b].at].data \in Data

MemoryIndexSound ==
    phase \in {"idle", "copy", "remove"} =>
        main # NoFile /\ main.headed /\ OwnRecord(main, blockIndex)

\* With a host that loses nothing, an image without a header is the
\* one a crash cut short at creation, and holds nothing.
HeaderlessIsEmpty == main # NoFile /\ ~main.headed => main = Blank

\* A compaction ends, in success or by throwing.
RewriteEnds == phase = "copy" ~> phase \in {"idle", "down"}

\* What the machine sees: during the swap the new file already holds it.
LiveFile == IF phase = "rename" THEN tmp ELSE main
LivePlace(b) == IF phase = "rename" THEN Layout(blockIndex)[b] ELSE blockIndex[b].at

Running == phase \in {"idle", "copy", "remove", "rename"}

Seen ==
    [b \in BlockIds |->
        IF Running /\ b \in DOMAIN blockIndex
        THEN LiveFile.recs[LivePlace(b)].data
        ELSE Zero]

Map == INSTANCE BlockMap WITH
    mode <- IF phase = "rename" THEN "swap" ELSE IF Running THEN "up" ELSE "down",
    visible <- Seen,
    durable <- Restorable(main)

\* With a host that loses nothing, though any operation but the rename may fail, the
\* file, its index and the index in memory implement the abstract map.
ImplementsMap == Map!Spec
=============================================================================
