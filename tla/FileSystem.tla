------------------------------ MODULE FileSystem ------------------------------
(***************************************************************************)
(* The guest's file system (rospos/lib/file.rosc) over the block device:   *)
(* a superblock, a directory of one entry, and one block of data, written  *)
(* by separate commands whose outcome the guest never looks at.            *)
(*                                                                         *)
(* The device is the map of blocks (BlockMap) that its backing file        *)
(* implements on a host that loses nothing: one that neither drops an      *)
(* append unseen nor fails between removing the old image and renaming the *)
(* new one (BlockDeviceBacking, Losing = FALSE).  Every other operation of *)
(* the host may fail.  A WRITE is seen at once and is saved by withdrawing *)
(* the old image and publishing a new one; the process may end between any *)
(* two of these, and the user may restart the guest between two commands.  *)
(***************************************************************************)
EXTENDS Integers, Sequences

CONSTANTS
    Bytes,          \* bytes other than zero
    Names,          \* file names, as strings of bytes without the terminator
    Texts,          \* what is written to files, likewise
    NameLen,        \* bytes of a name that an entry holds (32)
    Capacity,       \* bytes of text that a block holds (511)
    FirstDisks,     \* names and texts of the files on the images there are at first
    CommandsFail,   \* whether the host, losing nothing, may fail a command of the device
    MallocFails     \* whether the guest's heap may be exhausted

ASSUME StringsAssumption == Names \subseteq Seq(Bytes) /\ Texts \subseteq Seq(Bytes)
ASSUME LengthsAssumption == NameLen \in Nat /\ Capacity \in Nat
ASSUME DisksAssumption == FirstDisks \subseteq Names \X Texts
ASSUME FailuresAssumption == CommandsFail \in BOOLEAN /\ MallocFails \in BOOLEAN

VARIABLES
    mode, visible, durable,     \* the device: see BlockMap
    call,           \* the function the guest is in, and the command it is at
    saving,         \* whether the block of its WRITE is stored and not yet saved
    buffer,         \* the string in the buffer the guest passes to read_file
    answer,         \* the read_file that has just returned, and whether its commands succeeded
    last,           \* history: the arguments of the last write_file
    clean           \* history: nothing failed or was cut short since

deviceVars == <<mode, visible, durable>>
guestVars == <<call, saving, buffer, answer>>
vars == <<deviceVars, guestVars, last, clean>>

-----------------------------------------------------------------------------
(* Blocks *)

Cut(s, n) == SubSeq(s, 1, IF Len(s) < n THEN Len(s) ELSE n)

Blank == [kind |-> "blank", name |-> <<>>, size |-> 0, text |-> <<>>]
Super == [kind |-> "super", name |-> <<>>, size |-> 0, text |-> <<>>]

\* The directory holds one entry; a longer name is cut and not terminated.
Entry(name, text) ==
    [kind |-> "entry", name |-> Cut(name, NameLen), size |-> Len(text), text |-> <<>>]

Stored(text) == [kind |-> "text", name |-> <<>>, size |-> 0, text |-> Cut(text, Capacity)]

Superblock == 0
Directory == 1
FileData == 2

Contents ==
    {Blank, Super}
    \cup {Entry(n, t) : n \in Names, t \in Texts}
    \cup {Stored(t) : t \in UNION {[1..n -> Bytes] : n \in 0..Capacity}}

Map == INSTANCE BlockMap WITH BlockIds <- 0..2, Data <- Contents, Zero <- Blank

Disk(name, text) ==
    [b \in 0..2 |-> CASE b = Superblock -> Super
                      [] b = Directory -> Entry(name, text)
                      [] b = FileData -> Stored(text)]
-----------------------------------------------------------------------------
(* Calls *)

\* size is that of the entry a read has found, and sound that no READ of it has failed.
Call(op, at, name, text, size, sound) ==
    [op |-> op, at |-> at, name |-> name, text |-> text, size |-> size, sound |-> sound]
Idle == Call("none", "none", <<>>, <<>>, 0, TRUE)
NoAnswer == [name |-> <<>>, sound |-> FALSE]

\* Between two commands of the running guest.
Ready == mode = "up" /\ ~saving

\* A call begins, unless malloc has nothing for its block and it returns at once.
Begin(op, at, name, text) ==
    /\ Ready /\ call = Idle
    /\ answer' = NoAnswer
    /\ call' \in {Call(op, at, name, text, 0, TRUE)}
                  \cup (IF MallocFails THEN {Idle} ELSE {})
    /\ UNCHANGED <<deviceVars, saving>>

InitializeFilesystem ==
    /\ Begin("format", "super", <<>>, <<>>)
    /\ UNCHANGED <<buffer, last, clean>>

EnsureFilesystemInitialized ==
    /\ Begin("ensure", "check", <<>>, <<>>)
    /\ UNCHANGED <<buffer, last, clean>>

WriteFile(name, text) ==
    /\ Begin("write", "entry", name, text)
    /\ last' = <<name, text>>
    /\ clean' = (call' # Idle)
    /\ UNCHANGED buffer

\* The guest passes a buffer of its own, fresh or used before.
ReadFile(name, fresh) ==
    /\ Begin("read", "lookup", name, <<>>)
    /\ buffer' = IF fresh \/ call' = Idle THEN <<>> ELSE buffer
    /\ UNCHANGED <<last, clean>>

-----------------------------------------------------------------------------
(* WRITE commands *)

Writing == call.at \in {"super", "entry", "text"}

\* (mutant) The data goes to the block of the directory.
TargetNoGap == IF call.at = "super" THEN Superblock ELSE Directory

Target == CASE call.at = "super" -> Superblock
            [] call.at = "entry" -> Directory
            [] call.at = "text"  -> FileData

\* (mutant) The scratch block still holds the directory entry when the text is put in it.
BlockUncleared ==
    CASE call.at = "super" -> Super
      [] call.at = "entry" -> Entry(call.name, call.text)
      [] call.at = "text"  ->
            Stored(call.text \o SubSeq(call.name, Len(call.text) + 1, Len(call.name)))

Block == CASE call.at = "super" -> Super
           [] call.at = "entry" -> Entry(call.name, call.text)
           [] call.at = "text"  -> Stored(call.text)

\* The next command, or the return. Status is not looked at.
Advance == call' = IF call.at = "entry"
                   THEN Call("write", "text", call.name, call.text, 0, TRUE)
                   ELSE Idle

StoreBlock ==
    /\ Writing /\ Ready
    /\ Map!Write(Target, Block)
    /\ saving' = TRUE
    /\ UNCHANGED <<call, buffer, answer, last, clean>>

WithdrawImage ==
    /\ saving
    /\ Map!Withdraw
    /\ UNCHANGED <<guestVars, last, clean>>

PublishImage ==
    /\ saving
    /\ Map!Publish
    /\ saving' = FALSE
    /\ Advance
    /\ UNCHANGED <<buffer, answer, last, clean>>

\* The command ends in Error: the append throws and the block is not stored, or the
\* compaction throws before it has removed the old image and the block is not saved.
WriteFails ==
    /\ CommandsFail
    /\ Writing /\ mode = "up"
    /\ saving' = FALSE
    /\ clean' = FALSE
    /\ Advance
    /\ UNCHANGED <<deviceVars, buffer, answer, last>>

-----------------------------------------------------------------------------
(* READ commands *)

\* What a READ leaves in a buffer: the block, or what was there before.
Arrives(block, before) == {block} \cup (IF CommandsFail THEN {before} ELSE {})

\* ensure_filesystem_initialized: a superblock without the magic number is written,
\* if initialize_filesystem gets memory for it.
CheckMagic ==
    /\ call.at = "check" /\ Ready
    /\ \E block \in Arrives(visible[Superblock], Blank) :
          IF block = Super THEN call' = Idle
          ELSE call' \in {Call("ensure", "super", <<>>, <<>>, 0, TRUE)}
                             \cup (IF MallocFails THEN {Idle} ELSE {})
    /\ UNCHANGED <<deviceVars, saving, buffer, answer, last, clean>>

\* (mutant) All of the name is compared.
MatchesWhole(entry, name) == entry.name = name

\* The comparison ends with the name or after NameLen bytes.
Matches(entry, name) == entry.name = Cut(name, NameLen)

\* The buffer of the entry is fresh: a READ that fails leaves zeros in it, which is
\* the empty name.
Lookup ==
    /\ call.at = "lookup" /\ Ready
    /\ \E entry \in Arrives(visible[Directory], Blank) :
          LET sound == entry = visible[Directory]
          IN  IF Matches(entry, call.name)
              THEN /\ call' = Call("read", "fetch", call.name, <<>>, entry.size, sound)
                   /\ UNCHANGED <<buffer, answer>>
              ELSE /\ call' = Idle
                   /\ buffer' = <<>>
                   /\ answer' = [name |-> call.name, sound |-> sound]
    /\ UNCHANGED <<deviceVars, saving, last, clean>>

\* The text ends at its own terminator, or where the entry or the buffer ends.
Fetch ==
    /\ call.at = "fetch" /\ Ready
    /\ \E text \in Arrives(visible[FileData].text, buffer) :
          /\ buffer' = Cut(Cut(text, call.size), Capacity)
          /\ answer' = [name |-> call.name,
                        sound |-> call.sound /\ text = visible[FileData].text]
    /\ call' = Idle
    /\ UNCHANGED <<deviceVars, saving, last, clean>>

-----------------------------------------------------------------------------
(* The machine around the guest *)

\* BlockDeviceInitialize finds what the last process saved, and a fresh guest starts.
StartProcess ==
    /\ Map!Start
    /\ UNCHANGED <<guestVars, last, clean>>

Abandon ==
    /\ call' = Idle
    /\ buffer' = <<>>
    /\ answer' = NoAnswer

\* The user loads the program again; the device stays as it is.
RestartGuest ==
    /\ Ready /\ call # Idle
    /\ Abandon
    /\ clean' = (clean /\ call.op # "write")
    /\ UNCHANGED <<deviceVars, saving, last>>

\* A file is lost if the process ends while it is written or while no image is saved.
EndProcess ==
    /\ Map!Crash
    /\ Abandon
    /\ saving' = FALSE
    /\ clean' = (clean /\ call.op # "write" /\ mode # "swap")
    /\ UNCHANGED last

-----------------------------------------------------------------------------

NoFile == <<>>

FileSystemInit ==
    /\ mode = "down"
    /\ visible = Map!Fresh
    /\ \/ durable = Map!Certain(Map!Fresh)
       \/ \E disk \in FirstDisks : durable = Map!Certain(Disk(disk[1], disk[2]))
    /\ call = Idle /\ saving = FALSE
    /\ buffer = <<>> /\ answer = NoAnswer
    /\ last = NoFile
    /\ clean = FALSE

Guest ==
    \/ InitializeFilesystem
    \/ EnsureFilesystemInitialized
    \/ \E name \in Names, text \in Texts : WriteFile(name, text)
    \/ \E name \in Names, fresh \in BOOLEAN : ReadFile(name, fresh)

Command ==
    \/ StoreBlock \/ WithdrawImage \/ PublishImage \/ WriteFails
    \/ CheckMagic \/ Lookup \/ Fetch

FileSystemNext == Guest \/ Command \/ StartProcess \/ RestartGuest \/ EndProcess

FileSystemSpec == FileSystemInit /\ [][FileSystemNext]_vars

-----------------------------------------------------------------------------
(* Properties *)

Calls ==
    [op : {"none", "format", "ensure", "write", "read"},
     at : {"none", "super", "entry", "text", "check", "lookup", "fetch"},
     name : Names \cup {<<>>}, text : Texts \cup {<<>>}, size : Nat, sound : BOOLEAN]

\* What the places of the three blocks hold, if not zeros.
Held(b) ==
    {Blank} \cup CASE b = Superblock -> {Super}
                   [] b = Directory -> {Entry(n, t) : n \in Names, t \in Texts}
                   [] b = FileData -> {Stored(t) : t \in Texts}

\* On a host that loses nothing, every block holds what belongs in its place, and a
\* restart finds one content of it, though directory and data are written by commands
\* that may each fail or be cut short (write_file, initialize_filesystem).
FileSystemTypeOK ==
    /\ mode \in {"down", "up", "swap"}
    /\ visible \in [0..2 -> Contents] /\ durable \in [0..2 -> SUBSET Contents]
    /\ \A b \in 0..2 : visible[b] \in Held(b) /\ durable[b] \in {{c} : c \in Held(b)}
    /\ call \in Calls
    /\ saving \in BOOLEAN /\ (saving => mode # "down" /\ Writing)
    /\ answer \in [name : Names \cup {<<>>}, sound : BOOLEAN]
    /\ last \in {NoFile} \cup (Names \X Texts)
    /\ clean \in BOOLEAN

\* A file that was written without a failure, an exhausted heap or an end in between is
\* read back, cut to what a block holds, under every name that agrees in the bytes an
\* entry holds, and no other name finds anything: before and after any formatting,
\* restart of the guest or end of the process, and whatever was torn before it was
\* written (write_file, read_file, initialize_filesystem).
ReadsBack ==
    clean /\ last # NoFile /\ answer.sound =>
        buffer = IF Cut(answer.name, NameLen) = Cut(last[1], NameLen)
                 THEN Cut(last[2], Capacity)
                 ELSE <<>>

\* On a host that loses nothing: whichever commands fail, and wherever the guest or the
\* process is cut short, what read_file leaves is the beginning of one text that was
\* written, never parts of two, though the directory, the data and the caller's buffer
\* may each be of another file.
NeverMixes ==
    \E text \in Texts \cup {<<>>} : \E n \in 0 .. Len(text) : buffer = SubSeq(text, 1, n)
=============================================================================
