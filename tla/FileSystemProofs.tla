--------------------------- MODULE FileSystemProofs ---------------------------
(***************************************************************************)
(* Proofs about the guest's file system, for any names and texts and any   *)
(* lengths that an entry and a block hold, whichever commands fail on a    *)
(* host that loses nothing: the device is BlockMap, and the backing file   *)
(* is shown to implement BlockMap on such a host (BackingImplementsMap in  *)
(* BlockDeviceBackingProofs assumes ~Losing).                              *)
(***************************************************************************)
EXTENDS FileSystem, SequenceTheorems, TLAPS

-----------------------------------------------------------------------------
(* Strings and blocks *)

LEMMA CutProperties ==
    ASSUME NEW S, NEW s \in Seq(S), NEW n \in Nat
    PROVE  /\ Cut(s, n) \in Seq(S)
           /\ Len(Cut(s, n)) = IF Len(s) < n THEN Len(s) ELSE n
           /\ \A i \in 1 .. Len(Cut(s, n)) : Cut(s, n)[i] = s[i]
           /\ \E k \in 0 .. Len(s) : Cut(s, n) = SubSeq(s, 1, k)
<1> DEFINE k == IF Len(s) < n THEN Len(s) ELSE n
<1>1. k \in 0 .. Len(s)
  BY DEF k
<1>2. Cut(s, n) = SubSeq(s, 1, k)
  BY DEF Cut
<1> HIDE DEF k
<1>3. SubSeq(s, 1, k) \in Seq(S) /\ Len(SubSeq(s, 1, k)) = k
  BY <1>1
<1>4. \A i \in 1 .. k : SubSeq(s, 1, k)[i] = s[i]
  BY <1>1
<1> QED
  BY <1>1, <1>2, <1>3, <1>4 DEF k

\* Two cuts are one.
LEMMA CutCut ==
    ASSUME NEW S, NEW s \in Seq(S), NEW a \in Nat, NEW b \in Nat, NEW c \in Nat,
           c = IF Len(Cut(s, a)) < b THEN Len(Cut(s, a)) ELSE b
    PROVE  Cut(Cut(s, a), b) = SubSeq(s, 1, c) /\ c <= Len(s)
<1>1. /\ Cut(s, a) \in Seq(S)
      /\ \A i \in 1 .. Len(Cut(s, a)) : Cut(s, a)[i] = s[i]
      /\ Len(Cut(s, a)) = IF Len(s) < a THEN Len(s) ELSE a
  BY CutProperties
<1> DEFINE t == Cut(s, a)
<1>2. t \in Seq(S) /\ Len(t) <= Len(s) /\ c <= Len(t) /\ Cut(t, b) = SubSeq(t, 1, c)
  BY <1>1 DEF Cut
<1>3. \A i \in 1 .. Len(t) : t[i] = s[i]
  BY <1>1
<1> HIDE DEF t
<1>4. SubSeq(t, 1, c) \in Seq(S) /\ Len(SubSeq(t, 1, c)) = c
  BY <1>2
<1>5. SubSeq(s, 1, c) \in Seq(S) /\ Len(SubSeq(s, 1, c)) = c
  BY <1>2
<1>6. \A i \in 1 .. c : SubSeq(t, 1, c)[i] = SubSeq(s, 1, c)[i]
  BY <1>2, <1>3
<1>7. SubSeq(t, 1, c) = SubSeq(s, 1, c)
  BY <1>4, <1>5, <1>6, SeqEqual
<1> QED
  BY <1>2, <1>7 DEF t

LEMMA CutOnce ==
    ASSUME NEW S, NEW s \in Seq(S), NEW a \in Nat, NEW b \in Nat, b = Len(s) \/ b >= a
    PROVE  Cut(Cut(s, a), b) = Cut(s, a)
<1> DEFINE c == IF Len(Cut(s, a)) < b THEN Len(Cut(s, a)) ELSE b
<1>1. Len(Cut(s, a)) = IF Len(s) < a THEN Len(s) ELSE a
  BY CutProperties
<1>2. c \in Nat /\ c = Len(Cut(s, a))
  BY <1>1
<1>3. Cut(Cut(s, a), b) = SubSeq(s, 1, c)
  BY <1>2, CutCut
<1>4. Cut(s, a) = SubSeq(s, 1, c)
  BY <1>1, <1>2 DEF Cut
<1> QED
  BY <1>3, <1>4
-----------------------------------------------------------------------------
(* Types *)

\* What the control state says of the call, beyond its type.
CallInv ==
    /\ call.at = "none" => call = Idle
    /\ call.op \in {"format", "ensure"} <=> call.at \in {"super", "check"}
    /\ call.op = "write" <=> call.at \in {"entry", "text"}
    /\ call.op = "read" <=> call.at \in {"lookup", "fetch"}
    /\ call.op = "write" => call.name \in Names /\ call.text \in Texts
    /\ mode = "down" => call = Idle
    /\ mode = "swap" => saving

TypeInv == FileSystemTypeOK /\ CallInv

LEMMA HeldProperties ==
    /\ Held(Superblock) = {Blank, Super}
    /\ Held(Directory) = {Blank} \cup {Entry(n, t) : n \in Names, t \in Texts}
    /\ Held(FileData) = {Blank} \cup {Stored(t) : t \in Texts}
    /\ \A b \in 0..2 : Held(b) \subseteq Contents
<1>1. /\ Held(Superblock) = {Blank, Super}
      /\ Held(Directory) = {Blank} \cup {Entry(n, t) : n \in Names, t \in Texts}
      /\ Held(FileData) = {Blank} \cup {Stored(t) : t \in Texts}
  BY DEF Held, Superblock, Directory, FileData
<1>2. ASSUME NEW t \in Texts PROVE Stored(t) \in Contents
  <2> DEFINE c == Cut(t, Capacity)
  <2>1. t \in Seq(Bytes)
    BY StringsAssumption
  <2>2. c \in Seq(Bytes) /\ Len(c) \in 0..Capacity
    BY <2>1, CutProperties, LengthsAssumption
  <2>3. c \in [1..Len(c) -> Bytes]
    BY <2>2
  <2>4. Cut(c, Capacity) = c
    BY <2>1, CutOnce, LengthsAssumption
  <2>5. Stored(t) = Stored(c)
    BY <2>4 DEF Stored
  <2> HIDE DEF c
  <2>6. c \in UNION {[1..n -> Bytes] : n \in 0..Capacity}
    BY <2>2, <2>3
  <2> QED
    BY <2>5, <2>6 DEF Contents
<1>3. \A b \in 0..2 : b \in {Superblock, Directory, FileData}
  BY DEF Superblock, Directory, FileData
<1> QED
  BY <1>1, <1>2, <1>3 DEF Contents

LEMMA TargetHolds ==
    ASSUME TypeInv, Writing
    PROVE  Target \in 0..2 /\ Block \in Held(Target)
<1>1. CASE call.at = "super"
  <2>1. Target = Superblock /\ Block = Super
    BY <1>1 DEF Target, Block
  <2> QED
    BY <2>1, HeldProperties DEF Superblock
<1>2. CASE call.at = "entry"
  <2>1. Target = Directory /\ Block = Entry(call.name, call.text)
    BY <1>2 DEF Target, Block
  <2>2. call.name \in Names /\ call.text \in Texts
    BY <1>2 DEF TypeInv, CallInv
  <2> QED
    BY <2>1, <2>2, HeldProperties DEF Directory
<1>3. CASE call.at = "text"
  <2>1. Target = FileData /\ Block = Stored(call.text)
    BY <1>3 DEF Target, Block
  <2>2. call.text \in Texts
    BY <1>3 DEF TypeInv, CallInv
  <2> QED
    BY <2>1, <2>2, HeldProperties DEF FileData
<1> QED
  BY <1>1, <1>2, <1>3 DEF Writing

LEMMA EntrySize ==
    ASSUME NEW entry \in {Blank} \cup {Entry(n, t) : n \in Names, t \in Texts}
    PROVE  entry.size \in Nat
<1>1. CASE entry = Blank
  BY <1>1 DEF Blank
<1>2. ASSUME NEW n \in Names, NEW t \in Texts, entry = Entry(n, t) PROVE entry.size \in Nat
  <2>1. entry.size = Len(t)
    BY <1>2 DEF Entry
  <2> QED
    BY <2>1, StringsAssumption
<1> QED
  BY <1>1, <1>2

\* The part of the type invariant about the device, and the part about the guest.
DeviceOK ==
    /\ mode \in {"down", "up", "swap"}
    /\ visible \in [0..2 -> Contents] /\ durable \in [0..2 -> SUBSET Contents]
    /\ \A b \in 0..2 : visible[b] \in Held(b) /\ durable[b] \in {{c} : c \in Held(b)}

GuestOK ==
    /\ call \in Calls
    /\ saving \in BOOLEAN /\ (saving => mode # "down" /\ Writing)
    /\ answer \in [name : Names \cup {<<>>}, sound : BOOLEAN]
    /\ last \in {NoFile} \cup (Names \X Texts)
    /\ clean \in BOOLEAN
    /\ CallInv

LEMMA TypeParts == TypeInv <=> DeviceOK /\ GuestOK
  BY DEF TypeInv, FileSystemTypeOK, DeviceOK, GuestOK

LEMMA IdleFits == Idle \in Calls /\ NoAnswer \in [name : Names \cup {<<>>}, sound : BOOLEAN]
  BY DEF Idle, Call, Calls, NoAnswer

LEMMA InitTypes == FileSystemInit => TypeInv
<1> SUFFICES ASSUME FileSystemInit PROVE TypeInv
  OBVIOUS
<1> USE DEF FileSystemInit
<1>1. visible = [b \in 0..2 |-> Blank] /\ \A b \in 0..2 : Blank \in Held(b)
  BY DEF Map!Fresh, Held
<1>2. visible \in [0..2 -> Contents]
  BY <1>1 DEF Contents
<1>3. durable \in [0..2 -> SUBSET Contents] /\ \A b \in 0..2 : durable[b] \in {{c} : c \in Held(b)}
  <2>1. ASSUME NEW m \in [0..2 -> Contents], \A b \in 0..2 : m[b] \in Held(b)
        PROVE  /\ Map!Certain(m) \in [0..2 -> SUBSET Contents]
               /\ \A b \in 0..2 : Map!Certain(m)[b] \in {{c} : c \in Held(b)}
    BY <2>1 DEF Map!Certain
  <2>2. CASE durable = Map!Certain(Map!Fresh)
    <3>1. Map!Fresh = visible
      OBVIOUS
    <3> QED
      BY <1>1, <1>2, <2>1, <2>2, <3>1
  <2>3. ASSUME NEW n \in Names, NEW t \in Texts, durable = Map!Certain(Disk(n, t))
        PROVE  <1>3!:
    <3>1. Disk(n, t) = [b \in 0..2 |-> CASE b = Superblock -> Super
                                         [] b = Directory -> Entry(n, t)
                                         [] b = FileData -> Stored(t)]
      BY DEF Disk
    <3>2. /\ Disk(n, t)[Superblock] = Super /\ Disk(n, t)[Directory] = Entry(n, t)
          /\ Disk(n, t)[FileData] = Stored(t)
          /\ DOMAIN Disk(n, t) = 0..2
          /\ Disk(n, t) = [b \in 0..2 |-> Disk(n, t)[b]]
      BY <3>1 DEF Superblock, Directory, FileData
    <3>3. \A b \in 0..2 : Disk(n, t)[b] \in Held(b)
      BY <3>2, HeldProperties DEF Superblock, Directory, FileData
    <3>4. Disk(n, t) \in [0..2 -> Contents]
      BY <3>2, <3>3, HeldProperties
    <3> QED
      BY <2>1, <2>3, <3>3, <3>4
  <2> QED
    BY <2>2, <2>3, DisksAssumption
<1>4. DeviceOK
  BY <1>1, <1>2, <1>3 DEF DeviceOK
<1>5. GuestOK
  BY IdleFits DEF GuestOK, CallInv, Idle, Call, NoFile, Writing
<1> QED
  BY <1>4, <1>5, TypeParts

LEMMA CertainFits ==
    ASSUME NEW m \in [0..2 -> Contents], \A b \in 0..2 : m[b] \in Held(b)
    PROVE  /\ Map!Certain(m) \in [0..2 -> SUBSET Contents]
           /\ \A b \in 0..2 : Map!Certain(m)[b] \in {{c} : c \in Held(b)}
  BY DEF Map!Certain

LEMMA FreshFits == Map!Fresh \in [0..2 -> Contents] /\ \A b \in 0..2 : Map!Fresh[b] \in Held(b)
  BY DEF Map!Fresh, Held, Contents

\* The device keeps its types: every step of the map of blocks, and a command that fails.
LEMMA DeviceSteps ==
    ASSUME TypeInv,
           \/ UNCHANGED deviceVars
           \/ StoreBlock \/ Map!Withdraw \/ Map!Publish \/ Map!Start \/ Map!Crash \/ WriteFails
    PROVE  DeviceOK'
<1> USE TypeParts
<1>1. CASE UNCHANGED deviceVars
  BY <1>1 DEF DeviceOK, deviceVars
<1>2. CASE StoreBlock
  <2>1. Target \in 0..2 /\ Block \in Held(Target) /\ Held(Target) \subseteq Contents
    BY <1>2, TargetHolds, HeldProperties DEF StoreBlock
  <2>2. visible' = [visible EXCEPT ![Target] = Block] /\ UNCHANGED <<mode, durable>>
    BY <1>2 DEF StoreBlock, Map!Write
  <2> QED
    BY <2>1, <2>2 DEF DeviceOK
<1>3. CASE Map!Withdraw
  BY <1>3, FreshFits, CertainFits DEF DeviceOK, Map!Withdraw
<1>4. CASE Map!Publish
  BY <1>4, CertainFits DEF DeviceOK, Map!Publish
<1>5. CASE Map!Start
  <2>1. visible' \in [0..2 -> Contents] /\ \A b \in 0..2 : visible'[b] \in durable[b]
    BY <1>5 DEF Map!Start, Map!Maps
  <2>2. ASSUME NEW b \in 0..2 PROVE visible'[b] \in Held(b)
    <3>1. PICK c \in Held(b) : durable[b] = {c}
      BY DEF DeviceOK
    <3> QED
      BY <2>1, <3>1
  <2> QED
    BY <1>5, <2>1, <2>2 DEF DeviceOK, Map!Start
<1>6. CASE Map!Crash
  BY <1>6, FreshFits DEF DeviceOK, Map!Crash
<1>7. CASE WriteFails
  BY <1>7 DEF DeviceOK, WriteFails, deviceVars
<1> QED
  BY <1>1, <1>2, <1>3, <1>4, <1>5, <1>6, <1>7

LEMMA CallTypes ==
    ASSUME NEW op \in {"format", "ensure", "write", "read"},
           NEW at \in {"super", "entry", "check", "lookup"},
           NEW name \in Names \cup {<<>>}, NEW text \in Texts \cup {<<>>},
           Begin(op, at, name, text)
    PROVE  /\ call' = Call(op, at, name, text, 0, TRUE) \/ (call' = Idle /\ MallocFails)
           /\ call' \in Calls
           /\ mode = "up" /\ mode' = "up" /\ ~saving /\ saving' = saving
           /\ answer' = NoAnswer
           /\ UNCHANGED deviceVars
           /\ call = Idle
<1>1. call' = Call(op, at, name, text, 0, TRUE) \/ (call' = Idle /\ MallocFails)
  BY DEF Begin
<1>2. call' \in Calls
  <2>1. Call(op, at, name, text, 0, TRUE) \in Calls
    BY DEF Calls, Call
  <2> QED
    BY <1>1, <2>1, IdleFits
<1>3. /\ mode = "up" /\ mode' = "up" /\ saving' = saving /\ ~saving
      /\ answer' = NoAnswer /\ UNCHANGED deviceVars /\ call = Idle
  BY DEF Begin, Ready, deviceVars
<1> QED
  BY <1>1, <1>2, <1>3

LEMMA AdvanceTypes ==
    ASSUME TypeInv, Writing, Advance
    PROVE  /\ call' \in Calls
           /\ \/ call' = Idle /\ call.at # "entry"
              \/ /\ call.at = "entry" /\ call.op = "write"
                 /\ call' = Call("write", "text", call.name, call.text, 0, TRUE)
<1> USE TypeParts DEF GuestOK
<1>1. CASE call.at = "entry"
  <2>1. call' = Call("write", "text", call.name, call.text, 0, TRUE)
    BY <1>1 DEF Advance
  <2> QED
    BY <1>1, <2>1 DEF Call, Calls, CallInv
<1>2. CASE call.at # "entry"
  BY <1>2, IdleFits DEF Advance
<1> QED
  BY <1>1, <1>2

LEMMA GuestBegins ==
    ASSUME TypeInv, Guest
    PROVE  GuestOK' /\ UNCHANGED deviceVars
<1> USE TypeParts
<1>0. /\ call \in Calls /\ saving \in BOOLEAN /\ last \in {NoFile} \cup (Names \X Texts)
      /\ clean \in BOOLEAN
  BY DEF GuestOK
<1>1. CASE InitializeFilesystem
  <2>1. Begin("format", "super", <<>>, <<>>) /\ last' = last /\ clean' = clean
    BY <1>1 DEF InitializeFilesystem
  <2> QED
    BY <1>0, <2>1, CallTypes, IdleFits DEF GuestOK, CallInv, Idle, Call, Writing
<1>2. CASE EnsureFilesystemInitialized
  <2>1. Begin("ensure", "check", <<>>, <<>>) /\ last' = last /\ clean' = clean
    BY <1>2 DEF EnsureFilesystemInitialized
  <2> QED
    BY <1>0, <2>1, CallTypes, IdleFits DEF GuestOK, CallInv, Idle, Call, Writing
<1>3. ASSUME NEW name \in Names, NEW text \in Texts, WriteFile(name, text) PROVE GuestOK' /\ UNCHANGED deviceVars
  <2>1. Begin("write", "entry", name, text) /\ last' = <<name, text>> /\ clean' = (call' # Idle)
    BY <1>3 DEF WriteFile
  <2> QED
    BY <1>0, <2>1, CallTypes, IdleFits DEF GuestOK, CallInv, Idle, Call, Writing
<1>4. ASSUME NEW name \in Names, NEW fresh \in BOOLEAN, ReadFile(name, fresh) PROVE GuestOK' /\ UNCHANGED deviceVars
  <2>1. Begin("read", "lookup", name, <<>>) /\ last' = last /\ clean' = clean
    BY <1>4 DEF ReadFile
  <2> QED
    BY <1>0, <2>1, CallTypes, IdleFits DEF GuestOK, CallInv, Idle, Call, Writing
<1> QED
  BY <1>1, <1>2, <1>3, <1>4 DEF Guest

LEMMA CommandTypes ==
    ASSUME TypeInv, Command
    PROVE  GuestOK'
<1> USE TypeParts
<1>0. /\ call \in Calls /\ saving \in BOOLEAN /\ last \in {NoFile} \cup (Names \X Texts)
      /\ clean \in BOOLEAN /\ answer \in [name : Names \cup {<<>>}, sound : BOOLEAN]
      /\ mode \in {"down", "up", "swap"} /\ (saving => mode # "down" /\ Writing)
  BY DEF GuestOK, DeviceOK
<1>1. CASE StoreBlock
  <2>1. /\ Writing /\ mode = "up" /\ mode' = "up" /\ saving' = TRUE
        /\ UNCHANGED <<call, answer, last, clean>>
    BY <1>1 DEF StoreBlock, Ready, Map!Write
  <2> QED
    BY <1>0, <2>1 DEF GuestOK, CallInv, Writing
<1>2. CASE WithdrawImage
  <2>1. saving /\ mode = "up" /\ mode' = "swap" /\ UNCHANGED <<saving, call, answer, last, clean>>
    BY <1>2 DEF WithdrawImage, Map!Withdraw, guestVars
  <2> QED
    BY <1>0, <2>1 DEF GuestOK, CallInv, Writing
<1>3. CASE PublishImage
  <2>1. Writing /\ Advance /\ mode' = "up" /\ saving' = FALSE /\ UNCHANGED <<answer, last, clean>>
    BY <1>0, <1>3 DEF PublishImage, Map!Publish
  <2>2. call' \in Calls /\ (call' = Idle \/ call' = Call("write", "text", call.name, call.text, 0, TRUE))
    BY <2>1, AdvanceTypes
  <2>3. call' # Idle => call.name \in Names /\ call.text \in Texts
    BY <2>1, AdvanceTypes DEF GuestOK, CallInv
  <2>4. CASE call' = Idle
    BY <1>0, <2>1, <2>2, <2>4 DEF GuestOK, CallInv, Idle, Call
  <2>5. CASE call' = Call("write", "text", call.name, call.text, 0, TRUE) /\ call' # Idle
    <3>1. /\ call'.op = "write" /\ call'.at = "text" /\ call'.name = call.name /\ call'.text = call.text
      BY <2>5 DEF Call
    <3>2. CallInv'
      BY <2>1, <2>3, <2>5, <3>1 DEF CallInv
    <3> QED
      BY <1>0, <2>1, <2>2, <3>2 DEF GuestOK
  <2> QED
    BY <2>2, <2>4, <2>5
<1>4. CASE WriteFails
  <2>1. Writing /\ Advance /\ mode' = "up" /\ saving' = FALSE /\ clean' = FALSE /\ UNCHANGED <<answer, last>>
    BY <1>4 DEF WriteFails, deviceVars
  <2>2. call' \in Calls /\ (call' = Idle \/ call' = Call("write", "text", call.name, call.text, 0, TRUE))
    BY <2>1, AdvanceTypes
  <2>3. call' # Idle => call.name \in Names /\ call.text \in Texts
    BY <2>1, AdvanceTypes DEF GuestOK, CallInv
  <2>4. CASE call' = Idle
    BY <1>0, <2>1, <2>2, <2>4 DEF GuestOK, CallInv, Idle, Call
  <2>5. CASE call' = Call("write", "text", call.name, call.text, 0, TRUE) /\ call' # Idle
    <3>1. /\ call'.op = "write" /\ call'.at = "text" /\ call'.name = call.name /\ call'.text = call.text
      BY <2>5 DEF Call
    <3>2. CallInv'
      BY <2>1, <2>3, <2>5, <3>1 DEF CallInv
    <3> QED
      BY <1>0, <2>1, <2>2, <3>2 DEF GuestOK
  <2> QED
    BY <2>2, <2>4, <2>5
<1>5. CASE CheckMagic
  <2>1. /\ call' = Idle \/ call' = Call("ensure", "super", <<>>, <<>>, 0, TRUE)
        /\ ~saving /\ mode = "up" /\ mode' = mode /\ UNCHANGED <<saving, answer, last, clean>>
    BY <1>5 DEF CheckMagic, Ready, deviceVars
  <2>2. Call("ensure", "super", <<>>, <<>>, 0, TRUE) \in Calls
    BY DEF Calls, Call
  <2>3. call' \in Calls
    BY <2>1, <2>2, IdleFits
  <2> QED
    BY <1>0, <2>1, <2>3 DEF GuestOK, CallInv, Idle, Call
<1>6. CASE Lookup
  <2>1. PICK entry \in Arrives(visible[Directory], Blank) :
          LET sound == entry = visible[Directory]
          IN  IF Matches(entry, call.name)
              THEN /\ call' = Call("read", "fetch", call.name, <<>>, entry.size, sound)
                   /\ UNCHANGED <<buffer, answer>>
              ELSE /\ call' = Idle
                   /\ buffer' = <<>>
                   /\ answer' = [name |-> call.name, sound |-> sound]
    BY <1>6 DEF Lookup
  <2>2. entry \in {Blank} \cup {Entry(n, t) : n \in Names, t \in Texts}
    <3>1. visible[Directory] \in Held(Directory)
      BY DEF DeviceOK, Directory
    <3> QED
      BY <2>1, <3>1, HeldProperties DEF Arrives
  <2>3. entry.size \in Nat
    BY <2>2, EntrySize
  <2> DEFINE sound == entry = visible[Directory]
  <2>4. sound \in BOOLEAN
    OBVIOUS
  <2> HIDE DEF sound
  <2>5. /\ ~saving /\ mode = "up" /\ mode' = mode /\ UNCHANGED <<saving, last, clean>>
    BY <1>6 DEF Lookup, Ready, deviceVars
  <2>6. \/ call' = Call("read", "fetch", call.name, <<>>, entry.size, sound) /\ answer' = answer
        \/ call' = Idle /\ answer' = [name |-> call.name, sound |-> sound]
    BY <2>1 DEF sound
  <2>7. call.name \in Names \cup {<<>>}
    BY <1>0 DEF Calls
  <2>8. Call("read", "fetch", call.name, <<>>, entry.size, sound) \in Calls
    BY <2>3, <2>4, <2>7 DEF Calls, Call
  <2>9. call' \in Calls /\ answer' \in [name : Names \cup {<<>>}, sound : BOOLEAN]
    BY <1>0, <2>4, <2>6, <2>7, <2>8, IdleFits
  <2>10. CallInv'
    BY <2>5, <2>6 DEF CallInv, Idle, Call
  <2> QED
    BY <1>0, <2>5, <2>9, <2>10 DEF GuestOK
<1>7. CASE Fetch
  <2>1. PICK text \in Arrives(visible[FileData].text, buffer) :
          answer' = [name |-> call.name, sound |-> call.sound /\ text = visible[FileData].text]
    BY <1>7 DEF Fetch
  <2>2. /\ ~saving /\ mode = "up" /\ mode' = mode /\ call' = Idle
        /\ UNCHANGED <<saving, last, clean>>
    BY <1>7 DEF Fetch, Ready, deviceVars
  <2>3. call.name \in Names \cup {<<>>} /\ call.sound \in BOOLEAN
    BY <1>0 DEF Calls
  <2>4. answer' \in [name : Names \cup {<<>>}, sound : BOOLEAN]
    BY <2>1, <2>3
  <2>5. CallInv'
    BY <2>2 DEF CallInv, Idle, Call
  <2> QED
    BY <1>0, <2>2, <2>4, <2>5, IdleFits DEF GuestOK
<1> QED
  BY <1>1, <1>2, <1>3, <1>4, <1>5, <1>6, <1>7 DEF Command

LEMMA NextTypes == TypeInv /\ [FileSystemNext]_vars => TypeInv'
<1> SUFFICES ASSUME TypeInv, [FileSystemNext]_vars PROVE DeviceOK' /\ GuestOK'
  BY DEF TypeInv, FileSystemTypeOK, DeviceOK, GuestOK
<1> USE TypeParts
<1>0. /\ call \in Calls /\ saving \in BOOLEAN /\ last \in {NoFile} \cup (Names \X Texts)
      /\ clean \in BOOLEAN /\ answer \in [name : Names \cup {<<>>}, sound : BOOLEAN]
  BY DEF GuestOK
<1>1. CASE Guest
  BY <1>1, GuestBegins, DeviceSteps
<1>2. CASE Command
  <2>1. \/ UNCHANGED deviceVars
        \/ StoreBlock \/ Map!Withdraw \/ Map!Publish \/ WriteFails
    BY <1>2 DEF Command, WithdrawImage, PublishImage, CheckMagic, Lookup, Fetch, deviceVars
  <2> QED
    BY <1>2, <2>1, CommandTypes, DeviceSteps
<1>3. CASE StartProcess
  <2>1. Map!Start /\ UNCHANGED <<guestVars, last, clean>> /\ mode = "down" /\ mode' = "up"
    BY <1>3 DEF StartProcess, Map!Start
  <2>2. GuestOK'
    BY <2>1 DEF GuestOK, CallInv, guestVars, Writing
  <2> QED
    BY <2>1, <2>2, DeviceSteps
<1>4. CASE RestartGuest
  <2>1. /\ call' = Idle /\ answer' = NoAnswer /\ mode = "up" /\ mode' = mode /\ ~saving
        /\ UNCHANGED <<deviceVars, saving, last>> /\ clean' \in BOOLEAN
    BY <1>4 DEF RestartGuest, Abandon, Ready, deviceVars
  <2>2. GuestOK'
    BY <1>0, <2>1, IdleFits DEF GuestOK, CallInv, Idle, Call
  <2> QED
    BY <2>1, <2>2, DeviceSteps
<1>5. CASE EndProcess
  <2>1. /\ Map!Crash /\ call' = Idle /\ answer' = NoAnswer /\ saving' = FALSE /\ mode' = "down"
        /\ UNCHANGED last /\ clean' \in BOOLEAN
    BY <1>5 DEF EndProcess, Abandon, Map!Crash
  <2>2. GuestOK'
    BY <1>0, <2>1, IdleFits DEF GuestOK, CallInv, Idle, Call
  <2> QED
    BY <2>1, <2>2, DeviceSteps
<1>6. CASE UNCHANGED vars
  BY <1>6, DeviceSteps DEF GuestOK, CallInv, vars, guestVars, deviceVars, Writing
<1> QED
  BY <1>1, <1>2, <1>3, <1>4, <1>5, <1>6 DEF FileSystemNext

\* On a host that loses nothing every block holds what belongs in its place, for any
\* names, texts and lengths, and whichever commands fail (all of file.rosc).
THEOREM FileSystemTypeCorrect == FileSystemSpec => []FileSystemTypeOK
<1>1. TypeInv => FileSystemTypeOK
  BY DEF TypeInv
<1> QED
  BY InitTypes, NextTypes, <1>1, PTL DEF FileSystemSpec

-----------------------------------------------------------------------------
(* A file is read back *)

\* Where the last file is while nothing has disturbed it: seen by the machine, saved on
\* disk, or on its way there.
FileEntry == Entry(last[1], last[2])
FileText == Stored(last[2])

Present ==
    /\ mode # "down" => visible[Directory] = FileEntry /\ visible[FileData] = FileText
    /\ mode # "swap" => durable[Directory] = {FileEntry} /\ durable[FileData] = {FileText}

OnItsWay ==
    /\ call.name = last[1] /\ call.text = last[2]
    /\ call.at = "text" \/ saving => visible[Directory] = FileEntry
    /\ call.at = "text" /\ saving => visible[FileData] = FileText

Expected(name) ==
    IF Cut(name, NameLen) = Cut(last[1], NameLen) THEN Cut(last[2], Capacity) ELSE <<>>

FileInv ==
    clean /\ last # NoFile =>
        /\ call.op = "write" => OnItsWay
        /\ call.op # "write" => Present
        /\ call.at = "fetch" /\ call.sound =>
               Matches(FileEntry, call.name) /\ call.size = Len(last[2])
        /\ answer.sound => call.op # "write" /\ buffer = Expected(answer.name)

LEMMA StoreKeepsFile == TypeInv /\ FileInv /\ StoreBlock => FileInv'
<1> SUFFICES ASSUME TypeInv, FileInv, StoreBlock, clean, last # NoFile PROVE FileInv'
  BY DEF FileInv, StoreBlock
<1>0. TypeInv /\ DeviceOK /\ GuestOK
  BY TypeParts
<1>1. /\ Writing /\ ~saving /\ saving' = TRUE /\ mode = "up" /\ mode' = "up"
      /\ visible' = [visible EXCEPT ![Target] = Block] /\ durable' = durable
      /\ UNCHANGED <<call, buffer, answer, last, clean>>
  BY DEF StoreBlock, Ready, Map!Write
<1>2. visible \in [0..2 -> Contents]
  BY <1>0 DEF DeviceOK
<1>3. CASE call.at = "super"
  <2>1. Target = 0 /\ call.op # "write"
    BY <1>0, <1>3 DEF Target, Superblock, GuestOK, CallInv
  <2>2. visible'[Directory] = visible[Directory] /\ visible'[FileData] = visible[FileData]
    BY <1>1, <1>2, <2>1 DEF Directory, FileData
  <2> QED
    BY <1>1, <1>3, <2>1, <2>2 DEF FileInv, Present, FileEntry, FileText, Expected
<1>4. CASE call.at = "entry"
  <2>1. Target = Directory /\ call.op = "write" /\ Block = Entry(call.name, call.text)
    BY <1>0, <1>4 DEF Target, Block, GuestOK, CallInv
  <2>2. visible'[Directory] = Entry(call.name, call.text)
    BY <1>1, <1>2, <2>1 DEF Directory
  <2> QED
    BY <1>1, <1>4, <2>1, <2>2 DEF FileInv, OnItsWay, FileEntry, FileText, Expected
<1>5. CASE call.at = "text"
  <2>1. Target = FileData /\ call.op = "write" /\ Block = Stored(call.text)
    BY <1>0, <1>5 DEF Target, Block, GuestOK, CallInv
  <2>2. visible'[FileData] = Stored(call.text) /\ visible'[Directory] = visible[Directory]
    BY <1>1, <1>2, <2>1 DEF Directory, FileData
  <2> QED
    BY <1>1, <1>5, <2>1, <2>2 DEF FileInv, OnItsWay, FileEntry, FileText, Expected
<1> QED
  BY <1>1, <1>3, <1>4, <1>5 DEF Writing

LEMMA WithdrawKeepsFile == TypeInv /\ FileInv /\ WithdrawImage => FileInv'
<1> SUFFICES ASSUME TypeInv, FileInv, WithdrawImage, clean, last # NoFile PROVE FileInv'
  BY DEF FileInv, WithdrawImage
<1>1. /\ mode = "up" /\ mode' = "swap" /\ visible' = visible
      /\ UNCHANGED <<call, saving, buffer, answer, last, clean>>
  BY DEF WithdrawImage, Map!Withdraw, guestVars
<1> QED
  BY <1>1 DEF FileInv, OnItsWay, Present, FileEntry, FileText, Expected

LEMMA PublishKeepsFile == TypeInv /\ FileInv /\ PublishImage => FileInv'
<1> SUFFICES ASSUME TypeInv, FileInv, PublishImage, clean, last # NoFile PROVE FileInv'
  BY DEF FileInv, PublishImage
<1>0. TypeInv /\ DeviceOK /\ GuestOK
  BY TypeParts
<1>1. /\ Writing /\ Advance /\ saving /\ saving' = FALSE /\ mode = "swap" /\ mode' = "up"
      /\ visible' = visible /\ durable' = Map!Certain(visible)
      /\ UNCHANGED <<buffer, answer, last, clean>>
  BY <1>0 DEF PublishImage, Map!Publish, GuestOK
<1>2. durable'[Directory] = {visible[Directory]} /\ durable'[FileData] = {visible[FileData]}
  BY <1>1 DEF Map!Certain, Directory, FileData
<1>3. \/ call' = Idle /\ call.at # "entry"
      \/ /\ call.at = "entry" /\ call.op = "write"
         /\ call' = Call("write", "text", call.name, call.text, 0, TRUE)
  BY <1>0, <1>1, AdvanceTypes
<1>4. CASE call' = Idle /\ call.at # "entry"
  <2>1. call'.op = "none" /\ call'.at = "none"
    BY <1>4 DEF Idle, Call
  <2>2. call.op = "write" => call.at = "text"
    BY <1>0, <1>4 DEF GuestOK, CallInv
  <2>3. visible[Directory] = FileEntry /\ visible[FileData] = FileText
    BY <1>1, <2>2 DEF FileInv, OnItsWay, Present
  <2>4. Present'
    BY <1>1, <1>2, <2>3 DEF Present, FileEntry, FileText
  <2> QED
    BY <1>1, <2>1, <2>4 DEF FileInv, Expected
<1>5. CASE call.op = "write" /\ call' = Call("write", "text", call.name, call.text, 0, TRUE)
  <2>1. /\ call'.op = "write" /\ call'.at = "text" /\ call'.name = call.name
        /\ call'.text = call.text
    BY <1>5 DEF Call
  <2>2. OnItsWay /\ (answer.sound => buffer = Expected(answer.name) /\ call.op # "write")
    BY <1>5 DEF FileInv
  <2>3. visible[Directory] = FileEntry
    BY <1>1, <2>2 DEF OnItsWay
  <2>4. OnItsWay'
    BY <1>1, <2>1, <2>2, <2>3 DEF OnItsWay, FileEntry
  <2> QED
    BY <1>1, <1>5, <2>1, <2>2, <2>4 DEF FileInv
<1> QED
  BY <1>3, <1>4, <1>5

LEMMA BeginKeepsFile == TypeInv /\ FileInv /\ Guest => FileInv'
<1> SUFFICES ASSUME TypeInv, FileInv, Guest PROVE FileInv'
  OBVIOUS
<1>1. ASSUME NEW op \in {"format", "ensure", "read"}, NEW at \in {"super", "check", "lookup"},
             NEW name \in Names \cup {<<>>}, Begin(op, at, name, <<>>), last' = last, clean' = clean
      PROVE  FileInv'
  <2>1. /\ call'.op # "write" /\ call'.at # "fetch" /\ ~answer'.sound /\ call.op # "write"
        /\ UNCHANGED deviceVars
    BY <1>1, CallTypes DEF Call, Idle, NoAnswer
  <2> QED
    BY <1>1, <2>1 DEF FileInv, Present, FileEntry, FileText, deviceVars
<1>2. CASE InitializeFilesystem
  BY <1>1, <1>2 DEF InitializeFilesystem
<1>3. CASE EnsureFilesystemInitialized
  BY <1>1, <1>3 DEF EnsureFilesystemInitialized
<1>4. ASSUME NEW name \in Names, NEW fresh \in BOOLEAN, ReadFile(name, fresh) PROVE FileInv'
  BY <1>1, <1>4 DEF ReadFile
<1>5. ASSUME NEW name \in Names, NEW text \in Texts, WriteFile(name, text) PROVE FileInv'
  <2>1. /\ Begin("write", "entry", name, text) /\ last' = <<name, text>>
        /\ clean' = (call' # Idle)
    BY <1>5 DEF WriteFile
  <2>2. /\ call' = Call("write", "entry", name, text, 0, TRUE) \/ call' = Idle
        /\ ~answer'.sound
    BY <2>1 DEF Begin, NoAnswer
  <2>3. SUFFICES ASSUME call' = Call("write", "entry", name, text, 0, TRUE) PROVE FileInv'
    BY <2>1, <2>2 DEF FileInv
  <2>4. /\ call'.op = "write" /\ call'.at = "entry" /\ call'.name = name /\ call'.text = text
    BY <2>3 DEF Call
  <2>5. last'[1] = name /\ last'[2] = text
    BY <2>1
  <2>6. ~saving'
    BY <2>1 DEF Begin, Ready
  <2> QED
    BY <2>2, <2>4, <2>5, <2>6 DEF FileInv, OnItsWay
<1> QED
  BY <1>2, <1>3, <1>4, <1>5 DEF Guest

LEMMA CheckKeepsFile == TypeInv /\ FileInv /\ CheckMagic => FileInv'
<1> SUFFICES ASSUME TypeInv, FileInv, CheckMagic, clean, last # NoFile PROVE FileInv'
  BY DEF FileInv, CheckMagic
<1>1. /\ call' = Idle \/ call' = Call("ensure", "super", <<>>, <<>>, 0, TRUE)
      /\ call.at = "check"
      /\ UNCHANGED <<mode, visible, durable, saving, buffer, answer, last, clean>>
  BY DEF CheckMagic, deviceVars
<1>2. call.op # "write" /\ call'.op # "write" /\ call'.at # "fetch"
  BY <1>1 DEF TypeInv, CallInv, Call, Idle
<1> QED
  BY <1>1, <1>2 DEF FileInv, Present, FileEntry, FileText, Expected

LEMMA LookupKeepsFile == TypeInv /\ FileInv /\ Lookup => FileInv'
<1> SUFFICES ASSUME TypeInv, FileInv, Lookup, clean, last # NoFile PROVE FileInv'
  BY DEF FileInv, Lookup
<1>1. PICK entry \in Arrives(visible[Directory], Blank) :
          LET sound == entry = visible[Directory]
          IN  IF Matches(entry, call.name)
              THEN /\ call' = Call("read", "fetch", call.name, <<>>, entry.size, sound)
                   /\ UNCHANGED <<buffer, answer>>
              ELSE /\ call' = Idle
                   /\ buffer' = <<>>
                   /\ answer' = [name |-> call.name, sound |-> sound]
  BY DEF Lookup
<1>2. /\ mode = "up" /\ call.at = "lookup"
      /\ UNCHANGED <<mode, visible, durable, saving, last, clean>>
  BY DEF Lookup, Ready, deviceVars
<1>3. call.op # "write"
  BY <1>2 DEF TypeInv, CallInv
<1>4. Present /\ visible[Directory] = FileEntry
  BY <1>2, <1>3 DEF FileInv, Present
<1>5. Present' /\ FileEntry' = FileEntry
  BY <1>2, <1>4 DEF Present, FileEntry, FileText
<1>6. CASE Matches(entry, call.name)
  <2> DEFINE sound == entry = visible[Directory]
  <2>1. call' = Call("read", "fetch", call.name, <<>>, entry.size, sound) /\ UNCHANGED <<buffer, answer>>
    BY <1>1, <1>6
  <2>2. /\ call'.op = "read" /\ call'.at = "fetch" /\ call'.name = call.name
        /\ call'.size = entry.size /\ call'.sound = sound
    BY <2>1 DEF Call
  <2>3. sound => entry = FileEntry /\ entry.size = Len(last[2])
    BY <1>4 DEF FileEntry, Entry
  <2>4. call'.sound => Matches(FileEntry, call'.name) /\ call'.size = Len(last[2])
    BY <1>6, <2>2, <2>3
  <2>5. answer.sound => buffer = Expected(answer.name)
    BY DEF FileInv
  <2> QED
    BY <1>2, <1>5, <2>1, <2>2, <2>4, <2>5 DEF FileInv, Expected, Matches
<1>7. CASE ~Matches(entry, call.name)
  <2>1. call' = Idle /\ buffer' = <<>> /\ answer' = [name |-> call.name, sound |-> entry = visible[Directory]]
    BY <1>1, <1>7
  <2>2. call'.op # "write" /\ call'.at # "fetch"
    BY <2>1 DEF Idle, Call
  <2>3. answer'.sound => entry = FileEntry
    BY <1>4, <2>1
  <2>4. answer'.sound => Cut(answer'.name, NameLen) # Cut(last[1], NameLen)
    BY <1>7, <2>1, <2>3 DEF Matches, FileEntry, Entry
  <2> QED
    BY <1>2, <1>5, <2>1, <2>2, <2>4 DEF FileInv, Expected
<1> QED
  BY <1>6, <1>7

LEMMA FetchKeepsFile == TypeInv /\ FileInv /\ Fetch => FileInv'
<1> SUFFICES ASSUME TypeInv, FileInv, Fetch, clean, last # NoFile PROVE FileInv'
  BY DEF FileInv, Fetch
<1>1. PICK text \in Arrives(visible[FileData].text, buffer) :
          /\ buffer' = Cut(Cut(text, call.size), Capacity)
          /\ answer' = [name |-> call.name, sound |-> call.sound /\ text = visible[FileData].text]
  BY DEF Fetch
<1>2. /\ mode = "up" /\ call.at = "fetch" /\ call' = Idle
      /\ UNCHANGED <<mode, visible, durable, saving, last, clean>>
  BY DEF Fetch, Ready, deviceVars
<1>3. call.op # "write" /\ call'.op # "write" /\ call'.at # "fetch"
  BY <1>2 DEF TypeInv, CallInv, Idle, Call
<1>4. Present /\ visible[FileData] = FileText
  BY <1>2, <1>3 DEF FileInv, Present
<1>5. Present'
  BY <1>2, <1>4 DEF Present, FileEntry, FileText
<1>6. ASSUME answer'.sound PROVE buffer' = Expected(answer'.name)
  <2>1. call.sound /\ text = visible[FileData].text /\ answer'.name = call.name
    BY <1>1, <1>6
  <2>2. text = Cut(last[2], Capacity)
    BY <1>4, <2>1 DEF FileText, Stored
  <2>3. Cut(last[1], NameLen) = Cut(call.name, NameLen) /\ call.size = Len(last[2])
    BY <1>2, <2>1 DEF FileInv, Matches, FileEntry, Entry
  <2>4. last[2] \in Seq(Bytes) /\ Len(last[2]) \in Nat
    BY StringsAssumption DEF TypeInv, FileSystemTypeOK
  <2>5. Cut(text, call.size) = text
    BY <2>2, <2>3, <2>4, CutOnce, LengthsAssumption
  <2>6. Cut(text, Capacity) = text
    BY <2>2, <2>4, CutOnce, LengthsAssumption
  <2> QED
    BY <1>1, <2>1, <2>2, <2>3, <2>5, <2>6 DEF Expected
<1>7. (answer.sound => buffer = Expected(answer.name))'
  BY <1>2, <1>6 DEF Expected
<1> QED
  BY <1>2, <1>3, <1>5, <1>7 DEF FileInv

LEMMA StartKeepsFile == TypeInv /\ FileInv /\ StartProcess => FileInv'
<1> SUFFICES ASSUME TypeInv, FileInv, StartProcess, clean, last # NoFile PROVE FileInv'
  BY DEF FileInv, StartProcess
<1>1. /\ mode = "down" /\ mode' = "up" /\ durable' = durable
      /\ \A b \in 0..2 : visible'[b] \in durable[b]
      /\ UNCHANGED <<call, saving, buffer, answer, last, clean>>
  BY DEF StartProcess, Map!Start, guestVars
<1>2. call.op # "write"
  BY <1>1 DEF TypeInv, CallInv, Idle, Call
<1>3. durable[Directory] = {FileEntry} /\ durable[FileData] = {FileText}
  BY <1>1, <1>2 DEF FileInv, Present
<1>4. visible'[Directory] = FileEntry /\ visible'[FileData] = FileText
  BY <1>1, <1>3 DEF Directory, FileData
<1>5. Present'
  BY <1>1, <1>3, <1>4 DEF Present, FileEntry, FileText
<1> QED
  BY <1>1, <1>2, <1>5 DEF FileInv, Expected, Matches, FileEntry

LEMMA AbandonKeepsFile == TypeInv /\ FileInv /\ (RestartGuest \/ EndProcess) => FileInv'
<1>1. ASSUME Abandon PROVE call'.op # "write" /\ call'.at # "fetch" /\ ~answer'.sound
  BY <1>1 DEF Abandon, Idle, Call, NoAnswer
<1>2. ASSUME TypeInv, FileInv, RestartGuest, clean', last # NoFile PROVE FileInv'
  <2>1. /\ Abandon /\ clean /\ call.op # "write" /\ UNCHANGED <<mode, visible, durable, last>>
    BY <1>2 DEF RestartGuest, deviceVars
  <2> QED
    BY <1>1, <1>2, <2>1 DEF FileInv, Present, FileEntry, FileText
<1>3. ASSUME TypeInv, FileInv, EndProcess, clean', last # NoFile PROVE FileInv'
  <2>1. /\ Abandon /\ clean /\ call.op # "write" /\ mode # "swap" /\ mode' = "down"
        /\ UNCHANGED <<durable, last>>
    BY <1>3 DEF EndProcess, Map!Crash
  <2> QED
    BY <1>1, <1>3, <2>1 DEF FileInv, Present, FileEntry, FileText
<1> QED
  BY <1>2, <1>3 DEF FileInv, RestartGuest, EndProcess

LEMMA NextKeepsFile == TypeInv /\ FileInv /\ [FileSystemNext]_vars => FileInv'
<1> SUFFICES ASSUME TypeInv, FileInv, [FileSystemNext]_vars PROVE FileInv'
  OBVIOUS
<1>1. CASE WriteFails
  BY <1>1 DEF WriteFails, FileInv
<1>2. CASE UNCHANGED vars
  BY <1>2 DEF vars, deviceVars, guestVars, FileInv, Present, OnItsWay, FileEntry, FileText,
     Expected, Matches
<1> QED
  BY <1>1, <1>2, StoreKeepsFile, WithdrawKeepsFile, PublishKeepsFile, BeginKeepsFile, CheckKeepsFile,
     LookupKeepsFile, FetchKeepsFile, StartKeepsFile, AbandonKeepsFile DEF FileSystemNext, Command

\* Whatever was torn or failed before, a file that is written without being disturbed is
\* read back, for any names, texts and lengths and any failures of a host that loses
\* nothing (write_file, read_file).
THEOREM AlwaysReadsBack == FileSystemSpec => []ReadsBack
<1>1. FileSystemInit => FileInv
  BY DEF FileSystemInit, FileInv
<1>2. TypeInv /\ FileInv => ReadsBack
  BY DEF FileInv, ReadsBack, Expected
<1> QED
  BY InitTypes, NextTypes, NextKeepsFile, <1>1, <1>2, PTL DEF FileSystemSpec

-----------------------------------------------------------------------------
(* Texts are never mixed *)

Prefix(s) == \E text \in Texts \cup {<<>>} : \E n \in 0 .. Len(text) : s = SubSeq(text, 1, n)

LEMMA EmptyPrefix == Prefix(<<>>)
<1> SUFFICES \E n \in 0 .. Len(<<>>) : <<>> = SubSeq(<<>>, 1, n)
  BY DEF Prefix
<1>1. 0 \in 0 .. Len(<<>>) /\ SubSeq(<<>>, 1, 0) = <<>>
  OBVIOUS
<1> QED
  BY <1>1

LEMMA CutPrefix == ASSUME NEW s, Prefix(s), NEW a \in Nat PROVE Prefix(Cut(s, a))
<1>1. PICK text \in Texts \cup {<<>>} : \E n \in 0 .. Len(text) : s = SubSeq(text, 1, n)
  BY DEF Prefix
<1>2. PICK n \in 0 .. Len(text) : s = SubSeq(text, 1, n)
  BY <1>1
<1>3. text \in Seq(Bytes) /\ Len(text) \in Nat
  <2>1. CASE text \in Texts
    BY <2>1, StringsAssumption
  <2>2. CASE text = <<>>
    BY <2>2, EmptySeq, LenProperties
  <2> QED
    BY <2>1, <2>2
<1>4. n \in Nat /\ n <= Len(text)
  BY <1>3
<1>5. (IF Len(text) < n THEN Len(text) ELSE n) = n
  BY <1>3, <1>4
<1>6. s = Cut(text, n)
  BY <1>2, <1>5 DEF Cut
<1> DEFINE c == IF Len(Cut(text, n)) < a THEN Len(Cut(text, n)) ELSE a
<1>7. Len(Cut(text, n)) = n
  BY <1>3, <1>4, <1>5, CutProperties
<1>8. c \in Nat
  BY <1>4, <1>7
<1> HIDE DEF c
<1>9. Cut(Cut(text, n), a) = SubSeq(text, 1, c) /\ c <= Len(text)
  BY <1>3, <1>4, CutCut DEF c
<1>10. c \in 0 .. Len(text)
  BY <1>3, <1>8, <1>9
<1> QED
  BY <1>6, <1>9, <1>10 DEF Prefix

LEMMA TextPrefix == ASSUME TypeInv PROVE Prefix(visible[FileData].text)
<1>1. visible[FileData] \in {Blank} \cup {Stored(t) : t \in Texts}
  BY HeldProperties DEF TypeInv, FileSystemTypeOK, FileData
<1>2. CASE visible[FileData] = Blank
  BY <1>2, EmptyPrefix DEF Blank
<1>3. ASSUME NEW t \in Texts, visible[FileData] = Stored(t) PROVE Prefix(visible[FileData].text)
  <2>1. visible[FileData].text = Cut(t, Capacity)
    BY <1>3 DEF Stored
  <2>2. \E k \in 0 .. Len(t) : Cut(t, Capacity) = SubSeq(t, 1, k)
    BY StringsAssumption, LengthsAssumption, CutProperties
  <2> QED
    BY <2>1, <2>2 DEF Prefix
<1> QED
  BY <1>1, <1>2, <1>3

LEMMA NextKeepsPrefix == TypeInv /\ Prefix(buffer) /\ [FileSystemNext]_vars => Prefix(buffer)'
<1> SUFFICES ASSUME TypeInv, Prefix(buffer), [FileSystemNext]_vars PROVE Prefix(buffer)'
  OBVIOUS
<1>1. CASE buffer' \in {buffer, <<>>}
  BY <1>1, EmptyPrefix DEF Prefix
<1>2. CASE Fetch
  <2>1. PICK text \in Arrives(visible[FileData].text, buffer) :
            buffer' = Cut(Cut(text, call.size), Capacity)
    BY <1>2 DEF Fetch
  <2>2. Prefix(text)
    BY TextPrefix DEF Arrives
  <2>3. call.size \in Nat
    BY DEF TypeInv, FileSystemTypeOK, Calls
  <2>4. Prefix(Cut(Cut(text, call.size), Capacity))
    BY <2>2, <2>3, LengthsAssumption, CutPrefix
  <2> QED
    BY <2>1, <2>4 DEF Prefix
<1>3. CASE Guest
  BY <1>1, <1>3 DEF Guest, InitializeFilesystem, EnsureFilesystemInitialized, WriteFile, ReadFile
<1>4. CASE Lookup
  <2>1. UNCHANGED buffer \/ buffer' = <<>>
    BY <1>4 DEF Lookup
  <2> QED
    BY <1>1, <2>1
<1>5. CASE StoreBlock \/ WithdrawImage \/ PublishImage \/ WriteFails \/ CheckMagic
  BY <1>1, <1>5 DEF StoreBlock, WithdrawImage, PublishImage, WriteFails, CheckMagic, guestVars
<1>6. CASE StartProcess \/ RestartGuest \/ EndProcess \/ UNCHANGED vars
  BY <1>1, <1>6 DEF StartProcess, RestartGuest, EndProcess, Abandon, vars, guestVars
<1> QED
  BY <1>2, <1>3, <1>4, <1>5, <1>6 DEF FileSystemNext, Command

\* On a host that loses nothing what a read leaves is the beginning of one text that was
\* written, for any names, texts and lengths, and whichever commands fail (read_file).
THEOREM NeverReadsAMixture == FileSystemSpec => []NeverMixes
<1>1. FileSystemInit => Prefix(buffer)
  BY EmptyPrefix DEF FileSystemInit
<1>2. Prefix(buffer) => NeverMixes
  BY DEF Prefix, NeverMixes
<1> QED
  BY InitTypes, NextTypes, NextKeepsPrefix, <1>1, <1>2, PTL DEF FileSystemSpec
=============================================================================
