-------------------------------- MODULE Avfs --------------------------------
(***************************************************************************)
(* The virtual file system (src/src/AVFS/avfs.cpp, drive.cpp) from the     *)
(* start of the kernel on: kmain scans the bus, makes a gaossd object,     *)
(* formats AbtrFS and calls AVFS::Init, which makes a drive of every       *)
(* storage device on the bus; then mount, dismount, exists, write and read *)
(* are called with paths <drive>://<directory>.                            *)
(*                                                                         *)
(* A call of write or read that finds its drive makes an AbtrFS object     *)
(* over the device and calls that.  AbtrFS is FileStore here, but for what *)
(* it does not keep of that promise: a file never gets longer, although    *)
(* the longer write returns Success; and nothing is known of the files any *)
(* more once a write takes more blocks than its file has, over those of    *)
(* the next file, or a block is refused where AbtrFS takes that for an     *)
(* absent file (astray).  Names are short enough to be found again.        *)
(*                                                                         *)
(* A path is split into its parts: the drive's name with the blanks or     *)
(* tabs that may follow it, the separator and the directory.               *)
(***************************************************************************)
EXTENDS Naturals, Sequences

CONSTANTS
    Addresses,          \* values of a base address register, 0 among them
    Texts,              \* names without trailing blanks; "" is none
    Paths,              \* [drive, sep, dir]: the paths that are asked for
    Calls, Dirs, RootDirs, Absent,      \* of FileStore; Dirs are its paths
    BLOCK,              \* ABTRFS_HEADER_BLOCK_SIZE
    Storages,           \* what the bus may have: sequences of base addresses
    InvalidHandle

DefaultName == [text |-> "ALOPEX_NVME_01", pad |-> "none"]
Names == [text : Texts \cup {DefaultName.text}, pad : {"none", "blanks", "tabs"}]
Drives ==
    [base : Addresses, name : {n \in Names : n.text # "" /\ n.pad = "none"},
     format : {"", "abtrfs"}]

ASSUME AvfsAssumption ==
    /\ 0 \in Addresses /\ Storages \subseteq Seq(Addresses) /\ "" \in Texts /\ InvalidHandle \notin Nat
    /\ Dirs # {} /\ BLOCK \in Nat \ {0}
    /\ Paths \subseteq [drive : Names, sep : {"://", ":", "none"}, dir : Dirs]

VARIABLES
    storage,        \* the base addresses of IBus's storage devices
    model,          \* the model number of the NVMe controller
    m_initialized,  \* of the NVMe controller
    formatted,      \* block 0 holds a partition header
    devices,        \* the table of kmain's gaossd
    drives, pc,
    asked,          \* the current or last AVFS call: [op, dir, had], had for a file that was there
    code,           \* what the last one returned
    files, busy, call, ret, result,     \* of FileStore
    astray          \* nothing is known of the files, which then are Absent

storeVars == <<files, busy, call, ret, result, astray>>
bootVars == <<storage, model, m_initialized, formatted, devices>>
vars == <<bootVars, drives, pc, asked, code, storeVars>>

Store == INSTANCE FileStore WITH Paths <- Dirs, RootPaths <- RootDirs

Init ==
    /\ storage \in Storages
    /\ model \in [text : Texts, pad : {"blanks"}]
    /\ m_initialized = FALSE /\ formatted = FALSE
    /\ devices = <<>> /\ drives = <<>>
    /\ pc = "gaossd"
    /\ asked = [op |-> "none", dir |-> CHOOSE d \in Dirs : TRUE, had |-> FALSE]
    /\ code = "none"
    /\ Store!Init /\ astray = FALSE

-----------------------------------------------------------------------------
(* kmain *)

\* The name of the device is the model number, cut behind its last visible character.
TrimModel_Whole(name) == name                           \* mutant: the field as it is
TrimModel(name) == [name EXCEPT !.pad = "none"]

\* gaossd::gaossd() registers the controller if it is there and init succeeds.
\* The address of the entry is never set.
ConstructGaossd ==
    /\ pc = "gaossd"
    /\ \E up \in IF storage = <<>> THEN {FALSE} ELSE BOOLEAN :
         /\ m_initialized' = up
         /\ devices' = IF up THEN <<[address |-> 0, name |-> TrimModel(model)]>> ELSE <<>>
    /\ pc' = "format"
    /\ UNCHANGED <<storage, model, formatted, drives, asked, code, storeVars>>

\* AbtrFS::format writes block 0 through a gaossd of its own, which tries init again.
\* Before it kmain reads storage_devices[0], which is undefined when the bus has no
\* storage; a fault there only ends the behaviour, so the model goes on.
Format ==
    /\ pc = "format"
    /\ \E up \in IF m_initialized THEN {TRUE} ELSE IF storage = <<>> THEN {FALSE} ELSE BOOLEAN,
          written \in BOOLEAN :
         /\ m_initialized' = up
         /\ formatted' = (up /\ written)
    /\ pc' = "init"
    /\ UNCHANGED <<storage, model, devices, drives, asked, code, storeVars>>

\* The device at an address, or the first there is.
MatchedHandle(base) ==
    IF \E h \in DOMAIN devices : devices[h].address = base
    THEN CHOOSE h \in DOMAIN devices :
            /\ devices[h].address = base
            /\ \A k \in DOMAIN devices : devices[k].address = base => h <= k
    ELSE IF devices # <<>> THEN 1 ELSE InvalidHandle

DeviceName(h) == IF devices[h].name.text = "" THEN DefaultName ELSE devices[h].name

\* The test for a drive of the same name compares two addresses of characters,
\* those of the drive's string and those of the device's name: never the same.
AlreadyRegistered(list, name) == FALSE

\* AVFS::Init: one drive for each storage device, in the order of the bus.
Registration[n \in Nat] ==
    IF n = 0 THEN <<>>
    ELSE LET list == Registration[n - 1]
             h == MatchedHandle(storage[n])
         IN  IF h = InvalidHandle \/ AlreadyRegistered(list, DeviceName(h)) THEN list
             ELSE Append(list, [base |-> storage[n], name |-> DeviceName(h), format |-> ""])

AvfsInit ==
    /\ pc = "init"
    /\ drives' = Registration[Len(storage)]
    /\ pc' = "ready"
    /\ UNCHANGED <<bootVars, asked, code, storeVars>>

-----------------------------------------------------------------------------
(* Paths *)

TrimDrive(name) == IF name.pad = "blanks" THEN [name EXCEPT !.pad = "none"] ELSE name

\* findDrive and findPathAfterDrive: the first colon has to be followed by two slashes.
HasDrive(path) == path.sep = "://"
findDrive(path) == TrimDrive(path.drive)
findPathAfterDrive(path) == path.dir

\* retrieveDrive: the first of the name; 0 for NotFound.
retrieveDrive(name) ==
    IF \E i \in DOMAIN drives : drives[i].name = name
    THEN CHOOSE i \in DOMAIN drives :
            drives[i].name = name /\ \A j \in DOMAIN drives : drives[j].name = name => i <= j
    ELSE 0

\* Why a path cannot be followed to a device; "Success" when it can.
Lookup(path) ==
    IF ~HasDrive(path) THEN "Generic_Error"
    ELSE IF retrieveDrive(findDrive(path)) = 0 THEN "NotFound" ELSE "Success"
DriveOf(path) == drives[retrieveDrive(findDrive(path))]
Resolve(path) ==
    IF Lookup(path) # "Success" THEN Lookup(path)
    ELSE IF MatchedHandle(DriveOf(path).base) = InvalidHandle THEN "DeviceNotMounted"
    ELSE "Success"

-----------------------------------------------------------------------------
(* The calls *)

Asked(op, path) == [op |-> op, dir |-> path.dir, had |-> files[path.dir] # Absent]

Ask(op, path) ==
    /\ pc = "ready" /\ ~busy
    /\ asked' = Asked(op, path)

Answer(c) == code' = c /\ UNCHANGED storeVars

SetFormat(path, format) ==
    drives' = [drives EXCEPT ![retrieveDrive(findDrive(path))].format = format]

\* AbtrFS::mount reads block 0 and looks at the magic number.
MountOutcomes_Unchecked == BOOLEAN                      \* mutant: any block 0 will do
MountOutcomes == IF formatted THEN BOOLEAN ELSE {FALSE}

Mount(path) ==
    /\ Ask("mount", path)
    /\ \E mounted \in MountOutcomes :
         IF Resolve(path) # "Success" THEN Answer(Resolve(path)) /\ UNCHANGED drives
         ELSE IF mounted THEN Answer("Success") /\ SetFormat(path, "abtrfs")
         ELSE Answer("DeviceNotMounted") /\ UNCHANGED drives
    /\ UNCHANGED <<bootVars, pc>>

Dismount(path) ==
    /\ Ask("dismount", path)
    /\ Answer(Lookup(path))
    /\ IF Lookup(path) = "Success" THEN SetFormat(path, "") ELSE UNCHANGED drives
    /\ UNCHANGED <<bootVars, pc>>

Exists(path) ==
    /\ Ask("exists", path)
    /\ Answer(Lookup(path))
    /\ UNCHANGED <<bootVars, drives, pc>>

\* A call of AbtrFS: mount_existing, then the operation; c is what FileStore is asked.
Forward(path, c) ==
    /\ IF Resolve(path) # "Success" THEN Answer(Resolve(path))
       ELSE IF ~formatted THEN Answer("DeviceNotMounted")
       ELSE Store!Call(c) /\ UNCHANGED <<code, astray>>
    /\ UNCHANGED <<bootVars, drives, pc>>

\* write drops the zero bytes of its data.
CleanData_Whole(data) == data                           \* mutant: it keeps them
CleanData(data) ==
    LET clean[n \in 0 .. Len(data)] ==
            IF n = 0 THEN <<>>
            ELSE IF data[n] # 0 THEN Append(clean[n - 1], data[n]) ELSE clean[n - 1]
    IN  clean[Len(data)]

Write(path, data) ==
    /\ Ask("write", path)
    /\ Forward(path, [op |-> "write", path |-> findPathAfterDrive(path),
                      data |-> CleanData(data), off |-> 0, max |-> 0])

\* read takes at most as many bytes as the buffer has.
Read(path, size) ==
    /\ Ask("read", path)
    /\ Forward(path, [op |-> "read", path |-> findPathAfterDrive(path),
                      data |-> <<>>, off |-> 0, max |-> size])

\* A write that reaches beyond the end of the file.  Its header stays as it is on
\* the medium, so the file is as long as before whatever is answered.
Longer ==
    /\ call.op = "write" /\ files[call.path] # Absent
    /\ Store!target > Len(files[call.path])
BlocksFor(n) == (n + BLOCK - 1) \div BLOCK
TakesBlocks == Longer /\ BlocksFor(Store!target) > BlocksFor(Len(files[call.path]))

Kept == Store!Return /\ (Longer => files' \in Store!Patches) /\ UNCHANGED astray

\* Inside the last block that goes well, and what is beyond the end is lost.
CutShort ==
    /\ busy /\ Longer /\ ~TakesBlocks
    /\ busy' = FALSE
    /\ files' = [files EXCEPT ![call.path] = Store!Patched(@, DOMAIN @)]
    /\ ret' = "Success" /\ result' = <<>>
    /\ UNCHANGED <<call, astray>>

\* Blocks of the next file are overwritten, or a refused block is ignored, now or
\* before: any answer, and the map of the files is given up.
Strays ==
    /\ busy
    /\ busy' = FALSE /\ astray' = TRUE
    /\ ret' \in {"Success"} \cup IF call.op = "write" THEN {"NoSpaceLeft", "WriteFailed", "InvalidParameters"}
                                                      ELSE {"FileNotFound", "IOError"}
    /\ files' = [d \in Dirs |-> Absent] /\ result' = <<>>
    /\ UNCHANGED call

\* AbtrFS at work; its answer is passed on.
Serve ==
    /\ \/ Store!Patch /\ UNCHANGED <<code, astray>>
       \/ ~astray /\ (Kept \/ CutShort) /\ code' = ret'
       \/ Strays /\ code' = ret'
    /\ UNCHANGED <<bootVars, drives, pc, asked>>

-----------------------------------------------------------------------------
(* Properties *)

TypeOK ==
    /\ m_initialized \in BOOLEAN /\ formatted \in BOOLEAN
    /\ pc \in {"gaossd", "format", "init", "ready"}
    /\ \A i \in DOMAIN drives : drives[i] \in Drives
    /\ Len(drives) <= Len(storage) /\ Len(devices) <= 1
    /\ busy \in BOOLEAN /\ astray \in BOOLEAN /\ asked.dir \in Dirs
    /\ code \in {"none", "Success", "Generic_Error", "NotFound", "FileNotFound"} \cup Store!Errors

\* The model number, however it is padded in the controller's answer and in the
\* path, names a drive once the controller is up and the bus has a storage
\* device; with a blank model number the default name does.
NameFindsDrive ==
    pc = "ready" /\ devices # <<>> /\ storage # <<>> =>
        \A path \in Paths :
            /\ HasDrive(path) /\ path.drive.pad # "tabs"
            /\ path.drive.text = IF model.text = "" THEN DefaultName.text ELSE model.text
            => Resolve(path) = "Success"

\* A drive says abtrfs only if the medium was formatted in this boot, and only a
\* formatted medium ever holds a file.
MountedMeansFormatted ==
    /\ \A i \in DOMAIN drives : drives[i].format = "abtrfs" => formatted
    /\ (\E d \in Dirs : files[d] # Absent) => formatted /\ m_initialized /\ drives # <<>>

=============================================================================
