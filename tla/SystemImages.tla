---------------------------- MODULE SystemImages ----------------------------
(***************************************************************************)
(* The binsys store (binsys/_image.py, _crypto.py, _boot.py, _qemu.py,     *)
(* _util.py): the directories of the systems with their metadata, the      *)
(* image files, and what a command leaves in the kernel: mounts, loop      *)
(* devices and dm-crypt mappers.  And the curses menu (binsys/_tui.py)     *)
(* that lists the systems and runs a command on the selected one.          *)
(*                                                                         *)
(* A command is a sequence of external programs, any of which may fail; a  *)
(* failure runs the handlers of the command.  A command may be killed      *)
(* between two steps, which runs none of them.  One command runs at a time *)
(* (binsys has no lock), virtual machines run beside it.  losetup -d and   *)
(* umount do not fail; a layered image (overlay, squashfs) stands for its  *)
(* files, whose commands FrugalSystem has.                                 *)
(***************************************************************************)
EXTENDS Integers, Sequences, FiniteSets

CONSTANTS
    SystemNames,
    ImageSizes,    \* the sizes that users ask for: [n, unit]
    EspSizes,      \* the sizes of an EFI partition, in bytes
    Kilo,          \* 1000^3, what binsys takes a G for
    Kibi,          \* 1024^3, what truncate and resize2fs take a G for
    DownloadSize,  \* the size of a downloaded distribution image
    Sector, Align, \* bytes of a sector, of a GPT alignment unit
    MinRoot,       \* the least root partition that is planned
    MaxImages,     \* bound on the images ever made
    MaxMappers,    \* bound on the mappers ever opened
    MaxCommands,   \* bound on the commands
    MaxListed,     \* bound on the systems in the menu
    MaxKeys,       \* bound on the keys pressed in it
    NoSystem

ASSUME ImagesAssumption ==
    /\ NoSystem \notin SystemNames
    /\ \A s \in ImageSizes : s.n \in Nat \ {0} /\ s.unit \in {"G", "GiB"}
    /\ EspSizes \subseteq Nat \ {0} /\ {Kilo, Kibi, Sector, Align, MinRoot} \subseteq Nat \ {0}
    /\ Align % Sector = 0 /\ DownloadSize \in Nat \ {0}
    /\ {MaxImages, MaxMappers, MaxCommands, MaxListed} \subseteq Nat

VARIABLES
    systems,   \* the directory of each name: [here, meta, image]
    images,    \* the image files, by number: [luks, file, fs, gpt]
    mountedAs, \* the image mounted on MOUNTS/name, 0 when none
    mappers,   \* the open dm-crypt devices: [id, image]
    loops,     \* the images that have a loop device
    leftLoops, \* those that have one which a lock did not know of, since the last reboot
    runningSystems,   \* the images that a virtual machine has open
    appLocks,  \* app_locks.json
    work,      \* the command that runs
    begun,     \* commands begun
    nextMapper,
    orderly,   \* no command was killed since the last reboot

    stored,    \* the systems that there are
    menuRows,  \* those that the menu shows
    selected,  \* its cursor, from 0
    statusLine, \* the message in the status line
    opOutcome, \* what became of the last operation
    keyed,     \* the menu waits for a key
    presses    \* keys pressed

storeVars == <<systems, images, mountedAs, mappers, loops, runningSystems, appLocks, work, begun,
               nextMapper, orderly, leftLoops>>

menuVars == <<stored, menuRows, selected, statusLine, opOutcome, keyed, presses>>

NoMeta == [name |-> NoSystem, kind |-> "none", encrypted |-> FALSE, mapper |-> 0, plan |-> <<>>]
NoSystemDir == [here |-> FALSE, meta |-> NoMeta, image |-> 0, by |-> "none"]
NoWork == [step |-> "idle", name |-> NoSystem, kind |-> "none",
           size |-> 0, request |-> 0, image |-> 0, encrypt |-> FALSE]

StoreInit ==
    /\ systems = [n \in SystemNames |-> NoSystemDir]
    /\ images = <<>>
    /\ mountedAs = [n \in SystemNames |-> 0]
    /\ mappers = {} /\ loops = {} /\ runningSystems = {}
    /\ appLocks = [n \in SystemNames |-> "none"]
    /\ work = NoWork /\ begun = 0 /\ nextMapper = 1
    /\ orderly = TRUE /\ leftLoops = {}

-----------------------------------------------------------------------------
(* Sizes. *)

\* What binsys reads in a size, and what truncate and resize2fs read in it.
SizeToBytes(s) == s.n * (IF s.unit = "GiB" THEN Kibi ELSE Kilo)
ToolBytes(s)   == s.n * Kibi

\* A fault: the next partition starts where this one ends.
AlignDown(v) == v

AlignUp(v) == ((v + Align - 1) \div Align) * Align

\* The sizes of the EFI and the root partition.
PartitionPlan(total, esp) ==
    LET root == total - esp - 2 * Align
    IN <<esp, IF root > MinRoot THEN root ELSE MinRoot>>

\* The sectors that the partitions get on a disk of total bytes; the last one takes the rest.
Assembled(total, plan) ==
    LET espLast == (Align + plan[1]) \div Sector - 1
    IN << [first |-> Align \div Sector, last |-> espLast],
          [first |-> AlignUp((espLast + 1) * Sector) \div Sector,
           last  |-> (total - Align) \div Sector - 1] >>

\* sgdisk refuses a partition that is empty or meets another one.
Partitionable(table) ==
    /\ \A p \in {1, 2} : table[p].first <= table[p].last
    /\ table[1].last < table[2].first

-----------------------------------------------------------------------------
(* What commands have in common. *)

AppUnlocked(n) == appLocks[n] # "locked"

MapperOf(n) == {m \in mappers : m.id = systems[n].meta.mapper}

Begins(step, n) ==
    /\ work.step = "idle" /\ begun < MaxCommands
    /\ begun' = begun + 1
    /\ work' = [NoWork EXCEPT !.step = step, !.name = n]

\* A command of one step.
Runs1(n) == work.step = "idle" /\ begun < MaxCommands /\ begun' = begun + 1 /\ work' = work

WorkGoes(from, to) ==
    /\ work.step = from
    /\ work' = IF to = "idle" THEN NoWork ELSE [work EXCEPT !.step = to]
    /\ begun' = begun

Kernel  == <<mountedAs, mappers, loops, runningSystems>>
Ledgers == <<appLocks, nextMapper, orderly, leftLoops>>

NewImage(luks, file, fs) == [luks |-> luks, file |-> file, fs |-> fs, gpt |-> <<>>]

-----------------------------------------------------------------------------
(* do_new: everything happens in a temporary directory that becomes the    *)
(* directory of the system in one rename.                                  *)

NewBegins(n, kind, s, enc) ==
    /\ ~systems[n].here /\ Len(images) < MaxImages
    /\ work.step = "idle" /\ begun < MaxCommands /\ begun' = begun + 1
    /\ work' = [NoWork EXCEPT !.step = "new make", !.name = n, !.kind = kind, !.encrypt = enc,
                              !.request = ToolBytes(s), !.size = SizeToBytes(s)]
    /\ UNCHANGED <<systems, images, Kernel, Ledgers>>

\* truncate and mkfs; a layered image is made from a filesystem that is mounted for a while.
NewMakes ==
    /\ work.step = "new make"
    /\ images' = Append(images, NewImage(FALSE, work.request, work.request))
    /\ work' = [work EXCEPT !.image = Len(images'),
                            !.step = IF work.kind = "layers" THEN "new fill" ELSE "new meta"]
    /\ UNCHANGED <<begun, systems, Kernel, Ledgers>>

NewFills ==
    /\ work.step = "new fill"
    /\ work' = [work EXCEPT !.step = "new meta"]
    /\ UNCHANGED <<begun, systems, images, Kernel, Ledgers>>

\* _flash_source: the download replaces the image.  A raw one grows to the size that was asked
\* for, its filesystem too unless e2fsck or resize2fs fails; a qcow2 or ISO stays as it is.
NewFlashes ==
    /\ work.step = "new meta" /\ work.kind = "disk"
    /\ \E file \in {DownloadSize} \cup ({work.size} \ 1 .. DownloadSize) :
       \E fs \in {DownloadSize, file} :
           images' = [images EXCEPT ![work.image] = NewImage(FALSE, file, fs)]
    /\ work' = [work EXCEPT !.step = "new rename"]
    /\ UNCHANGED <<begun, systems, Kernel, Ledgers>>

Named(n, kind) == [NoMeta EXCEPT !.name = n, !.kind = kind]

\* A fault: the metadata is written after the rename.
PublishedEarly(n) == [here |-> TRUE, meta |-> NoMeta, image |-> work.image, by |-> "new"]

Published(n) == [here |-> TRUE, meta |-> Named(n, work.kind), image |-> work.image, by |-> "new"]

NewRenames ==
    /\ work.step \in {"new meta", "new rename"}
    /\ systems' = [systems EXCEPT ![work.name] = Published(work.name)]
    /\ work' = IF work.encrypt THEN [NoWork EXCEPT !.step = "encrypt check", !.name = work.name]
               ELSE NoWork
    /\ UNCHANGED <<begun, images, Kernel, Ledgers>>

\* The handler removes the temporary directory, the finally blocks umount what is mounted in it.
NewFails ==
    /\ work.step \in {"new make", "new fill", "new meta", "new rename"}
    /\ work' = NoWork
    /\ UNCHANGED <<begun, systems, images, Kernel, Ledgers>>

\* do_import: the copy of a file that holds a filesystem.
Imports(n) ==
    /\ ~systems[n].here /\ Len(images) < MaxImages
    /\ Runs1(n)
    /\ images' = Append(images, NewImage(FALSE, DownloadSize, DownloadSize))
    /\ systems' = [systems EXCEPT ![n] =
           [here |-> TRUE, meta |-> Named(n, "disk"), image |-> Len(images'), by |-> "new"]]
    /\ UNCHANGED <<Kernel, Ledgers>>

-----------------------------------------------------------------------------
(* build_bootdisk: the directory comes first and goes away on a failure.   *)

DiskBuilds(n, s, esp) ==
    /\ ~systems[n].here /\ Len(images) < MaxImages
    /\ work.step = "idle" /\ begun < MaxCommands /\ begun' = begun + 1
    /\ images' = Append(images, NewImage(FALSE, SizeToBytes(s), 0))
    /\ systems' = [systems EXCEPT ![n] =
           [here |-> TRUE, meta |-> NoMeta, image |-> Len(images'), by |-> "boot"]]
    /\ work' = [NoWork EXCEPT !.step = "boot loop", !.name = n, !.image = Len(images'),
                              !.request = esp, !.size = SizeToBytes(s)]
    /\ UNCHANGED <<Kernel, Ledgers>>

BootLoops ==
    /\ WorkGoes("boot loop", "boot part")
    /\ loops' = loops \cup {work.image}
    /\ UNCHANGED <<systems, images, mountedAs, mappers, runningSystems, Ledgers>>

\* _assemble_gpt: the finally block gives the loop device back.
BootPartitions ==
    LET table == Assembled(work.size, PartitionPlan(work.size, work.request)) IN
    /\ Partitionable(table)
    /\ WorkGoes("boot part", "boot esp")
    /\ images' = [images EXCEPT ![work.image].gpt = table]
    /\ loops' = loops \ {work.image}
    /\ UNCHANGED <<systems, mountedAs, mappers, runningSystems, Ledgers>>

\* _install_bootloader_to_esp, for a disk that gets one: a second loop device, a mount, both
\* given back by the finally blocks.
EspMounts ==
    /\ WorkGoes("boot esp", "boot install")
    /\ loops' = loops \cup {work.image}
    /\ UNCHANGED <<systems, images, mountedAs, mappers, runningSystems, Ledgers>>

EspInstalled ==
    /\ WorkGoes("boot install", "boot meta")
    /\ loops' = loops \ {work.image}
    /\ UNCHANGED <<systems, images, mountedAs, mappers, runningSystems, Ledgers>>

BootEnds ==
    /\ work.step \in {"boot esp", "boot meta"}
    /\ systems' = [systems EXCEPT ![work.name].meta =
           [Named(work.name, "disk") EXCEPT !.plan = PartitionPlan(work.size, work.request)]]
    /\ work' = NoWork
    /\ UNCHANGED <<begun, images, Kernel, Ledgers>>

BootFails ==
    /\ work.step \in {"boot loop", "boot part", "boot esp", "boot install", "boot meta"}
    /\ systems' = [systems EXCEPT ![work.name] = NoSystemDir]
    /\ loops' = loops \ {work.image}
    /\ work' = NoWork
    /\ UNCHANGED <<begun, images, mountedAs, mappers, runningSystems, Ledgers>>

-----------------------------------------------------------------------------
(* Mounts. *)

Mountable(i) == ~images[i].luks /\ images[i].fs > 0 /\ images[i].fs <= images[i].file
                /\ images[i].gpt = <<>>

\* _mount_image: a mapper that is open is mounted instead of the file; what mount does not
\* recognise, it refuses.
Mounts(n) ==
    LET open == MapperOf(n) IN
    /\ Runs1(n)
    /\ systems[n].here /\ systems[n].meta # NoMeta /\ AppUnlocked(n) /\ mountedAs[n] = 0
    /\ \E i \in IF open # {} THEN {m.image : m \in open} ELSE {systems[n].image} \ {0} :
           /\ open # {} \/ Mountable(i)
           /\ mountedAs' = [mountedAs EXCEPT ![n] = i]
    /\ UNCHANGED <<systems, images, mappers, loops, runningSystems, Ledgers>>

\* do_umount, which goes on to lock an encrypted system.
Umounts(n) ==
    /\ mountedAs[n] # 0
    /\ work.step = "idle" /\ begun < MaxCommands /\ begun' = begun + 1
    /\ mountedAs' = [mountedAs EXCEPT ![n] = 0]
    /\ work' = IF systems[n].meta.encrypted /\ MapperOf(n) # {}
               THEN [NoWork EXCEPT !.step = "lock close", !.name = n] ELSE NoWork
    /\ UNCHANGED <<systems, images, mappers, loops, runningSystems, Ledgers>>

\* do_delete.
DeleteBegins(n) ==
    /\ systems[n].here /\ AppUnlocked(n) /\ mountedAs[n] = 0
    /\ Begins("delete", n)
    /\ UNCHANGED <<systems, images, Kernel, Ledgers>>

\* shutil.rmtree takes the metadata and the image in any order, and the directory at last.
Removes ==
    LET d    == systems[work.name]
        less == {[d EXCEPT !.meta = NoMeta], [d EXCEPT !.image = 0]} \ {d}
    IN /\ work.step = "delete"
       /\ IF less = {} THEN /\ systems' = [systems EXCEPT ![work.name] = NoSystemDir]
                            /\ work' = NoWork
          ELSE /\ \E e \in less :
                      systems' = [systems EXCEPT ![work.name] = [e EXCEPT !.by = "torn"]]
               /\ work' = work
       /\ UNCHANGED <<begun, images, Kernel, Ledgers>>

-----------------------------------------------------------------------------
(* do_clone and do_rename. *)

CloneBegins(a, b) ==
    /\ AppUnlocked(a) /\ systems[a].here /\ mountedAs[a] = 0 /\ ~systems[b].here
    /\ systems[a].image # 0 /\ Len(images) < MaxImages
    /\ work.step = "idle" /\ begun < MaxCommands /\ begun' = begun + 1
    /\ images' = Append(images, images[systems[a].image])
    /\ systems' = [systems EXCEPT ![b] =
           [here |-> TRUE, meta |-> systems[a].meta, image |-> Len(images'), by |-> "clone"]]
    /\ work' = [NoWork EXCEPT !.step = "name meta", !.name = b]
    /\ UNCHANGED <<Kernel, Ledgers>>

RenameBegins(a, b) ==
    /\ AppUnlocked(a) /\ systems[a].here /\ mountedAs[a] = 0 /\ ~systems[b].here
    /\ work.step = "idle" /\ begun < MaxCommands /\ begun' = begun + 1
    /\ systems' = [systems EXCEPT ![b] = systems[a], ![a] = NoSystemDir]
    /\ work' = [NoWork EXCEPT !.step = "name meta", !.name = b]
    /\ UNCHANGED <<images, Kernel, Ledgers>>

\* The name in the metadata follows; a directory without metadata gets none.
NameSaved ==
    /\ WorkGoes("name meta", "idle")
    /\ systems' = IF systems[work.name].meta = NoMeta THEN systems
                  ELSE [systems EXCEPT ![work.name].meta.name = work.name]
    /\ UNCHANGED <<images, Kernel, Ledgers>>

-----------------------------------------------------------------------------
(* do_resize of a disk: bigger is truncate, e2fsck, resize2fs; smaller is  *)
(* e2fsck, resize2fs to the size as it was typed, truncate.                *)

Resizable(n) == /\ systems[n].here /\ AppUnlocked(n) /\ mountedAs[n] = 0
                /\ systems[n].meta.kind = "disk" /\ systems[n].image # 0

ResizeBegins(n, s) ==
    LET i == systems[n].image
    IN /\ Resizable(n)
       /\ work.step = "idle" /\ begun < MaxCommands /\ begun' = begun + 1
       /\ SizeToBytes(s) # images[i].file
       /\ work' = [NoWork EXCEPT !.name = n, !.image = i, !.size = SizeToBytes(s),
                                 !.request = IF s.unit = "GiB" THEN 0 ELSE ToolBytes(s),
                                 !.step = IF SizeToBytes(s) > images[i].file
                                          THEN "resize grow" ELSE "resize shrink"]
       /\ UNCHANGED <<systems, images, Kernel, Ledgers>>

\* resize2fs acts on a filesystem only, and does not know GiB.
HasFs(i) == ~images[i].luks /\ images[i].gpt = <<>> /\ images[i].fs > 0

ResizeTruncates ==
    /\ \/ WorkGoes("resize grow", "resize fill")
       \/ WorkGoes("resize cut", "idle")
    /\ images' = [images EXCEPT ![work.image].file = work.size]
    /\ UNCHANGED <<systems, Kernel, Ledgers>>

ResizeFills ==
    /\ WorkGoes("resize fill", "idle") /\ HasFs(work.image)
    /\ images' = [images EXCEPT ![work.image].fs = images[work.image].file]
    /\ UNCHANGED <<systems, Kernel, Ledgers>>

ResizeShrinks ==
    /\ WorkGoes("resize shrink", "resize cut") /\ HasFs(work.image)
    /\ work.request # 0 /\ work.request <= images[work.image].file
    /\ images' = [images EXCEPT ![work.image].fs = work.request]
    /\ UNCHANGED <<systems, Kernel, Ledgers>>

-----------------------------------------------------------------------------
(* do_encrypt, do_unlock, do_lock. *)

EncryptBegins(n) ==
    /\ Begins("encrypt check", n)
    /\ UNCHANGED <<systems, images, Kernel, Ledgers>>

Encryptable(n) ==
    /\ systems[n].here /\ AppUnlocked(n) /\ systems[n].meta.kind = "disk"
    /\ ~systems[n].meta.encrypted /\ mountedAs[n] = 0 /\ systems[n].image # 0

EncryptLoops ==
    /\ WorkGoes("encrypt check", "encrypt convert")
    /\ Encryptable(work.name)
    /\ loops' = loops \cup {systems[work.name].image}
    /\ UNCHANGED <<systems, images, mountedAs, mappers, runningSystems, Ledgers>>

\* cryptsetup reencrypt, which refuses what is encrypted.
EncryptConverts ==
    /\ WorkGoes("encrypt convert", "encrypt open")
    /\ ~images[systems[work.name].image].luks
    /\ images' = [images EXCEPT ![systems[work.name].image].luks = TRUE]
    /\ UNCHANGED <<systems, Kernel, Ledgers>>

\* The loop device of an unlocked image.
UnlockLoops(n) ==
    /\ systems[n].here /\ systems[n].meta.encrypted /\ MapperOf(n) = {} /\ systems[n].image # 0
    /\ Begins("unlock open", n)
    /\ loops' = loops \cup {systems[n].image}
    /\ UNCHANGED <<systems, images, mountedAs, mappers, runningSystems, Ledgers>>

\* cryptsetup open.
MapperOpens ==
    /\ nextMapper <= MaxMappers
    /\ \/ WorkGoes("encrypt open", "encrypt meta")
       \/ WorkGoes("unlock open", "unlock meta")
    /\ images[systems[work.name].image].luks
    /\ mappers' = mappers \cup {[id |-> nextMapper, image |-> systems[work.name].image]}
    /\ nextMapper' = nextMapper + 1
    /\ UNCHANGED <<systems, images, mountedAs, loops, runningSystems, appLocks, orderly, leftLoops>>

\* The mapper goes into the metadata; a loop device that a mapper uses is detached when the
\* mapper closes.
MapperSaved ==
    /\ \/ WorkGoes("encrypt meta", "idle")
       \/ WorkGoes("unlock meta", "idle")
    /\ systems' = [systems EXCEPT ![work.name].meta =
           [@ EXCEPT !.mapper = nextMapper - 1, !.encrypted = TRUE]]
    /\ UNCHANGED <<images, Kernel, Ledgers>>

\* A fault: only do_encrypt detaches.
DetachedByEncrypt(i) ==
    IF work.step \in {"encrypt convert", "encrypt open"} THEN loops \ {i} ELSE loops

\* losetup -d, which does nothing to a loop device that a mapper still uses; one that a lock
\* left is another one.
Detached(i) == IF i \in leftLoops \cup {m.image : m \in mappers} THEN loops ELSE loops \ {i}

CryptFails ==
    /\ work.step \in {"encrypt check", "encrypt convert", "encrypt open", "encrypt meta",
                      "unlock open", "unlock meta"}
    /\ loops' = IF work.step = "encrypt check" THEN loops ELSE Detached(systems[work.name].image)
    /\ work' = NoWork
    /\ UNCHANGED <<begun, systems, images, mountedAs, mappers, runningSystems, Ledgers>>

LockBegins(n) ==
    /\ systems[n].here /\ systems[n].meta.mapper # 0 /\ mountedAs[n] = 0
    /\ Begins("lock close", n)
    /\ UNCHANGED <<systems, images, Kernel, Ledgers>>

\* cryptsetup close, which refuses a mapper that is mounted, then losetup -d of the loop device
\* that cryptsetup status named.  When it named none, do_lock goes on without: the device stays
\* (or goes with its mapper, if do_encrypt had detached it).
LockCloses ==
    LET gone  == MapperOf(work.name)
        freed == {m.image : m \in gone} \ leftLoops
    IN /\ WorkGoes("lock close", "lock meta")
       /\ gone # {} /\ \A m \in gone, n \in SystemNames : mountedAs[n] # m.image
       /\ mappers' = mappers \ gone
       /\ \/ loops' = loops \ freed /\ leftLoops' = leftLoops
          \/ loops' = loops /\ leftLoops' = leftLoops \cup (loops \cap freed)
       /\ UNCHANGED <<systems, images, mountedAs, runningSystems, appLocks, nextMapper, orderly>>

LockSaved ==
    /\ WorkGoes("lock meta", "idle")
    /\ systems' = [systems EXCEPT ![work.name].meta.mapper = 0]
    /\ UNCHANGED <<images, Kernel, Ledgers>>

\* A failure without a handler: the command ends where it is.
PlainFails ==
    /\ work.step \in {"delete", "name meta", "resize grow", "resize fill", "resize shrink",
                      "resize cut", "lock close", "lock meta"}
    /\ work' = NoWork
    /\ UNCHANGED <<begun, systems, images, Kernel, Ledgers>>

-----------------------------------------------------------------------------
(* App locks, virtual machines, kills and reboots. *)

AppLockTo(n, from, to) ==
    /\ Runs1(n) /\ appLocks[n] \in from
    /\ appLocks' = [appLocks EXCEPT ![n] = to]
    /\ UNCHANGED <<systems, images, Kernel, nextMapper, orderly, leftLoops>>

Protects(n)   == systems[n].meta # NoMeta /\ AppLockTo(n, {"none", "locked", "open"}, "locked")
Unprotects(n) == AppLockTo(n, {"locked", "open"}, "none")
AppUnlocks(n) == AppLockTo(n, {"locked", "open"}, "open")
AppRelocks(n) == AppLockTo(n, {"locked", "open"}, "locked")

\* binsys run: QEMU opens the image file whoever has it mounted.
RunsVm(n) ==
    /\ Runs1(n)
    /\ systems[n].meta # NoMeta /\ systems[n].image # 0
    /\ runningSystems' = runningSystems \cup {systems[n].image}
    /\ UNCHANGED <<systems, images, mountedAs, mappers, loops, Ledgers>>

VmEnds == \E i \in runningSystems :
    /\ runningSystems' = runningSystems \ {i}
    /\ UNCHANGED <<systems, images, mountedAs, mappers, loops, appLocks, work, begun, nextMapper,
                   orderly, leftLoops>>

Killed ==
    /\ work.step # "idle" /\ work' = NoWork /\ orderly' = FALSE
    /\ UNCHANGED <<systems, images, Kernel, appLocks, begun, nextMapper, leftLoops>>

Reboots ==
    /\ begun > 0 /\ work' = NoWork /\ orderly' = TRUE
    /\ mountedAs' = [n \in SystemNames |-> 0]
    /\ mappers' = {} /\ loops' = {} /\ leftLoops' = {} /\ runningSystems' = {}
    /\ UNCHANGED <<systems, images, appLocks, begun, nextMapper>>

StoreNext ==
    \/ \E n \in SystemNames, s \in ImageSizes :
           \/ \E kind \in {"disk", "layers"}, enc \in BOOLEAN : NewBegins(n, kind, s, enc)
           \/ \E esp \in EspSizes : DiskBuilds(n, s, esp)
           \/ ResizeBegins(n, s)
    \/ NewMakes \/ NewFills \/ NewFlashes \/ NewRenames \/ NewFails
    \/ BootLoops \/ BootPartitions \/ EspMounts \/ EspInstalled \/ BootEnds \/ BootFails
    \/ \E n \in SystemNames : \/ Imports(n) \/ Mounts(n) \/ Umounts(n) \/ DeleteBegins(n)
                              \/ EncryptBegins(n) \/ UnlockLoops(n) \/ LockBegins(n)
                              \/ Protects(n) \/ Unprotects(n) \/ AppUnlocks(n) \/ AppRelocks(n)
                              \/ RunsVm(n)
    \/ \E a, b \in SystemNames : CloneBegins(a, b) \/ RenameBegins(a, b)
    \/ Removes \/ NameSaved \/ ResizeTruncates \/ ResizeFills \/ ResizeShrinks
    \/ EncryptLoops \/ EncryptConverts \/ MapperOpens \/ MapperSaved \/ CryptFails
    \/ LockCloses \/ LockSaved \/ PlainFails \/ VmEnds \/ Killed \/ Reboots

StoreSpec == StoreInit /\ [][StoreNext]_storeVars

-----------------------------------------------------------------------------
(* BinSysTUI.run: reload the list, draw it, take a key, act.  Other        *)
(* terminals make and delete systems meanwhile.  Systems are numbered in   *)
(* the order of their names.                                               *)

MenuInit ==
    /\ stored \in SUBSET (1 .. MaxListed) /\ menuRows = <<>> /\ selected = 0
    /\ statusLine = "ready" /\ opOutcome = "none" /\ keyed = FALSE /\ presses = 0

\* The systems in the order of their names.
Listing == [i \in 1 .. Cardinality(stored) |->
               CHOOSE x \in stored : Cardinality({y \in stored : y < x}) = i - 1]

\* A fault: the cursor stays where it was when systems went away.
ClampedNever(k, n) == k

Clamped(k, n) == IF k < n THEN k ELSE IF n > 0 THEN n - 1 ELSE 0

MenuReloads ==
    /\ ~keyed /\ keyed' = TRUE
    /\ menuRows' = Listing
    /\ selected' = Clamped(selected, Len(menuRows'))
    /\ UNCHANGED <<stored, statusLine, opOutcome, presses>>

Presses == keyed /\ keyed' = FALSE /\ presses < MaxKeys /\ presses' = presses + 1

\* The arrows; on an empty list, down goes to -1.
MenuMoves ==
    /\ Presses
    /\ \/ selected' = IF selected > 1 THEN selected - 1 ELSE 0
       \/ selected' = IF selected + 1 < Len(menuRows) THEN selected + 1 ELSE Len(menuRows) - 1
    /\ UNCHANGED <<stored, menuRows, statusLine, opOutcome>>

\* self.systems[self.selected]: a negative index counts from the end.
Target == menuRows[IF selected >= 0 THEN selected + 1 ELSE Len(menuRows) + 1 + selected]

\* action_delete: the message of a failure is overwritten.
MenuDeletes ==
    /\ Presses /\ menuRows # <<>>
    /\ \/ /\ Target \in stored /\ stored' = stored \ {Target} /\ opOutcome' = "done"
       \/ stored' = stored /\ opOutcome' = "failed"
    /\ statusLine' = "done"
    /\ UNCHANGED <<menuRows, selected>>

\* action_new: likewise.
MenuMakes(x) ==
    /\ Presses
    /\ \/ x \notin stored /\ stored' = stored \cup {x} /\ opOutcome' = "done"
       \/ stored' = stored /\ opOutcome' = "failed"
    /\ statusLine' = "done"
    /\ UNCHANGED <<menuRows, selected>>

\* action_mount_toggle, check and hash: a mount, a check or a hash that fails says so; an
\* umount that fails does not.
MenuRuns ==
    /\ Presses /\ menuRows # <<>>
    /\ \/ opOutcome' = "done" /\ statusLine' \in {"done", "ready"}
       \/ opOutcome' = "failed" /\ statusLine' \in {"error", "done"}
    /\ UNCHANGED <<stored, menuRows, selected>>

\* Another terminal.
OthersChange(x) ==
    /\ stored' = IF x \in stored THEN stored \ {x} ELSE stored \cup {x}
    /\ UNCHANGED <<menuRows, selected, statusLine, opOutcome, keyed, presses>>

MenuNext == \/ MenuReloads \/ MenuMoves \/ MenuDeletes \/ MenuRuns
            \/ \E x \in 1 .. MaxListed : MenuMakes(x) \/ OthersChange(x)

MenuSpec == MenuInit /\ [][MenuNext]_menuVars

-----------------------------------------------------------------------------
(* What a store is for. *)

\* _image.py:151 "Create a new filesystem image. Uses a temp directory for atomicity.": whenever
\* a command fails or is killed, the directory of a system that do_new or do_import made holds
\* its metadata and an image whose filesystem was made, until a delete takes the first of them.
CreatedWhole ==
    \A n \in SystemNames :
        systems[n].here /\ systems[n].by = "new" =>
            /\ systems[n].meta # NoMeta
            /\ systems[n].image # 0 /\ images[systems[n].image].fs > 0

\* _crypto.py:102 "Always detach loop device": once a command is over, however it failed, a loop
\* device is left only behind a mapper that is open, or by a lock to which cryptsetup status had
\* not named it.
NoLoopLeft ==
    work.step = "idle" /\ orderly => loops \subseteq leftLoops \cup {m.image : m \in mappers}

\* _boot.py:93 "Write GPT partition table + format each partition with 1MiB alignment": the
\* partitions of a boot disk start on the alignment, do not meet, end one unit before the end of
\* the disk, and the metadata gives the root partition a size that is off by less than one unit
\* (unless it gives the least one).
LayoutAsPlanned ==
    \A n \in SystemNames :
        LET t == images[systems[n].image].gpt
            p == systems[n].meta.plan
        IN p # <<>> /\ systems[n].image # 0 /\ t # <<>> /\ images[systems[n].image].file >= Align * 4 =>
               /\ \A i \in 1 .. 2 : (t[i].first * Sector) % Align = 0
               /\ t[1].last < t[2].first
               /\ p[2] = MinRoot
                  \/ (t[2].last + 1 - t[2].first) * Sector \in p[2] - Align .. p[2] + Align

\* _image.py:272 "The system '%s' remains unencrypted.": an image that cryptsetup encrypted is
\* known to be, when no command runs.
EncryptedIsKnown ==
    work.step = "idle" /\ orderly =>
        \A n \in SystemNames : systems[n].meta # NoMeta /\ systems[n].image # 0 =>
            (images[systems[n].image].luks <=> systems[n].meta.encrypted)

\* _image.py:454 "Mount a system's image to the global mounts directory."
MountsOwnImage ==
    \A n \in SystemNames : mountedAs[n] # 0 => mountedAs[n] = systems[n].image

\* _image.py:567 "Resize the primary filesystem image.": the filesystem lies in its file.
FilesystemFits ==
    work.step = "idle" /\ orderly =>
        \A n \in SystemNames : systems[n].image # 0 =>
            images[systems[n].image].fs <= images[systems[n].image].file

\* _tui.py:462 takes self.systems[self.selected]: whatever was deleted meanwhile, the cursor is
\* on a system, or on none because there was none when it moved, and never past the end.
CursorOnSystem == keyed /\ menuRows # <<>> => selected \in -1 .. Len(menuRows) - 1

\* _tui.py:339 "Run an operation with a spinner and error handling.": the message that is shown
\* does not call a failed operation done.
FailureIsShown == opOutcome = "failed" => statusLine = "error"
=============================================================================
