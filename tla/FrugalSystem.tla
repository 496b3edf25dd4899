---------------------------- MODULE FrugalSystem ----------------------------
(***************************************************************************)
(* The image files of one binsys system and the commands that rewrite them *)
(* (binsys/_frugal.py, binsys/_image.py): convert an ext4 image to a base  *)
(* and a save layer, mount and umount the overlay, snapshot the save       *)
(* layer, roll it back, and merge it into the base.                        *)
(*                                                                         *)
(* A command is a sequence of external programs and file operations, any   *)
(* of which may fail; a program that writes a file takes two steps,        *)
(* between which the file is torn.  A command may be killed and the        *)
(* machine may lose power between any two steps; files keep what completed *)
(* steps left in them.  One command runs at a time (binsys has no lock:    *)
(* the operator sees to it); whoever uses the mounted overlay does not     *)
(* wait for it.                                                            *)
(*                                                                         *)
(* An image is known by the edits that its filesystem holds.  A system of  *)
(* type squashfs converts by a move of base.sfs onto itself, encrypted     *)
(* and app-locked systems are refused, sizes never change: left out.       *)
(***************************************************************************)
EXTENDS Naturals

CONSTANTS Edits,       \* changes that users make to files of the system
          Original,    \* those that the ext4 image holds from the start
          Snaps,       \* snapshot file names
          SnapFile,    \* the one that "binsys snap" always uses
          MaxMounts,   \* bound on the mounts stacked on one directory
          NoSnap

Names == {"disk.img", "disk.img.orig", "base.sfs", "base.sfs.bak", "base.sfs.new", "save.img"}

ASSUME FrugalAssumption ==
    /\ Original \subseteq Edits
    /\ SnapFile \in Snaps /\ Snaps \cap Names = {} /\ NoSnap \notin Snaps
    /\ MaxMounts \in Nat \ {0}

VARIABLES
    meta,        \* meta.json: type
    file,        \* the image in each file
    main,        \* the overlay is mounted on MOUNTS/name
    baseMnts,    \* mounts stacked on MOUNTS/name_base
    saveMnts,    \* mounts stacked on MOUNTS/name_save
    at,          \* the next step of the command that runs
    failed,      \* that command is on its way out with an exception
    snap,        \* the snapshot it works on
    written      \* the edits made so far that no rollback gave up

mounts == <<main, baseMnts, saveMnts>>
vars   == <<meta, file, mounts, at, failed, snap, written>>

Image(s, e) == [state |-> s, edits |-> e]
Gone     == Image("gone", {})
Torn     == Image("torn", {})
Fresh    == Image("fresh", {})      \* just formatted, without an upper directory
Holds(e) == Image("whole", e)

Usable(f) == file[f].state \in {"whole", "fresh"}

Init ==
    /\ meta = "ext4"
    /\ file = [f \in Names \cup Snaps |-> IF f = "disk.img" THEN Holds(Original) ELSE Gone]
    /\ main = FALSE /\ baseMnts = 0 /\ saveMnts = 0
    /\ at = "idle" /\ failed = FALSE /\ snap = NoSnap
    /\ written = Original

-----------------------------------------------------------------------------
Steps(from, to) == at = from /\ at' = to

\* A step that writes img to f, and nothing else.
Puts(f, img) ==
    /\ file' = [file EXCEPT ![f] = img]
    /\ UNCHANGED <<meta, mounts, failed, snap, written>>

Moves(f, g) ==
    /\ file' = [file EXCEPT ![g] = file[f], ![f] = Gone]
    /\ UNCHANGED <<meta, mounts, failed, snap, written>>

\* The command ends with an exception, without a change of any file.
Aborts == at' = "idle" /\ UNCHANGED <<meta, file, mounts, failed, snap, written>>

(* convert_to_frugal. *)

ConvertStarts ==
    /\ Steps("idle", "convert squash")
    /\ meta = "ext4" /\ Usable("disk.img")
    /\ Puts("base.sfs", Torn)

ConvertSquashes == /\ Steps("convert squash", "convert move")
                   /\ Puts("base.sfs", Holds(file["disk.img"].edits))

ConvertMoves == Steps("convert move", "convert format") /\ Moves("disk.img", "disk.img.orig")

ConvertFormats == Steps("convert format", "convert formatting") /\ Puts("save.img", Torn)

ConvertFormatted == Steps("convert formatting", "convert meta") /\ Puts("save.img", Fresh)

ConvertEnds ==
    /\ Steps("convert meta", "idle")
    /\ meta' = "overlay"
    /\ UNCHANGED <<file, mounts, failed, snap, written>>

ConvertFails ==
    /\ at \in {"convert squash", "convert move", "convert format", "convert formatting"}
    /\ Aborts

Convert == ConvertStarts \/ ConvertSquashes \/ ConvertMoves \/ ConvertFormats
           \/ ConvertFormatted \/ ConvertEnds \/ ConvertFails

-----------------------------------------------------------------------------
(* do_mount and do_umount of an overlay. *)

MountStarts ==
    /\ Steps("idle", "mount base")
    /\ meta = "overlay" /\ ~main
    /\ UNCHANGED <<meta, file, mounts, failed, snap, written>>

Unstacked(n) == IF n > 0 THEN n - 1 ELSE 0

MountsBase(to) ==
    /\ Usable("base.sfs") /\ baseMnts < MaxMounts
    /\ baseMnts' = baseMnts + 1 /\ at' = to
    /\ UNCHANGED <<meta, file, main, saveMnts, failed, snap, written>>

MountsSave(to) ==
    /\ Usable("save.img") /\ saveMnts < MaxMounts
    /\ saveMnts' = saveMnts + 1 /\ at' = to
    /\ UNCHANGED <<meta, file, main, baseMnts, failed, snap, written>>

MakesUpper == /\ Steps("mount upper", "mount overlay")
              /\ Puts("save.img", Holds(file["save.img"].edits))

MountsOverlay ==
    /\ Steps("mount overlay", "idle")
    /\ main' = TRUE
    /\ UNCHANGED <<meta, file, baseMnts, saveMnts, failed, snap, written>>

\* A step failed: whatever is mounted on the directories of
\* the layers is unmounted once, the base twice when the save layer failed.
MountFails ==
    /\ at \in {"mount base", "mount save", "mount upper", "mount overlay"}
    /\ at' = "idle"
    /\ saveMnts' \in {saveMnts, Unstacked(saveMnts)}
    /\ \/ baseMnts' \in {baseMnts, Unstacked(baseMnts)}
       \/ at = "mount save" /\ baseMnts' = Unstacked(Unstacked(baseMnts))
    /\ UNCHANGED <<meta, file, main, failed, snap, written>>

Mount ==
    \/ MountStarts
    \/ at = "mount base" /\ MountsBase("mount save")
    \/ at = "mount save" /\ MountsSave("mount upper")
    \/ MakesUpper \/ MountsOverlay \/ MountFails

\* The overlay first (its umount may fail and end the command), then the
\* layers, whose umounts may fail unnoticed.
UmountStarts ==
    /\ Steps("idle", "umount save")
    /\ meta = "overlay"
    /\ main' = FALSE
    /\ UNCHANGED <<meta, file, baseMnts, saveMnts, failed, snap, written>>

UmountsSave ==
    /\ Steps("umount save", "umount base")
    /\ saveMnts' \in {saveMnts, Unstacked(saveMnts)}
    /\ UNCHANGED <<meta, file, main, baseMnts, failed, snap, written>>

UmountsBase ==
    /\ Steps("umount base", "idle")
    /\ baseMnts' \in {baseMnts, Unstacked(baseMnts)}
    /\ UNCHANGED <<meta, file, main, saveMnts, failed, snap, written>>

Umount == UmountStarts \/ UmountsSave \/ UmountsBase

-----------------------------------------------------------------------------
(* Snapshots of the save layer. *)

Held(e, fs) == \E f \in fs : e \in file[f].edits

\* do_frugal_save_snapshot takes a new name; do_snap takes the same one each
\* time, and its user gives up what only the earlier snapshot holds.
SnapStarts(s) ==
    /\ Steps("idle", "copying")
    /\ meta = "overlay" /\ file["save.img"].state # "gone"
    /\ s = SnapFile \/ file[s] = Gone
    /\ snap' = s
    /\ file' = [file EXCEPT ![s] = Torn]
    /\ written' = {e \in written : Held(e, DOMAIN file \ {s})}
    /\ UNCHANGED <<meta, mounts, failed>>

\* The copy of a mounted filesystem may be inconsistent.
SnapEnds ==
    /\ Steps("copying", "idle")
    /\ \/ file' = [file EXCEPT ![snap] = file["save.img"]]
       \/ saveMnts > 0 /\ file' = [file EXCEPT ![snap] = Torn]
    /\ snap' = NoSnap
    /\ UNCHANGED <<meta, mounts, failed, written>>

\* The layer below: base.sfs, or the one that merge was about to rename to it.
Lower == IF file["base.sfs"] = Gone THEN "base.sfs.new" ELSE "base.sfs"

\* Rolling back gives up the edits that neither the snapshot nor the base has.
RollbackStarts(s) ==
    /\ Steps("idle", "restoring")
    /\ meta = "overlay" /\ file[s] # Gone /\ ~main /\ saveMnts = 0
    /\ snap' = s
    /\ file' = [file EXCEPT !["save.img"] = Torn]
    /\ written' = {e \in written : Held(e, {Lower, s})}
    /\ UNCHANGED <<meta, mounts, failed>>

RollbackEnds ==
    /\ Steps("restoring", "idle")
    /\ file' = [file EXCEPT !["save.img"] = file[snap]]
    /\ snap' = NoSnap
    /\ UNCHANGED <<meta, mounts, failed, written>>

\* cp fails and leaves what it has written.
CopyFails ==
    /\ at \in {"copying", "restoring"} /\ at' = "idle"
    /\ snap' = NoSnap
    /\ UNCHANGED <<meta, file, mounts, failed, written>>

Snapshots == (\E s \in Snaps : SnapStarts(s) \/ RollbackStarts(s))
             \/ SnapEnds \/ RollbackEnds \/ CopyFails

-----------------------------------------------------------------------------
(* do_frugal_merge. *)

\* A fault: the system may be mounted, and written to, while it is merged.
MergeStartsMounted ==
    /\ Steps("idle", "merge base")
    /\ meta = "overlay"
    /\ UNCHANGED <<meta, file, mounts, failed, snap, written>>

MergeStarts ==
    /\ Steps("idle", "merge base")
    /\ meta = "overlay" /\ ~main
    /\ UNCHANGED <<meta, file, mounts, failed, snap, written>>

FailsTo(from, to) ==
    /\ Steps(from, to)
    /\ failed' = TRUE
    /\ UNCHANGED <<meta, file, mounts, snap, written>>

\* Without an upper directory the save layer has nothing to merge.
MergesOverlay ==
    /\ Steps("merge overlay", "squash")
    /\ file["save.img"].state = "whole"
    /\ UNCHANGED <<meta, file, mounts, failed, snap, written>>

SquashStarts == Steps("squash", "squashing") /\ Puts("base.sfs.new", Torn)

\* A fault: the overlay is composed without the upper layer.
SquashesBase == /\ Steps("squashing", "drop overlay")
                /\ Puts("base.sfs.new", Holds(file["base.sfs"].edits))

Squashes == /\ Steps("squashing", "drop overlay")
            /\ Puts("base.sfs.new", Holds(file["base.sfs"].edits \cup file["save.img"].edits))

\* An umount on the way out, which may fail too.
Unmounts(from, to, ok) ==
    /\ Steps(from, to)
    /\ failed' = (failed \/ ~ok)
    /\ UNCHANGED <<meta, file, main, snap, written>>

DropsOverlay(ok) == Unmounts("drop overlay", "drop save", ok) /\ UNCHANGED <<baseMnts, saveMnts>>

DropsSave(ok) ==
    /\ Unmounts("drop save", "drop base", ok)
    /\ saveMnts' = IF ok THEN Unstacked(saveMnts) ELSE saveMnts
    /\ UNCHANGED baseMnts

\* A fault: the swap goes ahead after a failure.
DropsBaseRegardless(ok) ==
    /\ at = "drop base" /\ at' = "swap out"
    /\ failed' = FALSE
    /\ baseMnts' = IF ok THEN Unstacked(baseMnts) ELSE baseMnts
    /\ UNCHANGED <<meta, file, main, saveMnts, snap, written>>

\* After a failure anywhere before, the exception ends the command here.
DropsBase(ok) ==
    /\ at = "drop base"
    /\ at' = IF failed \/ ~ok THEN "idle" ELSE "swap out"
    /\ failed' = FALSE
    /\ baseMnts' = IF ok THEN Unstacked(baseMnts) ELSE baseMnts
    /\ UNCHANGED <<meta, file, main, saveMnts, snap, written>>

SwapsOut == Steps("swap out", "swap in") /\ Moves("base.sfs", "base.sfs.bak")

SwapsIn == Steps("swap in", "reset") /\ Moves("base.sfs.new", "base.sfs")

Resets == Steps("reset", "formatting") /\ Puts("save.img", Torn)

Formats == Steps("formatting", "idle") /\ Puts("save.img", Fresh)

MergeFails ==
    \/ FailsTo("merge save", "drop base")
    \/ FailsTo("merge overlay", "drop save")
    \/ FailsTo("squashing", "drop overlay")
    \/ at \in {"merge base", "swap out", "swap in", "reset", "formatting"} /\ Aborts

Merge ==
    \/ MergeStarts
    \/ at = "merge base" /\ MountsBase("merge save")
    \/ at = "merge save" /\ MountsSave("merge overlay")
    \/ MergesOverlay \/ SquashStarts \/ Squashes
    \/ \E ok \in BOOLEAN : DropsOverlay(ok) \/ DropsSave(ok) \/ DropsBase(ok)
    \/ SwapsOut \/ SwapsIn \/ Resets \/ Formats \/ MergeFails

-----------------------------------------------------------------------------
\* The user of the mounted overlay writes; the kernel puts it into save.img.
Edit(e) ==
    /\ main /\ e \notin written
    /\ file' = [file EXCEPT !["save.img"] = Holds(@.edits \cup {e})]
    /\ written' = written \cup {e}
    /\ UNCHANGED <<meta, mounts, at, failed, snap>>

\* The process of the command is killed: nothing cleans up after it.
Killed ==
    /\ at # "idle" /\ at' = "idle"
    /\ failed' = FALSE /\ snap' = NoSnap
    /\ UNCHANGED <<meta, file, mounts, written>>

\* The machine restarts: the mounts are gone, the files stay (binsys never
\* calls fsync: that a completed step is on the disk is assumed).
PowerLoss ==
    /\ at' = "idle" /\ failed' = FALSE /\ snap' = NoSnap
    /\ main' = FALSE /\ baseMnts' = 0 /\ saveMnts' = 0
    /\ UNCHANGED <<meta, file, written>>

Next == Convert \/ Mount \/ Umount \/ Snapshots \/ Merge
        \/ (\E e \in Edits : Edit(e)) \/ Killed \/ PowerLoss

Spec == Init /\ [][Next]_vars

-----------------------------------------------------------------------------
Points ==
    {"idle", "convert squash", "convert move", "convert format", "convert formatting",
     "convert meta", "mount base", "mount save", "mount upper", "mount overlay",
     "umount save", "umount base", "copying", "restoring", "merge base", "merge save", "merge overlay",
     "squash", "squashing", "drop overlay", "drop save", "drop base", "swap out",
     "swap in", "reset", "formatting"}

TypeOK ==
    /\ meta \in {"ext4", "overlay"}
    /\ file \in [Names \cup Snaps -> [state : {"gone", "torn", "fresh", "whole"},
                                      edits : SUBSET Edits]]
    /\ main \in BOOLEAN
    /\ baseMnts \in Nat /\ saveMnts \in Nat
    /\ at \in Points /\ failed \in BOOLEAN
    /\ snap \in Snaps \cup {NoSnap}
    /\ written \subseteq Edits

\* Whatever fails, is killed or loses power, and however often commands are
\* tried again: an edit that nobody gave up is in some complete image file.
EditsSurvive == \A e \in written : Held(e, DOMAIN file)

\* As soon as base and save layer can both be mounted, they show every such
\* edit: merge moves edits from one to the other without a gap, although it
\* may end after any of its steps and be repeated.
EditsVisible ==
    meta = "overlay" /\ Usable("base.sfs") /\ Usable("save.img")
        => \A e \in written : Held(e, {"base.sfs", "save.img"})

\* The base is complete or, between the two renames of merge, the old and the
\* new one both are: a failed, killed or repeated command never leaves a torn
\* base, nor none.
BaseRecoverable ==
    meta = "overlay" =>
        \/ file["base.sfs"].state = "whole"
        \/ /\ file["base.sfs"] = Gone
           /\ file["base.sfs.new"].state = "whole"
           /\ file["base.sfs.bak"].state = "whole"

\* "Atomically swap base layer": a system that can be mounted has a base.
BaseSwapIsAtomic == meta = "overlay" => file["base.sfs"] # Gone
=============================================================================
