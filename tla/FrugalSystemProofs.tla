------------------------- MODULE FrugalSystemProofs -------------------------
(***************************************************************************)
(* FrugalSystem keeps every edit, whatever fails, is killed or loses       *)
(* power, for all sets of edits and snapshots: the inductive invariant     *)
(* says at each point of a command what the files hold already.            *)
(***************************************************************************)
EXTENDS FrugalSystem, TLAPS

Whole(f) == file[f].state = "whole"

Within(f) == written \subseteq file[f].edits

ConvertPoints == {"convert squash", "convert move", "convert format", "convert formatting", "convert meta"}

BaseMounted ==
    {"mount save", "mount upper", "mount overlay", "merge save", "merge overlay", "squash",
     "squashing", "drop overlay", "drop save", "drop base", "swap out"}

\* Only a complete image holds edits.
Blank == \A f \in Names \cup Snaps : ~Whole(f) => file[f].edits = {}

\* Before the conversion ends: the ext4 image is where it was, or renamed.
Plain ==
    meta = "ext4" =>
        /\ ~main /\ at \in ConvertPoints \cup {"idle"}
        /\ file["disk.img"] = Gone \/ (Whole("disk.img") /\ Within("disk.img"))
        /\ file["disk.img"] = Gone => Within("disk.img.orig")
        /\ at \in {"convert squash", "convert move"} => Whole("disk.img")
        /\ at \in ConvertPoints \ {"convert squash"} => Whole("base.sfs") /\ Within("base.sfs")

\* After it: base and save layer show every edit.
Layers ==
    meta = "overlay" =>
        /\ at \notin ConvertPoints
        /\ BaseRecoverable
        /\ Usable("save.img") => \A e \in written : Held(e, {Lower, "save.img"})
        /\ main => Usable("save.img") /\ at \in {"idle", "copying"}
        /\ at \in BaseMounted => Whole("base.sfs")
        /\ at \in {"mount upper", "mount overlay", "merge overlay"} => Usable("save.img")

\* The new base, once mksquashfs has succeeded, replaces both layers.
Flattened ==
    /\ Whole("save.img") /\ Whole("base.sfs.new")
    /\ file["base.sfs"].edits \cup file["save.img"].edits \subseteq file["base.sfs.new"].edits

Merging ==
    /\ at \in {"squash", "squashing"} => Whole("save.img")
    /\ at \in {"drop overlay", "drop save", "drop base"} /\ ~failed => Flattened
    /\ at = "swap out" => Flattened
    /\ at = "swap in" => /\ file["base.sfs"] = Gone
                         /\ Whole("base.sfs.new") /\ Whole("base.sfs.bak")
                         /\ Within("base.sfs.new")
    /\ at \in {"reset", "formatting"} => Whole("base.sfs") /\ Within("base.sfs")

\* A copy has a snapshot to copy.
Selects == at \in {"copying", "restoring"} => snap \in Snaps

Copying ==
    /\ at = "copying" => file[snap].edits = {}
    /\ at = "restoring" => \A e \in written : Held(e, {Lower, snap})

IInv == TypeOK /\ Selects /\ Blank /\ Plain /\ Layers /\ Merging /\ Copying /\ EditsSurvive

-----------------------------------------------------------------------------
(* Types. *)

Images == [state : {"gone", "torn", "fresh", "whole"}, edits : SUBSET Edits]

Files == Names \cup Snaps

LEMMA ImageTypes ==
    ASSUME NEW e \in SUBSET Edits
    PROVE  /\ Gone \in Images /\ Torn \in Images /\ Fresh \in Images /\ Holds(e) \in Images
           /\ Gone.edits = {} /\ Torn.edits = {} /\ Fresh.edits = {} /\ Holds(e).edits = e
           /\ Gone.state = "gone" /\ Torn.state = "torn" /\ Fresh.state = "fresh" /\ Holds(e).state = "whole"
BY DEF Gone, Torn, Fresh, Holds, Image, Images

LEMMA FileTypes ==
    ASSUME TypeOK
    PROVE  /\ file \in [Files -> Images]
           /\ \A f \in Files : file[f] \in Images /\ file[f].edits \in SUBSET Edits
           /\ SnapFile \in Files /\ Snaps \subseteq Files
           /\ {"disk.img", "disk.img.orig", "base.sfs", "base.sfs.bak", "base.sfs.new", "save.img"} \subseteq Files
BY FrugalAssumption DEF TypeOK, Files, Images, Names

\* What a step that writes one file leaves.
LEMMA Written ==
    ASSUME NEW f \in Files, NEW img \in Images, file \in [Files -> Images],
           file' = [file EXCEPT ![f] = img]
    PROVE  file' \in [Files -> Images] /\ file'[f] = img /\ \A g \in Files \ {f} : file'[g] = file[g]
OBVIOUS

LEMMA FileStep == TypeOK /\ Selects /\ [Next]_vars => file' \in [Files -> Images]
<1> SUFFICES ASSUME TypeOK, Selects, [Next]_vars PROVE file' \in [Files -> Images]
  OBVIOUS
<1> USE FileTypes
<1> HIDE DEF Files, Images, TypeOK
<1>0. /\ Gone \in Images /\ Torn \in Images /\ Fresh \in Images
      /\ \A e \in SUBSET Edits : Holds(e) \in Images
  BY ImageTypes
<1>1. CASE Convert
  BY <1>0, <1>1 DEF Convert, ConvertStarts, ConvertSquashes, ConvertMoves, ConvertFormats,
     ConvertFormatted, ConvertEnds, ConvertFails, Puts, Moves, Aborts
<1>2. CASE Mount
  BY <1>0, <1>2 DEF Mount, MountStarts, MountsBase, MountsSave, MakesUpper, MountsOverlay, MountFails, Puts
<1>3. CASE Umount
  BY <1>0, <1>3 DEF Umount, UmountStarts, UmountsSave, UmountsBase
<1>4. CASE Snapshots
  BY <1>0, <1>4 DEF Snapshots, SnapStarts, SnapEnds, RollbackStarts, RollbackEnds, CopyFails, Steps, Selects
<1>5. CASE Merge
  BY <1>0, <1>5 DEF Merge, MergeStarts, MountsBase, MountsSave, MergesOverlay, SquashStarts, Squashes,
     DropsOverlay, DropsSave, DropsBase, Unmounts, SwapsOut, SwapsIn, Resets, Formats, MergeFails,
     FailsTo, Puts, Moves, Aborts
<1>6. CASE \E e \in Edits : Edit(e)
  <2>1. PICK e \in Edits : Edit(e)
    BY <1>6
  <2>2. file["save.img"].edits \cup {e} \in SUBSET Edits
    OBVIOUS
  <2> QED
    BY <1>0, <2>1, <2>2 DEF Edit
<1>7. CASE Killed \/ PowerLoss \/ UNCHANGED vars
  BY <1>7 DEF Killed, PowerLoss, vars
<1> QED
  BY <1>1, <1>2, <1>3, <1>4, <1>5, <1>6, <1>7 DEF Next

LEMMA CountStep == TypeOK /\ [Next]_vars => baseMnts' \in Nat /\ saveMnts' \in Nat
<1> DEFINE Counts(n) == {n, Unstacked(n), Unstacked(Unstacked(n)), n + 1, 0}
<1> SUFFICES ASSUME baseMnts \in Nat, saveMnts \in Nat, [Next]_vars
             PROVE  baseMnts' \in Nat /\ saveMnts' \in Nat
  BY DEF TypeOK
<1>0. \A n \in Nat : Counts(n) \subseteq Nat
  BY DEF Unstacked
<1> USE DEF mounts
<1> HIDE DEF Counts
<1>a. \A n : {n, Unstacked(n), Unstacked(Unstacked(n)), n + 1, 0} \subseteq Counts(n)
  BY DEF Counts
<1>1. CASE Convert
  BY <1>1 DEF Convert, ConvertStarts, ConvertSquashes, ConvertMoves, ConvertFormats,
     ConvertFormatted, ConvertEnds, ConvertFails, Puts, Moves, Aborts
<1>2. CASE Mount
  <2>1. baseMnts' \in Counts(baseMnts) /\ saveMnts' \in Counts(saveMnts)
    BY <1>a, <1>2, Zenon DEF Mount, MountStarts, MountsBase, MountsSave, MakesUpper, MountsOverlay, MountFails, Puts
  <2> QED
    BY <1>0, <2>1
<1>3. CASE Umount
  BY <1>0, <1>a, <1>3 DEF Umount, UmountStarts, UmountsSave, UmountsBase
<1>4. CASE Snapshots
  BY <1>4 DEF Snapshots, SnapStarts, SnapEnds, RollbackStarts, RollbackEnds, CopyFails
<1>5. CASE Merge
  <2>1. baseMnts' \in Counts(baseMnts) /\ saveMnts' \in Counts(saveMnts)
    BY <1>a, <1>5, Zenon DEF Merge, MergeStarts, MountsBase, MountsSave, MergesOverlay, SquashStarts, Squashes,
       DropsOverlay, DropsSave, DropsBase, Unmounts, SwapsOut, SwapsIn, Resets, Formats, MergeFails,
       FailsTo, Puts, Moves, Aborts
  <2> QED
    BY <1>0, <2>1
<1>6. CASE (\E e \in Edits : Edit(e)) \/ Killed \/ PowerLoss \/ UNCHANGED vars
  <2>1. baseMnts' \in Counts(baseMnts) /\ saveMnts' \in Counts(saveMnts)
    BY <1>a, <1>6, Zenon DEF Edit, Killed, PowerLoss, vars
  <2> QED
    BY <1>0, <2>1
<1> QED
  BY <1>1, <1>2, <1>3, <1>4, <1>5, <1>6 DEF Next

LEMMA PointStep == at \in Points /\ [Next]_vars => at' \in Points
<1> SUFFICES ASSUME at \in Points, [Next]_vars PROVE at' \in Points
  OBVIOUS
<1>1. CASE Convert
  BY <1>1 DEF Convert, ConvertStarts, ConvertSquashes, ConvertMoves, ConvertFormats,
     ConvertFormatted, ConvertEnds, ConvertFails, Aborts, Steps, Points
<1>2. CASE Mount
  BY <1>2 DEF Mount, MountStarts, MountsBase, MountsSave, MakesUpper, MountsOverlay, MountFails, Steps, Points
<1>3. CASE Umount
  BY <1>3 DEF Umount, UmountStarts, UmountsSave, UmountsBase, Steps, Points
<1>4. CASE Snapshots
  BY <1>4 DEF Snapshots, SnapStarts, SnapEnds, RollbackStarts, RollbackEnds, CopyFails, Steps, Points
<1>5. CASE Merge
  BY <1>5 DEF Merge, MergeStarts, MountsBase, MountsSave, MergesOverlay, SquashStarts, Squashes,
     DropsOverlay, DropsSave, DropsBase, Unmounts, SwapsOut, SwapsIn, Resets, Formats, MergeFails,
     FailsTo, Aborts, Steps, Points
<1>6. CASE (\E e \in Edits : Edit(e)) \/ UNCHANGED vars
  BY <1>6 DEF Edit, vars
<1>7. CASE Killed \/ PowerLoss
  BY <1>7 DEF Killed, PowerLoss, Points
<1> QED
  BY <1>1, <1>2, <1>3, <1>4, <1>5, <1>6, <1>7 DEF Next

LEMMA FlagStep ==
    TypeOK /\ [Next]_vars => meta' \in {"ext4", "overlay"} /\ main' \in BOOLEAN /\ failed' \in BOOLEAN
<1> SUFFICES ASSUME meta \in {"ext4", "overlay"}, main \in BOOLEAN, failed \in BOOLEAN, [Next]_vars
             PROVE  meta' \in {"ext4", "overlay"} /\ main' \in BOOLEAN /\ failed' \in BOOLEAN
  BY DEF TypeOK
<1> QED
  BY Zenon DEF Next, Convert, ConvertStarts, ConvertSquashes, ConvertMoves, ConvertFormats,
     ConvertFormatted, ConvertEnds, ConvertFails, Mount, MountStarts, MountsBase, MountsSave, MakesUpper,
     MountsOverlay, MountFails, Umount, UmountStarts, UmountsSave, UmountsBase, Snapshots, SnapStarts,
     SnapEnds, RollbackStarts, RollbackEnds, CopyFails, Merge, MergeStarts, MergesOverlay, SquashStarts,
     Squashes, DropsOverlay, DropsSave, DropsBase, Unmounts, SwapsOut, SwapsIn, Resets, Formats,
     MergeFails, FailsTo, Edit, Killed, PowerLoss, Puts, Moves, Aborts, mounts, vars

LEMMA WrittenStep == TypeOK /\ [Next]_vars => written' \subseteq Edits /\ snap' \in Snaps \cup {NoSnap}
<1> SUFFICES ASSUME written \subseteq Edits, snap \in Snaps \cup {NoSnap}, [Next]_vars
             PROVE  written' \subseteq Edits /\ snap' \in Snaps \cup {NoSnap}
  BY DEF TypeOK
<1>1. CASE Convert \/ Mount \/ Umount
  BY <1>1, Zenon DEF Convert, ConvertStarts, ConvertSquashes, ConvertMoves, ConvertFormats,
     ConvertFormatted, ConvertEnds, ConvertFails, Mount, MountStarts, MountsBase, MountsSave, MakesUpper,
     MountsOverlay, MountFails, Umount, UmountStarts, UmountsSave, UmountsBase, Puts, Moves, Aborts
<1>2. CASE Snapshots
  BY <1>2 DEF Snapshots, SnapStarts, SnapEnds, RollbackStarts, RollbackEnds, CopyFails
<1>3. CASE Merge
  BY <1>3, Zenon DEF Merge, MergeStarts, MountsBase, MountsSave, MergesOverlay, SquashStarts,
     Squashes, DropsOverlay, DropsSave, DropsBase, Unmounts, SwapsOut, SwapsIn, Resets, Formats,
     MergeFails, FailsTo, Puts, Moves, Aborts
<1>4. CASE (\E e \in Edits : Edit(e)) \/ Killed \/ PowerLoss \/ UNCHANGED vars
  BY <1>4, Zenon DEF Edit, Killed, PowerLoss, vars
<1> QED
  BY <1>1, <1>2, <1>3, <1>4 DEF Next

LEMMA SelectsStep == Selects /\ [Next]_vars => Selects'
<1> SUFFICES ASSUME Selects, [Next]_vars PROVE Selects'
  OBVIOUS
<1>1. CASE Snapshots
  BY <1>1 DEF Snapshots, SnapStarts, SnapEnds, RollbackStarts, RollbackEnds, CopyFails, Steps, Selects
<1>2. CASE Convert
  BY <1>2 DEF Convert, ConvertStarts, ConvertSquashes, ConvertMoves, ConvertFormats,
     ConvertFormatted, ConvertEnds, ConvertFails, Aborts, Steps, Selects
<1>3. CASE Mount \/ Umount
  BY <1>3 DEF Mount, MountStarts, MountsBase, MountsSave, MakesUpper, MountsOverlay, MountFails,
     Umount, UmountStarts, UmountsSave, UmountsBase, Steps, Selects
<1>4. CASE Merge
  BY <1>4 DEF Merge, MergeStarts, MountsBase, MountsSave, MergesOverlay, SquashStarts,
     Squashes, DropsOverlay, DropsSave, DropsBase, Unmounts, SwapsOut, SwapsIn, Resets, Formats,
     MergeFails, FailsTo, Aborts, Steps, Selects
<1>5. CASE (\E e \in Edits : Edit(e)) \/ UNCHANGED vars
  BY <1>5, Zenon DEF Edit, vars, Selects
<1>6. CASE Killed \/ PowerLoss
  BY <1>6 DEF Killed, PowerLoss, Selects
<1> QED
  BY <1>1, <1>2, <1>3, <1>4, <1>5, <1>6 DEF Next

LEMMA TypeStep == TypeOK /\ Selects /\ [Next]_vars => TypeOK' /\ Selects'
BY FileStep, CountStep, PointStep, FlagStep, WrittenStep, SelectsStep DEF TypeOK, Files, Images

LEMMA InitTypes == Init => TypeOK /\ Selects
<1> SUFFICES ASSUME Init PROVE TypeOK /\ Selects
  OBVIOUS
<1>1. file \in [Files -> Images]
  <2>1. Gone \in Images /\ Holds(Original) \in Images
    BY ImageTypes, FrugalAssumption
  <2> QED
    BY <2>1 DEF Init, Files
<1>2. meta \in {"ext4", "overlay"} /\ at \in Points
  BY DEF Init, Points
<1>3. main \in BOOLEAN /\ failed \in BOOLEAN /\ snap \in Snaps \cup {NoSnap} /\ Selects
  BY DEF Init, Selects
<1>4. baseMnts \in Nat /\ saveMnts \in Nat /\ written \subseteq Edits
  BY FrugalAssumption DEF Init
<1> QED
  BY <1>1, <1>2, <1>3, <1>4 DEF TypeOK, Files, Images

\* The type invariant holds of FrugalSystem: meta.json, the image files, the
\* mounts and the point that the running command has reached (TypeOK).
THEOREM TypeCorrect == Spec => []TypeOK
<1>1. Init => TypeOK /\ Selects
  BY InitTypes
<1>2. TypeOK /\ Selects /\ [Next]_vars => (TypeOK /\ Selects)'
  BY TypeStep
<1> QED
  BY <1>1, <1>2, PTL DEF Spec

-----------------------------------------------------------------------------
(* Edits. *)

Contents == Blank /\ Plain /\ Layers /\ Merging /\ Copying /\ EditsSurvive

\* While both layers are complete, they show every edit.
LEMMA Shown ==
    ASSUME IInv, meta = "overlay", Whole("base.sfs"), Usable("save.img")
    PROVE  \A e \in written : e \in file["base.sfs"].edits \/ e \in file["save.img"].edits
<1>1. Lower = "base.sfs"
  BY DEF Lower, Whole, Gone, Image
<1> QED
  BY <1>1 DEF IInv, Layers, Held

LEMMA Survives ==
    ASSUME file' \in [Files -> Images],
           \A e \in written' : \E f \in Files : e \in file'[f].edits
    PROVE  EditsSurvive'
BY DEF EditsSurvive, Held

LEMMA StatesDiffer == Gone.state \notin {"whole", "fresh"} /\ Torn.state \notin {"whole", "fresh"} /\ Fresh.state # "whole"
BY DEF Gone, Torn, Fresh, Image

\* A step after which the base is complete.
LEMMA LayersFrom ==
    ASSUME file'["base.sfs"].state = "whole", at' \notin ConvertPoints,
           Usable("save.img")' =>
               \A e \in written' : e \in file'["base.sfs"].edits \/ e \in file'["save.img"].edits,
           main' => Usable("save.img")' /\ at' \in {"idle", "copying"},
           at' \in {"mount upper", "mount overlay", "merge overlay"} => Usable("save.img")'
    PROVE  Layers'
<1>0. file'["base.sfs"] # Gone
  BY Zenon, StatesDiffer
<1>1. Lower' = "base.sfs"
  BY <1>0, Zenon DEF Lower
<1>2. (Usable("save.img") => \A e \in written : Held(e, {Lower, "save.img"}))'
  BY <1>1 DEF Held
<1> QED
  BY <1>2 DEF Layers, BaseRecoverable, Whole

\* A step that changes no file.
LEMMA SameFiles ==
    ASSUME IInv, UNCHANGED <<file, written, meta>>,
           meta = "ext4" => ~main' /\ at' = "idle",
           at' \notin ConvertPoints \cup {"copying", "restoring", "swap in", "reset", "formatting"},
           main' => Usable("save.img") /\ at' = "idle",
           at' \in BaseMounted => Whole("base.sfs"),
           at' \in {"mount upper", "mount overlay", "merge overlay"} => Usable("save.img"),
           at' \in {"squash", "squashing"} => Whole("save.img"),
           at' \in {"drop overlay", "drop save", "drop base"} /\ ~failed' => Flattened,
           at' = "swap out" => Flattened
    PROVE  Contents'
<1>1. Blank' /\ EditsSurvive'
  BY DEF IInv, Blank, Whole, EditsSurvive, Held
<1>2. Plain'
  BY DEF IInv, Plain, Whole, Within, ConvertPoints
<1>3. Layers'
  <2> USE DEF IInv, Layers
  <2>1. (meta = "overlay" => BaseRecoverable)'
    BY DEF BaseRecoverable
  <2>2. (meta = "overlay" /\ Usable("save.img") => \A e \in written : Held(e, {Lower, "save.img"}))'
    BY DEF Usable, Held, Lower
  <2>3. (main => Usable("save.img") /\ at \in {"idle", "copying"})'
    BY DEF Usable
  <2>4. (at \in BaseMounted => Whole("base.sfs"))'
    BY DEF Whole, BaseMounted
  <2>5. (at \in {"mount upper", "mount overlay", "merge overlay"} => Usable("save.img"))'
    BY DEF Usable
  <2> QED
    BY <2>1, <2>2, <2>3, <2>4, <2>5 DEF ConvertPoints
<1>4. Merging'
  BY DEF Merging, Flattened, Whole
<1>5. Copying'
  BY DEF Copying
<1> QED
  BY <1>1, <1>2, <1>3, <1>4, <1>5 DEF Contents

\* A step of a system that is converted, after which the base is complete.
LEMMA BaseFrom ==
    ASSUME file' \in [Files -> Images], meta' = "overlay", ~main',
           file'["base.sfs"].state = "whole",
           \A e \in written' : e \in file'["base.sfs"].edits \/ e \in file'["save.img"].edits,
           at' \notin ConvertPoints \cup {"copying", "restoring"},
           at' \in {"mount upper", "mount overlay", "merge overlay"} => Usable("save.img")',
           Blank', Merging'
    PROVE  Contents'
<1>1. Layers'
  BY LayersFrom
<1>2. EditsSurvive'
  <2>1. {"base.sfs", "save.img"} \subseteq Files
    BY DEF Files, Names
  <2> QED
    BY <2>1, Survives
<1> QED
  BY <1>1, <1>2 DEF Contents, Plain, Copying

\* A step of a system that is still ext4.
LEMMA PlainFrom ==
    ASSUME file' \in [Files -> Images], meta' = "ext4", Plain', Blank'
    PROVE  Contents'
<1>1. EditsSurvive'
  <2>1. {"disk.img", "disk.img.orig"} \subseteq Files
    BY DEF Files, Names
  <2>2. written' \subseteq file'["disk.img"].edits \/ written' \subseteq file'["disk.img.orig"].edits
    BY DEF Plain, Within
  <2> QED
    BY <2>1, <2>2, Survives
<1>2. at' \in ConvertPoints \cup {"idle"}
  BY DEF Plain
<1>3. Layers' /\ Merging' /\ Copying'
  BY <1>2 DEF Layers, Merging, Copying, ConvertPoints
<1> QED
  BY <1>1, <1>3 DEF Contents

\* A step that leaves the lower layer alone.
LEMMA SameBase ==
    ASSUME IInv, file' \in [Files -> Images], meta = "overlay", meta' = "overlay",
           \A f \in {"base.sfs", "base.sfs.new", "base.sfs.bak"} : file'[f] = file[f],
           Usable("save.img")' =>
               \A e \in written' : e \in file[Lower].edits \/ e \in file'["save.img"].edits,
           \A e \in written' : \E f \in Files : e \in file'[f].edits,
           main' => Usable("save.img")', at' \in {"idle", "copying", "restoring"},
           main' => at' # "restoring",
           Blank', Copying'
    PROVE  Contents'
<1>1. Lower' = Lower /\ Lower \in {"base.sfs", "base.sfs.new"}
  BY DEF Lower
<1>2. BaseRecoverable'
  BY DEF IInv, Layers, BaseRecoverable
<1>3. (Usable("save.img") => \A e \in written : Held(e, {Lower, "save.img"}))'
  BY <1>1 DEF Held
<1>4. Layers'
  BY <1>2, <1>3 DEF Layers, ConvertPoints, BaseMounted
<1>5. Merging' /\ EditsSurvive' /\ Plain'
  BY Survives DEF Merging, Plain
<1> QED
  BY <1>4, <1>5 DEF Contents

(* convert_to_frugal. *)

LEMMA ConvertKeeps == IInv /\ Convert => Contents'
<1> SUFFICES ASSUME IInv, Convert PROVE Contents'
  OBVIOUS
<1> USE DEF Steps
<1>0. /\ TypeOK /\ Blank /\ Plain /\ Layers
      /\ \A f \in {"disk.img", "disk.img.orig", "base.sfs", "save.img"} :
            f \in Files /\ file[f] \in Images /\ file[f].edits \in SUBSET Edits
      /\ file \in [Files -> Images] /\ Torn \in Images /\ Fresh \in Images /\ Gone \in Images
      /\ Torn.edits = {} /\ Fresh.edits = {} /\ Gone.edits = {}
  BY FileTypes, ImageTypes DEF IInv
<1>1. CASE ConvertStarts
  <2>1. /\ file' \in [Files -> Images] /\ file'["base.sfs"] = Torn
        /\ \A g \in Files \ {"base.sfs"} : file'[g] = file[g]
        /\ meta = "ext4" /\ meta' = "ext4" /\ written' = written
    BY <1>0, <1>1 DEF ConvertStarts, Puts
  <2>2. ~main' /\ at' = "convert squash" /\ Usable("disk.img")
    BY <1>0, <1>1 DEF ConvertStarts, Puts, mounts, Plain
  <2>3. Whole("disk.img") /\ Within("disk.img")
    BY <1>0, <2>1, <2>2, StatesDiffer DEF Plain, Usable
  <2>4. Plain' /\ Blank'
    BY <1>0, <2>1, <2>2, <2>3 DEF Plain, Blank, Whole, Within, ConvertPoints, Files, Names
  <2> QED
    BY <2>1, <2>4, PlainFrom
<1>2. CASE ConvertSquashes
  <2> DEFINE img == Holds(file["disk.img"].edits)
  <2>0. img \in Images /\ img.edits = file["disk.img"].edits /\ img.state = "whole"
    BY <1>0, ImageTypes
  <2>1. /\ file' \in [Files -> Images] /\ file'["base.sfs"] = img
        /\ \A g \in Files \ {"base.sfs"} : file'[g] = file[g]
        /\ written' = written /\ meta' = meta /\ main' = main
        /\ at = "convert squash" /\ at' = "convert move"
    BY <1>0, <1>2, <2>0 DEF ConvertSquashes, Puts, mounts
  <2> HIDE DEF img
  <2>2. meta = "ext4" /\ ~main /\ Whole("disk.img") /\ Within("disk.img")
    BY <1>0, <2>1, StatesDiffer DEF Plain, TypeOK, Layers, ConvertPoints, Whole
  <2>3. Plain' /\ Blank'
    BY <1>0, <2>0, <2>1, <2>2, StatesDiffer DEF Plain, Blank, Whole, Within, ConvertPoints, Files, Names
  <2> QED
    BY <2>1, <2>2, <2>3, PlainFrom
<1>3. CASE ConvertMoves
  <2>1. /\ file' \in [Files -> Images]
        /\ file'["disk.img.orig"] = file["disk.img"] /\ file'["disk.img"] = Gone
        /\ \A g \in Files \ {"disk.img", "disk.img.orig"} : file'[g] = file[g]
        /\ written' = written /\ meta' = meta /\ main' = main
        /\ at = "convert move" /\ at' = "convert format"
    BY <1>0, <1>3 DEF ConvertMoves, Moves, mounts
  <2>2. /\ meta = "ext4" /\ ~main /\ Whole("disk.img") /\ Within("disk.img")
        /\ Whole("base.sfs") /\ Within("base.sfs")
    BY <1>0, <2>1, StatesDiffer DEF Plain, TypeOK, Layers, ConvertPoints, Whole
  <2>3. Plain' /\ Blank'
    BY <1>0, <2>1, <2>2, StatesDiffer DEF Plain, Blank, Whole, Within, ConvertPoints, Files, Names
  <2> QED
    BY <2>1, <2>2, <2>3, PlainFrom
<1>4. CASE ConvertFormats \/ ConvertFormatted
  <2>1. /\ file' \in [Files -> Images] /\ file'["save.img"].edits = {}
        /\ \A g \in Files \ {"save.img"} : file'[g] = file[g]
        /\ written' = written /\ meta' = meta /\ main' = main
        /\ at \in {"convert format", "convert formatting"} /\ at' \in {"convert formatting", "convert meta"}
    BY <1>0, <1>4 DEF ConvertFormats, ConvertFormatted, Puts, mounts
  <2>2. meta = "ext4" /\ ~main /\ Whole("base.sfs") /\ Within("base.sfs")
    BY <1>0, <2>1 DEF Plain, TypeOK, Layers, ConvertPoints
  <2>3. Plain' /\ Blank'
    BY <1>0, <2>1, <2>2 DEF Plain, Blank, Whole, Within, ConvertPoints, Files, Names
  <2> QED
    BY <2>1, <2>2, <2>3, PlainFrom
<1>5. CASE ConvertEnds
  <2>1. file' = file /\ written' = written /\ meta' = "overlay" /\ main' = main /\ at = "convert meta" /\ at' = "idle"
    BY <1>5 DEF ConvertEnds, mounts
  <2>2. ~main /\ Whole("base.sfs") /\ Within("base.sfs")
    BY <1>0, <2>1 DEF Plain, TypeOK, Layers, ConvertPoints
  <2>3. Blank' /\ Merging'
    BY <1>0, <2>1 DEF Blank, Whole, Merging
  <2> QED
    BY <1>0, <2>1, <2>2, <2>3, BaseFrom DEF Whole, Within, ConvertPoints
<1>6. CASE ConvertFails
  <2>1. UNCHANGED <<file, written, meta, main>> /\ at \in ConvertPoints /\ at' = "idle"
    BY <1>6 DEF ConvertFails, Aborts, mounts, ConvertPoints
  <2>2. ~main
    BY <1>0, <2>1 DEF Plain, TypeOK, Layers, ConvertPoints
  <2> QED
    BY <2>1, <2>2, SameFiles DEF ConvertPoints, BaseMounted
<1> QED
  BY <1>1, <1>2, <1>3, <1>4, <1>5, <1>6 DEF Convert

(* do_mount and do_umount. *)

LEMMA MountKeeps == IInv /\ Mount => Contents'
<1> SUFFICES ASSUME IInv, Mount PROVE Contents'
  OBVIOUS
<1> USE DEF Steps
<1>0. TypeOK /\ Plain /\ Layers /\ Blank
  BY DEF IInv
<1>1. CASE MountStarts \/ (at = "mount base" /\ MountsBase("mount save")) \/ (at = "mount save" /\ MountsSave("mount upper"))
  <2>1. /\ UNCHANGED <<file, written, meta, main>>
        /\ at \in {"idle", "mount base", "mount save"} /\ at' \in {"mount base", "mount save", "mount upper"}
        /\ at' = "mount base" => meta = "overlay" /\ ~main
        /\ at' # "mount base" => at \in {"mount base", "mount save"}
        /\ at' = "mount save" => Usable("base.sfs")
        /\ at' = "mount upper" => at = "mount save" /\ Usable("save.img")
    BY <1>1 DEF MountStarts, MountsBase, MountsSave, mounts
  <2>2. meta = "overlay" /\ ~main
    BY <1>0, <2>1 DEF Plain, TypeOK, Layers, ConvertPoints
  <2>3. at' \in {"mount save", "mount upper"} => Whole("base.sfs")
    BY <1>0, <2>1, <2>2, StatesDiffer DEF Layers, BaseRecoverable, BaseMounted, Usable, Whole
  <2> QED
    BY <2>1, <2>2, <2>3, SameFiles DEF ConvertPoints, BaseMounted
<1>2. CASE MakesUpper
  <2> DEFINE img == Holds(file["save.img"].edits)
  <2>0. img \in Images /\ img.edits = file["save.img"].edits /\ img.state = "whole"
    BY <1>0, ImageTypes, FileTypes
  <2>1. /\ file' \in [Files -> Images] /\ file'["save.img"] = img
        /\ \A g \in Files \ {"save.img"} : file'[g] = file[g]
        /\ written' = written /\ meta' = meta /\ main' = main
        /\ at = "mount upper" /\ at' = "mount overlay"
    BY <1>0, <1>2, <2>0, FileTypes DEF MakesUpper, Puts, mounts
  <2> HIDE DEF img
  <2>2. meta = "overlay" /\ ~main /\ Whole("base.sfs") /\ Usable("save.img")
    BY <1>0, <2>1 DEF Plain, TypeOK, Layers, ConvertPoints, BaseMounted
  <2>3. Blank' /\ Merging' /\ Usable("save.img")'
    BY <1>0, <2>0, <2>1 DEF Blank, Whole, Merging, Usable, Files
  <2>4. file'["base.sfs"] = file["base.sfs"]
    BY <1>0, <2>1, FileTypes
  <2> QED
    BY <2>0, <2>1, <2>2, <2>3, <2>4, Shown, BaseFrom DEF Whole, ConvertPoints
<1>3. CASE MountsOverlay \/ MountFails
  <2>1. /\ UNCHANGED <<file, written, meta>> /\ at' = "idle"
        /\ at \in {"mount base", "mount save", "mount upper", "mount overlay"}
        /\ main' = main \/ at = "mount overlay"
    BY <1>3, Zenon DEF MountsOverlay, MountFails
  <2>2. meta = "overlay" /\ ~main
    BY <1>0, <2>1 DEF Plain, TypeOK, Layers, ConvertPoints
  <2>3. main' => Usable("save.img")
    BY <1>0, <2>1, <2>2 DEF Layers
  <2> QED
    BY <2>1, <2>2, <2>3, SameFiles DEF ConvertPoints, BaseMounted
<1> QED
  BY <1>1, <1>2, <1>3 DEF Mount

LEMMA UmountKeeps == IInv /\ Umount => Contents'
<1> SUFFICES ASSUME IInv, Umount PROVE Contents'
  OBVIOUS
<1>0. TypeOK /\ Plain /\ Layers
  BY DEF IInv
<1>1. /\ UNCHANGED <<file, written, meta>>
      /\ at' \in {"idle", "umount save", "umount base"}
      /\ at \in {"umount save", "umount base"} \/ (meta = "overlay" /\ main' = FALSE)
      /\ main' = main \/ main' = FALSE
  BY Zenon DEF Umount, UmountStarts, UmountsSave, UmountsBase, Steps
<1>2. meta = "overlay"
  BY <1>0, <1>1 DEF Plain, TypeOK, ConvertPoints
<1>3. CASE main' = FALSE
  BY <1>1, <1>2, <1>3, SameFiles DEF ConvertPoints, BaseMounted
<1>4. CASE at \in {"umount save", "umount base"} /\ main' = main
  <2>1. ~main
    BY <1>0, <1>2, <1>4 DEF Layers
  <2> QED
    BY <1>1, <1>2, <1>4, <2>1, SameFiles DEF ConvertPoints, BaseMounted
<1> QED
  BY <1>1, <1>3, <1>4

(* Snapshots of the save layer. *)

LEMMA LowerSame ==
    ASSUME file'["base.sfs"] = file["base.sfs"]
    PROVE  Lower' = Lower
BY Zenon DEF Lower

LEMMA SnapshotsKeep == IInv /\ Snapshots => Contents'
<1> SUFFICES ASSUME IInv, Snapshots PROVE Contents'
  OBVIOUS
<1> USE DEF Steps
<1>0. /\ TypeOK /\ Plain /\ Layers /\ Blank /\ Copying /\ Selects /\ EditsSurvive
      /\ file \in [Files -> Images] /\ DOMAIN file = Files
      /\ \A s \in Snaps : s \in Files /\ s \notin Names
      /\ \A n \in Names : n \in Files
      /\ Torn \in Images /\ Torn.edits = {}
  BY FileTypes, ImageTypes, FrugalAssumption DEF IInv, Files
<1>1. Lower \in {"base.sfs", "base.sfs.new"} /\ {"base.sfs", "base.sfs.new", "base.sfs.bak", "save.img"} \subseteq Names
  BY DEF Lower, Names
<1>2. ASSUME NEW s \in Snaps, SnapStarts(s) PROVE Contents'
  <2>1. /\ file' \in [Files -> Images] /\ file'[s] = Torn
        /\ \A g \in Files \ {s} : file'[g] = file[g]
        /\ meta = "overlay" /\ meta' = meta /\ main' = main /\ snap' = s
        /\ at = "idle" /\ at' = "copying"
    BY <1>0, <1>2 DEF SnapStarts, mounts
  <2>2. written' \subseteq written /\ \A e \in written' : \E f \in Files \ {s} : e \in file[f].edits
    BY <1>0, <1>2 DEF SnapStarts, Held
  <2>3. \A f \in Names : file'[f] = file[f]
    BY <1>0, <2>1
  <2>4. Usable("save.img")' => \A e \in written' : e \in file[Lower].edits \/ e \in file'["save.img"].edits
    BY <1>0, <1>1, <2>1, <2>2, <2>3 DEF Layers, Usable, Held
  <2>5. main' => Usable("save.img")'
    BY <1>0, <1>1, <2>1, <2>3 DEF Layers, Usable
  <2>6. Blank' /\ Copying'
    BY <1>0, <2>1 DEF Blank, Whole, Copying, Files
  <2>7. \A e \in written' : \E f \in Files : e \in file'[f].edits
    BY <2>1, <2>2
  <2> QED
    BY <1>1, <2>1, <2>3, <2>4, <2>5, <2>6, <2>7, SameBase
<1>3. CASE SnapEnds
  <2>1. /\ snap \in Files \ Names /\ file[snap].edits = {}
        /\ at = "copying" /\ at' = "idle" /\ meta = "overlay"
    BY <1>0, <1>3 DEF SnapEnds, Selects, Copying, Plain, TypeOK, ConvertPoints
  <2>2. /\ file' \in [Files -> Images] /\ file'[snap] \in {file["save.img"], Torn}
        /\ \A g \in Files \ {snap} : file'[g] = file[g]
        /\ written' = written /\ meta' = meta /\ main' = main
    BY <1>0, <1>1, <1>3, <2>1 DEF SnapEnds, mounts
  <2>3. \A f \in Names : file'[f] = file[f]
    BY <1>0, <2>1, <2>2
  <2>4. Usable("save.img")' => \A e \in written' : e \in file[Lower].edits \/ e \in file'["save.img"].edits
    BY <1>0, <1>1, <2>1, <2>2, <2>3 DEF Layers, Usable, Held
  <2>5. main' => Usable("save.img")'
    BY <1>0, <1>1, <2>1, <2>2, <2>3 DEF Layers, Usable
  <2>6. Blank' /\ Copying'
    BY <1>0, <1>1, <2>1, <2>2 DEF Blank, Whole, Copying, Files
  <2>7. \A e \in written' : \E f \in Files : e \in file'[f].edits
    BY <1>0, <2>1, <2>2 DEF EditsSurvive, Held
  <2> QED
    BY <1>1, <2>1, <2>2, <2>3, <2>4, <2>5, <2>6, <2>7, SameBase
<1>4. ASSUME NEW s \in Snaps, RollbackStarts(s) PROVE Contents'
  <2>1. /\ file' \in [Files -> Images] /\ file'["save.img"] = Torn
        /\ \A g \in Files \ {"save.img"} : file'[g] = file[g]
        /\ meta = "overlay" /\ meta' = meta /\ main' = main /\ ~main /\ snap' = s
        /\ at = "idle" /\ at' = "restoring"
    BY <1>0, <1>1, <1>4 DEF RollbackStarts, mounts
  <2>2. \A e \in written' : e \in file[Lower].edits \/ e \in file[s].edits
    BY <1>4 DEF RollbackStarts, Held
  <2>3. file'[Lower] = file[Lower] /\ file'[s] = file[s] /\ Lower \in Files
    BY <1>0, <1>1, <2>1
  <2>4. \A f \in {"base.sfs", "base.sfs.new", "base.sfs.bak"} : file'[f] = file[f]
    BY <1>0, <1>1, <2>1
  <2>5. Copying'
    <3>1. Lower' = Lower
      BY <2>4, LowerSame
    <3> QED
      BY <2>1, <2>2, <2>3, <3>1 DEF Copying, Held
  <2>6. Blank' /\ ~Usable("save.img")'
    BY <1>0, <2>1, StatesDiffer DEF Blank, Whole, Files, Usable
  <2>7. \A e \in written' : \E f \in Files : e \in file'[f].edits
    BY <1>0, <2>2, <2>3
  <2> QED
    BY <2>1, <2>4, <2>5, <2>6, <2>7, SameBase
<1>5. CASE RollbackEnds
  <2>1. /\ snap \in Files \ Names /\ file[snap] \in Images
        /\ at = "restoring" /\ at' = "idle" /\ meta = "overlay" /\ ~main
        /\ \A e \in written : e \in file[Lower].edits \/ e \in file[snap].edits
    BY <1>0, <1>5 DEF RollbackEnds, Selects, Copying, Plain, Layers, TypeOK, ConvertPoints, Held
  <2>2. /\ file' \in [Files -> Images] /\ file'["save.img"] = file[snap]
        /\ \A g \in Files \ {"save.img"} : file'[g] = file[g]
        /\ written' = written /\ meta' = meta /\ main' = main
    BY <1>0, <1>1, <1>5, <2>1 DEF RollbackEnds, mounts
  <2>3. /\ \A f \in {"base.sfs", "base.sfs.new", "base.sfs.bak"} : file'[f] = file[f]
        /\ file'[Lower] = file[Lower] /\ Lower \in Files /\ "save.img" \in Files
    BY <1>0, <1>1, <2>2
  <2>4. Blank' /\ Copying'
    BY <1>0, <2>1, <2>2 DEF Blank, Whole, Copying, Files
  <2>5. \A e \in written' : e \in file[Lower].edits \/ e \in file'["save.img"].edits
    BY <2>1, <2>2
  <2>6. \A e \in written' : \E f \in Files : e \in file'[f].edits
    BY <2>3, <2>5
  <2> QED
    BY <2>1, <2>2, <2>3, <2>4, <2>5, <2>6, SameBase
<1>6. CASE CopyFails
  <2>1. /\ UNCHANGED <<file, written, meta>> /\ main' = main
        /\ at \in {"copying", "restoring"} /\ at' = "idle"
    BY <1>6 DEF CopyFails, mounts
  <2>2. meta = "overlay" /\ (main => Usable("save.img"))
    BY <1>0, <2>1 DEF Plain, Layers, TypeOK, ConvertPoints
  <2> QED
    BY <2>1, <2>2, SameFiles DEF ConvertPoints, BaseMounted
<1> QED
  BY <1>2, <1>3, <1>4, <1>5, <1>6 DEF Snapshots

(* do_frugal_merge. *)

LEMMA SquashesKeep == IInv /\ Squashes => Contents'
<1> SUFFICES ASSUME IInv, Squashes PROVE Contents'
  OBVIOUS
<1> DEFINE new == Holds(file["base.sfs"].edits \cup file["save.img"].edits)
<1>1. /\ new \in Images /\ new.state = "whole"
      /\ new.edits = file["base.sfs"].edits \cup file["save.img"].edits
  BY ImageTypes, FileTypes DEF IInv
<1>2. /\ file' \in [Files -> Images] /\ file'["base.sfs.new"] = new
      /\ \A g \in Files \ {"base.sfs.new"} : file'[g] = file[g]
      /\ UNCHANGED <<meta, main, failed, snap, written>> /\ at = "squashing" /\ at' = "drop overlay"
  BY <1>1, FileTypes DEF IInv, Squashes, Steps, Puts, mounts
<1>3. meta = "overlay" /\ ~main /\ Whole("base.sfs") /\ Whole("save.img")
  BY <1>2 DEF IInv, TypeOK, Plain, ConvertPoints, Layers, Merging, BaseMounted
<1>4. \A e \in written : e \in file["base.sfs"].edits \/ e \in file["save.img"].edits
  BY <1>3, Shown DEF Usable, Whole
<1> HIDE DEF new
<1>5. Blank' /\ Plain'
  BY <1>1, <1>2, <1>3 DEF IInv, Blank, Plain, Whole, Files
<1>6. Layers'
  BY <1>2, <1>3, <1>4, FileTypes, LayersFrom DEF IInv, ConvertPoints, Whole
<1>7. Merging' /\ Copying'
  BY <1>1, <1>2, <1>3, FileTypes DEF IInv, Merging, Flattened, Whole, Copying
<1>8. EditsSurvive'
  BY <1>2, <1>4, FileTypes, Survives DEF IInv
<1> QED
  BY <1>5, <1>6, <1>7, <1>8 DEF Contents

\* The steps that leave the files alone.
Composes ==
    \/ MergeStarts \/ MergesOverlay
    \/ at = "merge base" /\ MountsBase("merge save")
    \/ at = "merge save" /\ MountsSave("merge overlay")

LEMMA ComposesKeep == IInv /\ Composes => Contents'
<1> SUFFICES ASSUME IInv, Composes PROVE Contents'
  OBVIOUS
<1>0. TypeOK /\ Plain /\ Layers
  BY DEF IInv
<1>1. /\ UNCHANGED <<file, written, meta>> /\ main' = main
      /\ at' \in {"merge base", "merge save", "merge overlay", "squash"}
      /\ at' = "merge base" => meta = "overlay" /\ ~main
      /\ at' = "merge save" => at = "merge base" /\ Usable("base.sfs")
      /\ at' = "merge overlay" => at = "merge save" /\ Usable("save.img")
      /\ at' = "squash" => at = "merge overlay" /\ Whole("save.img")
  BY DEF Composes, MergeStarts, MergesOverlay, MountsBase, MountsSave, Steps, Whole, mounts
<1>2. meta = "overlay" /\ ~main
  BY <1>0, <1>1 DEF Plain, TypeOK, Layers, ConvertPoints
<1>3. at' \in {"merge save", "merge overlay", "squash"} => Whole("base.sfs")
  BY <1>0, <1>1, <1>2, StatesDiffer DEF Layers, BaseRecoverable, BaseMounted, Usable, Whole
<1> QED
  BY <1>1, <1>2, <1>3, SameFiles DEF ConvertPoints, BaseMounted

LEMMA FailuresKeep == IInv /\ MergeFails => Contents'
<1> SUFFICES ASSUME IInv, MergeFails PROVE Contents'
  OBVIOUS
<1>0. TypeOK /\ Plain /\ Layers
  BY DEF IInv
<1>1. /\ UNCHANGED <<file, written, meta>> /\ main' = main
      /\ \/ /\ at \in {"merge save", "merge overlay", "squashing"}
            /\ at' \in {"drop overlay", "drop save", "drop base"} /\ failed' = TRUE
         \/ at \in {"merge base", "swap out", "swap in", "reset", "formatting"} /\ at' = "idle"
  BY DEF MergeFails, FailsTo, Aborts, Steps, mounts
<1>2. meta = "overlay" /\ ~main
  BY <1>0, <1>1 DEF Plain, TypeOK, Layers, ConvertPoints
<1>3. at \in {"merge save", "merge overlay", "squashing"} => Whole("base.sfs")
  BY <1>0, <1>2 DEF Layers, BaseMounted
<1> QED
  BY <1>1, <1>2, <1>3, SameFiles DEF ConvertPoints, BaseMounted

LEMMA DropsKeep ==
    ASSUME IInv, NEW ok \in BOOLEAN, DropsOverlay(ok) \/ DropsSave(ok) \/ DropsBase(ok)
    PROVE  Contents'
<1>0. TypeOK /\ Plain /\ Layers /\ Merging
  BY DEF IInv
<1>1. UNCHANGED <<file, written, meta>> /\ main' = main
  BY Zenon DEF DropsOverlay, DropsSave, DropsBase, Unmounts
<1>2. /\ at \in {"drop overlay", "drop save", "drop base"}
      /\ \/ at' = "drop save" /\ failed' = (failed \/ ~ok)
         \/ at' = "drop base" /\ failed' = (failed \/ ~ok)
         \/ at' = (IF failed \/ ~ok THEN "idle" ELSE "swap out")
  BY DEF DropsOverlay, DropsSave, DropsBase, Unmounts, Steps
<1>3. meta = "overlay" /\ ~main /\ Whole("base.sfs")
  BY <1>0, <1>2 DEF Plain, TypeOK, Layers, ConvertPoints, BaseMounted
<1>4. ~failed => Flattened
  BY <1>0, <1>2 DEF Merging
<1>5. at' \in {"idle", "drop save", "drop base", "swap out"}
  BY <1>2
<1>6. (at' \in {"drop save", "drop base"} /\ ~failed') \/ at' = "swap out" => ~failed
  BY <1>2
<1> QED
  BY <1>1, <1>3, <1>4, <1>5, <1>6, SameFiles DEF ConvertPoints, BaseMounted

LEMMA SquashStartsKeep == IInv /\ SquashStarts => Contents'
<1> SUFFICES ASSUME IInv, SquashStarts PROVE Contents'
  OBVIOUS
<1>1. /\ file' \in [Files -> Images] /\ file'["base.sfs.new"] = Torn
      /\ \A g \in Files \ {"base.sfs.new"} : file'[g] = file[g]
      /\ UNCHANGED <<meta, main, failed, snap, written>> /\ at = "squash" /\ at' = "squashing"
      /\ Torn.edits = {}
  BY ImageTypes, FileTypes DEF IInv, SquashStarts, Steps, Puts, mounts
<1>2. meta = "overlay" /\ ~main /\ Whole("base.sfs") /\ Whole("save.img")
  BY <1>1 DEF IInv, TypeOK, Plain, ConvertPoints, Layers, Merging, BaseMounted
<1>3. \A e \in written : e \in file["base.sfs"].edits \/ e \in file["save.img"].edits
  BY <1>2, Shown DEF Usable, Whole
<1>4. file'["base.sfs"] = file["base.sfs"] /\ file'["save.img"] = file["save.img"]
  BY <1>1, FileTypes DEF IInv
<1>5. Blank' /\ Merging'
  BY <1>1, <1>2, <1>4 DEF IInv, Blank, Whole, Files, Merging
<1> QED
  BY <1>1, <1>2, <1>3, <1>4, <1>5, BaseFrom DEF Whole, ConvertPoints

\* Neither name has a base for a moment: the new one stands in for it.
LEMMA SwapsOutKeep == IInv /\ SwapsOut => Contents'
<1> SUFFICES ASSUME IInv, SwapsOut PROVE Contents'
  OBVIOUS
<1>1. /\ file' \in [Files -> Images]
      /\ file'["base.sfs"] = Gone /\ file'["base.sfs.bak"] = file["base.sfs"]
      /\ \A g \in Files \ {"base.sfs", "base.sfs.bak"} : file'[g] = file[g]
      /\ UNCHANGED <<meta, main, failed, snap, written>> /\ at = "swap out" /\ at' = "swap in"
      /\ Gone.edits = {}
  BY ImageTypes, FileTypes DEF IInv, SwapsOut, Steps, Moves, mounts
<1>2. meta = "overlay" /\ ~main /\ Whole("base.sfs") /\ Flattened
  BY <1>1 DEF IInv, TypeOK, Plain, ConvertPoints, Layers, Merging, BaseMounted
<1>3. Within("base.sfs.new")
  BY <1>2, Shown DEF Flattened, Usable, Whole, Within
<1>4. file'["base.sfs.new"] = file["base.sfs.new"] /\ file'["save.img"] = file["save.img"] /\ "base.sfs.new" \in Files
  BY <1>1, FileTypes DEF IInv
<1>5. Blank' /\ Merging'
  BY <1>1, <1>2, <1>3, <1>4 DEF IInv, Blank, Whole, Files, Merging, Flattened, Within
<1>6. Lower' = "base.sfs.new"
  BY <1>1, Zenon DEF Lower
<1>7. BaseRecoverable'
  BY <1>1, <1>2, <1>4 DEF BaseRecoverable, Flattened, Whole
<1>8. (\A e \in written : Held(e, {Lower, "save.img"}))'
  BY <1>1, <1>3, <1>4, <1>6 DEF Held, Within
<1>9. Layers'
  BY <1>1, <1>2, <1>7, <1>8 DEF Layers, ConvertPoints, BaseMounted
<1>10. EditsSurvive'
  BY <1>1, <1>3, <1>4, Survives DEF Within
<1> QED
  BY <1>1, <1>2, <1>5, <1>9, <1>10 DEF Contents, Plain, Copying

LEMMA SwapsInKeep == IInv /\ SwapsIn => Contents'
<1> SUFFICES ASSUME IInv, SwapsIn PROVE Contents'
  OBVIOUS
<1>1. /\ file' \in [Files -> Images]
      /\ file'["base.sfs.new"] = Gone /\ file'["base.sfs"] = file["base.sfs.new"]
      /\ \A g \in Files \ {"base.sfs", "base.sfs.new"} : file'[g] = file[g]
      /\ UNCHANGED <<meta, main, failed, snap, written>> /\ at = "swap in" /\ at' = "reset"
      /\ Gone.edits = {}
  BY ImageTypes, FileTypes DEF IInv, SwapsIn, Steps, Moves, mounts
<1>2. meta = "overlay" /\ ~main /\ Whole("base.sfs.new") /\ Within("base.sfs.new")
  BY <1>1 DEF IInv, TypeOK, Plain, ConvertPoints, Layers, Merging
<1>3. Blank' /\ Merging'
  BY <1>1, <1>2 DEF IInv, Blank, Whole, Files, Merging, Within
<1> QED
  BY <1>1, <1>2, <1>3, BaseFrom DEF Whole, Within, ConvertPoints

LEMMA ResetsKeep == IInv /\ (Resets \/ Formats) => Contents'
<1> SUFFICES ASSUME IInv, Resets \/ Formats PROVE Contents'
  OBVIOUS
<1>0. /\ Torn \in Images /\ Fresh \in Images /\ Torn.edits = {} /\ Fresh.edits = {}
      /\ file \in [Files -> Images] /\ "save.img" \in Files
  BY ImageTypes, FileTypes DEF IInv
<1>1. /\ file' \in [Files -> Images] /\ file'["save.img"].edits = {}
      /\ \A g \in Files \ {"save.img"} : file'[g] = file[g]
      /\ UNCHANGED <<meta, main, failed, snap, written>>
      /\ at \in {"reset", "formatting"} /\ at' \in {"formatting", "idle"}
  BY <1>0 DEF Resets, Formats, Steps, Puts, mounts
<1>2. meta = "overlay" /\ ~main /\ Whole("base.sfs") /\ Within("base.sfs")
  BY <1>1 DEF IInv, TypeOK, Plain, ConvertPoints, Layers, Merging
<1>3. file'["base.sfs"] = file["base.sfs"]
  BY <1>1, FileTypes DEF IInv
<1>4. Blank' /\ Merging'
  BY <1>1, <1>2, <1>3 DEF IInv, Blank, Whole, Files, Merging, Within
<1> QED
  BY <1>1, <1>2, <1>3, <1>4, BaseFrom DEF Whole, Within, ConvertPoints

(* The user of the overlay, and the end of everything. *)

LEMMA EditKeeps == ASSUME IInv, NEW d \in Edits, Edit(d) PROVE Contents'
<1> DEFINE img == Holds(file["save.img"].edits \cup {d})
<1>0. /\ TypeOK /\ Layers /\ Blank /\ Plain /\ EditsSurvive
      /\ file \in [Files -> Images] /\ DOMAIN file = Files /\ "save.img" \in Files
  BY FileTypes DEF IInv
<1>1. img \in Images /\ img.edits = file["save.img"].edits \cup {d} /\ img.state = "whole"
  BY FileTypes, ImageTypes DEF IInv
<1>2. /\ file' \in [Files -> Images] /\ file'["save.img"] = img
      /\ \A g \in Files \ {"save.img"} : file'[g] = file[g]
      /\ main /\ main' = main /\ meta' = meta /\ at' = at /\ written' = written \cup {d}
  BY <1>0, <1>1 DEF Edit, mounts
<1> HIDE DEF img
<1>3. meta = "overlay" /\ Usable("save.img") /\ at \in {"idle", "copying"}
  BY <1>0, <1>2 DEF Plain, Layers, TypeOK
<1>4. /\ \A f \in {"base.sfs", "base.sfs.new", "base.sfs.bak"} : file'[f] = file[f]
      /\ Lower \in {"base.sfs", "base.sfs.new"}
  BY <1>2, FileTypes DEF IInv, Lower
<1>5. \A e \in written' : e \in file[Lower].edits \/ e \in file'["save.img"].edits
  BY <1>0, <1>1, <1>2, <1>3 DEF Layers, Held
<1>6. \A e \in written' : \E f \in Files : e \in file'[f].edits
  BY <1>0, <1>1, <1>2 DEF EditsSurvive, Held
<1>7. Usable("save.img")' /\ Blank'
  BY <1>0, <1>1, <1>2 DEF Usable, Blank, Whole, Files
<1>8. Copying'
  <2>1. snap' = snap /\ Selects /\ Copying /\ \A s \in Snaps : s \in Files \ {"save.img"}
    BY FrugalAssumption DEF IInv, Edit, Files, Names
  <2> QED
    BY <1>2, <1>3, <2>1 DEF Selects, Copying
<1> QED
  BY <1>2, <1>3, <1>4, <1>5, <1>6, <1>7, <1>8, SameBase

LEMMA StopsKeep == IInv /\ (Killed \/ PowerLoss) => Contents'
<1> SUFFICES ASSUME IInv, Killed \/ PowerLoss PROVE Contents'
  OBVIOUS
<1>1. UNCHANGED <<file, written, meta>> /\ at' = "idle" /\ (main' = main \/ main' = FALSE)
  BY Zenon DEF Killed, PowerLoss, mounts
<1>2. main => meta = "overlay" /\ Usable("save.img")
  BY DEF IInv, TypeOK, Plain, Layers
<1>3. main' => meta = "overlay" /\ Usable("save.img")
  <2>1. CASE main' = main
    BY <1>2, <2>1
  <2>2. CASE main' = FALSE
    BY <2>2
  <2> QED
    BY <1>1, <2>1, <2>2
<1> QED
  BY <1>1, <1>3, SameFiles DEF ConvertPoints, BaseMounted

LEMMA StuttersKeep == IInv /\ UNCHANGED vars => Contents'
<1> SUFFICES ASSUME IInv, UNCHANGED vars PROVE Contents'
  OBVIOUS
<1>1. UNCHANGED <<meta, file, main, at, failed, snap, written>>
  BY DEF vars, mounts
<1>2. Contents
  BY DEF IInv, Contents
<1>3. Blank' /\ EditsSurvive'
  BY <1>1, <1>2 DEF Contents, Blank, Whole, EditsSurvive, Held
<1>4. Plain'
  BY <1>1, <1>2 DEF Contents, Plain, Whole, Within
<1>5. Layers'
  BY <1>1, <1>2 DEF Contents, Layers, BaseRecoverable, Usable, Held, Lower, Whole
<1>6. Merging' /\ Copying'
  BY <1>1, <1>2 DEF Contents, Merging, Flattened, Whole, Within, Copying, Held, Lower
<1> QED
  BY <1>3, <1>4, <1>5, <1>6 DEF Contents

LEMMA InitContents == Init => IInv
<1> SUFFICES ASSUME Init PROVE IInv
  OBVIOUS
<1>1. /\ meta = "ext4" /\ at = "idle" /\ ~main /\ written = Original
      /\ TypeOK /\ Selects
  BY InitTypes DEF Init
<1>2. /\ Holds(Original).edits = Original /\ Holds(Original).state = "whole" /\ Gone.edits = {}
  BY ImageTypes, FrugalAssumption
<1>3. /\ file["disk.img"] = Holds(Original)
      /\ \A f \in Files \ {"disk.img"} : file[f] = Gone
      /\ "disk.img" \in Files
  BY DEF Init, Files, Names
<1>4. Blank
  BY <1>2, <1>3 DEF Blank, Whole, Files
<1>5. Plain
  BY <1>1, <1>2, <1>3, StatesDiffer DEF Plain, Whole, Within, ConvertPoints
<1>6. Layers /\ Merging /\ Copying
  BY <1>1 DEF Layers, Merging, Copying
<1>7. EditsSurvive
  BY <1>1, <1>2, <1>3, FileTypes DEF EditsSurvive, Held
<1> QED
  BY <1>1, <1>4, <1>5, <1>6, <1>7 DEF IInv

LEMMA InvStep == IInv /\ [Next]_vars => IInv'
<1> SUFFICES ASSUME IInv, [Next]_vars PROVE IInv'
  OBVIOUS
<1>1. TypeOK' /\ Selects'
  BY TypeStep DEF IInv
<1>2. ASSUME Merge PROVE Contents'
  <2>1. CASE \E ok \in BOOLEAN : DropsOverlay(ok) \/ DropsSave(ok) \/ DropsBase(ok)
    BY <2>1, DropsKeep
  <2>2. CASE Composes
    BY <2>2, ComposesKeep
  <2>3. CASE MergeFails \/ SquashStarts \/ Squashes
    BY <2>3, FailuresKeep, SquashStartsKeep, SquashesKeep
  <2>4. CASE SwapsOut \/ SwapsIn \/ Resets \/ Formats
    BY <2>4, SwapsOutKeep, SwapsInKeep, ResetsKeep
  <2> QED
    BY <1>2, <2>1, <2>2, <2>3, <2>4, Zenon DEF Merge, Composes
<1>3. Contents'
  <2>1. CASE Convert
    BY <2>1, ConvertKeeps
  <2>2. CASE Mount \/ Umount
    BY <2>2, MountKeeps, UmountKeeps
  <2>3. CASE Snapshots
    BY <2>3, SnapshotsKeep
  <2>4. CASE \E e \in Edits : Edit(e)
    BY <2>4, EditKeeps
  <2>5. CASE Killed \/ PowerLoss \/ UNCHANGED vars
    BY <2>5, StopsKeep, StuttersKeep
  <2> QED
    BY <1>2, <2>1, <2>2, <2>3, <2>4, <2>5, Zenon DEF Next
<1> QED
  BY <1>1, <1>3 DEF IInv, Contents

LEMMA Inductive == Spec => []IInv
BY InitContents, InvStep, PTL DEF Spec

\* Whatever fails, is killed or loses power in convert, mount, snapshot,
\* rollback and merge, an edit that nobody gave up stays in a complete file.
THEOREM EditsAreKept == Spec => []EditsSurvive
<1>1. IInv => EditsSurvive
  BY DEF IInv
<1> QED
  BY <1>1, Inductive, PTL

\* do_frugal_merge and do_frugal_rollback never leave a base and a save layer
\* that mount and do not show an edit that nobody gave up.
THEOREM EditsAreShown == Spec => []EditsVisible
<1>1. IInv => EditsVisible
  <2> SUFFICES ASSUME IInv, meta = "overlay", Usable("base.sfs"), Usable("save.img")
               PROVE  \A e \in written : Held(e, {"base.sfs", "save.img"})
    BY Zenon DEF EditsVisible
  <2>1. Whole("base.sfs")
    BY StatesDiffer DEF IInv, Layers, BaseRecoverable, Usable, Whole
  <2> QED
    BY <2>1, Shown DEF Held
<1> QED
  BY <1>1, Inductive, PTL

\* There is a complete base at every step of do_frugal_merge: under its name,
\* or both the old and the new one under theirs.
THEOREM BaseIsRecoverable == Spec => []BaseRecoverable
<1>1. IInv => BaseRecoverable
  <2>1. IInv /\ meta = "overlay" => BaseRecoverable
    BY DEF IInv, Layers
  <2> QED
    BY <2>1 DEF BaseRecoverable
<1> QED
  BY <1>1, Inductive, PTL
=============================================================================
