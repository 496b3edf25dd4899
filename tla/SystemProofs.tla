---------------------------- MODULE SystemProofs ----------------------------
(***************************************************************************)
(* What holds of the binsys store and its menu for every number of         *)
(* systems, sizes, commands and keys, and however the commands fail.       *)
(*                                                                         *)
(* StoreInv says what a command in progress owns: the image that it makes, *)
(* the directory of a boot disk, the loop device that it will give back.   *)
(* Every action of SystemImages has a lemma that it keeps StoreInv.  Most  *)
(* go through one of a few lemmas on the shapes of a step: a command goes  *)
(* on (CommandGoes, ImageGoes, CryptGoes) or ends (CommandEnds, DirEnds,   *)
(* MetaEnds).                                                              *)
(***************************************************************************)
EXTENDS SystemImages, FiniteSetTheorems, TLAPS

\* A created system is complete, no command leaves a loop device, partitions are where they
\* were planned and the menu's cursor is on a system (binsys).
SystemsAreWhole == NoLoopLeft /\ CreatedWhole /\ LayoutAsPlanned /\ CursorOnSystem

-----------------------------------------------------------------------------
(* The invariant of the store *)

\* The steps of commands, by what the command owns at them.
MakingSteps == {"new fill", "new meta", "new rename"}
NewSteps    == MakingSteps \cup {"new make"}
PlannedSteps == {"boot esp", "boot install", "boot meta"}
BootSteps   == PlannedSteps \cup {"boot loop", "boot part"}
SizedSteps  == {"resize grow", "resize fill", "resize shrink", "resize cut"}
CryptSteps  == {"encrypt convert", "encrypt open", "encrypt meta", "unlock open", "unlock meta"}
PlainSteps  == {"encrypt check", "delete", "name meta", "lock close", "lock meta"}

\* The types of image files, metadata, directories and commands.
ImageSet == [luks : BOOLEAN, file : Nat \ {0}, fs : Nat,
             gpt : {<<>>} \cup (([first : Int, last : Int]) \X ([first : Int, last : Int]))]

MetaSet == [name : SystemNames \cup {NoSystem}, kind : {"none", "disk", "layers"}, encrypted : BOOLEAN,
            mapper : Nat, plan : {<<>>} \cup (Int \X Int)]

CommandSteps == {"idle"} \cup NewSteps \cup BootSteps \cup SizedSteps \cup CryptSteps \cup PlainSteps

SystemSet(k) == [here : BOOLEAN, meta : MetaSet, image : 0 .. k, by : {"none", "new", "boot", "clone", "torn"}]

WorkSet(k) ==
    [step : CommandSteps, name : SystemNames \cup {NoSystem}, kind : {"none", "disk", "layers"},
     size : Nat, request : Nat, image : 0 .. k, encrypt : BOOLEAN]

\* Images are only added, and every number of one is of an image that was made.
StoreTyped ==
    /\ images \in Seq(ImageSet)
    /\ systems \in [SystemNames -> SystemSet(Len(images))]
    /\ work \in WorkSet(Len(images))
    /\ mappers \subseteq [id : Nat, image : Nat] /\ nextMapper \in Nat \ {0}

(* A command that has begun has a system, and the size that it works with is not 0. *)
WorkNamed ==
    /\ work.step # "idle" => work.name \in SystemNames
    /\ work.step \in NewSteps \cup BootSteps => work.size > 0 /\ work.request > 0
    /\ work.step \in NewSteps => work.kind # "none"
    /\ work.step \in SizedSteps => work.size > 0 /\ work.image # 0
    /\ work.step \in CryptSteps => systems[work.name].image # 0

(* The image that do_new makes is nobody's yet. *)
MadeAside ==
    /\ work.step \in MakingSteps =>
         /\ work.image # 0 /\ images[work.image].fs > 0
         /\ \A n \in SystemNames : systems[n].image # work.image

(* The image of a boot disk under construction is only the new system's, which has no *)
(* metadata; it has its partitions once they are made.                                *)
DiskAside ==
    /\ work.step \in BootSteps =>
         /\ work.image # 0 /\ systems[work.name].image = work.image
         /\ systems[work.name].meta = NoMeta /\ systems[work.name].by = "boot"
         /\ \A n \in SystemNames : systems[n].image = work.image => n = work.name
    /\ work.step \in PlannedSteps =>
         LET table == Assembled(work.size, PartitionPlan(work.size, work.request))
         IN Partitionable(table) /\ images[work.image].gpt = table

\* CreatedWhole, by the name in the metadata: what do_new and do_import made.
MadeWhole ==
    \A n \in SystemNames : systems[n].here /\ systems[n].by = "new" =>
        systems[n].meta.name # NoSystem /\ systems[n].image # 0 /\ images[systems[n].image].fs > 0

\* The table that sgdisk wrote for a plan.
IsPlanned(table, plan) ==
    \E total, esp \in Nat : /\ plan = PartitionPlan(total, esp)
                            /\ table = Assembled(total, plan) /\ Partitionable(table)

\* A plan in the metadata is the plan of the image that the directory holds.
PlanKept ==
    \A n \in SystemNames : systems[n].meta.plan # <<>> /\ systems[n].image # 0 =>
        IsPlanned(images[systems[n].image].gpt, systems[n].meta.plan)

\* The images that may keep a loop device when no command runs.
LoopImages == leftLoops \cup {m.image : m \in mappers}

(* The image whose loop device the command will give back or leave to a mapper. *)
Pending ==
    IF work.step \in {"boot part", "boot install"} THEN {work.image}
    ELSE IF work.step \in CryptSteps THEN {systems[work.name].image} ELSE {}

\* A loop device is behind a mapper, left by a lock or of the command that runs, unless one was
\* killed.
LoopsOwned ==
    orderly => /\ loops \subseteq LoopImages \cup Pending
               /\ work.step \in {"encrypt meta", "unlock meta"} => Pending \subseteq LoopImages

StoreInv == StoreTyped /\ WorkNamed /\ MadeAside /\ DiskAside /\ MadeWhole /\ PlanKept /\ LoopsOwned

(* The cursor is never before -1, from where a reload clamps it. *)
CursorInv ==
    /\ selected \in Int /\ selected >= -1 /\ Len(menuRows) \in Nat
    /\ stored \subseteq 1 .. MaxListed /\ CursorOnSystem

-----------------------------------------------------------------------------
(* Partitions *)

\* What a quotient and a remainder are.
LEMMA Division ==
    ASSUME NEW x \in Int, NEW d \in Nat \ {0}
    PROVE  /\ x \div d \in Int /\ x % d \in 0 .. d - 1
           /\ x = d * (x \div d) + (x % d)
    BY SMT

\* AlignUp makes multiples of the alignment.
LEMMA Multiples ==
    ASSUME NEW k \in Int, NEW d \in Nat \ {0}
    PROVE  (d * k) \div d = k /\ (d * k) % d = 0
<1>1. d * k \in Int
    OBVIOUS
<1>2. /\ (d * k) \div d \in Int /\ (d * k) % d \in 0 .. d - 1
      /\ d * k = d * ((d * k) \div d) + ((d * k) % d)
    BY <1>1, Division
<1> DEFINE q == (d * k) \div d
           r == (d * k) % d
<1>3. q \in Int /\ r \in 0 .. d - 1 /\ d * k = d * q + r
    BY <1>2
<1> HIDE DEF q, r
<1>4. r = d * (k - q)
    BY <1>3
<1>5. k - q \in Int
    BY <1>3
<1>6. ~(k - q >= 1)
    BY <1>3, <1>4, <1>5
<1>7. ~(k - q <= -1)
    BY <1>3, <1>4, <1>5
<1>8. k = q
    BY <1>3, <1>5, <1>6, <1>7
<1>9. r = 0
    BY <1>3, <1>8
<1>10. QED BY <1>8, <1>9 DEF q, r

(* The partitions of a plan: the sectors, told by two numbers of units and two of sectors. *)
LEMMA Sectors ==
    ASSUME NEW total \in Nat, NEW esp \in Nat
    PROVE  LET t == Assembled(total, PartitionPlan(total, esp)) IN
           /\ t[1].first * Sector = Align
           /\ \E m \in Int : t[2].first * Sector = Align * m
           /\ (t[2].last + 1) * Sector \in total - Align - Sector + 1 .. total - Align
           /\ t[2].first * Sector \in Align + esp - Sector + 1 .. 2 * Align + esp - Sector
           /\ t[1].first \in Int /\ t[1].last \in Int /\ t[2].first \in Int /\ t[2].last \in Int
<1> DEFINE a == Align \div Sector
           ends == (Align + esp) \div Sector
           m == (ends * Sector + Align - 1) \div Align
           z == (total - Align) \div Sector
           t == Assembled(total, PartitionPlan(total, esp))
<1>0. Sector \in Nat \ {0} /\ Align \in Nat \ {0} /\ Align % Sector = 0
    BY ImagesAssumption
<1>1. a \in Int /\ Align = Sector * a
    BY <1>0, Division
<1>2. ends \in Int /\ ends * Sector \in Align + esp - Sector + 1 .. Align + esp
    <2>1. Align + esp \in Int
        BY <1>0
    <2>2. ends \in Int /\ (Align + esp) % Sector \in 0 .. Sector - 1
          /\ Align + esp = Sector * ends + ((Align + esp) % Sector)
        BY <1>0, <2>1, Division
    <2> HIDE DEF ends
    <2>3. QED BY <1>0, <2>1, <2>2
<1>3. z \in Int /\ z * Sector \in total - Align - Sector + 1 .. total - Align
    <2>1. total - Align \in Int
        BY <1>0
    <2>2. z \in Int /\ (total - Align) % Sector \in 0 .. Sector - 1
          /\ total - Align = Sector * z + ((total - Align) % Sector)
        BY <1>0, <2>1, Division
    <2> HIDE DEF z
    <2>3. QED BY <1>0, <2>1, <2>2
<1> HIDE DEF a, ends, z
<1>4. m \in Int /\ Align * m \in ends * Sector .. ends * Sector + Align - 1
    <2> DEFINE w == ends * Sector + Align - 1
    <2>1. w \in Int
        BY <1>0, <1>2
    <2>2. w \div Align \in Int /\ w % Align \in 0 .. Align - 1
          /\ w = Align * (w \div Align) + (w % Align)
        BY <1>0, <2>1, Division
    <2>3. m = w \div Align
        OBVIOUS
    <2> HIDE DEF m
    <2>4. QED BY <1>0, <1>2, <2>1, <2>2, <2>3
<1>5. AlignUp((ends - 1 + 1) * Sector) = Align * m
    <2>1. ends - 1 + 1 = ends
        BY <1>2
    <2>2. AlignUp((ends - 1 + 1) * Sector) = m * Align
        BY <2>1 DEF AlignUp
    <2>3. QED BY <1>0, <1>4, <2>2
<1> HIDE DEF m
<1>6. (Align * m) \div Sector = a * m
    <2>1. Align * m = Sector * (a * m) /\ a * m \in Int
        BY <1>0, <1>1, <1>4
    <2>2. QED BY <1>0, <2>1, Multiples
<1>7. /\ t[1].first = a /\ t[1].last = ends - 1
      /\ t[2].first = a * m /\ t[2].last = z - 1
    BY <1>5, <1>6 DEF Assembled, PartitionPlan, a, ends, z
<1>8. t[2].first * Sector = Align * m
    BY <1>0, <1>1, <1>4, <1>7
<1>9. Align * m <= ends * Sector + Align - Sector
    <2> DEFINE gap == a * m - ends
    <2>1. gap \in Int /\ Sector * gap = Align * m - ends * Sector
        BY <1>0, <1>1, <1>2, <1>4
    <2>2. Sector * gap < Sector * a
        BY <1>0, <1>1, <1>2, <1>4, <2>1
    <2> HIDE DEF gap
    <2>3. gap < a
        BY <1>0, <1>1, <2>1, <2>2
    <2>4. Sector * gap <= Sector * (a - 1)
        BY <1>0, <1>1, <2>1, <2>3
    <2>5. QED BY <1>0, <1>1, <1>2, <1>4, <2>1, <2>4
<1>10. t[1].first * Sector = Align
    BY <1>0, <1>1, <1>7
<1>11. (t[2].last + 1) * Sector \in total - Align - Sector + 1 .. total - Align
    BY <1>3, <1>7
<1>12. t[2].first * Sector \in Align + esp - Sector + 1 .. 2 * Align + esp - Sector
    <2> HIDE DEF t
    <2>1. Align * m \in Int /\ ends * Sector \in Int
        BY <1>0, <1>2, <1>4
    <2>2. Align * m >= ends * Sector /\ ends * Sector >= Align + esp - Sector + 1
        BY <1>0, <1>2, <1>4
    <2>3. QED BY <1>0, <1>2, <1>8, <1>9, <2>1, <2>2
<1>13. t[1].first \in Int /\ t[1].last \in Int /\ t[2].first \in Int /\ t[2].last \in Int
    BY <1>0, <1>1, <1>2, <1>3, <1>4, <1>7
<1>14. QED BY <1>4, <1>8, <1>10, <1>11, <1>12, <1>13

\* A table that was assembled for a plan is as LayoutAsPlanned says, whatever the disk.
LEMMA PlannedLayout ==
    ASSUME NEW t, NEW p, IsPlanned(t, p)
    PROVE  /\ \A i \in 1 .. 2 : (t[i].first * Sector) % Align = 0
           /\ t[1].last < t[2].first
           /\ p[2] = MinRoot
              \/ (t[2].last + 1 - t[2].first) * Sector \in p[2] - Align .. p[2] + Align
<1>1. PICK total \in Nat, esp \in Nat :
         p = PartitionPlan(total, esp) /\ t = Assembled(total, p) /\ Partitionable(t)
    BY DEF IsPlanned
<1>2. /\ t[1].first * Sector = Align
      /\ \E m \in Int : t[2].first * Sector = Align * m
      /\ (t[2].last + 1) * Sector \in total - Align - Sector + 1 .. total - Align
      /\ t[2].first * Sector \in Align + esp - Sector + 1 .. 2 * Align + esp - Sector
      /\ t[2].first \in Int /\ t[2].last \in Int
    BY <1>1, Sectors
<1>3. Sector \in Nat \ {0} /\ Align \in Nat \ {0}
    BY ImagesAssumption
<1>4. (t[1].first * Sector) % Align = 0
    <2>1. t[1].first * Sector = Align * 1
        BY <1>2, <1>3
    <2>2. QED BY <1>3, <2>1, Multiples
<1>5. (t[2].first * Sector) % Align = 0
    BY <1>2, <1>3, Multiples
<1>6. ASSUME p[2] # MinRoot
      PROVE  (t[2].last + 1 - t[2].first) * Sector \in p[2] - Align .. p[2] + Align
    <2>1. p[2] = total - esp - 2 * Align
        BY <1>1, <1>6 DEF PartitionPlan
    <2>2. Sector <= Align
        <3>1. Align = Sector * (Align \div Sector) + (Align % Sector) /\ Align \div Sector \in Int
            BY <1>3, Division
        <3>2. Align % Sector = 0
            BY ImagesAssumption
        <3>3. Align \div Sector >= 1
            BY <1>3, <3>1, <3>2
        <3>4. QED BY <1>3, <3>1, <3>2, <3>3
    <2> DEFINE x == (t[2].last + 1) * Sector
               y == t[2].first * Sector
    <2>3. (t[2].last + 1 - t[2].first) * Sector = x - y
        BY <1>2, <1>3
    <2>4. /\ x \in total - Align - Sector + 1 .. total - Align
          /\ y \in Align + esp - Sector + 1 .. 2 * Align + esp - Sector
        BY <1>2
    <2> HIDE DEF x, y
    <2>5. QED BY <1>3, <2>1, <2>2, <2>3, <2>4
<1>7. QED BY <1>1, <1>4, <1>5, <1>6 DEF Partitionable

\* So a kept plan is all that LayoutAsPlanned needs.
LEMMA KeptPlansAreLayouts == PlanKept => LayoutAsPlanned
    BY PlannedLayout DEF PlanKept, LayoutAsPlanned
-----------------------------------------------------------------------------
(* The commands *)

\* The types of the fields, one by one.
LEMMA Fields ==
    ASSUME StoreTyped
    PROVE  /\ images \in Seq(ImageSet) /\ Len(images) \in Nat /\ 0 \in 0 .. Len(images)
           /\ work.step \in CommandSteps /\ work.name \in SystemNames \cup {NoSystem}
           /\ work.kind \in {"none", "disk", "layers"} /\ work.size \in Nat /\ work.request \in Nat
           /\ work.image \in 0 .. Len(images) /\ work.encrypt \in BOOLEAN
           /\ \A n \in SystemNames :
                 /\ systems[n].here \in BOOLEAN /\ systems[n].meta \in MetaSet
                 /\ systems[n].image \in 0 .. Len(images)
                 /\ systems[n].by \in {"none", "new", "boot", "clone", "torn"}
<1>1. images \in Seq(ImageSet) /\ Len(images) \in Nat /\ 0 \in 0 .. Len(images)
    BY DEF StoreTyped
<1>2. \A n \in SystemNames : systems[n] \in SystemSet(Len(images))
    BY DEF StoreTyped
<1>3. work \in WorkSet(Len(images))
    BY DEF StoreTyped
<1>4. QED BY <1>1, <1>2, <1>3 DEF SystemSet, WorkSet

\* The command, field by field.
LEMMA WorkIs ==
    ASSUME StoreTyped
    PROVE  work = [step |-> work.step, name |-> work.name, kind |-> work.kind, size |-> work.size,
                   request |-> work.request, image |-> work.image, encrypt |-> work.encrypt]
    BY DEF StoreTyped, WorkSet

(* The types again, once the images are more. *)
LEMMA TypedAgain ==
    ASSUME StoreTyped, images' \in Seq(ImageSet), Len(images') \in {Len(images), Len(images) + 1},
           systems' \in [SystemNames -> SystemSet(Len(images'))]
           \/ UNCHANGED systems,
           work' \in WorkSet(Len(images')),
           mappers' \subseteq [id : Nat, image : Nat], nextMapper' \in Nat \ {0}
    PROVE  StoreTyped'
<1>1. Len(images) \in Nat /\ \A n \in SystemNames : systems[n] \in SystemSet(Len(images))
    BY Fields DEF StoreTyped
<1>3. ASSUME UNCHANGED systems PROVE systems' \in [SystemNames -> SystemSet(Len(images'))]
    <2>1. \A n \in SystemNames : systems[n].image \in 0 .. Len(images')
        BY <1>1, Fields
    <2>2. \A n \in SystemNames : systems[n] \in SystemSet(Len(images'))
        BY <1>1, <2>1 DEF SystemSet
    <2>3. systems \in [SystemNames -> SystemSet(Len(images'))]
        BY <2>2 DEF StoreTyped
    <2>4. QED BY <1>3, <2>3
<1>4. QED BY <1>3 DEF StoreTyped

\* No system, no image, no command.
LEMMA StoreStarts == StoreInit => StoreInv
<1> SUFFICES ASSUME StoreInit PROVE StoreInv
    OBVIOUS
<1>1. images = <<>> /\ Len(images) = 0 /\ images \in Seq(ImageSet)
    BY DEF StoreInit
<1>2. StoreTyped
    BY <1>1 DEF StoreInit, StoreTyped, SystemSet, WorkSet, CommandSteps, NoSystemDir, NoMeta,
                  NoWork, MetaSet
<1>3. WorkNamed /\ MadeAside /\ DiskAside
    BY DEF StoreInit, WorkNamed, MadeAside, DiskAside, NoWork, NewSteps, MakingSteps, BootSteps,
           PlannedSteps, SizedSteps, CryptSteps
<1>4. MadeWhole /\ PlanKept /\ LoopsOwned
    BY DEF StoreInit, MadeWhole, PlanKept, LoopsOwned, NoSystemDir, NoMeta, NoWork
<1>5. QED BY <1>2, <1>3, <1>4 DEF StoreInv

(* What does not touch the systems, the images, the mappers and the loop devices. *)
LEMMA NothingMoves ==
    ASSUME StoreInv,
           UNCHANGED <<systems, images, work, mappers, loops, nextMapper, orderly, leftLoops>>
    PROVE  StoreInv'
<1>1. StoreTyped' /\ WorkNamed' /\ MadeAside' /\ DiskAside' /\ MadeWhole' /\ PlanKept'
    BY DEF StoreInv, StoreTyped, WorkNamed, MadeAside, DiskAside, MadeWhole, PlanKept
<1>2. LoopsOwned'
    BY DEF StoreInv, LoopsOwned, Pending, LoopImages
<1>3. QED BY <1>1, <1>2 DEF StoreInv

(* The end of a command, with what it leaves in the kernel. *)
LEMMA CommandEnds ==
    ASSUME StoreInv, UNCHANGED <<systems, images, nextMapper>>, work' = NoWork,
           mappers' \subseteq mappers, orderly' => loops' \subseteq LoopImages'
    PROVE  StoreInv'
<1>1. StoreTyped /\ 0 \in 0 .. Len(images)
    BY Fields DEF StoreInv
<1>2. StoreTyped'
    BY <1>1 DEF StoreTyped, WorkSet, CommandSteps, NoWork
<1>3. WorkNamed' /\ MadeAside' /\ DiskAside'
    BY DEF WorkNamed, MadeAside, DiskAside, NoWork, NewSteps, MakingSteps, BootSteps,
           PlannedSteps, SizedSteps, CryptSteps
<1>4. MadeWhole' /\ PlanKept'
    BY DEF StoreInv, MadeWhole, PlanKept
<1>5. LoopsOwned'
    BY DEF LoopsOwned, NoWork
<1>6. QED BY <1>2, <1>3, <1>4, <1>5 DEF StoreInv

(* A command without loop devices begins, or goes to its next step. *)
LEMMA CommandGoes ==
    ASSUME StoreInv, UNCHANGED <<systems, images, mappers, loops, nextMapper, orderly, leftLoops>>,
           work.step \notin {"boot part", "boot install"} \cup CryptSteps,
           NEW step \in {"new make"} \cup SizedSteps \cup PlainSteps,
           NEW name \in SystemNames, NEW kind \in {"disk", "layers"} \cup {"none"},
           NEW size \in Nat, NEW request \in Nat, NEW image \in 0 .. Len(images), NEW enc \in BOOLEAN,
           step = "new make" => kind # "none" /\ size > 0 /\ request > 0,
           step \in SizedSteps => size > 0 /\ image # 0,
           work' = [step |-> step, name |-> name, kind |-> kind, size |-> size, request |-> request,
                    image |-> image, encrypt |-> enc]
    PROVE  StoreInv'
<1>1. StoreTyped'
    BY DEF StoreInv, StoreTyped, WorkSet, CommandSteps, NewSteps
<1>2. WorkNamed' /\ MadeAside' /\ DiskAside'
    BY DEF WorkNamed, MadeAside, DiskAside, NewSteps, MakingSteps, BootSteps, PlannedSteps,
           SizedSteps, PlainSteps, CryptSteps
<1>3. MadeWhole' /\ PlanKept'
    BY DEF StoreInv, MadeWhole, PlanKept
<1>4. LoopImages' = LoopImages
    BY DEF LoopImages
<1>5. orderly => loops \subseteq LoopImages
    BY DEF StoreInv, LoopsOwned, Pending
<1>6. LoopsOwned'
    BY <1>4, <1>5 DEF LoopsOwned, SizedSteps, PlainSteps
<1>7. QED BY <1>1, <1>2, <1>3, <1>6 DEF StoreInv

\* A command without a loop device of its own leaves those of mappers only.
LEMMA NothingPending ==
    ASSUME StoreInv, work.step \notin {"boot part", "boot install"} \cup CryptSteps
    PROVE  orderly => loops \subseteq LoopImages
    BY DEF StoreInv, LoopsOwned, Pending

\* And it stays so when it goes on.
LEMMA LoopsStayOwned ==
    ASSUME StoreInv, work.step \notin {"boot part", "boot install"} \cup CryptSteps,
           UNCHANGED <<mappers, loops, orderly, leftLoops>>,
           work'.step \notin {"boot part", "boot install"} \cup CryptSteps
    PROVE  LoopsOwned'
<1>1. LoopImages' = LoopImages
    BY DEF LoopImages
<1>2. work'.step \notin {"encrypt meta", "unlock meta"}
    BY DEF CryptSteps
<1>3. QED BY <1>1, <1>2, NothingPending DEF LoopsOwned

\* What a new image leaves of the others.
LEMMA Appended ==
    ASSUME StoreTyped, NEW im \in ImageSet, images' = Append(images, im)
    PROVE  /\ images' \in Seq(ImageSet) /\ Len(images') = Len(images) + 1 /\ Len(images) \in Nat
           /\ images'[Len(images')] = im
           /\ \A i \in 1 .. Len(images) : images'[i] = images[i]
    BY DEF StoreTyped

\* What a changed image leaves of the others.
LEMMA Updated ==
    ASSUME StoreTyped, NEW i \in 1 .. Len(images), NEW im \in ImageSet,
           images' = [images EXCEPT ![i] = im]
    PROVE  /\ images' \in Seq(ImageSet) /\ Len(images') = Len(images) /\ Len(images) \in Nat
           /\ \A j \in 1 .. Len(images) : images'[j] = IF j = i THEN im ELSE images[j]
    BY DEF StoreTyped

(* Images that keep their partitions, and their filesystem if they have one. *)
LEMMA ImagesKept ==
    ASSUME StoreInv, UNCHANGED systems,
           \A n \in SystemNames : systems[n].image # 0 =>
              /\ images'[systems[n].image].gpt = images[systems[n].image].gpt
              /\ images[systems[n].image].fs > 0 => images'[systems[n].image].fs > 0
    PROVE  MadeWhole' /\ PlanKept'
<1>1. MadeWhole'
    BY DEF StoreInv, MadeWhole
<1>2. PlanKept'
    BY DEF StoreInv, PlanKept
<1>3. QED BY <1>1, <1>2

\* Users ask for a size that is not 0.
LEMMA SizesArePositive ==
    ASSUME NEW s \in ImageSizes
    PROVE  SizeToBytes(s) \in Nat \ {0} /\ ToolBytes(s) \in Nat \ {0}
    BY ImagesAssumption DEF SizeToBytes, ToolBytes

-----------------------------------------------------------------------------
(* do_new and do_import *)

\* do_new looks for the name before it makes anything.
LEMMA NewBeginsKeeps ==
    ASSUME StoreInv, NEW n \in SystemNames, NEW kind \in {"disk", "layers"}, NEW s \in ImageSizes,
           NEW enc \in BOOLEAN, NewBegins(n, kind, s, enc)
    PROVE  StoreInv'
<1>1. work' = [step |-> "new make", name |-> n, kind |-> kind, size |-> SizeToBytes(s),
               request |-> ToolBytes(s), image |-> 0, encrypt |-> enc]
    BY DEF NewBegins, NoWork
<1>2. work.step = "idle" /\ UNCHANGED <<systems, images, mappers, loops, nextMapper, orderly, leftLoops>>
    BY DEF NewBegins, Kernel, Ledgers
<1>3. /\ 0 \in 0 .. Len(images) /\ "new make" \notin SizedSteps
      /\ work.step \notin {"boot part", "boot install"} \cup CryptSteps
    BY <1>2, Fields DEF StoreInv, SizedSteps, CryptSteps
<1>4. /\ SizeToBytes(s) \in Nat /\ SizeToBytes(s) > 0 /\ ToolBytes(s) \in Nat /\ ToolBytes(s) > 0
      /\ kind # "none" /\ kind \in {"disk", "layers"} \cup {"none"}
      /\ "new make" \in {"new make"} \cup SizedSteps \cup PlainSteps
    BY SizesArePositive
<1>5. QED BY <1>1, <1>2, <1>3, <1>4, CommandGoes

\* The new image is at a number that no directory has.
LEMMA NewMakesKeeps ==
    ASSUME StoreInv, NewMakes
    PROVE  StoreInv'
<1> DEFINE im == NewImage(FALSE, work.request, work.request)
<1>1. /\ StoreTyped /\ WorkNamed
      /\ work.step = "new make" /\ UNCHANGED <<systems, mappers, loops, nextMapper, orderly, leftLoops>>
    BY DEF StoreInv, NewMakes, Kernel, Ledgers
<1>2. /\ Len(images) \in Nat /\ work.request \in Nat \ {0} /\ work.size \in Nat
      /\ work.name \in SystemNames /\ work.size > 0 /\ work.kind # "none"
    <2>1. work.step # "idle" /\ work.step \in NewSteps
        BY <1>1 DEF NewSteps
    <2>2. work.request \in Nat /\ work.size \in Nat /\ Len(images) \in Nat
        BY <1>1, Fields
    <2>3. /\ work.name \in SystemNames /\ work.size > 0 /\ work.request > 0
          /\ work.kind # "none"
        BY <1>1, <2>1 DEF WorkNamed
    <2>4. QED BY <2>2, <2>3
<1>3. im \in ImageSet /\ im.fs > 0
    BY <1>2 DEF NewImage, ImageSet
<1>15. images' = Append(images, im)
    BY DEF NewMakes
<1> HIDE DEF im
<1>4. /\ images' \in Seq(ImageSet) /\ Len(images') = Len(images) + 1
      /\ images'[Len(images')] = im
      /\ \A i \in 1 .. Len(images) : images'[i] = images[i]
    BY <1>1, <1>3, <1>15, Appended
<1> DEFINE step == IF work.kind = "layers" THEN "new fill" ELSE "new meta"
<1>5. work' = [step |-> step, name |-> work.name, kind |-> work.kind, size |-> work.size,
               request |-> work.request, image |-> Len(images'), encrypt |-> work.encrypt]
    BY <1>1, WorkIs DEF NewMakes
<1>6. step \in {"new fill", "new meta"} /\ Len(images') \in 0 .. Len(images')
    BY <1>2, <1>4
<1>16. /\ work'.step = step /\ work'.name = work.name /\ work'.kind = work.kind
       /\ work'.size = work.size /\ work'.request = work.request /\ work'.image = Len(images')
    BY <1>5
<1> HIDE DEF step
<1>7. StoreTyped'
    <2>1. step \in CommandSteps
        BY <1>6 DEF CommandSteps, NewSteps, MakingSteps
    <2>2. work.encrypt \in BOOLEAN /\ work.kind \in {"none", "disk", "layers"}
        BY <1>1, Fields
    <2>3. work' \in WorkSet(Len(images'))
        BY <1>2, <1>5, <1>6, <2>1, <2>2 DEF WorkSet
    <2>4. mappers' \subseteq [id : Nat, image : Nat] /\ nextMapper' \in Nat \ {0}
        BY <1>1 DEF StoreTyped
    <2>5. QED BY <1>1, <1>4, <2>3, <2>4, TypedAgain
<1>8. WorkNamed'
    <2>1. work'.step \notin SizedSteps \cup CryptSteps
        BY <1>6, <1>16 DEF SizedSteps, CryptSteps
    <2>2. work'.name \in SystemNames /\ work'.size > 0 /\ work'.request > 0 /\ work'.kind # "none"
        BY <1>2, <1>16
    <2>3. QED BY <2>1, <2>2 DEF WorkNamed
<1>9. \A n \in SystemNames : systems[n].image \in 0 .. Len(images)
    BY <1>1, Fields
<1>10. MadeAside'
    <2>1. work'.image # 0 /\ images'[work'.image].fs > 0
        BY <1>2, <1>3, <1>4, <1>16
    <2>2. \A n \in SystemNames : systems[n].image # Len(images')
        BY <1>2, <1>4, <1>9
    <2>4. \A n \in SystemNames : systems'[n].image # work'.image
        BY <1>1, <1>16, <2>2
    <2>3. QED BY <2>1, <2>4 DEF MadeAside
<1>11. DiskAside'
    BY <1>6, <1>16 DEF DiskAside, BootSteps, PlannedSteps
<1>12. MadeWhole' /\ PlanKept'
    <2>1. \A n \in SystemNames : systems[n].image # 0 =>
             images'[systems[n].image] = images[systems[n].image]
        BY <1>2, <1>4, <1>9
    <2>2. QED BY <1>1, <2>1, ImagesKept
<1>13. LoopsOwned'
    BY <1>1, <1>6, <1>16, LoopsStayOwned DEF CryptSteps
<1>14. QED BY <1>7, <1>8, <1>10, <1>11, <1>12, <1>13 DEF StoreInv

(* A step changes the name of the command's step only. *)
LEMMA StepGoes ==
    ASSUME StoreTyped, NEW step, work' = [work EXCEPT !.step = step]
    PROVE  /\ work' = [step |-> step, name |-> work.name, kind |-> work.kind, size |-> work.size,
                       request |-> work.request, image |-> work.image, encrypt |-> work.encrypt]
           /\ work'.step = step /\ work'.name = work.name /\ work'.kind = work.kind
           /\ work'.size = work.size /\ work'.request = work.request /\ work'.image = work.image
<1>1. work = [step |-> work.step, name |-> work.name, kind |-> work.kind, size |-> work.size,
              request |-> work.request, image |-> work.image, encrypt |-> work.encrypt]
    BY WorkIs
<1>2. QED BY <1>1

\* The types again, at the next step of the command.
LEMMA StepTyped ==
    ASSUME StoreTyped, NEW step \in CommandSteps, work' = [work EXCEPT !.step = step],
           images' \in Seq(ImageSet), Len(images') = Len(images),
           systems' \in [SystemNames -> SystemSet(Len(images'))] \/ UNCHANGED systems,
           mappers' \subseteq [id : Nat, image : Nat], nextMapper' \in Nat \ {0}
    PROVE  StoreTyped'
<1>1. work \in WorkSet(Len(images'))
    BY DEF StoreTyped
<1>2. work' \in WorkSet(Len(images'))
    BY <1>1 DEF WorkSet
<1>3. Len(images') \in {Len(images), Len(images) + 1}
    OBVIOUS
<1>4. QED BY <1>2, <1>3, TypedAgain

\* A command that is over owns nothing.
LEMMA WorkIsDone ==
    ASSUME work' = NoWork
    PROVE  /\ work' = [step |-> "idle", name |-> NoSystem, kind |-> "none", size |-> 0, request |-> 0,
                       image |-> 0, encrypt |-> FALSE]
           /\ work'.step = "idle" /\ WorkNamed' /\ MadeAside' /\ DiskAside'
    BY DEF WorkNamed, MadeAside, DiskAside, NoWork, NewSteps, MakingSteps, BootSteps,
           PlannedSteps, SizedSteps, CryptSteps

\* The types again, once the command is over.
LEMMA DoneTyped ==
    ASSUME StoreTyped, work' = NoWork,
           images' \in Seq(ImageSet), Len(images') \in {Len(images), Len(images) + 1},
           systems' \in [SystemNames -> SystemSet(Len(images'))] \/ UNCHANGED systems,
           mappers' \subseteq [id : Nat, image : Nat], nextMapper' \in Nat \ {0}
    PROVE  StoreTyped'
<1>1. Len(images') \in Nat /\ 0 \in 0 .. Len(images')
    BY Fields
<1>2. "idle" \in CommandSteps
    BY DEF CommandSteps
<1>3. work' \in WorkSet(Len(images'))
    BY <1>1, <1>2 DEF WorkSet, NoWork
<1>4. QED BY <1>3, TypedAgain

(* One image changes, and keeps its partitions or is of no planned system. *)
LEMMA UpdateKeeps ==
    ASSUME StoreInv, UNCHANGED systems, NEW i \in 1 .. Len(images), NEW im \in ImageSet,
           images' = [images EXCEPT ![i] = im],
           \/ im.gpt = images[i].gpt
           \/ \A n \in SystemNames : systems[n].image = i => systems[n].meta.plan = <<>>,
           images[i].fs > 0 => im.fs > 0
    PROVE  /\ MadeWhole' /\ PlanKept'
           /\ images' \in Seq(ImageSet) /\ Len(images') = Len(images)
           /\ images'[i] = im
<1>1. StoreTyped /\ MadeWhole /\ PlanKept
    BY DEF StoreInv
<1>2. /\ images' \in Seq(ImageSet) /\ Len(images') = Len(images)
      /\ \A j \in 1 .. Len(images) : images'[j] = IF j = i THEN im ELSE images[j]
    BY <1>1, Updated
<1>3. \A n \in SystemNames : systems[n].image # 0 => systems[n].image \in 1 .. Len(images)
    BY <1>1, Fields
<1>4. \A n \in SystemNames : systems[n].image # 0 /\ images[systems[n].image].fs > 0 =>
         images'[systems[n].image].fs > 0
    BY <1>2, <1>3
<1>5. MadeWhole'
    BY <1>1, <1>4 DEF MadeWhole
<1>6. \A n \in SystemNames : systems[n].meta.plan # <<>> /\ systems[n].image # 0 =>
         images'[systems[n].image].gpt = images[systems[n].image].gpt
    <2> SUFFICES ASSUME NEW n \in SystemNames, systems[n].meta.plan # <<>>, systems[n].image # 0
                 PROVE  images'[systems[n].image].gpt = images[systems[n].image].gpt
        OBVIOUS
    <2>1. systems[n].image \in 1 .. Len(images)
        BY <1>3
    <2>2. CASE systems[n].image = i
        BY <1>2, <2>1, <2>2
    <2>3. CASE systems[n].image # i
        BY <1>2, <2>1, <2>3
    <2>4. QED BY <2>1, <2>2, <2>3
<1>7. PlanKept'
    BY <1>1, <1>6 DEF PlanKept
<1>8. QED BY <1>2, <1>5, <1>7

\* The new image keeps its filesystem while it is filled.
LEMMA NewFillsKeeps ==
    ASSUME StoreInv, NewFills
    PROVE  StoreInv'
<1>1. /\ StoreTyped /\ WorkNamed /\ MadeAside /\ MadeWhole /\ PlanKept /\ work.step = "new fill"
      /\ UNCHANGED <<systems, images, mappers, loops, nextMapper, orderly, leftLoops>>
      /\ work' = [work EXCEPT !.step = "new meta"]
    BY DEF StoreInv, NewFills, Kernel, Ledgers
<1>2. work'.step = "new meta" /\ work'.name = work.name /\ work'.kind = work.kind
      /\ work'.size = work.size /\ work'.request = work.request /\ work'.image = work.image
    BY <1>1, StepGoes
<1>3. StoreTyped'
    <2>1. "new meta" \in CommandSteps
        BY DEF CommandSteps, NewSteps, MakingSteps
    <2>2. /\ images' \in Seq(ImageSet) /\ nextMapper' \in Nat \ {0}
          /\ mappers' \subseteq [id : Nat, image : Nat]
        BY <1>1 DEF StoreTyped
    <2>3. QED BY <1>1, <2>1, <2>2, StepTyped
<1>4. WorkNamed'
    BY <1>1, <1>2 DEF WorkNamed, NewSteps, MakingSteps, BootSteps, PlannedSteps, SizedSteps, CryptSteps
<1>5. MadeAside' /\ DiskAside'
    BY <1>1, <1>2 DEF MadeAside, DiskAside, MakingSteps, BootSteps, PlannedSteps
<1>6. MadeWhole' /\ PlanKept'
    BY <1>1 DEF MadeWhole, PlanKept
<1>7. LoopsOwned'
    BY <1>1, <1>2, LoopsStayOwned DEF CryptSteps
<1>8. QED BY <1>3, <1>4, <1>5, <1>6, <1>7 DEF StoreInv

\* The download has a filesystem as well, and nobody else's image is replaced.
LEMMA NewFlashesKeeps ==
    ASSUME StoreInv, NewFlashes
    PROVE  StoreInv'
<1>1. /\ StoreTyped /\ WorkNamed /\ MadeAside /\ work.step = "new meta"
      /\ UNCHANGED <<systems, mappers, loops, nextMapper, orderly, leftLoops>>
      /\ work' = [work EXCEPT !.step = "new rename"]
    BY DEF StoreInv, NewFlashes, Kernel, Ledgers
<1>2. work'.step = "new rename" /\ work'.name = work.name /\ work'.kind = work.kind
      /\ work'.size = work.size /\ work'.request = work.request /\ work'.image = work.image
    BY <1>1, StepGoes
<1>3. PICK file \in {DownloadSize} \cup ({work.size} \ 1 .. DownloadSize) :
          \E fs \in {DownloadSize, file} :
              images' = [images EXCEPT ![work.image] = NewImage(FALSE, file, fs)]
    BY DEF NewFlashes
<1>14. PICK fs \in {DownloadSize, file} :
           images' = [images EXCEPT ![work.image] = NewImage(FALSE, file, fs)]
    BY <1>3
<1> DEFINE im == NewImage(FALSE, file, fs)
<1>4. im \in ImageSet /\ im.fs > 0
    <2>1. work.size \in Nat /\ work.size > 0
        BY <1>1, Fields DEF WorkNamed, NewSteps, MakingSteps
    <2>2. DownloadSize \in Nat \ {0}
        BY ImagesAssumption
    <2>3. file \in Nat \ {0} /\ fs \in Nat \ {0}
        BY <1>3, <1>14, <2>1, <2>2
    <2>4. QED BY <2>3 DEF NewImage, ImageSet
<1>5. /\ work.image \in 1 .. Len(images)
      /\ \A n \in SystemNames : systems[n].image # work.image
    <2>1. work.image # 0 /\ \A n \in SystemNames : systems[n].image # work.image
        BY <1>1 DEF MadeAside, MakingSteps
    <2>2. work.image \in 0 .. Len(images) /\ Len(images) \in Nat
        BY <1>1, Fields
    <2>3. QED BY <2>1, <2>2
<1>13. images' = [images EXCEPT ![work.image] = im]
    BY <1>14
<1> HIDE DEF im
<1>6. /\ MadeWhole' /\ PlanKept'
      /\ images' \in Seq(ImageSet) /\ Len(images') = Len(images)
      /\ images'[work.image] = im
    BY <1>1, <1>4, <1>5, <1>13, UpdateKeeps
<1>7. StoreTyped'
    <2>1. "new rename" \in CommandSteps
        BY DEF CommandSteps, NewSteps, MakingSteps
    <2>2. mappers' \subseteq [id : Nat, image : Nat] /\ nextMapper' \in Nat \ {0}
        BY <1>1 DEF StoreTyped
    <2>3. QED BY <1>1, <1>6, <2>1, <2>2, StepTyped
<1>8. WorkNamed'
    BY <1>1, <1>2 DEF WorkNamed, NewSteps, MakingSteps, BootSteps, PlannedSteps, SizedSteps, CryptSteps
<1>9. MadeAside'
    <2>1. work'.image # 0 /\ images'[work'.image].fs > 0
        <3>1. work.image # 0 /\ images'[work.image].fs > 0
            BY <1>4, <1>5, <1>6
        <3>2. QED BY <1>2, <3>1
    <2>2. \A n \in SystemNames : systems'[n].image # work'.image
        BY <1>1, <1>2, <1>5
    <2>3. QED BY <2>1, <2>2 DEF MadeAside
<1>10. DiskAside'
    BY <1>2 DEF DiskAside, BootSteps, PlannedSteps
<1>11. LoopsOwned'
    BY <1>1, <1>2, LoopsStayOwned DEF CryptSteps
<1>12. QED BY <1>6, <1>7, <1>8, <1>9, <1>10, <1>11 DEF StoreInv

\* The handler of do_new leaves no directory.
LEMMA NewFailsKeeps ==
    ASSUME StoreInv, NewFails
    PROVE  StoreInv'
<1>1. /\ UNCHANGED <<systems, images, mappers, loops, nextMapper, orderly, leftLoops>> /\ work' = NoWork
      /\ work.step \notin {"boot part", "boot install"} \cup CryptSteps
    BY DEF NewFails, Kernel, Ledgers, CryptSteps
<1>2. LoopImages' = LoopImages
    BY <1>1 DEF LoopImages
<1>3. orderly' => loops' \subseteq LoopImages'
    BY <1>1, <1>2, NothingPending
<1>4. QED BY <1>1, <1>3, CommandEnds

(* One directory changes. *)
LEMMA DirTyped ==
    ASSUME StoreTyped, NEW n \in SystemNames, Len(images') \in {Len(images), Len(images) + 1},
           NEW d \in SystemSet(Len(images')), systems' = [systems EXCEPT ![n] = d]
    PROVE  /\ systems' \in [SystemNames -> SystemSet(Len(images'))]
           /\ systems'[n] = d /\ \A m \in SystemNames : m # n => systems'[m] = systems[m]
<1>1. /\ systems'[n] = d /\ \A m \in SystemNames : m # n => systems'[m] = systems[m]
      /\ DOMAIN systems' = SystemNames /\ systems' = [m \in SystemNames |-> systems'[m]]
    BY DEF StoreTyped
<1>2. \A m \in SystemNames : systems[m] \in SystemSet(Len(images))
    BY DEF StoreTyped
<1>3. \A m \in SystemNames : systems[m] \in SystemSet(Len(images'))
    <2>1. \A k : k \in 0 .. Len(images) => k \in 0 .. Len(images')
        BY Fields
    <2>2. QED BY <1>2, <2>1 DEF SystemSet
<1>4. QED BY <1>1, <1>3

\* A new directory is whole and has its plan when it says so of itself.
LEMMA DirKeeps ==
    ASSUME StoreInv, NEW n \in SystemNames, NEW d,
           systems'[n] = d, \A m \in SystemNames : m # n => systems'[m] = systems[m],
           \A i \in 1 .. Len(images) : images'[i] = images[i],
           d.here /\ d.by = "new" => d.meta.name # NoSystem /\ d.image # 0 /\ images'[d.image].fs > 0,
           d.meta.plan # <<>> /\ d.image # 0 => IsPlanned(images'[d.image].gpt, d.meta.plan)
    PROVE  MadeWhole' /\ PlanKept'
<1>1. \A m \in SystemNames : systems[m].image # 0 => images'[systems[m].image] = images[systems[m].image]
    <2>1. \A m \in SystemNames : systems[m].image \in 0 .. Len(images) /\ Len(images) \in Nat
        BY Fields DEF StoreInv
    <2>2. QED BY <2>1
<1>2. MadeWhole'
    <2> SUFFICES ASSUME NEW m \in SystemNames, systems'[m].here, systems'[m].by = "new"
                 PROVE  /\ systems'[m].meta.name # NoSystem /\ systems'[m].image # 0
                        /\ images'[systems'[m].image].fs > 0
        BY DEF MadeWhole
    <2>1. CASE m = n
        BY <2>1
    <2>2. CASE m # n
        BY <1>1, <2>2 DEF StoreInv, MadeWhole
    <2>3. QED BY <2>1, <2>2
<1>3. PlanKept'
    <2> SUFFICES ASSUME NEW m \in SystemNames, systems'[m].meta.plan # <<>>, systems'[m].image # 0
                 PROVE  IsPlanned(images'[systems'[m].image].gpt, systems'[m].meta.plan)
        BY DEF PlanKept
    <2>1. CASE m = n
        BY <2>1
    <2>2. CASE m # n
        BY <1>1, <2>2 DEF StoreInv, PlanKept
    <2>3. QED BY <2>1, <2>2
<1>4. QED BY <1>2, <1>3

\* The metadata of a new system has its name and no plan.
LEMMA MetaOfNew ==
    ASSUME NEW n \in SystemNames, NEW kind \in {"none", "disk", "layers"}
    PROVE  Named(n, kind) \in MetaSet /\ Named(n, kind).name = n /\ Named(n, kind).plan = <<>>
    BY DEF Named, NoMeta, MetaSet

\* The rename makes the directory and its metadata appear at once.
LEMMA NewRenamesKeeps ==
    ASSUME StoreInv, NewRenames
    PROVE  StoreInv'
<1> DEFINE d == Published(work.name)
<1>1. /\ StoreTyped /\ WorkNamed /\ MadeAside /\ work.step \in {"new meta", "new rename"}
      /\ UNCHANGED <<images, mappers, loops, nextMapper, orderly, leftLoops>>
      /\ systems' = [systems EXCEPT ![work.name] = d]
    BY DEF StoreInv, NewRenames, Kernel, Ledgers
<1>2. /\ work.name \in SystemNames
      /\ work.image # 0 /\ images[work.image].fs > 0
    BY <1>1 DEF WorkNamed, MadeAside, MakingSteps
<1>3. /\ work.kind \in {"none", "disk", "layers"} /\ work.image \in 0 .. Len(images')
    BY <1>1, Fields
<1>4. /\ d = [here |-> TRUE, meta |-> Named(work.name, work.kind), image |-> work.image, by |-> "new"]
      /\ Named(work.name, work.kind) \in MetaSet
      /\ Named(work.name, work.kind).name = work.name /\ Named(work.name, work.kind).plan = <<>>
    BY <1>2, <1>3, MetaOfNew DEF Published
<1>5. /\ d \in SystemSet(Len(images')) /\ d.image = work.image
      /\ d.meta.name = work.name /\ d.meta.plan = <<>>
    BY <1>3, <1>4 DEF SystemSet
<1> HIDE DEF d
<1>6. /\ systems' \in [SystemNames -> SystemSet(Len(images'))]
      /\ systems'[work.name] = d /\ \A m \in SystemNames : m # work.name => systems'[m] = systems[m]
    BY <1>1, <1>2, <1>5, DirTyped
<1>7. MadeWhole' /\ PlanKept'
    <2>1. \A i \in 1 .. Len(images) : images'[i] = images[i]
        BY <1>1
    <2>2. d.meta.name # NoSystem /\ d.image # 0 /\ images'[d.image].fs > 0
        BY <1>1, <1>2, <1>5, ImagesAssumption
    <2>3. QED BY <1>2, <1>5, <1>6, <2>1, <2>2, DirKeeps
<1>8. /\ images' \in Seq(ImageSet) /\ nextMapper' \in Nat \ {0}
      /\ mappers' \subseteq [id : Nat, image : Nat]
    BY <1>1 DEF StoreTyped
<1>9. CASE work.encrypt
    <2>1. work' = [step |-> "encrypt check", name |-> work.name, kind |-> "none", size |-> 0,
                   request |-> 0, image |-> 0, encrypt |-> FALSE]
        BY <1>9 DEF NewRenames, NoWork
    <2>2. work'.step = "encrypt check" /\ work'.name = work.name
        BY <2>1
    <2>3. work' \in WorkSet(Len(images'))
        <3>1. "encrypt check" \in CommandSteps /\ 0 \in 0 .. Len(images')
            BY <1>1, Fields DEF CommandSteps, PlainSteps
        <3>2. QED BY <1>2, <2>1, <3>1 DEF WorkSet
    <2>4. StoreTyped'
        BY <1>1, <1>6, <1>8, <2>3, TypedAgain
    <2>5. WorkNamed' /\ MadeAside' /\ DiskAside'
        BY <1>2, <2>2 DEF WorkNamed, MadeAside, DiskAside, NewSteps, MakingSteps, BootSteps,
               PlannedSteps, SizedSteps, CryptSteps
    <2>6. LoopsOwned'
        BY <1>1, <2>2, LoopsStayOwned DEF CryptSteps
    <2>7. QED BY <1>7, <2>4, <2>5, <2>6 DEF StoreInv
<1>10. CASE ~work.encrypt
    <2>1. work' = NoWork
        BY <1>10 DEF NewRenames
    <2>2. StoreTyped'
        BY <1>1, <1>6, <1>8, <2>1, DoneTyped
    <2>3. LoopsOwned'
        BY <1>1, <2>1, LoopsStayOwned, WorkIsDone DEF CryptSteps
    <2>4. QED BY <1>7, <2>1, <2>2, <2>3, WorkIsDone DEF StoreInv
<1>11. QED BY <1>9, <1>10

\* do_import makes both in one step.
LEMMA ImportsKeeps ==
    ASSUME StoreInv, NEW n \in SystemNames, Imports(n)
    PROVE  StoreInv'
<1> DEFINE im == NewImage(FALSE, DownloadSize, DownloadSize)
           d == [here |-> TRUE, meta |-> Named(n, "disk"), image |-> Len(images'), by |-> "new"]
<1>1. /\ StoreTyped /\ work.step = "idle"
      /\ UNCHANGED <<mappers, loops, nextMapper, orderly, leftLoops, work>>
      /\ images' = Append(images, im) /\ systems' = [systems EXCEPT ![n] = d]
    BY DEF StoreInv, Imports, Runs1, Kernel, Ledgers
<1>2. im \in ImageSet /\ im.fs > 0
    <2>1. DownloadSize \in Nat \ {0}
        BY ImagesAssumption
    <2>2. QED BY <2>1 DEF NewImage, ImageSet
<1> HIDE DEF im
<1>3. /\ images' \in Seq(ImageSet) /\ Len(images') = Len(images) + 1 /\ Len(images) \in Nat
      /\ images'[Len(images')] = im /\ \A i \in 1 .. Len(images) : images'[i] = images[i]
    BY <1>1, <1>2, Appended
<1>4. /\ Named(n, "disk") \in MetaSet /\ Named(n, "disk").name = n /\ Named(n, "disk").plan = <<>>
    BY MetaOfNew
<1>5. /\ Len(images') \in 0 .. Len(images') /\ Len(images') # 0
      /\ Len(images') \in {Len(images), Len(images) + 1}
    BY <1>3
<1>6. /\ d \in SystemSet(Len(images')) /\ d.image = Len(images')
      /\ d.meta.name = n /\ d.meta.plan = <<>>
    BY <1>4, <1>5 DEF SystemSet
<1> HIDE DEF d
<1>7. /\ systems' \in [SystemNames -> SystemSet(Len(images'))]
      /\ systems'[n] = d /\ \A m \in SystemNames : m # n => systems'[m] = systems[m]
    BY <1>1, <1>5, <1>6, DirTyped
<1>8. MadeWhole' /\ PlanKept'
    <2>1. d.meta.name # NoSystem /\ d.image # 0 /\ images'[d.image].fs > 0
        BY <1>2, <1>3, <1>5, <1>6, ImagesAssumption
    <2>2. QED BY <1>3, <1>6, <1>7, <2>1, DirKeeps
<1>9. StoreTyped'
    <2>1. work' \in WorkSet(Len(images'))
        <3>1. \A k : k \in 0 .. Len(images) => k \in 0 .. Len(images')
            BY <1>3
        <3>2. work \in WorkSet(Len(images))
            BY <1>1 DEF StoreTyped
        <3>3. work \in WorkSet(Len(images'))
            BY <3>1, <3>2 DEF WorkSet
        <3>4. QED BY <1>1, <3>3
    <2>2. mappers' \subseteq [id : Nat, image : Nat] /\ nextMapper' \in Nat \ {0}
        BY <1>1 DEF StoreTyped
    <2>3. QED BY <1>1, <1>3, <1>5, <1>7, <2>1, <2>2, TypedAgain
<1>10. WorkNamed' /\ MadeAside' /\ DiskAside'
    BY <1>1 DEF WorkNamed, MadeAside, DiskAside, NewSteps, MakingSteps, BootSteps,
           PlannedSteps, SizedSteps, CryptSteps
<1>11. LoopsOwned'
    BY <1>1, LoopsStayOwned DEF CryptSteps
<1>12. QED BY <1>8, <1>9, <1>10, <1>11 DEF StoreInv

-----------------------------------------------------------------------------
(* build_bootdisk *)

\* The directory of a boot disk comes before its metadata: it is not do_new's.
LEMMA DiskBuildsKeeps ==
    ASSUME StoreInv, NEW n \in SystemNames, NEW s \in ImageSizes, NEW esp \in EspSizes,
           DiskBuilds(n, s, esp)
    PROVE  StoreInv'
<1> DEFINE im == NewImage(FALSE, SizeToBytes(s), 0)
           d == [here |-> TRUE, meta |-> NoMeta, image |-> Len(images'), by |-> "boot"]
<1>1. /\ StoreTyped /\ work.step = "idle" /\ UNCHANGED <<mappers, loops, nextMapper, orderly, leftLoops>>
      /\ images' = Append(images, im)
    BY DEF StoreInv, DiskBuilds, Kernel, Ledgers
<1>2. systems' = [systems EXCEPT ![n] = d]
    BY DEF DiskBuilds
<1>3. work' = [step |-> "boot loop", name |-> n, kind |-> "none", size |-> SizeToBytes(s),
               request |-> esp, image |-> Len(images'), encrypt |-> FALSE]
    BY DEF DiskBuilds, NoWork
<1>4. SizeToBytes(s) \in Nat \ {0} /\ esp \in Nat \ {0}
    <2>1. EspSizes \subseteq Nat \ {0}
        BY ImagesAssumption
    <2>2. QED BY <2>1, SizesArePositive
<1>5. im \in ImageSet
    BY <1>4 DEF NewImage, ImageSet
<1> HIDE DEF im
<1>6. /\ images' \in Seq(ImageSet) /\ Len(images') = Len(images) + 1 /\ Len(images) \in Nat
      /\ \A i \in 1 .. Len(images) : images'[i] = images[i]
    BY <1>1, <1>5, Appended
<1>7. /\ Len(images') \in 0 .. Len(images') /\ Len(images') # 0
      /\ Len(images') \in {Len(images), Len(images) + 1}
    BY <1>6
<1>8. /\ d \in SystemSet(Len(images')) /\ d.image = Len(images') /\ d.by = "boot"
      /\ d.meta = NoMeta /\ d.meta.plan = <<>>
    <2>1. NoMeta \in MetaSet
        BY DEF NoMeta, MetaSet
    <2>2. d \in SystemSet(Len(images'))
        BY <1>7, <2>1 DEF SystemSet
    <2>3. QED BY <2>2 DEF NoMeta
<1> HIDE DEF d
<1>9. /\ systems' \in [SystemNames -> SystemSet(Len(images'))]
      /\ systems'[n] = d /\ \A m \in SystemNames : m # n => systems'[m] = systems[m]
    BY <1>1, <1>2, <1>7, <1>8, DirTyped
<1>10. MadeWhole' /\ PlanKept'
    <2>1. d.by # "new"
        BY <1>8
    <2>2. QED BY <1>6, <1>8, <1>9, <2>1, DirKeeps
<1>11. /\ work'.step = "boot loop" /\ work'.name = n /\ work'.size = SizeToBytes(s)
       /\ work'.request = esp /\ work'.image = Len(images')
    BY <1>3
<1>12. StoreTyped'
    <2>1. "boot loop" \in CommandSteps
        BY DEF CommandSteps, BootSteps
    <2>2. work' \in WorkSet(Len(images'))
        BY <1>3, <1>4, <1>7, <2>1 DEF WorkSet
    <2>3. mappers' \subseteq [id : Nat, image : Nat] /\ nextMapper' \in Nat \ {0}
        BY <1>1 DEF StoreTyped
    <2>4. QED BY <1>1, <1>6, <1>7, <1>9, <2>2, <2>3, TypedAgain
<1>13. WorkNamed' /\ MadeAside'
    <2>1. work'.step \notin NewSteps \cup MakingSteps \cup SizedSteps \cup CryptSteps
        BY <1>11 DEF NewSteps, MakingSteps, SizedSteps, CryptSteps
    <2>2. SizeToBytes(s) > 0 /\ esp > 0
        BY <1>4
    <2>3. work'.name \in SystemNames /\ work'.size > 0 /\ work'.request > 0
        BY <1>11, <2>2
    <2>4. QED BY <2>1, <2>3 DEF WorkNamed, MadeAside
<1>14. DiskAside'
    <2>1. \A m \in SystemNames : systems'[m].image = work'.image => m = work'.name
        <3>1. \A m \in SystemNames : systems[m].image \in 0 .. Len(images)
            BY <1>1, Fields
        <3>2. \A m \in SystemNames : systems[m].image # Len(images')
            BY <1>6, <3>1
        <3>3. QED BY <1>9, <1>11, <3>2
    <2>2. /\ work'.image # 0 /\ systems'[work'.name].image = work'.image
          /\ systems'[work'.name].meta = NoMeta /\ systems'[work'.name].by = "boot"
        BY <1>7, <1>8, <1>9, <1>11
    <2>3. work'.step \notin PlannedSteps
        BY <1>11 DEF PlannedSteps
    <2>4. QED BY <2>1, <2>2, <2>3 DEF DiskAside
<1>15. LoopsOwned'
    BY <1>1, <1>11, LoopsStayOwned DEF CryptSteps
<1>16. QED BY <1>10, <1>12, <1>13, <1>14, <1>15 DEF StoreInv

(* The steps of build_bootdisk that change nothing but a loop device. *)
LEMMA BootGoes ==
    ASSUME StoreInv, UNCHANGED <<systems, images, mappers, nextMapper>>,
           NEW step \in BootSteps, work' = [work EXCEPT !.step = step],
           work.step \in BootSteps, step \in PlannedSteps => work.step \in PlannedSteps,
           LoopsOwned'
    PROVE  StoreInv'
<1>1. StoreTyped /\ WorkNamed /\ DiskAside /\ MadeWhole /\ PlanKept
    BY DEF StoreInv
<1>2. work'.step = step /\ work'.name = work.name /\ work'.size = work.size
      /\ work'.request = work.request /\ work'.image = work.image
    BY <1>1, StepGoes
<1>3. StoreTyped'
    <2>1. step \in CommandSteps
        BY DEF CommandSteps
    <2>2. /\ images' \in Seq(ImageSet) /\ nextMapper' \in Nat \ {0}
          /\ mappers' \subseteq [id : Nat, image : Nat]
        BY <1>1 DEF StoreTyped
    <2>3. QED BY <1>1, <2>1, <2>2, StepTyped
<1>4. /\ step # "idle" /\ work.step # "idle"
      /\ step \notin NewSteps \cup MakingSteps \cup SizedSteps \cup CryptSteps
    BY DEF BootSteps, PlannedSteps, NewSteps, MakingSteps, SizedSteps, CryptSteps
<1>5. WorkNamed' /\ MadeAside'
    BY <1>1, <1>2, <1>4 DEF WorkNamed, MadeAside
<1>6. DiskAside'
    BY <1>1, <1>2 DEF DiskAside
<1>7. MadeWhole' /\ PlanKept'
    BY <1>1 DEF MadeWhole, PlanKept
<1>8. QED BY <1>3, <1>5, <1>6, <1>7 DEF StoreInv

\* The command has the loop device that it sets up.
LEMMA BootLoopsKeeps ==
    ASSUME StoreInv, BootLoops \/ EspMounts
    PROVE  StoreInv'
<1> DEFINE step == IF work.step = "boot loop" THEN "boot part" ELSE "boot install"
<1>1. /\ StoreTyped /\ UNCHANGED <<systems, images, mappers, nextMapper, orderly, leftLoops>>
      /\ work' = [work EXCEPT !.step = step] /\ loops' = loops \cup {work.image}
      /\ work.step \in {"boot loop", "boot esp"}
    BY DEF StoreInv, BootLoops, EspMounts, WorkGoes, Ledgers
<1>2. /\ work.step \in BootSteps /\ step \in BootSteps
      /\ step \in PlannedSteps => work.step \in PlannedSteps
    BY <1>1 DEF BootSteps, PlannedSteps
<1>3. work'.step = step /\ work'.image = work.image
    BY <1>1, StepGoes
<1>4. LoopsOwned'
    <2>1. orderly => loops \subseteq LoopImages
        BY <1>1, NothingPending DEF CryptSteps
    <2>2. LoopImages' = LoopImages
        BY <1>1 DEF LoopImages
    <2>3. step \in {"boot part", "boot install"}
        OBVIOUS
    <2> HIDE DEF step
    <2>4. Pending' = {work.image} /\ work'.step \notin {"encrypt meta", "unlock meta"}
        BY <1>3, <2>3 DEF Pending
    <2>5. QED BY <1>1, <2>1, <2>2, <2>4 DEF LoopsOwned
<1> HIDE DEF step
<1>5. QED BY <1>1, <1>2, <1>4, BootGoes

(* Giving the loop device of the command back. *)
LEMMA LoopsGivenBack ==
    ASSUME StoreInv, work.step \notin CryptSteps, UNCHANGED <<mappers, orderly, leftLoops>>,
           loops' = loops \ {work.image}
    PROVE  orderly' => loops' \subseteq LoopImages'
<1>1. LoopImages' = LoopImages
    BY DEF LoopImages
<1>2. Pending \subseteq {work.image}
    BY DEF Pending
<1>3. orderly => loops \subseteq LoopImages \cup Pending
    BY DEF StoreInv, LoopsOwned
<1>4. QED BY <1>1, <1>2, <1>3

\* The partitions are written while nobody has the image, and the loop device given back.
LEMMA BootPartitionsKeeps ==
    ASSUME StoreInv, BootPartitions
    PROVE  StoreInv'
<1> DEFINE table == Assembled(work.size, PartitionPlan(work.size, work.request))
           im == [luks |-> images[work.image].luks, file |-> images[work.image].file,
                  fs |-> images[work.image].fs, gpt |-> table]
<1>1. /\ StoreTyped /\ WorkNamed /\ DiskAside
      /\ Partitionable(table) /\ work.step = "boot part" /\ work' = [work EXCEPT !.step = "boot esp"]
      /\ images' = [images EXCEPT ![work.image].gpt = table]
      /\ loops' = loops \ {work.image}
      /\ UNCHANGED <<systems, mappers, nextMapper, orderly, leftLoops>>
    BY DEF StoreInv, BootPartitions, WorkGoes, Ledgers
<1>2. /\ work.name \in SystemNames /\ work.image # 0 /\ systems[work.name].image = work.image
      /\ systems[work.name].meta = NoMeta /\ systems[work.name].by = "boot"
      /\ \A n \in SystemNames : systems[n].image = work.image => n = work.name
    BY <1>1 DEF WorkNamed, DiskAside, BootSteps, PlannedSteps
<1>3. /\ work.image \in 1 .. Len(images) /\ images[work.image] \in ImageSet
      /\ work.size \in Nat /\ work.request \in Nat
    <2>1. work.image \in 0 .. Len(images) /\ Len(images) \in Nat /\ images \in Seq(ImageSet)
          /\ work.size \in Nat /\ work.request \in Nat
        BY <1>1, Fields
    <2>2. QED BY <1>2, <2>1
<1>4. im \in ImageSet /\ images' = [images EXCEPT ![work.image] = im]
    <2>1. table \in ([first : Int, last : Int]) \X ([first : Int, last : Int])
        <3>1. /\ table[1].first \in Int /\ table[1].last \in Int
              /\ table[2].first \in Int /\ table[2].last \in Int
            BY <1>3, Sectors
        <3>2. table = <<[first |-> table[1].first, last |-> table[1].last],
                        [first |-> table[2].first, last |-> table[2].last]>>
            BY DEF Assembled
        <3> HIDE DEF table
        <3>3. QED BY <3>1, <3>2
    <2> HIDE DEF table
    <2>2. im \in ImageSet
        BY <1>3, <2>1 DEF ImageSet
    <2>3. images[work.image] = [luks |-> images[work.image].luks, file |-> images[work.image].file,
                                fs |-> images[work.image].fs, gpt |-> images[work.image].gpt]
        BY <1>3 DEF ImageSet
    <2>4. [images[work.image] EXCEPT !.gpt = table] = im
        BY <2>3
    <2>5. images' = [images EXCEPT ![work.image] = [images[work.image] EXCEPT !.gpt = table]]
        BY <1>1
    <2>6. QED BY <2>2, <2>4, <2>5
<1>5. im.gpt = table /\ (images[work.image].fs > 0 => im.fs > 0)
    OBVIOUS
<1> HIDE DEF im
<1>6. \A n \in SystemNames : systems[n].image = work.image => systems[n].meta.plan = <<>>
    BY <1>2 DEF NoMeta
<1>7. /\ MadeWhole' /\ PlanKept'
      /\ images' \in Seq(ImageSet) /\ Len(images') = Len(images) /\ images'[work.image] = im
    BY <1>1, <1>3, <1>4, <1>5, <1>6, UpdateKeeps
<1>8. work'.step = "boot esp" /\ work'.name = work.name /\ work'.size = work.size
      /\ work'.request = work.request /\ work'.image = work.image
    BY <1>1, StepGoes
<1>9. StoreTyped'
    <2>1. "boot esp" \in CommandSteps
        BY DEF CommandSteps, BootSteps, PlannedSteps
    <2>2. mappers' \subseteq [id : Nat, image : Nat] /\ nextMapper' \in Nat \ {0}
        BY <1>1 DEF StoreTyped
    <2>3. QED BY <1>1, <1>7, <2>1, <2>2, StepTyped
<1>10. WorkNamed' /\ MadeAside'
    BY <1>1, <1>8 DEF WorkNamed, MadeAside, NewSteps, MakingSteps, BootSteps, PlannedSteps,
                      SizedSteps, CryptSteps
<1>11. DiskAside'
    <2>1. images'[work'.image].gpt = table /\ Partitionable(table)
        BY <1>1, <1>5, <1>7, <1>8
    <2>2. table = Assembled(work'.size, PartitionPlan(work'.size, work'.request))
        BY <1>8
    <2> HIDE DEF table
    <2>3. /\ work'.image # 0 /\ systems'[work'.name].image = work'.image
          /\ systems'[work'.name].meta = NoMeta /\ systems'[work'.name].by = "boot"
          /\ \A n \in SystemNames : systems'[n].image = work'.image => n = work'.name
        BY <1>1, <1>2, <1>8
    <2>4. QED BY <2>1, <2>2, <2>3 DEF DiskAside
<1>12. LoopsOwned'
    <2>1. orderly' => loops' \subseteq LoopImages'
        BY <1>1, LoopsGivenBack DEF CryptSteps
    <2>2. QED BY <1>8, <2>1 DEF LoopsOwned
<1>13. QED BY <1>7, <1>9, <1>10, <1>11, <1>12 DEF StoreInv

\* The finally block gives the second loop device back.
LEMMA EspInstalledKeeps ==
    ASSUME StoreInv, EspInstalled
    PROVE  StoreInv'
<1>1. /\ StoreTyped /\ UNCHANGED <<systems, images, mappers, nextMapper, orderly, leftLoops>>
      /\ work' = [work EXCEPT !.step = "boot meta"] /\ loops' = loops \ {work.image}
      /\ work.step = "boot install"
    BY DEF StoreInv, EspInstalled, WorkGoes, Ledgers
<1>2. work.step \in BootSteps /\ "boot meta" \in BootSteps /\ work.step \in PlannedSteps
    BY <1>1 DEF BootSteps, PlannedSteps
<1>3. work'.step = "boot meta"
    BY <1>1, StepGoes
<1>4. LoopsOwned'
    <2>1. orderly' => loops' \subseteq LoopImages'
        BY <1>1, LoopsGivenBack DEF CryptSteps
    <2>2. QED BY <1>3, <2>1 DEF LoopsOwned
<1>5. QED BY <1>1, <1>2, <1>4, BootGoes

(* The command ends with a directory that changed. *)
LEMMA DirEnds ==
    ASSUME StoreInv, UNCHANGED <<images, mappers, nextMapper, orderly, leftLoops>>, work' = NoWork,
           NEW n \in SystemNames, NEW d \in SystemSet(Len(images)), systems' = [systems EXCEPT ![n] = d],
           d.here /\ d.by = "new" => d.meta.name # NoSystem /\ d.image # 0 /\ images[d.image].fs > 0,
           d.meta.plan # <<>> /\ d.image # 0 => IsPlanned(images[d.image].gpt, d.meta.plan),
           orderly => loops' \subseteq LoopImages
    PROVE  StoreInv'
<1>1. StoreTyped /\ images' = images
    BY DEF StoreInv
<1>2. /\ systems' \in [SystemNames -> SystemSet(Len(images'))]
      /\ systems'[n] = d /\ \A m \in SystemNames : m # n => systems'[m] = systems[m]
    BY <1>1, DirTyped
<1>3. StoreTyped'
    <2>1. /\ images' \in Seq(ImageSet) /\ nextMapper' \in Nat \ {0}
          /\ mappers' \subseteq [id : Nat, image : Nat]
        BY <1>1 DEF StoreTyped
    <2>2. QED BY <1>1, <1>2, <2>1, DoneTyped
<1>4. MadeWhole' /\ PlanKept'
    <2>1. /\ d.here /\ d.by = "new" => d.meta.name # NoSystem /\ d.image # 0 /\ images'[d.image].fs > 0
          /\ d.meta.plan # <<>> /\ d.image # 0 => IsPlanned(images'[d.image].gpt, d.meta.plan)
          /\ \A i \in 1 .. Len(images) : images'[i] = images[i]
        BY <1>1
    <2>2. QED BY <1>2, <2>1, DirKeeps
<1>5. LoopsOwned'
    <2>1. LoopImages' = LoopImages
        BY DEF LoopImages
    <2>2. QED BY <2>1, WorkIsDone DEF LoopsOwned
<1>6. QED BY <1>3, <1>4, <1>5, WorkIsDone DEF StoreInv

\* The plan goes into the metadata when the image has the partitions of that plan.
LEMMA BootEndsKeeps ==
    ASSUME StoreInv, BootEnds
    PROVE  StoreInv'
<1> DEFINE n == work.name
           plan == PartitionPlan(work.size, work.request)
           new == [Named(n, "disk") EXCEPT !.plan = plan]
           d == [systems[n] EXCEPT !.meta = new]
<1>1. /\ StoreTyped /\ WorkNamed /\ DiskAside /\ work.step \in {"boot esp", "boot meta"}
      /\ UNCHANGED <<images, mappers, loops, nextMapper, orderly, leftLoops>> /\ work' = NoWork
    BY DEF StoreInv, BootEnds, Kernel, Ledgers
<1>2. systems' = [systems EXCEPT ![n] = d]
    BY DEF BootEnds
<1>3. /\ work.image # 0 /\ systems[n].image = work.image /\ systems[n].by = "boot"
      /\ Partitionable(images[work.image].gpt)
      /\ images[work.image].gpt = Assembled(work.size, plan)
    BY <1>1 DEF DiskAside, BootSteps, PlannedSteps
<1>4. n \in SystemNames /\ systems[n] \in SystemSet(Len(images))
    BY <1>1 DEF WorkNamed, StoreTyped
<1>5. work.size \in Nat /\ work.request \in Nat
    BY <1>1, Fields
<1>6. plan \in Int \X Int
    <2>1. Align \in Nat /\ MinRoot \in Nat
        BY ImagesAssumption
    <2>2. QED BY <1>5, <2>1 DEF PartitionPlan
<1> HIDE DEF plan
<1>7. new \in MetaSet /\ new.plan = plan
    <2>1. Named(n, "disk") \in MetaSet
        BY <1>4, MetaOfNew
    <2>2. QED BY <1>6, <2>1 DEF MetaSet
<1> HIDE DEF new
<1>8. d \in SystemSet(Len(images)) /\ d.meta = new /\ d.by = systems[n].by /\ d.image = systems[n].image
    BY <1>4, <1>7 DEF SystemSet
<1> HIDE DEF d
<1>9. d.by # "new" /\ d.image # 0 /\ images[d.image].gpt = images[work.image].gpt
    BY <1>3, <1>8
<1>10. IsPlanned(images[d.image].gpt, d.meta.plan)
    BY <1>3, <1>5, <1>7, <1>8, <1>9 DEF IsPlanned, plan
<1>11. orderly => loops' \subseteq LoopImages
    BY <1>1, NothingPending DEF CryptSteps
<1>12. QED BY <1>1, <1>2, <1>4, <1>8, <1>9, <1>10, <1>11, DirEnds

\* A directory that went away says nothing.
LEMMA NoDirIsEmpty ==
    ASSUME StoreTyped
    PROVE  /\ NoSystemDir \in SystemSet(Len(images))
           /\ ~NoSystemDir.here /\ NoSystemDir.meta.plan = <<>>
<1>1. 0 \in 0 .. Len(images)
    BY Fields
<1>2. NoMeta \in MetaSet /\ NoMeta.plan = <<>>
    BY DEF NoMeta, MetaSet
<1>3. QED BY <1>1, <1>2 DEF NoSystemDir, SystemSet

\* The handler of build_bootdisk gives back the directory and the loop device.
LEMMA BootFailsKeeps ==
    ASSUME StoreInv, BootFails
    PROVE  StoreInv'
<1>1. /\ StoreTyped /\ WorkNamed /\ work.step \in BootSteps
      /\ UNCHANGED <<images, mappers, nextMapper, orderly, leftLoops>> /\ work' = NoWork
      /\ systems' = [systems EXCEPT ![work.name] = NoSystemDir] /\ loops' = loops \ {work.image}
    BY DEF StoreInv, BootFails, Ledgers, BootSteps, PlannedSteps
<1>2. work.name \in SystemNames /\ work.step \notin CryptSteps
    BY <1>1 DEF WorkNamed, BootSteps, PlannedSteps, CryptSteps
<1>3. orderly => loops' \subseteq LoopImages
    <2>1. LoopImages' = LoopImages
        BY <1>1 DEF LoopImages
    <2>2. QED BY <1>1, <1>2, <2>1, LoopsGivenBack
<1>4. QED BY <1>1, <1>2, <1>3, NoDirIsEmpty, DirEnds

-----------------------------------------------------------------------------
(* do_delete, do_clone and do_rename *)

\* do_delete has no loop device, and what it takes from a directory makes it nobody's.
LEMMA RemovesKeeps ==
    ASSUME StoreInv, Removes
    PROVE  StoreInv'
<1> DEFINE n == work.name
           d == systems[n]
           less == {[d EXCEPT !.meta = NoMeta], [d EXCEPT !.image = 0]} \ {d}
<1>1. /\ StoreTyped /\ WorkNamed /\ PlanKept /\ work.step = "delete"
      /\ UNCHANGED <<images, mappers, loops, nextMapper, orderly, leftLoops>>
    BY DEF StoreInv, Removes, Kernel, Ledgers
<1>2. n \in SystemNames /\ d \in SystemSet(Len(images)) /\ Len(images') = Len(images)
    BY <1>1 DEF WorkNamed, StoreTyped
<1>3. work.step \notin {"boot part", "boot install"} \cup CryptSteps
    BY <1>1 DEF CryptSteps
<1>4. CASE less = {}
    <2>1. systems' = [systems EXCEPT ![n] = NoSystemDir] /\ work' = NoWork
        BY <1>4 DEF Removes
    <2>2. orderly => loops' \subseteq LoopImages
        BY <1>1, <1>3, NothingPending
    <2>3. QED BY <1>1, <1>2, <2>1, <2>2, NoDirIsEmpty, DirEnds
<1>5. CASE less # {}
    <2>1. PICK e \in less :
              systems' = [systems EXCEPT ![n] = [e EXCEPT !.by = "torn"]] /\ work' = work
        BY <1>5 DEF Removes
    <2> DEFINE t == [e EXCEPT !.by = "torn"]
    <2>2. NoMeta \in MetaSet /\ NoMeta.plan = <<>> /\ 0 \in 0 .. Len(images)
        BY <1>1, Fields DEF NoMeta, MetaSet
    <2>3. e \in SystemSet(Len(images)) /\ (e.meta = d.meta \/ e.meta = NoMeta)
          /\ (e.image = d.image \/ e.image = 0)
        BY <1>2, <2>2 DEF SystemSet
    <2>4. /\ t \in SystemSet(Len(images)) /\ t.by = "torn"
          /\ (t.meta = d.meta \/ t.meta = NoMeta) /\ (t.image = d.image \/ t.image = 0)
        BY <2>3 DEF SystemSet
    <2>11. systems' = [systems EXCEPT ![n] = t]
        BY <2>1
    <2> HIDE DEF t
    <2>5. /\ systems' \in [SystemNames -> SystemSet(Len(images'))]
          /\ systems'[n] = t /\ \A m \in SystemNames : m # n => systems'[m] = systems[m]
        BY <1>1, <1>2, <2>4, <2>11, DirTyped
    <2>6. t.meta.plan # <<>> /\ t.image # 0 => IsPlanned(images'[t.image].gpt, t.meta.plan)
        BY <1>1, <1>2, <2>2, <2>4 DEF PlanKept
    <2>7. MadeWhole' /\ PlanKept'
        BY <1>1, <1>2, <2>4, <2>5, <2>6, DirKeeps
    <2>8. StoreTyped'
        BY <1>1, <2>1, <2>5 DEF StoreTyped
    <2>9. WorkNamed' /\ MadeAside' /\ DiskAside'
        BY <1>1, <1>2, <2>1 DEF WorkNamed, MadeAside, DiskAside, NewSteps, MakingSteps, BootSteps,
                                PlannedSteps, SizedSteps, CryptSteps
    <2>10. LoopsOwned'
        BY <1>1, <1>3, <2>1, LoopsStayOwned
    <2>12. QED BY <2>7, <2>8, <2>9, <2>10 DEF StoreInv
<1>6. QED BY <1>4, <1>5

\* No image is a number of every store.
LEMMA ZeroStarts == \A k \in Nat : 0 \in 0 .. k
    OBVIOUS

(* The metadata waits for its name. *)
LEMMA NameWaits ==
    ASSUME NEW n \in SystemNames, Len(images') \in Nat,
           work' = [step |-> "name meta", name |-> n, kind |-> "none", size |-> 0, request |-> 0,
                   image |-> 0, encrypt |-> FALSE]
    PROVE  /\ work'.step = "name meta" /\ work' \in WorkSet(Len(images'))
           /\ WorkNamed' /\ MadeAside' /\ DiskAside'
<1>2. work'.step = "name meta" /\ work'.name = n
    OBVIOUS
<1>1. "name meta" \in CommandSteps
    BY DEF CommandSteps, PlainSteps
<1>3. "name meta" \in CommandSteps /\ 0 \in 0 .. Len(images')
    BY <1>1, ZeroStarts
<1>4. work' \in WorkSet(Len(images'))
    BY <1>3 DEF WorkSet
<1>5. WorkNamed' /\ MadeAside' /\ DiskAside'
    BY <1>2 DEF WorkNamed, MadeAside, DiskAside, NewSteps, MakingSteps, BootSteps,
           PlannedSteps, SizedSteps, CryptSteps
<1>6. QED BY <1>2, <1>4, <1>5

\* A clone has the image and the plan of its original, and is not do_new's.
LEMMA CloneKeeps ==
    ASSUME StoreInv, NEW a \in SystemNames, NEW b \in SystemNames, CloneBegins(a, b)
    PROVE  StoreInv'
<1> DEFINE im == images[systems[a].image]
           k == Len(images')
           d == [here |-> TRUE, meta |-> systems[a].meta, image |-> k, by |-> "clone"]
<1>1. /\ StoreTyped /\ PlanKept /\ work.step = "idle"
      /\ UNCHANGED <<mappers, loops, nextMapper, orderly, leftLoops>>
      /\ systems[a].image # 0 /\ images' = Append(images, im)
      /\ systems' = [systems EXCEPT ![b] = d]
    BY DEF StoreInv, CloneBegins, Kernel, Ledgers
<1>20. work' = [step |-> "name meta", name |-> b, kind |-> "none", size |-> 0, request |-> 0,
              image |-> 0, encrypt |-> FALSE]
    BY DEF CloneBegins, NoWork
<1>2. systems[a].image \in 1 .. Len(images) /\ im \in ImageSet
    <2>1. systems[a].image \in 0 .. Len(images) /\ Len(images) \in Nat /\ images \in Seq(ImageSet)
        BY <1>1, Fields
    <2>2. systems[a].image \in 1 .. Len(images)
        BY <1>1, <2>1
    <2>3. QED BY <2>1, <2>2
<1>3. systems[a] \in SystemSet(Len(images))
    BY <1>1 DEF StoreTyped
<1> HIDE DEF im
<1>4. /\ images' \in Seq(ImageSet) /\ k = Len(images) + 1 /\ Len(images) \in Nat
      /\ images'[k] = im /\ \A i \in 1 .. Len(images) : images'[i] = images[i]
    BY <1>1, <1>2, Appended
<1>5. k \in 0 .. k /\ k # 0 /\ k \in {Len(images), Len(images) + 1} /\ k \in Nat
    BY <1>4
<1> HIDE DEF k
<1>6. d.meta = systems[a].meta /\ d.image = k /\ d.by = "clone"
    OBVIOUS
<1>7. d \in SystemSet(k)
    <2>1. systems[a].meta \in MetaSet
        BY <1>3 DEF SystemSet
    <2>2. QED BY <1>5, <2>1 DEF SystemSet
<1> HIDE DEF d
<1>8. /\ systems' \in [SystemNames -> SystemSet(k)]
      /\ systems'[b] = d /\ \A m \in SystemNames : m # b => systems'[m] = systems[m]
    BY <1>1, <1>5, <1>7, DirTyped DEF k
<1>9. MadeWhole' /\ PlanKept'
    <2>1. d.by # "new"
        BY <1>6
    <2>2. d.meta.plan # <<>> /\ d.image # 0 => IsPlanned(images'[d.image].gpt, d.meta.plan)
        <3> SUFFICES ASSUME d.meta.plan # <<>>
                     PROVE  IsPlanned(images'[d.image].gpt, d.meta.plan)
            OBVIOUS
        <3>1. IsPlanned(im.gpt, systems[a].meta.plan)
            BY <1>1, <1>6 DEF PlanKept, im
        <3>2. images'[d.image] = im /\ d.meta.plan = systems[a].meta.plan
            BY <1>4, <1>6
        <3>3. QED BY <1>5, <1>6, <3>1, <3>2
    <2>3. QED BY <1>4, <1>8, <2>1, <2>2, DirKeeps
<1>10. /\ work'.step = "name meta" /\ work' \in WorkSet(k) /\ WorkNamed' /\ MadeAside' /\ DiskAside'
    BY <1>5, <1>20, NameWaits DEF k
<1>11. StoreTyped'
    <2>1. mappers' \subseteq [id : Nat, image : Nat] /\ nextMapper' \in Nat \ {0}
        BY <1>1 DEF StoreTyped
    <2>2. QED BY <1>1, <1>4, <1>5, <1>8, <1>10, <2>1, TypedAgain DEF k
<1>12. LoopsOwned'
    BY <1>1, <1>10, LoopsStayOwned DEF CryptSteps
<1>13. QED BY <1>9, <1>10, <1>11, <1>12 DEF StoreInv

\* A renamed directory is the old one.
LEMMA RenameKeeps ==
    ASSUME StoreInv, NEW a \in SystemNames, NEW b \in SystemNames, RenameBegins(a, b)
    PROVE  StoreInv'
<1>1. /\ StoreTyped /\ PlanKept /\ MadeWhole /\ work.step = "idle"
      /\ UNCHANGED <<images, mappers, loops, nextMapper, orderly, leftLoops>>
      /\ systems' = [systems EXCEPT ![b] = systems[a], ![a] = NoSystemDir]
    BY DEF StoreInv, RenameBegins, Kernel, Ledgers
<1>20. work' = [step |-> "name meta", name |-> b, kind |-> "none", size |-> 0, request |-> 0,
              image |-> 0, encrypt |-> FALSE]
    BY DEF RenameBegins, NoWork
<1>2. \A m \in SystemNames : systems'[m] \in {systems[a], NoSystemDir, systems[m]}
    BY <1>1 DEF StoreTyped
<1>3. /\ NoSystemDir \in SystemSet(Len(images)) /\ ~NoSystemDir.here /\ NoSystemDir.meta.plan = <<>>
    BY <1>1, NoDirIsEmpty
<1>4. systems' \in [SystemNames -> SystemSet(Len(images))]
    BY <1>1, <1>3 DEF StoreTyped
<1>5. MadeWhole'
    BY <1>1, <1>2, <1>3 DEF MadeWhole
<1>6. PlanKept'
    BY <1>1, <1>2, <1>3 DEF PlanKept
<1>7. Len(images') \in Nat /\ Len(images') = Len(images)
    BY <1>1, Fields
<1>8. /\ work'.step = "name meta" /\ work' \in WorkSet(Len(images'))
      /\ WorkNamed' /\ MadeAside' /\ DiskAside'
    BY <1>7, <1>20, NameWaits
<1>9. StoreTyped'
    BY <1>1, <1>4, <1>7, <1>8 DEF StoreTyped
<1>10. LoopsOwned'
    BY <1>1, <1>8, LoopsStayOwned DEF CryptSteps
<1>11. QED BY <1>5, <1>6, <1>8, <1>9, <1>10 DEF StoreInv

(* The metadata of the command's system changes, and not its plan nor, if it has one, that *)
(* it has a name.                                                                          *)
LEMMA MetaEnds ==
    ASSUME StoreInv, UNCHANGED <<images, mappers, nextMapper, orderly, leftLoops>>, work' = NoWork,
           NEW n \in SystemNames, NEW new \in MetaSet, systems' = [systems EXCEPT ![n].meta = new],
           new.plan = systems[n].meta.plan,
           systems[n].meta.name # NoSystem => new.name # NoSystem,
           orderly => loops' \subseteq LoopImages
    PROVE  StoreInv'
<1> DEFINE d == [systems[n] EXCEPT !.meta = new]
<1>1. StoreTyped /\ MadeWhole /\ PlanKept /\ systems[n] \in SystemSet(Len(images))
    BY DEF StoreInv, StoreTyped
<1>2. systems' = [systems EXCEPT ![n] = d]
    OBVIOUS
<1>3. /\ d \in SystemSet(Len(images)) /\ d.meta = new /\ d.here = systems[n].here
      /\ d.by = systems[n].by /\ d.image = systems[n].image
    BY <1>1 DEF SystemSet
<1> HIDE DEF d
<1>4. d.here /\ d.by = "new" => d.meta.name # NoSystem /\ d.image # 0 /\ images[d.image].fs > 0
    BY <1>1, <1>3 DEF MadeWhole
<1>5. d.meta.plan # <<>> /\ d.image # 0 => IsPlanned(images[d.image].gpt, d.meta.plan)
    BY <1>1, <1>3 DEF PlanKept
<1>6. QED BY <1>2, <1>3, <1>4, <1>5, DirEnds

\* A directory without metadata gets no name.
LEMMA NameSavedKeeps ==
    ASSUME StoreInv, NameSaved
    PROVE  StoreInv'
<1>1. /\ StoreTyped /\ WorkNamed /\ work.step = "name meta" /\ work' = NoWork
      /\ UNCHANGED <<images, mappers, loops, nextMapper, orderly, leftLoops>>
    BY DEF StoreInv, NameSaved, WorkGoes, Kernel, Ledgers
<1>2. orderly => loops' \subseteq LoopImages
    BY <1>1, NothingPending DEF CryptSteps
<1>3. CASE systems[work.name].meta = NoMeta
    <2>1. systems' = systems
        BY <1>3 DEF NameSaved
    <2>2. LoopImages' = LoopImages
        BY <1>1 DEF LoopImages
    <2>3. QED BY <1>1, <1>2, <2>1, <2>2, CommandEnds
<1>4. CASE systems[work.name].meta # NoMeta
    <2> DEFINE n == work.name
               new == [systems[n].meta EXCEPT !.name = n]
    <2>1. n \in SystemNames /\ systems[n].meta \in MetaSet
        BY <1>1, Fields DEF WorkNamed
    <2>2. systems' = [systems EXCEPT ![n].meta = new]
        BY <1>4 DEF NameSaved
    <2>3. new \in MetaSet /\ new.plan = systems[n].meta.plan /\ new.name = n
        BY <2>1 DEF MetaSet
    <2>4. n # NoSystem
        BY <2>1, ImagesAssumption
    <2> HIDE DEF new
    <2>5. QED BY <1>1, <1>2, <2>1, <2>2, <2>3, <2>4, MetaEnds
<1>5. QED BY <1>3, <1>4

-----------------------------------------------------------------------------
(* do_resize *)

\* do_resize begins with the size that was read.
LEMMA ResizeBeginsKeeps ==
    ASSUME StoreInv, NEW n \in SystemNames, NEW s \in ImageSizes, ResizeBegins(n, s)
    PROVE  StoreInv'
<1> DEFINE i == systems[n].image
           step == IF SizeToBytes(s) > images[i].file THEN "resize grow" ELSE "resize shrink"
           request == IF s.unit = "GiB" THEN 0 ELSE ToolBytes(s)
<1>1. /\ StoreTyped /\ work.step = "idle" /\ i # 0
      /\ UNCHANGED <<systems, images, mappers, loops, nextMapper, orderly, leftLoops>>
    BY DEF StoreInv, ResizeBegins, Resizable, Kernel, Ledgers
<1>2. work' = [step |-> step, name |-> n, kind |-> "none", size |-> SizeToBytes(s),
               request |-> request, image |-> i, encrypt |-> FALSE]
    BY DEF ResizeBegins, NoWork
<1>3. i \in 0 .. Len(images)
    BY <1>1, Fields
<1>4. SizeToBytes(s) \in Nat /\ SizeToBytes(s) > 0 /\ request \in Nat
    BY SizesArePositive
<1>5. step \in SizedSteps /\ step # "new make" /\ step \in {"new make"} \cup SizedSteps \cup PlainSteps
    BY DEF SizedSteps
<1>6. work.step \notin {"boot part", "boot install"} \cup CryptSteps
    BY <1>1 DEF CryptSteps
<1> HIDE DEF step, request, i
<1>7. QED BY <1>1, <1>2, <1>3, <1>4, <1>5, <1>6, CommandGoes

(* The image of the command changes, and the command goes on. *)
LEMMA ImageGoes ==
    ASSUME StoreInv, work.step \in SizedSteps,
           UNCHANGED <<systems, mappers, loops, nextMapper, orderly, leftLoops>>,
           NEW im \in ImageSet, images' = [images EXCEPT ![work.image] = im],
           im.gpt = images[work.image].gpt, images[work.image].fs > 0 => im.fs > 0,
           \/ work' = NoWork
           \/ \E step \in SizedSteps : work' = [work EXCEPT !.step = step]
    PROVE  StoreInv'
<1>1. StoreTyped /\ WorkNamed
    BY DEF StoreInv
<1>2. work.image \in 1 .. Len(images)
    <2>1. work.image # 0
        BY <1>1 DEF WorkNamed
    <2>2. work.image \in 0 .. Len(images) /\ Len(images) \in Nat
        BY <1>1, Fields
    <2>3. QED BY <2>1, <2>2
<1>3. /\ MadeWhole' /\ PlanKept' /\ images' \in Seq(ImageSet) /\ Len(images') = Len(images)
    BY <1>2, UpdateKeeps
<1>4. mappers' \subseteq [id : Nat, image : Nat] /\ nextMapper' \in Nat \ {0}
    BY <1>1 DEF StoreTyped
<1>5. work.step \notin {"boot part", "boot install"} \cup CryptSteps
    BY DEF SizedSteps, CryptSteps
<1>6. CASE work' = NoWork
    <2>1. StoreTyped'
        BY <1>1, <1>3, <1>4, <1>6, DoneTyped
    <2>2. LoopsOwned'
        BY <1>5, <1>6, WorkIsDone, LoopsStayOwned DEF CryptSteps
    <2>3. QED BY <1>3, <1>6, <2>1, <2>2, WorkIsDone DEF StoreInv
<1>7. ASSUME NEW step \in SizedSteps, work' = [work EXCEPT !.step = step] PROVE StoreInv'
    <2>1. work'.step = step /\ work'.name = work.name /\ work'.size = work.size
          /\ work'.image = work.image
        BY <1>1, <1>7, StepGoes
    <2>2. StoreTyped'
        <3>1. step \in CommandSteps
            BY DEF CommandSteps
        <3>2. QED BY <1>1, <1>3, <1>4, <1>7, <3>1, StepTyped
    <2>3. /\ step \notin NewSteps /\ step \notin BootSteps /\ step \notin CryptSteps
          /\ step \notin MakingSteps /\ step \notin PlannedSteps
          /\ step \notin {"boot part", "boot install"} \cup CryptSteps /\ work.step # "idle"
        BY DEF SizedSteps, NewSteps, MakingSteps, BootSteps, PlannedSteps, CryptSteps
    <2>4. WorkNamed' /\ MadeAside' /\ DiskAside'
        BY <1>1, <2>1, <2>3 DEF WorkNamed, MadeAside, DiskAside
    <2>5. LoopsOwned'
        BY <1>5, <2>1, <2>3, LoopsStayOwned
    <2>6. QED BY <1>3, <2>2, <2>4, <2>5 DEF StoreInv
<1>8. QED BY <1>6, <1>7

\* truncate and resize2fs keep the partitions, and a filesystem stays one.
LEMMA ResizesKeep ==
    ASSUME StoreInv, ResizeTruncates \/ ResizeFills \/ ResizeShrinks
    PROVE  StoreInv'
<1> DEFINE old == images[work.image]
<1>1. /\ StoreTyped /\ WorkNamed /\ work.step \in SizedSteps
      /\ UNCHANGED <<systems, mappers, loops, nextMapper, orderly, leftLoops>>
      /\ \/ work' = NoWork
         \/ work' = [work EXCEPT !.step = "resize fill"]
         \/ work' = [work EXCEPT !.step = "resize cut"]
    BY DEF StoreInv, ResizeTruncates, ResizeFills, ResizeShrinks, WorkGoes, Kernel, Ledgers, SizedSteps
<1>2. \/ work' = NoWork
      \/ \E step \in SizedSteps : work' = [work EXCEPT !.step = step]
    <2>1. "resize fill" \in SizedSteps /\ "resize cut" \in SizedSteps
        BY DEF SizedSteps
    <2>2. QED BY <1>1, <2>1
<1>3. work.size \in Nat /\ work.size > 0 /\ work.request \in Nat /\ old \in ImageSet
    <2>1. work.size > 0 /\ work.image # 0
        BY <1>1 DEF WorkNamed
    <2>2. work.image \in 0 .. Len(images) /\ Len(images) \in Nat /\ images \in Seq(ImageSet)
          /\ work.size \in Nat /\ work.request \in Nat
        BY <1>1, Fields
    <2>3. QED BY <2>1, <2>2
<1>4. old.file \in Nat \ {0} /\ old.fs \in Nat
    BY <1>3 DEF ImageSet
<1>5. CASE ResizeTruncates
    <2> DEFINE im == [old EXCEPT !.file = work.size]
    <2>1. images' = [images EXCEPT ![work.image] = im]
        BY <1>5 DEF ResizeTruncates
    <2>2. im \in ImageSet /\ im.gpt = old.gpt /\ im.fs = old.fs
        BY <1>3 DEF ImageSet
    <2> HIDE DEF im
    <2>3. QED BY <1>1, <1>2, <2>1, <2>2, ImageGoes
<1>6. CASE ResizeFills
    <2> DEFINE im == [old EXCEPT !.fs = old.file]
    <2>1. images' = [images EXCEPT ![work.image] = im]
        BY <1>6 DEF ResizeFills
    <2>2. im \in ImageSet /\ im.gpt = old.gpt /\ im.fs > 0
        BY <1>3, <1>4 DEF ImageSet
    <2> HIDE DEF im
    <2>3. QED BY <1>1, <1>2, <2>1, <2>2, ImageGoes
<1>7. CASE ResizeShrinks
    <2> DEFINE im == [old EXCEPT !.fs = work.request]
    <2>1. images' = [images EXCEPT ![work.image] = im] /\ work.request # 0
        BY <1>7 DEF ResizeShrinks
    <2>2. im \in ImageSet /\ im.gpt = old.gpt /\ im.fs > 0
        BY <1>3, <2>1 DEF ImageSet
    <2> HIDE DEF im
    <2>3. QED BY <1>1, <1>2, <2>1, <2>2, ImageGoes
<1>8. QED BY <1>5, <1>6, <1>7

-----------------------------------------------------------------------------
(* do_encrypt, do_unlock and do_lock *)

\* do_encrypt, do_lock and do_delete begin without a loop device.
LEMMA BeginsKeeps ==
    ASSUME StoreInv, NEW n \in SystemNames, EncryptBegins(n) \/ LockBegins(n) \/ DeleteBegins(n)
    PROVE  StoreInv'
<1> DEFINE step == IF EncryptBegins(n) THEN "encrypt check"
                   ELSE IF LockBegins(n) THEN "lock close" ELSE "delete"
<1>1. /\ StoreTyped /\ work.step = "idle"
      /\ UNCHANGED <<systems, images, mappers, loops, nextMapper, orderly, leftLoops>>
    BY DEF StoreInv, EncryptBegins, LockBegins, DeleteBegins, Begins, Kernel, Ledgers
<1>2. work' = [step |-> step, name |-> n, kind |-> "none", size |-> 0, request |-> 0,
               image |-> 0, encrypt |-> FALSE]
    BY DEF EncryptBegins, LockBegins, DeleteBegins, Begins, NoWork
<1>3. /\ step \in {"new make"} \cup SizedSteps \cup PlainSteps /\ step # "new make"
      /\ step \notin SizedSteps /\ work.step \notin {"boot part", "boot install"} \cup CryptSteps
    BY <1>1 DEF SizedSteps, PlainSteps, CryptSteps
<1>4. 0 \in 0 .. Len(images) /\ 0 \in Nat
    BY <1>1, Fields
<1> HIDE DEF step
<1>5. QED BY <1>1, <1>2, <1>3, <1>4, CommandGoes

\* do_umount ends, or goes on to lock.
LEMMA UmountsKeeps ==
    ASSUME StoreInv, NEW n \in SystemNames, Umounts(n)
    PROVE  StoreInv'
<1>1. /\ StoreTyped /\ work.step = "idle"
      /\ UNCHANGED <<systems, images, mappers, loops, nextMapper, orderly, leftLoops>>
    BY DEF StoreInv, Umounts, Ledgers
<1>2. work.step \notin {"boot part", "boot install"} \cup CryptSteps
    BY <1>1 DEF CryptSteps
<1>3. CASE work' = NoWork
    <2>1. LoopImages' = LoopImages
        BY <1>1 DEF LoopImages
    <2>2. orderly' => loops' \subseteq LoopImages'
        BY <1>1, <1>2, <2>1, NothingPending
    <2>3. QED BY <1>1, <1>3, <2>2, CommandEnds
<1>4. CASE work' # NoWork
    <2>1. work' = [step |-> "lock close", name |-> n, kind |-> "none", size |-> 0, request |-> 0,
                   image |-> 0, encrypt |-> FALSE]
        <3>1. work' = [NoWork EXCEPT !.step = "lock close", !.name = n]
            BY <1>4 DEF Umounts
        <3>2. QED BY <3>1 DEF NoWork
    <2>2. "lock close" \in {"new make"} \cup SizedSteps \cup PlainSteps /\ "lock close" \notin SizedSteps
        BY DEF SizedSteps, PlainSteps
    <2>3. 0 \in 0 .. Len(images) /\ 0 \in Nat
        BY <1>1, Fields
    <2>4. QED BY <1>1, <1>2, <2>1, <2>2, <2>3, CommandGoes
<1>5. QED BY <1>3, <1>4

(* A command that has a loop device, or takes one, goes to its next step. *)
LEMMA CryptGoes ==
    ASSUME StoreInv, UNCHANGED systems, images' \in Seq(ImageSet), Len(images') = Len(images),
           MadeWhole', PlanKept', mappers' \subseteq [id : Nat, image : Nat], nextMapper' \in Nat \ {0},
           NEW step \in CryptSteps, work' = [work EXCEPT !.step = step],
           work.name \in SystemNames, systems[work.name].image # 0,
           orderly' => /\ loops' \subseteq LoopImages' \cup {systems[work.name].image}
                       /\ step \in {"encrypt meta", "unlock meta"} =>
                              systems[work.name].image \in LoopImages'
    PROVE  StoreInv'
<1>1. StoreTyped
    BY DEF StoreInv
<1>2. /\ work'.step = step /\ work'.name = work.name
    BY <1>1, StepGoes
<1>3. StoreTyped'
    <2>1. step \in CommandSteps
        BY DEF CommandSteps
    <2>2. QED BY <1>1, <2>1, StepTyped
<1>4. /\ step \notin NewSteps /\ step \notin BootSteps /\ step \notin SizedSteps
      /\ step \notin MakingSteps /\ step \notin PlannedSteps
      /\ step \notin {"boot part", "boot install"}
    BY DEF SizedSteps, NewSteps, MakingSteps, BootSteps, PlannedSteps, CryptSteps
<1>5. WorkNamed' /\ MadeAside' /\ DiskAside'
    BY <1>2, <1>4 DEF WorkNamed, MadeAside, DiskAside
<1>6. Pending' = {systems[work.name].image}
    BY <1>2, <1>4 DEF Pending
<1>7. LoopsOwned'
    BY <1>2, <1>6 DEF LoopsOwned
<1>8. QED BY <1>3, <1>5, <1>7 DEF StoreInv

(* The system of a command that encrypts or unlocks, and whose loop device it is. *)
LEMMA CryptIsNamed ==
    ASSUME StoreInv, work.step \in CryptSteps
    PROVE  /\ work.name \in SystemNames
           /\ systems[work.name].image \in 1 .. Len(images) /\ systems[work.name].image # 0
           /\ images[systems[work.name].image] \in ImageSet
           /\ orderly => loops \subseteq LoopImages \cup {systems[work.name].image}
<1>1. StoreTyped /\ WorkNamed /\ LoopsOwned /\ work.step # "idle"
      /\ work.step \notin {"boot part", "boot install"}
    BY DEF StoreInv, CryptSteps
<1>2. work.name \in SystemNames /\ systems[work.name].image # 0
    BY <1>1 DEF WorkNamed
<1>3. systems[work.name].image \in 0 .. Len(images) /\ Len(images) \in Nat /\ images \in Seq(ImageSet)
    BY <1>1, <1>2, Fields
<1>4. systems[work.name].image \in 1 .. Len(images)
    BY <1>2, <1>3
<1>5. images[systems[work.name].image] \in ImageSet
    BY <1>3, <1>4
<1>6. Pending = {systems[work.name].image}
    BY <1>1 DEF Pending
<1>7. orderly => loops \subseteq LoopImages \cup {systems[work.name].image}
    BY <1>1, <1>6 DEF LoopsOwned
<1>8. QED BY <1>2, <1>4, <1>5, <1>7

\* The loop device of an image that is to be encrypted is the command's.
LEMMA EncryptLoopsKeeps ==
    ASSUME StoreInv, EncryptLoops
    PROVE  StoreInv'
<1>1. /\ StoreTyped /\ WorkNamed /\ MadeWhole /\ PlanKept /\ work.step = "encrypt check"
      /\ UNCHANGED <<systems, images, mappers, nextMapper, orderly, leftLoops>>
      /\ work' = [work EXCEPT !.step = "encrypt convert"]
      /\ loops' = loops \cup {systems[work.name].image} /\ systems[work.name].image # 0
    BY DEF StoreInv, EncryptLoops, Encryptable, WorkGoes, Ledgers
<1>2. work.name \in SystemNames /\ "encrypt convert" \in CryptSteps
      /\ work.step \notin {"boot part", "boot install"} \cup CryptSteps
    BY <1>1 DEF WorkNamed, CryptSteps
<1>3. images' \in Seq(ImageSet) /\ Len(images') = Len(images) /\ MadeWhole' /\ PlanKept'
    BY <1>1, Fields DEF MadeWhole, PlanKept
<1>4. mappers' \subseteq [id : Nat, image : Nat] /\ nextMapper' \in Nat \ {0}
    BY <1>1 DEF StoreTyped
<1>5. LoopImages' = LoopImages
    BY <1>1 DEF LoopImages
<1>6. orderly' => loops' \subseteq LoopImages' \cup {systems[work.name].image}
    BY <1>1, <1>2, <1>5, NothingPending
<1>7. QED BY <1>1, <1>2, <1>3, <1>4, <1>6, CryptGoes

\* So is that of an image that is to be unlocked.
LEMMA UnlockLoopsKeeps ==
    ASSUME StoreInv, NEW n \in SystemNames, UnlockLoops(n)
    PROVE  StoreInv'
<1>1. /\ StoreTyped /\ MadeWhole /\ PlanKept /\ work.step = "idle"
      /\ UNCHANGED <<systems, images, mappers, nextMapper, orderly, leftLoops>>
      /\ loops' = loops \cup {systems[n].image} /\ systems[n].image # 0
    BY DEF StoreInv, UnlockLoops, Begins, Ledgers
<1>2. work' = [step |-> "unlock open", name |-> n, kind |-> "none", size |-> 0, request |-> 0,
               image |-> 0, encrypt |-> FALSE]
    BY DEF UnlockLoops, Begins, NoWork
<1>3. work'.step = "unlock open" /\ work'.name = n
    BY <1>2
<1>4. work.step \notin {"boot part", "boot install"} \cup CryptSteps
    BY <1>1 DEF CryptSteps
<1>5. StoreTyped'
    <2>1. "unlock open" \in CommandSteps /\ 0 \in 0 .. Len(images')
        BY <1>1, Fields DEF CommandSteps, CryptSteps
    <2>2. work' \in WorkSet(Len(images'))
        BY <1>2, <2>1 DEF WorkSet
    <2>3. QED BY <1>1, <2>2 DEF StoreTyped
<1>6. WorkNamed' /\ MadeAside' /\ DiskAside'
    BY <1>1, <1>3 DEF WorkNamed, MadeAside, DiskAside, NewSteps, MakingSteps, BootSteps,
                      PlannedSteps, SizedSteps
<1>7. MadeWhole' /\ PlanKept'
    BY <1>1 DEF MadeWhole, PlanKept
<1>8. LoopsOwned'
    <2>1. LoopImages' = LoopImages
        BY <1>1 DEF LoopImages
    <2>2. Pending' = {systems[n].image}
        BY <1>1, <1>3 DEF Pending, CryptSteps
    <2>3. orderly' => loops' \subseteq LoopImages' \cup Pending'
        BY <1>1, <1>4, <2>1, <2>2, NothingPending
    <2>4. QED BY <1>3, <2>3 DEF LoopsOwned
<1>9. QED BY <1>5, <1>6, <1>7, <1>8 DEF StoreInv

\* Encryption changes neither the partitions nor the filesystem that is in it.
LEMMA EncryptConvertsKeeps ==
    ASSUME StoreInv, EncryptConverts
    PROVE  StoreInv'
<1> DEFINE i == systems[work.name].image
           im == [images[i] EXCEPT !.luks = TRUE]
<1>1. /\ StoreTyped /\ work.step = "encrypt convert"
      /\ UNCHANGED <<systems, mappers, loops, nextMapper, orderly, leftLoops>>
      /\ work' = [work EXCEPT !.step = "encrypt open"]
    BY DEF StoreInv, EncryptConverts, WorkGoes, Kernel, Ledgers
<1>2. images' = [images EXCEPT ![i] = im]
    BY DEF EncryptConverts
<1>3. work.step \in CryptSteps /\ "encrypt open" \in CryptSteps
    BY <1>1 DEF CryptSteps
<1>4. /\ work.name \in SystemNames /\ i \in 1 .. Len(images) /\ i # 0 /\ images[i] \in ImageSet
      /\ orderly => loops \subseteq LoopImages \cup {i}
    BY <1>3, CryptIsNamed
<1>5. im \in ImageSet /\ im.gpt = images[i].gpt /\ im.fs = images[i].fs
    BY <1>4 DEF ImageSet
<1> HIDE DEF im
<1>6. images' \in Seq(ImageSet) /\ Len(images') = Len(images) /\ MadeWhole' /\ PlanKept'
    BY <1>1, <1>2, <1>4, <1>5, UpdateKeeps
<1>7. mappers' \subseteq [id : Nat, image : Nat] /\ nextMapper' \in Nat \ {0}
    BY <1>1 DEF StoreTyped
<1>8. LoopImages' = LoopImages
    BY <1>1 DEF LoopImages
<1>9. QED BY <1>1, <1>3, <1>4, <1>6, <1>7, <1>8, CryptGoes

\* From here on the loop device is behind the mapper.
LEMMA MapperOpensKeeps ==
    ASSUME StoreInv, MapperOpens
    PROVE  StoreInv'
<1> DEFINE i == systems[work.name].image
           m == [id |-> nextMapper, image |-> i]
           step == IF work.step = "encrypt open" THEN "encrypt meta" ELSE "unlock meta"
<1>1. /\ StoreTyped /\ MadeWhole /\ PlanKept /\ work.step \in CryptSteps
      /\ UNCHANGED <<systems, images, loops, orderly, leftLoops>>
      /\ work' = [work EXCEPT !.step = step]
      /\ mappers' = mappers \cup {m} /\ nextMapper' = nextMapper + 1
    BY DEF StoreInv, MapperOpens, WorkGoes, CryptSteps
<1>2. step \in CryptSteps
    BY DEF CryptSteps
<1> HIDE DEF step
<1>3. /\ work.name \in SystemNames /\ i \in 1 .. Len(images) /\ i # 0
      /\ orderly => loops \subseteq LoopImages \cup {i}
    BY <1>1, CryptIsNamed
<1>4. images' \in Seq(ImageSet) /\ Len(images') = Len(images) /\ MadeWhole' /\ PlanKept'
    BY <1>1, Fields DEF MadeWhole, PlanKept
<1>5. mappers' \subseteq [id : Nat, image : Nat] /\ nextMapper' \in Nat \ {0}
    <2>1. nextMapper \in Nat \ {0} /\ mappers \subseteq [id : Nat, image : Nat]
        BY <1>1 DEF StoreTyped
    <2>2. i \in Nat
        BY <1>3
    <2>3. m \in [id : Nat, image : Nat]
        BY <2>1, <2>2
    <2>4. QED BY <1>1, <2>1, <2>3
<1>6. LoopImages' = LoopImages \cup {i}
    <2>1. m.image = i
        OBVIOUS
    <2> HIDE DEF m, i
    <2>2. QED BY <1>1, <2>1 DEF LoopImages
<1>7. QED BY <1>1, <1>2, <1>3, <1>4, <1>5, <1>6, CryptGoes

\* The command ends without giving the loop device back: the mapper has it.
LEMMA MapperSavedKeeps ==
    ASSUME StoreInv, MapperSaved
    PROVE  StoreInv'
<1> DEFINE n == work.name
           new == [systems[n].meta EXCEPT !.mapper = nextMapper - 1, !.encrypted = TRUE]
<1>1. /\ StoreTyped /\ LoopsOwned /\ work.step \in {"encrypt meta", "unlock meta"} /\ work' = NoWork
      /\ UNCHANGED <<images, mappers, loops, nextMapper, orderly, leftLoops>>
    BY DEF StoreInv, MapperSaved, WorkGoes, Kernel, Ledgers
<1>2. work.step \in CryptSteps
    BY <1>1 DEF CryptSteps
<1>3. n \in SystemNames /\ orderly => loops \subseteq LoopImages \cup {systems[n].image}
    BY <1>2, CryptIsNamed
<1>4. n \in SystemNames /\ systems[n].meta \in MetaSet /\ nextMapper - 1 \in Nat
    <2>1. n \in SystemNames
        BY <1>2, CryptIsNamed
    <2>2. systems[n].meta \in MetaSet
        BY <1>1, <2>1, Fields
    <2>3. nextMapper - 1 \in Nat
        <3>1. nextMapper \in Nat \ {0}
            BY <1>1 DEF StoreTyped
        <3>2. QED BY <3>1
    <2>4. QED BY <2>1, <2>2, <2>3
<1>5. systems' = [systems EXCEPT ![n].meta = new]
    BY DEF MapperSaved
<1>6. new \in MetaSet /\ new.plan = systems[n].meta.plan /\ new.name = systems[n].meta.name
    BY <1>4 DEF MetaSet
<1>7. orderly => loops' \subseteq LoopImages
    BY <1>1 DEF LoopsOwned
<1> HIDE DEF new, n
<1>8. QED BY <1>1, <1>4, <1>5, <1>6, <1>7, MetaEnds

\* losetup -d takes the loop device unless a mapper has it.
LEMMA CryptFailsKeeps ==
    ASSUME StoreInv, CryptFails
    PROVE  StoreInv'
<1>1. /\ UNCHANGED <<systems, images, mappers, nextMapper, orderly, leftLoops>> /\ work' = NoWork
      /\ work.step \in {"encrypt check"} \cup CryptSteps
      /\ loops' = IF work.step = "encrypt check" THEN loops ELSE Detached(systems[work.name].image)
    BY DEF CryptFails, Ledgers, CryptSteps
<1>2. LoopImages' = LoopImages
    BY <1>1 DEF LoopImages
<1>3. CASE work.step = "encrypt check"
    <2>1. work.step \notin {"boot part", "boot install"} \cup CryptSteps
        BY <1>3 DEF CryptSteps
    <2>2. orderly' => loops' \subseteq LoopImages'
        BY <1>1, <1>2, <1>3, <2>1, NothingPending
    <2>3. QED BY <1>1, <2>2, CommandEnds
<1>4. CASE work.step \in CryptSteps
    <2> DEFINE i == systems[work.name].image
    <2>1. loops' = Detached(i)
        BY <1>1, <1>4 DEF CryptSteps
    <2>2. orderly => loops \subseteq LoopImages \cup {i}
        BY <1>4, CryptIsNamed
    <2> HIDE DEF i
    <2>3. loops' = IF i \in LoopImages THEN loops ELSE loops \ {i}
        BY <2>1 DEF Detached, LoopImages
    <2>4. orderly' => loops' \subseteq LoopImages'
        BY <1>1, <1>2, <2>2, <2>3
    <2>5. QED BY <1>1, <2>4, CommandEnds
<1>5. QED BY <1>1, <1>3, <1>4

\* The loop devices of closed mappers go with them or are left, those of the others stay.
LEMMA LockClosesKeeps ==
    ASSUME StoreInv, LockCloses
    PROVE  StoreInv'
<1> DEFINE gone  == MapperOf(work.name)
           freed == {m.image : m \in gone} \ leftLoops
<1>1. /\ StoreTyped /\ WorkNamed /\ MadeWhole /\ PlanKept /\ work.step = "lock close"
      /\ UNCHANGED <<systems, images, nextMapper, orderly>>
      /\ work' = [work EXCEPT !.step = "lock meta"]
      /\ mappers' = mappers \ gone
      /\ \/ loops' = loops \ freed /\ leftLoops' = leftLoops
         \/ loops' = loops /\ leftLoops' = leftLoops \cup (loops \cap freed)
    BY DEF StoreInv, LockCloses, WorkGoes
<1>2. work'.step = "lock meta" /\ work'.name = work.name
    BY <1>1, StepGoes
<1>3. StoreTyped'
    <2>1. "lock meta" \in CommandSteps
        BY DEF CommandSteps, PlainSteps
    <2>2. mappers' \subseteq [id : Nat, image : Nat] /\ nextMapper' \in Nat \ {0}
        BY <1>1 DEF StoreTyped
    <2>3. images' \in Seq(ImageSet) /\ Len(images') = Len(images)
        BY <1>1, Fields
    <2>4. QED BY <1>1, <2>1, <2>2, <2>3, StepTyped
<1>4. WorkNamed' /\ MadeAside' /\ DiskAside'
    BY <1>1, <1>2 DEF WorkNamed, MadeAside, DiskAside, NewSteps, MakingSteps, BootSteps,
                      PlannedSteps, SizedSteps, CryptSteps
<1>5. MadeWhole' /\ PlanKept'
    BY <1>1 DEF MadeWhole, PlanKept
<1>6. work.step \notin {"boot part", "boot install"} \cup CryptSteps
    BY <1>1 DEF CryptSteps
<1>7. orderly => loops \subseteq LoopImages
    BY <1>6, NothingPending
<1> HIDE DEF gone
<1>8. orderly' => loops' \subseteq LoopImages'
    <2> SUFFICES ASSUME orderly', NEW i \in loops' PROVE i \in LoopImages'
        OBVIOUS
    <2>1. i \in loops /\ i \in LoopImages /\ leftLoops \subseteq leftLoops'
          /\ (i \notin freed \/ i \in leftLoops')
        BY <1>1, <1>7
    <2>2. CASE i \in leftLoops'
        BY <2>2 DEF LoopImages
    <2>3. CASE i \notin leftLoops'
        <3>1. i \notin leftLoops /\ i \notin {m.image : m \in gone}
            BY <2>1, <2>3
        <3>2. PICK m \in mappers : m.image = i
            BY <2>1, <3>1 DEF LoopImages
        <3>3. m \in mappers'
            BY <1>1, <3>1, <3>2
        <3>4. QED BY <3>2, <3>3 DEF LoopImages
    <2>4. QED BY <2>2, <2>3
<1>9. LoopsOwned'
    BY <1>2, <1>8 DEF LoopsOwned
<1>10. QED BY <1>3, <1>4, <1>5, <1>9 DEF StoreInv

\* The metadata keeps its name and its plan.
LEMMA LockSavedKeeps ==
    ASSUME StoreInv, LockSaved
    PROVE  StoreInv'
<1> DEFINE n == work.name
           new == [systems[n].meta EXCEPT !.mapper = 0]
<1>1. /\ StoreTyped /\ WorkNamed /\ work.step = "lock meta" /\ work' = NoWork
      /\ UNCHANGED <<images, mappers, loops, nextMapper, orderly, leftLoops>>
    BY DEF StoreInv, LockSaved, WorkGoes, Kernel, Ledgers
<1>2. n \in SystemNames /\ systems[n].meta \in MetaSet
    BY <1>1, Fields DEF WorkNamed
<1>3. systems' = [systems EXCEPT ![n].meta = new]
    BY DEF LockSaved
<1>4. new \in MetaSet /\ new.plan = systems[n].meta.plan /\ new.name = systems[n].meta.name
    BY <1>2 DEF MetaSet
<1>5. work.step \notin {"boot part", "boot install"} \cup CryptSteps
    BY <1>1 DEF CryptSteps
<1>6. orderly => loops' \subseteq LoopImages
    BY <1>1, <1>5, NothingPending
<1> HIDE DEF new, n
<1>7. QED BY <1>1, <1>2, <1>3, <1>4, <1>6, MetaEnds

-----------------------------------------------------------------------------
(* Failures, kills and reboots *)

\* A failure of a command that has no loop device.
LEMMA PlainFailsKeeps ==
    ASSUME StoreInv, PlainFails
    PROVE  StoreInv'
<1>1. /\ UNCHANGED <<systems, images, mappers, loops, nextMapper, orderly, leftLoops>> /\ work' = NoWork
      /\ work.step \notin {"boot part", "boot install"} \cup CryptSteps
    BY DEF PlainFails, Kernel, Ledgers, CryptSteps
<1>2. LoopImages' = LoopImages
    BY <1>1 DEF LoopImages
<1>3. orderly' => loops' \subseteq LoopImages'
    BY <1>1, <1>2, NothingPending
<1>4. QED BY <1>1, <1>3, CommandEnds

\* A kill leaves loop devices, and orderly says so.
LEMMA KilledKeeps ==
    ASSUME StoreInv, Killed
    PROVE  StoreInv'
<1>1. UNCHANGED <<systems, images, mappers, nextMapper>> /\ work' = NoWork /\ ~orderly'
    BY DEF Killed, Kernel
<1>2. QED BY <1>1, CommandEnds

\* A reboot takes every loop device and every mapper.
LEMMA RebootsKeeps ==
    ASSUME StoreInv, Reboots
    PROVE  StoreInv'
<1>1. UNCHANGED <<systems, images, nextMapper>> /\ work' = NoWork /\ loops' = {} /\ mappers' = {}
    BY DEF Reboots
<1>2. QED BY <1>1, CommandEnds

\* Mounts, virtual machines and app locks touch none of this.
LEMMA AsideKeeps ==
    ASSUME StoreInv,
           \/ VmEnds
           \/ \E n \in SystemNames : \/ Mounts(n) \/ RunsVm(n) \/ Protects(n) \/ Unprotects(n)
                                     \/ AppUnlocks(n) \/ AppRelocks(n)
    PROVE  StoreInv'
<1>1. UNCHANGED <<systems, images, work, mappers, loops, nextMapper, orderly, leftLoops>>
    BY DEF VmEnds, Mounts, RunsVm, Protects, Unprotects, AppUnlocks, AppRelocks, AppLockTo, Runs1,
           Kernel, Ledgers
<1>2. QED BY <1>1, NothingMoves

(* Every step of the store. *)
LEMMA StoreSteps ==
    ASSUME StoreInv, [StoreNext]_storeVars
    PROVE  StoreInv'
<1>1. CASE UNCHANGED storeVars
    BY <1>1, NothingMoves DEF storeVars
<1>2. CASE \E n \in SystemNames, s \in ImageSizes :
               \/ \E kind \in {"disk", "layers"}, enc \in BOOLEAN : NewBegins(n, kind, s, enc)
               \/ \E esp \in EspSizes : DiskBuilds(n, s, esp)
               \/ ResizeBegins(n, s)
    BY <1>2, NewBeginsKeeps, DiskBuildsKeeps, ResizeBeginsKeeps
<1>3. CASE NewMakes \/ NewFills \/ NewFlashes \/ NewRenames \/ NewFails
    BY <1>3, NewMakesKeeps, NewFillsKeeps, NewFlashesKeeps, NewRenamesKeeps, NewFailsKeeps
<1>4. CASE BootLoops \/ BootPartitions \/ EspMounts \/ EspInstalled \/ BootEnds \/ BootFails
    BY <1>4, BootLoopsKeeps, BootPartitionsKeeps, EspInstalledKeeps, BootEndsKeeps, BootFailsKeeps
<1>5. CASE \E n \in SystemNames : \/ Imports(n) \/ Umounts(n) \/ DeleteBegins(n)
                                  \/ EncryptBegins(n) \/ UnlockLoops(n) \/ LockBegins(n)
    BY <1>5, ImportsKeeps, UmountsKeeps, BeginsKeeps, UnlockLoopsKeeps
<1>6. CASE \/ VmEnds
           \/ \E n \in SystemNames : \/ Mounts(n) \/ RunsVm(n) \/ Protects(n) \/ Unprotects(n)
                                     \/ AppUnlocks(n) \/ AppRelocks(n)
    BY <1>6, AsideKeeps
<1>7. CASE \E a, b \in SystemNames : CloneBegins(a, b) \/ RenameBegins(a, b)
    BY <1>7, CloneKeeps, RenameKeeps
<1>8. CASE Removes \/ NameSaved \/ ResizeTruncates \/ ResizeFills \/ ResizeShrinks
    BY <1>8, RemovesKeeps, NameSavedKeeps, ResizesKeep
<1>9. CASE EncryptLoops \/ EncryptConverts \/ MapperOpens \/ MapperSaved \/ CryptFails
    BY <1>9, EncryptLoopsKeeps, EncryptConvertsKeeps, MapperOpensKeeps, MapperSavedKeeps, CryptFailsKeeps
<1>10. CASE LockCloses \/ LockSaved \/ PlainFails \/ Killed \/ Reboots
    BY <1>10, LockClosesKeeps, LockSavedKeeps, PlainFailsKeeps, KilledKeeps, RebootsKeeps
<1>11. QED BY <1>1, <1>2, <1>3, <1>4, <1>5, <1>6, <1>7, <1>8, <1>9, <1>10 DEF StoreNext

(* What the invariant says of the store. *)
LEMMA WhatTheStoreIsFor == StoreInv => NoLoopLeft /\ CreatedWhole /\ LayoutAsPlanned
<1> SUFFICES ASSUME StoreInv PROVE NoLoopLeft /\ CreatedWhole /\ LayoutAsPlanned
    OBVIOUS
<1>1. NoLoopLeft
    <2>1. ASSUME work.step = "idle", orderly PROVE loops \subseteq LoopImages
        BY <2>1, NothingPending DEF CryptSteps
    <2>2. QED BY <2>1 DEF NoLoopLeft, LoopImages
<1>2. CreatedWhole
    BY DEF StoreInv, MadeWhole, CreatedWhole, NoMeta
<1>3. LayoutAsPlanned
    BY KeptPlansAreLayouts DEF StoreInv
<1>4. QED BY <1>1, <1>2, <1>3

-----------------------------------------------------------------------------
(* The menu *)

\* A list of systems that is not empty has a last one.
LEMMA ListingIsSequence ==
    ASSUME stored \subseteq 1 .. MaxListed
    PROVE  Len(Listing) \in Nat /\ (Listing # <<>> => Len(Listing) > 0)
<1> DEFINE c == Cardinality(stored)
           S == {Listing[i] : i \in 1 .. c}
<1>1. c \in Nat
    <2>1. IsFiniteSet(1 .. MaxListed)
        BY ImagesAssumption, FS_Interval
    <2>2. IsFiniteSet(stored)
        BY <2>1, FS_Subset
    <2>3. QED BY <2>2, FS_CardinalityType
<1>2. Listing \in [1 .. c -> S]
    BY DEF Listing
<1> HIDE DEF c, S
<1>3. Listing \in Seq(S)
    BY <1>1, <1>2
<1>4. QED BY <1>3

\* The cursor starts on the first line.
LEMMA CursorStarts == MenuInit => CursorInv
    BY DEF MenuInit, CursorInv, CursorOnSystem

\* A reload puts the cursor on the list; until the next key nothing moves either.
LEMMA CursorSteps ==
    ASSUME CursorInv, [MenuNext]_menuVars
    PROVE  CursorInv'
<1>1. /\ selected \in Int /\ selected >= -1 /\ Len(menuRows) \in Nat
      /\ stored \subseteq 1 .. MaxListed /\ CursorOnSystem
    BY DEF CursorInv
<1>2. CASE UNCHANGED menuVars
    BY <1>1, <1>2 DEF menuVars, CursorInv, CursorOnSystem
<1>3. CASE MenuReloads
    <2> DEFINE n == Len(menuRows')
    <2>1. menuRows' = Listing /\ selected' = Clamped(selected, n) /\ stored' = stored
        BY <1>3 DEF MenuReloads
    <2>2. n \in Nat /\ (menuRows' # <<>> => n > 0)
        BY <1>1, <2>1, ListingIsSequence
    <2> HIDE DEF n
    <2>3. selected' \in Int /\ selected' >= -1 /\ (n > 0 => selected' \in -1 .. n - 1)
        BY <1>1, <2>1, <2>2 DEF Clamped
    <2>4. CursorOnSystem'
        BY <2>2, <2>3 DEF CursorOnSystem, n
    <2>5. QED BY <1>1, <2>1, <2>2, <2>3, <2>4 DEF CursorInv, n
<1>4. CASE MenuMoves
    <2>1. ~keyed' /\ stored' = stored /\ menuRows' = menuRows
        BY <1>4 DEF MenuMoves, Presses
    <2>2. selected' \in Int /\ selected' >= -1
        BY <1>1, <1>4 DEF MenuMoves
    <2>3. QED BY <1>1, <2>1, <2>2 DEF CursorInv, CursorOnSystem
<1>5. CASE MenuDeletes \/ MenuRuns
    <2>1. ~keyed' /\ stored' \subseteq stored /\ menuRows' = menuRows /\ selected' = selected
        BY <1>5 DEF MenuDeletes, MenuRuns, Presses
    <2>2. QED BY <1>1, <2>1 DEF CursorInv, CursorOnSystem
<1>6. ASSUME NEW x \in 1 .. MaxListed, MenuMakes(x) \/ OthersChange(x) PROVE CursorInv'
    <2>1. /\ stored' \subseteq stored \cup {x} /\ menuRows' = menuRows /\ selected' = selected
          /\ ~keyed' \/ keyed' = keyed
        BY <1>6 DEF MenuMakes, OthersChange, Presses
    <2>2. QED BY <1>1, <2>1 DEF CursorInv, CursorOnSystem
<1>7. QED BY <1>2, <1>3, <1>4, <1>5, <1>6 DEF MenuNext

-----------------------------------------------------------------------------
(* Both at once: whatever fails, is killed or is deleted meanwhile, a command that is over     *)
(* leaves a loop device only behind an open mapper, a directory that do_new or do_import made  *)
(* has its metadata and a filesystem, a boot disk has the partitions that were planned, and    *)
(* the cursor of the menu is on a system that it shows.                                        *)
THEOREM SystemsAlwaysWhole == StoreSpec /\ MenuSpec => []SystemsAreWhole
<1>1. StoreInit => StoreInv
    BY StoreStarts
<1>2. StoreInv /\ [StoreNext]_storeVars => StoreInv'
    BY StoreSteps
<1>3. MenuInit => CursorInv
    BY CursorStarts
<1>4. CursorInv /\ [MenuNext]_menuVars => CursorInv'
    BY CursorSteps
<1>5. StoreInv /\ CursorInv => SystemsAreWhole
    BY WhatTheStoreIsFor DEF CursorInv, SystemsAreWhole
<1>6. QED BY <1>1, <1>2, <1>3, <1>4, <1>5, PTL DEF StoreSpec, MenuSpec
=============================================================================
