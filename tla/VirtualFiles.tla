---------------------------- MODULE VirtualFiles ----------------------------
(***************************************************************************)
(* os/core/aios_vfs.py: the mount table, the in-memory trees, the fixed    *)
(* trees of /proc and /dev, and the descriptor table.  A path is the       *)
(* sequence of its names.  Each user works on the descriptors it opened;   *)
(* open takes one step per lock it takes: resolve, create (look, then      *)
(* add), resolve again, truncate, allocate.  Only MemFS files have bytes   *)
(* here.                                                                   *)
(***************************************************************************)
EXTENDS Integers, Sequences, FiniteSets, SequencesExt, FiniteSetsExt

CONSTANTS VfsUsers, Paths, OpenModes, MaxFds, MaxNodes, MaxFile

ASSUME VirtualFilesAssumption == MaxFds \in Nat /\ MaxFds > 3 /\ MaxNodes \in Nat /\ MaxFile \in Nat

VARIABLES
    mounts,     \* VFS._mounts: a sequence of [prefix, driver]
    tree,       \* MemFS driver -> path -> node (the children of its MemFSDirs)
    bytes,      \* the MemFSFile nodes made so far: node -> what it holds
    fdTable,    \* FDTable._table: descriptor -> [node, offset, flags]
    nextFd,     \* FDTable._next
    opening,    \* what each user's open, or appending write, is doing
    mine        \* the descriptors each user holds: descriptor -> node it opened

vfsVars == <<mounts, tree, bytes, fdTable, nextFd, opening, mine>>

MemDrivers == {"root", "tmp"}
Fixed == {<<"proc">>, <<"proc", "status">>, <<"dev">>, <<"dev", "null">>}
Dir == 0
Failed == -1
Device == -2
Rest == [at |-> "idle"]

VfsInit ==
    /\ mounts = <<[prefix |-> <<"proc">>, driver |-> "proc"], [prefix |-> <<"dev">>, driver |-> "dev"],
                  [prefix |-> <<"tmp">>, driver |-> "tmp"], [prefix |-> << >>, driver |-> "root"]>>
    /\ tree = [d \in MemDrivers |-> [p \in {<<"etc">>} |-> Dir]]
    /\ bytes = << >> /\ fdTable = << >> /\ nextFd = 3
    /\ opening = [u \in VfsUsers |-> Rest] /\ mine = [u \in VfsUsers |-> << >>]

-----------------------------------------------------------------------------
\* A driver strips its own mount point; "root" has none.
Local(driver, path) == IF driver = "root" THEN path ELSE SubSeq(path, 2, Len(path))

CoversPath(mount, path) == IsPrefix(mount.prefix, path)

IsDir(driver, path) == path = << >> \/ (path \in DOMAIN tree[driver] /\ tree[driver][path] = Dir)

Lookup(driver, path) ==
    IF driver \notin MemDrivers THEN (IF path \in Fixed THEN Device ELSE Failed)
    ELSE LET p == Local(driver, path) IN
         IF IsDir(driver, p) THEN Dir ELSE IF p \in DOMAIN tree[driver] THEN tree[driver][p] ELSE Failed

\* The first mount that covers the path; for creating, the first MemFS that does.
FirstMount(path, drivers) ==
    LET covers == {i \in 1..Len(mounts) : CoversPath(mounts[i], path) /\ mounts[i].driver \in drivers}
    IN IF covers = {} THEN "none" ELSE mounts[Min(covers)].driver

Resolves(path) ==
    LET driver == FirstMount(path, MemDrivers \union {"proc", "dev"})
    IN IF driver = "none" THEN Failed ELSE Lookup(driver, path)

\* mount replaces the entry of the same prefix and keeps the longest prefixes first.
Mount(prefix, driver) ==
    LET kept == SelectSeq(mounts, LAMBDA e : e.prefix # prefix) IN
    /\ mounts # SortSeq(Append(kept, [prefix |-> prefix, driver |-> driver]),
                        LAMBDA a, b : Len(a.prefix) > Len(b.prefix))
    /\ mounts' = SortSeq(Append(kept, [prefix |-> prefix, driver |-> driver]),
                         LAMBDA a, b : Len(a.prefix) > Len(b.prefix))
    /\ UNCHANGED <<tree, bytes, fdTable, nextFd, opening, mine>>

Umount(prefix) ==
    /\ \E i \in 1..Len(mounts) : mounts[i].prefix = prefix
    /\ mounts' = SelectSeq(mounts, LAMBDA e : e.prefix # prefix)
    /\ UNCHANGED <<tree, bytes, fdTable, nextFd, opening, mine>>

-----------------------------------------------------------------------------
Opening(u, step) == opening' = [opening EXCEPT ![u] = step]

\* open: the first resolution.  What is missing is created under O_CREAT, else open raises.
OpenResolves(u, path, flags) ==
    /\ opening[u] = Rest
    /\ LET node == Resolves(path) IN
       /\ node # Failed \/ "CREAT" \in flags
       /\ Opening(u, [at |-> IF node = Failed THEN "look" ELSE "truncate", path |-> path, flags |-> flags, node |-> node])
    /\ UNCHANGED <<mounts, tree, bytes, fdTable, nextFd, mine>>

\* MemFS.create: the parent must be a directory without the name; if not, open raises.
CreateLooks(u) ==
    /\ opening[u].at = "look"
    /\ LET path == opening[u].path
           driver == FirstMount(path, MemDrivers)
           p == Local(driver, path)
           able == driver # "none" /\ p # << >> /\ IsDir(driver, Front(p)) /\ p \notin DOMAIN tree[driver]
       IN Opening(u, IF able THEN [at |-> "add", path |-> path, flags |-> opening[u].flags, driver |-> driver] ELSE Rest)
    /\ UNCHANGED <<mounts, tree, bytes, fdTable, nextFd, mine>>

\* add_child does not look again: a file created meanwhile is replaced.
CreateAdds(u) ==
    /\ opening[u].at = "add" /\ Len(bytes) < MaxNodes
    /\ LET p == Local(opening[u].driver, opening[u].path)
           children == tree[opening[u].driver]
       IN tree' = [tree EXCEPT ![opening[u].driver] =
                     [q \in DOMAIN children \union {p} |-> IF q = p THEN Len(bytes) + 1 ELSE children[q]]]
    /\ bytes' = Append(bytes, << >>)
    /\ Opening(u, [at |-> "again", path |-> opening[u].path, flags |-> opening[u].flags])
    /\ UNCHANGED <<mounts, fdTable, nextFd, mine>>

OpenResolvesAgain(u) ==
    /\ opening[u].at = "again"
    /\ LET node == Resolves(opening[u].path) IN
       Opening(u, IF node = Failed THEN Rest
               ELSE [at |-> "truncate", path |-> opening[u].path, flags |-> opening[u].flags, node |-> node])
    /\ UNCHANGED <<mounts, tree, bytes, fdTable, nextFd, mine>>

OpenTruncates(u) ==
    /\ opening[u].at = "truncate"
    /\ bytes' = (IF "TRUNC" \in opening[u].flags /\ opening[u].node > 0
                 THEN [bytes EXCEPT ![opening[u].node] = << >>] ELSE bytes)
    /\ Opening(u, [at |-> "alloc", node |-> opening[u].node, flags |-> opening[u].flags])
    /\ UNCHANGED <<mounts, tree, fdTable, nextFd, mine>>

-----------------------------------------------------------------------------
Following(fd) == (fd % (MaxFds - 1)) + 3

\* The descriptors alloc tries, in its order.
Tried == LET next[i \in 1..MaxFds] == IF i = 1 THEN nextFd ELSE Following(next[i - 1]) IN next

\* A fault: the next number is taken, whether or not it is open.
PicksNext == IF \E i \in 1..MaxFds : Tried[i] \notin DOMAIN fdTable THEN nextFd ELSE Failed

Picks ==
    LET free == {i \in 1..MaxFds : Tried[i] \notin DOMAIN fdTable}
    IN IF free = {} THEN Failed ELSE Tried[Min(free)]

AllocFd(u) ==
    LET fd == Picks
        node == opening[u].node
        flags == opening[u].flags
    IN /\ opening[u].at = "alloc"
       /\ Opening(u, Rest)
       /\ IF fd = Failed THEN nextFd' = Following(Tried[MaxFds]) /\ UNCHANGED <<fdTable, mine>>
          ELSE /\ fdTable' = [f \in DOMAIN fdTable \union {fd} |-> IF f # fd THEN fdTable[f] ELSE
                    [node |-> node, flags |-> flags,
                     offset |-> IF "APPEND" \in flags /\ node > 0 THEN Len(bytes[node]) ELSE 0]]
               /\ nextFd' = Following(fd)
               /\ mine' = [mine EXCEPT ![u] = [f \in DOMAIN mine[u] \union {fd} |->
                                                 IF f = fd THEN node ELSE mine[u][f]]]
       /\ UNCHANGED <<mounts, tree, bytes>>

Readable(fd) == "WRONLY" \notin fdTable[fd].flags
Writable(fd) == fdTable[fd].flags \intersect {"WRONLY", "RDWR"} # {}

ReadFd(u, fd, count) ==
    /\ opening[u] = Rest /\ fd \in DOMAIN mine[u] /\ Readable(fd) /\ fdTable[fd].node > 0
    /\ LET left == Len(bytes[fdTable[fd].node]) - fdTable[fd].offset IN
       fdTable' = [fdTable EXCEPT ![fd].offset = @ + Max({0, Min({count, left})})]
    /\ UNCHANGED <<mounts, tree, bytes, nextFd, opening, mine>>

SeekFd(u, fd, offset, whence) ==
    /\ opening[u] = Rest /\ fd \in DOMAIN mine[u] /\ fdTable[fd].node > 0
    /\ LET from == CASE whence = "set" -> 0
                     [] whence = "cur" -> fdTable[fd].offset
                     [] whence = "end" -> Len(bytes[fdTable[fd].node])
       IN /\ from + offset <= MaxFile
          /\ fdTable' = [fdTable EXCEPT ![fd].offset = Max({0, from + offset})]
    /\ UNCHANGED <<mounts, tree, bytes, nextFd, opening, mine>>

\* write: under O_APPEND the offset moves to the end in a step of its own.
AppendSeeks(u, fd) ==
    /\ opening[u] = Rest /\ fd \in DOMAIN mine[u] /\ Writable(fd) /\ fdTable[fd].node > 0
    /\ "APPEND" \in fdTable[fd].flags
    /\ fdTable' = [fdTable EXCEPT ![fd].offset = Len(bytes[fdTable[fd].node])]
    /\ Opening(u, [at |-> "write", fd |-> fd])
    /\ UNCHANGED <<mounts, tree, bytes, nextFd, mine>>

\* Past the size limit NoSpaceError leaves everything as it was; a gap is filled with zeros.
WriteFd(u, fd) ==
    /\ \/ opening[u] = [at |-> "write", fd |-> fd]
       \/ opening[u] = Rest /\ fd \in DOMAIN mine[u] /\ Writable(fd) /\ "APPEND" \notin fdTable[fd].flags
    /\ fdTable[fd].node > 0
    /\ LET at == fdTable[fd].offset + 1
           old == bytes[fdTable[fd].node]
       IN IF at > MaxFile THEN UNCHANGED <<bytes, fdTable>>
          ELSE /\ bytes' = [bytes EXCEPT ![fdTable[fd].node] =
                    [i \in 1..Max({Len(old), at}) |-> IF i = at THEN u ELSE IF i <= Len(old) THEN old[i] ELSE Dir]]
               /\ fdTable' = [fdTable EXCEPT ![fd].offset = at]
    /\ Opening(u, Rest)
    /\ UNCHANGED <<mounts, tree, nextFd, mine>>

CloseFd(u, fd) ==
    /\ opening[u] = Rest /\ fd \in DOMAIN mine[u] /\ fd \in DOMAIN fdTable
    /\ fdTable' = [f \in DOMAIN fdTable \ {fd} |-> fdTable[f]]
    /\ mine' = [mine EXCEPT ![u] = [f \in DOMAIN mine[u] \ {fd} |-> mine[u][f]]]
    /\ UNCHANGED <<mounts, tree, bytes, nextFd, opening>>

-----------------------------------------------------------------------------
\* mkdir and unlink go to the first MemFS that covers the path, whatever is mounted above it.
Mkdir(path) ==
    LET driver == FirstMount(path, MemDrivers)
        p == Local(driver, path)
    IN /\ driver # "none" /\ p # << >> /\ p \notin DOMAIN tree[driver] /\ IsDir(driver, Front(p))
       /\ tree' = [tree EXCEPT ![driver] = [q \in DOMAIN @ \union {p} |-> IF q = p THEN Dir ELSE @[q]]]
       /\ UNCHANGED <<mounts, bytes, fdTable, nextFd, opening, mine>>

Unlink(path) ==
    LET driver == FirstMount(path, MemDrivers)
        p == Local(driver, path)
    IN /\ driver # "none" /\ p \in DOMAIN tree[driver] /\ tree[driver][p] # Dir
       /\ tree' = [tree EXCEPT ![driver] = [q \in DOMAIN @ \ {p} |-> @[q]]]
       /\ UNCHANGED <<mounts, bytes, fdTable, nextFd, opening, mine>>

VfsNext ==
    \/ \E u \in VfsUsers :
         \/ \E path \in Paths, flags \in OpenModes : OpenResolves(u, path, flags)
         \/ CreateLooks(u) \/ CreateAdds(u) \/ OpenResolvesAgain(u) \/ OpenTruncates(u) \/ AllocFd(u)
         \/ \E fd \in DOMAIN fdTable :
              \/ ReadFd(u, fd, MaxFile) \/ AppendSeeks(u, fd) \/ WriteFd(u, fd) \/ CloseFd(u, fd)
              \/ \E whence \in {"set", "cur", "end"}, offset \in {-1, 1} : SeekFd(u, fd, offset, whence)
    \/ \E path \in Paths : Mkdir(path) \/ Unlink(path)
    \/ Mount(<<"tmp">>, "tmp") \/ Umount(<<"tmp">>)

VfsSpec == VfsInit /\ [][VfsNext]_vfsVars

-----------------------------------------------------------------------------
\* "Allocate a new FD and register the open FileDescriptor": a descriptor denotes the file its
\* holder opened until it is closed, whoever opens, unlinks, replaces or mounts what meanwhile;
\* no descriptor is open that nobody holds.
DescriptorsKeep ==
    /\ \A u \in VfsUsers : \A fd \in DOMAIN mine[u] :
          fd \in DOMAIN fdTable /\ fdTable[fd].node = mine[u][fd]
    /\ DOMAIN fdTable = UNION {DOMAIN mine[u] : u \in VfsUsers}

\* "max simultaneously open file descriptors" and "File descriptor table exhausted (max FDs
\* open)": allocation is refused only while that many descriptors (three of them the
\* standard ones) are open.
RefusedOnlyWhenFull == Picks = Failed => Cardinality(DOMAIN fdTable) + 3 >= MaxFds
=============================================================================
