------------------------------ MODULE AgentImages ------------------------------
(***************************************************************************)
(* The .recu artifacts of os/custom/recu_compiler.py.  Above, compilers    *)
(* detect a source's format, derive its capabilities, pack and sign its    *)
(* sections and write them over the output file, while it may be loaded.   *)
(* Below, threads execute a loaded artifact: each run goes through a       *)
(* temporary file and moves the artifact's cellular automaton, from which  *)
(* the lifecycle state is read back.                                       *)
(*                                                                         *)
(* Hashes and checksums are injective: a digest is what it is taken of.    *)
(* Of the automaton's grid only the population is kept: its one pattern    *)
(* that is ever stepped is the glider, and chaos stays chaos.              *)
(***************************************************************************)
EXTENDS Integers, Sequences, FiniteSets, SequencesExt

CONSTANTS
  Compilers,     \* processes that write to the same output path
  Sources,       \* [ext, magic, words, data]: what may be compiled
  RunMax,        \* the longest run of the PackBits code, 128 in the code
  MaxCompiles, MaxLoads,
  Callers,       \* threads that execute the loaded artifact
  Formats,       \* its source format
  MaxExecutions

ASSUME AgentImagesAssumption == RunMax \in Nat \ {0, 1} /\ \A s \in Sources : s.data \in Seq(Nat)

VARIABLES
  file,       \* the blocks of the output file
  writer,     \* compiler -> the image it writes and the blocks written
  compiled,   \* history: the sources whose compilation has begun
  compiles, loads,
  artifact,   \* what the last load returned: << >> if it was refused
  format, caller, population, imageGeneration, executing,
  leftover,   \* temporary files on disk, by their caller
  spoiled,    \* history: the callers whose write to the file failed
  unfinished, \* history: whether an execution ended other than by its exit
  executions

imageVars == <<file, writer, compiled, compiles, loads, artifact>>
executionVars == <<format, caller, population, imageGeneration, executing, leftover, spoiled, unfinished, executions>>

(******************************** The PackBits code ************************)
\* The length of the run, or of the literal, that begins at i.
RunLength(data, i, longest) ==
  LET runs == {k \in 1 .. longest : i + k - 1 <= Len(data) /\ \A j \in i .. i + k - 1 : data[j] = data[i]}
  IN CHOOSE k \in runs : \A m \in runs : m <= k

LiteralLength(data, i) ==
  LET Alone(j) == j = Len(data) \/ data[j] # data[j + 1]
      spans == {k \in 1 .. RunMax : i + k - 1 <= Len(data) /\ \A j \in i + 1 .. i + k - 1 : Alone(j)}
  IN CHOOSE k \in spans : \A m \in spans : m <= k

\* A packet is its header and the bytes after it.
Literal(bytes) == [header |-> Len(bytes) - 1, bytes |-> bytes]
Repeat(n, b) == [header |-> 2 * RunMax + 1 - n, bytes |-> <<b>>]

EncodeRuns(data, longest) ==
  LET from[i \in 1 .. Len(data) + 1] ==
        IF i > Len(data) THEN << >>
        ELSE IF RunLength(data, i, 2) = 2
        THEN LET n == RunLength(data, i, longest) IN <<Repeat(n, data[i])>> \o from[i + n]
        ELSE LET n == LiteralLength(data, i) IN <<Literal(SubSeq(data, i, i + n - 1))>> \o from[i + n]
  IN from[1]

\* A fault: runs are allowed to be one byte longer.
RleEncodeLonger(data) == EncodeRuns(data, RunMax + 1)

RleEncode(data) == EncodeRuns(data, RunMax)

\* The header RunMax (128 in the code) is skipped: its byte is then a header.
Unpacked(p) ==
  CASE p.header < RunMax -> p.bytes
    [] p.header = RunMax -> << >>
    [] OTHER             -> [k \in 1 .. 2 * RunMax + 1 - p.header |-> p.bytes[1]]

RleDecode(packets) ==
  LET from[k \in 1 .. Len(packets) + 1] ==
        IF k > Len(packets) THEN << >> ELSE Unpacked(packets[k]) \o from[k + 1]
  IN from[1]

(******************************* The compilation ***************************)
\* The extension decides, or else the first bytes, or else the words found.
Extensions == [sh |-> "bash", html |-> "html", py |-> "python", appimage |-> "appimage"]
PythonMarkers == {"def", "class", "import"}
ShellMarkers == {"echo", "export", "done"}

DetectBytes(s) ==
  CASE s.magic \in {"elf", "appimage", "bash", "python"} -> s.magic
    [] s.magic = "none" /\ "html" \in s.words -> "html"
    [] s.magic = "none" /\ "html" \notin s.words /\ Cardinality(s.words \cap PythonMarkers) >= 2 -> "python"
    [] s.magic = "none" /\ "html" \notin s.words /\ Cardinality(s.words \cap PythonMarkers) < 2 ->
         IF Cardinality(s.words \cap ShellMarkers) >= 2 THEN "bash" ELSE "plain_text"
    [] OTHER -> "unknown"

DetectPath(s) == IF s.ext \in DOMAIN Extensions THEN Extensions[s.ext] ELSE DetectBytes(s)

\* The capabilities of a format and of the words found in a source of it.
FormatCaps(f) ==
  CASE f = "bash"     -> {"SYSTEM_CALL"}
    [] f = "html"     -> {"UI_RENDER"}
    [] f = "elf"      -> {"KERNEL_DIRECT", "MEMORY_MAP", "PROCESS_SPAWN"}
    [] f = "appimage" -> {"KERNEL_DIRECT", "MEMORY_MAP", "PROCESS_SPAWN", "UI_RENDER"}
    [] f = "python"   -> {"COMPUTE_HEAVY"}
    [] OTHER          -> {}

WordCaps(f, w) ==
  CASE f = "bash" /\ w = "cat"         -> {"FILE_READ"}
    [] f = "bash" /\ w = "echo"        -> {"FILE_WRITE"}
    [] f = "bash" /\ w = "curl"        -> {"NETWORK"}
    [] f = "bash" /\ w = "sleep"       -> {"TIMER"}
    [] f = "python" /\ w = "open("     -> {"FILE_READ", "FILE_WRITE"}
    [] f = "python" /\ w = "socket"    -> {"NETWORK"}
    [] f = "python" /\ w = "threading" -> {"INTERPROCESS"}
    [] f = "html" /\ w = "<script"     -> {"COMPUTE_HEAVY"}
    [] f = "html" /\ w = "fetch("      -> {"NETWORK"}
    [] OTHER                           -> {}

RuleClassify(s) == FormatCaps(DetectPath(s)) \cup UNION {WordCaps(DetectPath(s), w) : w \in s.words}

Permissions(caps) ==
  [read |-> "FILE_READ" \in caps, write |-> "FILE_WRITE" \in caps, network |-> "NETWORK" \in caps,
   spawn |-> "PROCESS_SPAWN" \in caps, mmap |-> "MEMORY_MAP" \in caps, timer |-> "TIMER" \in caps,
   direct |-> "KERNEL_DIRECT" \in caps, render |-> "UI_RENDER" \in caps]

SyscallBindings ==
  {<<"read_bytes", "FILE_READ">>, <<"write_bytes", "FILE_WRITE">>, <<"alloc_page", "MEMORY_MAP">>,
   <<"free_page", "MEMORY_MAP">>, <<"spawn", "PROCESS_SPAWN">>, <<"net_send", "NETWORK">>,
   <<"net_recv", "NETWORK">>, <<"sleep_ns", "TIMER">>, <<"vga_write", "UI_RENDER">>,
   <<"syscall", "KERNEL_DIRECT">>, <<"msg_send", "INTERPROCESS">>}

Bound(caps) == {b[1] : b \in {x \in SyscallBindings : x[2] \in caps}}

\* The sections that depend on the source; n tells one compilation from another
\* (compiled_at).
Sections(s, n) ==
  [manifest |-> [format |-> DetectPath(s), permissions |-> Permissions(RuleClassify(s)), at |-> n],
   payload |-> RleEncode(s.data), routing |-> RuleClassify(s), syscalls |-> Bound(RuleClassify(s))]

\* pack: the header, the section table, the sections, the signature.
Pack(sections) ==
  LET body == <<[crc |-> sections], sections, [hashes |-> sections]>>
  IN <<[digest |-> body]>> \o body

NoImage == [image |-> << >>, at |-> 0]

CompileBegins(c, s) ==
  /\ writer[c] = NoImage /\ compiles < MaxCompiles /\ compiles' = compiles + 1
  /\ writer' = [writer EXCEPT ![c] = [image |-> Pack(Sections(s, compiles)), at |-> 0]]
  /\ compiled' = compiled \cup {s}
  /\ file' = << >>    \* open(output_path, 'wb')
  /\ UNCHANGED <<loads, artifact>>

Hole == [hole |-> TRUE]

WriteBlock(c) ==
  /\ writer[c] # NoImage
  /\ LET k == writer[c].at + 1 IN
     /\ file' = [i \in 1 .. IF Len(file) < k THEN k ELSE Len(file) |->
                   IF i = k THEN writer[c].image[k] ELSE IF i <= Len(file) THEN file[i] ELSE Hole]
     /\ writer' = [writer EXCEPT ![c] = IF k = Len(@.image) THEN NoImage ELSE [@ EXCEPT !.at = k]]
  /\ UNCHANGED <<compiled, compiles, loads, artifact>>

\* The compiler is killed.
CompilerDies(c) ==
  /\ writer[c] # NoImage /\ writer' = [writer EXCEPT ![c] = NoImage]
  /\ UNCHANGED <<file, compiled, compiles, loads, artifact>>

\* load: a file whose digest, checksums or signature do not agree is refused.
Accepted(f) ==
  /\ f # << >> /\ "digest" \in DOMAIN f[1] /\ f[1].digest = Tail(f)
  /\ Len(f) = 4 /\ f[2].crc = f[3] /\ f[4].hashes = f[3]

Load ==
  /\ loads < MaxLoads /\ loads' = loads + 1
  /\ artifact' = IF Accepted(file)
                 THEN LET s == file[3] IN
                      <<[data |-> RleDecode(s.payload), format |-> s.manifest.format, caps |-> s.routing,
                         permissions |-> s.manifest.permissions, syscalls |-> s.syscalls]>>
                 ELSE << >>
  /\ UNCHANGED <<file, writer, compiled, compiles>>

ImageInit ==
  /\ file = << >> /\ writer = [c \in Compilers |-> NoImage] /\ compiled = {}
  /\ compiles = 0 /\ loads = 0 /\ artifact = << >>

ImageNext ==
  \/ \E c \in Compilers : (\E s \in Sources : CompileBegins(c, s)) \/ WriteBlock(c) \/ CompilerDies(c)
  \/ Load

ImageSpec == ImageInit /\ [][ImageNext]_imageVars

(******************************** The execution ****************************)
GliderSeed == 5
Chaos == 90

\* The thresholds 0.15 and 0.85 on the entropy of the population, of 256 cells.
InferState(pop, gen) ==
  CASE pop = 0                     -> IF gen = 0 THEN "DORMANT" ELSE "TERMINATED"
    [] pop \in 1 .. 5              -> "SUSPENDED"
    [] pop \in 6 .. 70             -> "RUNNING"
    [] OTHER                       -> "FAULTED"

Status == InferState(population, imageGeneration)

ExecutionInit ==
  /\ format \in Formats
  /\ caller = [c \in Callers |-> [at |-> "idle", seen |-> 0]]
  /\ population = 0 /\ imageGeneration = 0 /\ executing = {} /\ leftover = {} /\ spoiled = {}
  /\ unfinished = FALSE /\ executions = 0

GridMoves(c, from, to) ==
  /\ caller[c].at = from /\ caller' = [caller EXCEPT ![c] = [at |-> to, seen |-> 0]]
  /\ UNCHANGED <<format, executions>>

NoFile == UNCHANGED <<leftover, spoiled>>

\* execute: the grid is set to the glider and the generation to 0 under the lock.
\* A tick holds the lock from its first step to its second.
LockFree == \A c \in Callers : caller[c].at \notin {"ticking", "rendering"}

ExecuteBegins(c) ==
  /\ caller[c].at = "idle" /\ LockFree /\ executions < MaxExecutions
  /\ population' = GliderSeed /\ imageGeneration' = 0 /\ executions' = executions + 1
  /\ executing' = executing \cup {c}
  /\ caller' = [caller EXCEPT ![c] = [at |-> CASE format = "unknown" -> "refused" [] format = "html" -> "render"
                                               [] OTHER -> "create", seen |-> 0]]
  /\ UNCHANGED <<format, unfinished>> /\ NoFile

Refuse(c) ==
  /\ GridMoves(c, "refused", "idle") /\ executing' = executing \ {c} /\ unfinished' = TRUE
  /\ UNCHANGED <<population, imageGeneration>> /\ NoFile

\* The temporary file: it is created, then written, and named in tf_path; a
\* write that fails is caught before it has its name.
CreateFile(c) ==
  /\ \/ GridMoves(c, "create", "write") /\ leftover' = leftover \cup {c}
     \/ GridMoves(c, "create", "failed") /\ UNCHANGED leftover
  /\ UNCHANGED <<population, imageGeneration, executing, spoiled, unfinished>>

WriteFile(c) ==
  /\ c \notin spoiled
  /\ \/ GridMoves(c, "write", "tick") /\ UNCHANGED spoiled
     \/ GridMoves(c, "write", "failed") /\ spoiled' = spoiled \cup {c}
  /\ UNCHANGED <<population, imageGeneration, executing, leftover, unfinished>>

\* _tick_lifecycle: the grid is read and stepped, then assigned with the new
\* generation; the assignments of the other methods take no lock.
TickReads(c) ==
  /\ LockFree
  /\ \E a \in {<<"tick", "ticking">>, <<"render", "rendering">>} :
       /\ caller[c].at = a[1] /\ caller' = [caller EXCEPT ![c] = [at |-> a[2], seen |-> population]]
  /\ UNCHANGED <<format, executions, population, imageGeneration, executing, unfinished>> /\ NoFile

TickWrites(c) ==
  /\ \/ GridMoves(c, "ticking", "run") /\ UNCHANGED <<executing, unfinished>>
     \/ GridMoves(c, "rendering", "idle") /\ executing' = executing \ {c} /\ unfinished' = TRUE
  /\ population' = caller[c].seen /\ imageGeneration' = imageGeneration + 1
  /\ NoFile

\* A fault: the grid is left as it is when the program exits.
RunEndsKeeping(c) ==
  /\ \/ GridMoves(c, "run", "exited") /\ UNCHANGED <<population, unfinished>>
     \/ GridMoves(c, "run", "exited") /\ population' = Chaos /\ unfinished' = TRUE
     \/ GridMoves(c, "run", "failed") /\ UNCHANGED <<population, unfinished>>
  /\ UNCHANGED <<imageGeneration, executing>> /\ NoFile

\* The program exits, exceeds its time, or cannot be run.
RunEnds(c) ==
  /\ \/ GridMoves(c, "run", "exited") /\ population' = 0 /\ UNCHANGED unfinished
     \/ GridMoves(c, "run", "exited") /\ population' = Chaos /\ unfinished' = TRUE
     \/ GridMoves(c, "run", "failed") /\ UNCHANGED <<population, unfinished>>
  /\ UNCHANGED <<imageGeneration, executing>> /\ NoFile

\* self._ca_gen += 1, without the lock.
ReadsGeneration(c) ==
  /\ caller[c].at = "exited" /\ caller' = [caller EXCEPT ![c] = [at |-> "counting", seen |-> imageGeneration]]
  /\ UNCHANGED <<format, executions, population, imageGeneration, executing, unfinished>> /\ NoFile

WritesGeneration(c) ==
  /\ GridMoves(c, "counting", "unlink") /\ imageGeneration' = caller[c].seen + 1
  /\ UNCHANGED <<population, executing, unfinished>> /\ NoFile

ExecutionFails(c) ==
  /\ GridMoves(c, "failed", "unlink") /\ unfinished' = TRUE
  /\ UNCHANGED <<population, imageGeneration, executing>> /\ NoFile

\* A fault: the file is only removed when the program has exited.
UnlinksExited(c) ==
  /\ GridMoves(c, "unlink", "idle") /\ executing' = executing \ {c}
  /\ leftover' = IF c \in spoiled \/ unfinished THEN leftover ELSE leftover \ {c}
  /\ UNCHANGED <<population, imageGeneration, spoiled, unfinished>>

\* The finally clause: the unlink of a file without a name fails silently.
Unlinks(c) ==
  /\ GridMoves(c, "unlink", "idle") /\ executing' = executing \ {c}
  /\ leftover' = IF c \in spoiled THEN leftover ELSE leftover \ {c}
  /\ UNCHANGED <<population, imageGeneration, spoiled, unfinished>>

ExecutionNext ==
  \E c \in Callers :
    \/ ExecuteBegins(c) \/ Refuse(c) \/ CreateFile(c) \/ WriteFile(c) \/ TickReads(c) \/ TickWrites(c)
    \/ RunEnds(c) \/ ReadsGeneration(c) \/ WritesGeneration(c) \/ ExecutionFails(c) \/ Unlinks(c)

ExecutionSpec == ExecutionInit /\ [][ExecutionNext]_executionVars

------------------------------------------------------------------------------
\* "PACKBITS RLE CODEC - lossless" (recu_compiler.py:578): whatever a load
\* accepts is a source that was compiled, byte for byte, with its capabilities,
\* although compilers that write over the file may be interleaved or killed.
LoadedIsCompiled ==
  artifact # << >> =>
    \E s \in compiled : LET a == artifact[1] IN
      /\ a.data = s.data /\ a.format = DetectPath(s) /\ a.caps = RuleClassify(s)
      /\ a.permissions.spawn = ("spawn" \in a.syscalls) /\ a.permissions.network = ("net_send" \in a.syscalls)

\* "self._ca_grid = ... # TERMINATED" (recu_compiler.py:1990): when all the
\* executions have ended, each by its exit, the lifecycle state is TERMINATED,
\* however their steps were interleaved.
IdleIsTerminated == executing = {} /\ executions > 0 /\ ~unfinished => Status = "TERMINATED"

\* "finally: os.unlink(tf_path)" (recu_compiler.py:2017): no execution leaves
\* its temporary file, but for one whose write failed.
FilesAreRemoved == leftover \subseteq executing \cup spoiled

\* "self._tick_lifecycle()  # RUNNING" (recu_compiler.py:1982): while the one
\* execution runs its program, the lifecycle state is RUNNING.
RunningSaysRunning == \A c \in Callers : executing = {c} /\ caller[c].at = "run" => Status = "RUNNING"
==============================================================================
