---------------------------- MODULE AgentKernel ----------------------------
(***************************************************************************)
(* AgentKernel, BootStub, AgentRegistry and the REPL of                    *)
(* os/core/aios_core.py, and after them its interrupts with the keyboard   *)
(* and its text screen.  boot takes the lock for its test of the state    *)
(* only and then builds the subsystems one after the other; syscall reads  *)
(* the state without a lock and dispatches a tool that may meet a reboot   *)
(* on its way.                                                             *)
(*                                                                         *)
(* A subsystem is known by the boot that built it: main builds an          *)
(* allocator and a bus for the boot stub before the first one.  Of a tool  *)
(* we know whether a class body registered it (its fn is the bare          *)
(* function) or a subsystem's attach did (its fn is a bound method).       *)
(***************************************************************************)
EXTENDS Naturals, Sequences, SequencesExt

CONSTANTS KernelUsers, ClassTools, AttachedTools, MaxBoots

ASSUME AgentKernelAssumption == MaxBoots \in Nat /\ ClassTools \cap AttachedTools = {}

Order == <<"palloc", "bus", "vmm", "idt", "pic", "vga">>
Subsystems == {Order[i] : i \in 1..Len(Order)}
Tools == ClassTools \union AttachedTools

VARIABLES
    kstate,     \* _state
    boots,      \* how often boot was let in
    built,      \* which boot built a subsystem: 0 none yet, 1 main itself
    user,       \* what a thread is doing: "idle", "boot", "booted", "repl",
                \* "syscall" or "plan"
    stage,      \* how many subsystems a booting thread has built
    toolRegistry,   \* _registry._tools: names that dispatch finds
    todo,       \* the tools a thread still has to dispatch
    result      \* of a thread's last dispatch: "none", "ok", or why it failed

kernelVars == <<kstate, boots, built, user, stage, toolRegistry, todo, result>>

KernelInit ==
    /\ kstate = "OFFLINE" /\ boots = 1
    /\ built = [s \in Subsystems |-> IF s \in {"palloc", "bus"} THEN 1 ELSE 0]
    /\ user = [t \in KernelUsers |-> "idle"] /\ stage = [t \in KernelUsers |-> 0]
    /\ toolRegistry = ClassTools
    /\ todo = [t \in KernelUsers |-> << >>] /\ result = [t \in KernelUsers |-> "none"]

Becomes(t, what) == user' = [user EXCEPT ![t] = what]

-----------------------------------------------------------------------------
\* A fault: a kernel that is up may be booted again.
BootsUnlessBooting(t) ==
    /\ user[t] = "idle" /\ boots <= MaxBoots
    /\ kstate \notin {"BOOT", "PANIC"}
    /\ kstate' = "BOOT" /\ boots' = boots + 1
    /\ Becomes(t, "boot") /\ stage' = [stage EXCEPT ![t] = 0]
    /\ UNCHANGED <<built, toolRegistry, todo, result>>

BootBegins(t) ==
    /\ user[t] = "idle" /\ boots <= MaxBoots
    /\ kstate \in {"OFFLINE", "HALT"}
    /\ kstate' = "BOOT" /\ boots' = boots + 1
    /\ Becomes(t, "boot") /\ stage' = [stage EXCEPT ![t] = 0]
    /\ UNCHANGED <<built, toolRegistry, todo, result>>

BootBuilds(t) ==
    /\ user[t] = "boot" /\ stage[t] < Len(Order)
    /\ built' = [built EXCEPT ![Order[stage[t] + 1]] = boots]
    /\ stage' = [stage EXCEPT ![t] = @ + 1]
    /\ UNCHANGED <<kstate, boots, user, toolRegistry, todo, result>>

\* After the self-tests; main then runs the REPL.
BootReady(t) ==
    /\ user[t] = "boot" /\ stage[t] = Len(Order)
    /\ kstate' = "READY" /\ Becomes(t, "booted")
    /\ UNCHANGED <<boots, built, stage, toolRegistry, todo, result>>

\* Building a subsystem or a self-test raised.
BootPanics(t) ==
    /\ user[t] = "boot"
    /\ kstate' = "PANIC" /\ Becomes(t, "idle")
    /\ UNCHANGED <<boots, built, stage, toolRegistry, todo, result>>

\* attach_all_subsystems: the tools of one attached object.
Attach(t, tool) ==
    /\ user[t] = "booted" /\ tool \in AttachedTools
    /\ toolRegistry' = toolRegistry \union {tool}
    /\ UNCHANGED <<kstate, boots, built, user, stage, todo, result>>

ReplRuns(t) ==
    /\ user[t] = "booted"
    /\ kstate' = "RUNNING" /\ Becomes(t, "repl")
    /\ UNCHANGED <<boots, built, stage, toolRegistry, todo, result>>

ReplQuits(t) ==
    /\ user[t] = "repl"
    /\ kstate' = "HALT" /\ Becomes(t, "idle")
    /\ UNCHANGED <<boots, built, stage, toolRegistry, todo, result>>

-----------------------------------------------------------------------------
\* The state is tested once, whatever happens to it before the tool runs.
Syscall(t, tool) ==
    /\ user[t] = "idle" /\ kstate \in {"READY", "RUNNING"}
    /\ Becomes(t, "syscall")
    /\ todo' = [todo EXCEPT ![t] = <<tool>>] /\ result' = [result EXCEPT ![t] = "none"]
    /\ UNCHANGED <<kstate, boots, built, stage, toolRegistry>>

SyscallRefused(t) ==
    /\ user[t] = "idle" /\ kstate \notin {"READY", "RUNNING"}
    /\ result' = [result EXCEPT ![t] = "not ready"]
    /\ UNCHANGED <<kstate, boots, built, user, stage, toolRegistry, todo>>

\* plan_and_execute looks at no state; the reasoner picks tools whose names are in the goal.
PlanAndExecute(t, tools) ==
    /\ user[t] = "idle"
    /\ Becomes(t, "plan")
    /\ todo' = [todo EXCEPT ![t] = tools] /\ result' = [result EXCEPT ![t] = "none"]
    /\ UNCHANGED <<kstate, boots, built, stage, toolRegistry>>

\* dispatch never raises.  spec.fn of a class tool lacks its self.
Outcomes(tool) ==
    CASE tool \notin toolRegistry  -> {"unknown"}
      [] tool \in ClassTools   -> {"no self"}
      [] OTHER                 -> {"ok", "raised"}

Dispatch(t) ==
    /\ user[t] \in {"syscall", "plan"} /\ todo[t] # << >>
    /\ \E o \in Outcomes(Head(todo[t])) :
         /\ result' = [result EXCEPT ![t] = o]
         /\ todo' = [todo EXCEPT ![t] = IF o = "ok" THEN Tail(@) ELSE << >>]
    /\ UNCHANGED <<kstate, boots, built, user, stage, toolRegistry>>

CallReturns(t) ==
    /\ user[t] \in {"syscall", "plan"} /\ todo[t] = << >>
    /\ Becomes(t, "idle")
    /\ UNCHANGED <<kstate, boots, built, stage, toolRegistry, todo, result>>

KernelNext ==
    \E t \in KernelUsers :
        \/ BootBegins(t) \/ BootBuilds(t) \/ BootReady(t) \/ BootPanics(t)
        \/ ReplRuns(t) \/ ReplQuits(t) \/ SyscallRefused(t) \/ Dispatch(t) \/ CallReturns(t)
        \/ \E tool \in Tools : \/ Attach(t, tool) \/ Syscall(t, tool)
                               \/ \E next \in Tools : PlanAndExecute(t, <<tool, next>>)

KernelSpec == KernelInit /\ [][KernelNext]_kernelVars

-----------------------------------------------------------------------------
\* "Execute the full AIOS kernel boot sequence": while the kernel says it is up, every
\* subsystem is there and is the one the last boot built, so that no bus of an earlier boot
\* is behind an allocator of this one.
UpMeansOneBoot ==
    kstate \in {"READY", "RUNNING"} => \A s \in Subsystems : built[s] = boots

\* "After boot, any code can call kernel.dispatch(tool_name, **kwargs) or
\* kernel.syscall(name, **kwargs) to interact with the OS": a tool that the registry has
\* is run, with its own result or its own exception.
RegisteredToolsRun == \A t \in KernelUsers : result[t] # "no self"

-----------------------------------------------------------------------------
(***************************************************************************)
(* Two parts of os/core/aios_core.py: interrupts with the keyboard, and the*)
(* text screen.                                                            *)
(***************************************************************************)

-----------------------------------------------------------------------------
(***************************************************************************)
(* InterruptDescriptorTable and PICDriver of os/core/aios_core.py, and the *)
(* keyboard handler that AgentKernel installs: a device puts a scancode on *)
(* port 0x60 and fires IRQ 1; fire tests the mask, runs the handler of the *)
(* line's vector and ends with EOI.  Other lines are fired by other        *)
(* threads, and any line may be masked and unmasked meanwhile.             *)
(***************************************************************************)

CONSTANTS Irqs, Scancodes, BufferSize, MaxPresses

Keyboard == 1

ASSUME InterruptsAssumption == Irqs \subseteq 0..15 /\ Keyboard \in Irqs /\ BufferSize \in Nat \ {0}

VARIABLES
    masked,     \* the lines whose bit of _mask is set
    handlers,   \* vector -> "keyboard", "fault", or absent: the default does nothing
    servicing,  \* for each line where its fire is: "no", "passed" the mask, or "handled"
    port60,     \* the scancode on the port: [code, make]
    pressed,    \* the make codes put on the port, in order
    keys        \* _keyboard_buffer, a deque of at most BufferSize

interruptVars == <<masked, handlers, servicing, port60, pressed, keys>>

Newest(s) == SubSeq(s, IF Len(s) > BufferSize THEN 2 ELSE 1, Len(s))

InterruptInit ==
    /\ masked = Irqs \ {0, Keyboard}
    /\ handlers = [v \in {13, 14, 33} |-> IF v = 33 THEN "keyboard" ELSE "fault"]
    /\ servicing = [i \in Irqs |-> "no"]
    /\ port60 = [code |-> 0, make |-> FALSE]
    /\ pressed = << >> /\ keys = << >>

-----------------------------------------------------------------------------
\* The remapped vector: lines from 8 on come from the second controller.
Vector(i) == i + (IF i < 8 THEN 32 ELSE 24)

Mask(i) == masked' = masked \union {i} /\ UNCHANGED <<handlers, servicing, port60, pressed, keys>>

Unmask(i) == masked' = masked \ {i} /\ UNCHANGED <<handlers, servicing, port60, pressed, keys>>

\* The keyboard waits for its interrupt to be serviced before it puts the next code.
Press(code, make) ==
    /\ servicing[Keyboard] = "no" /\ Len(pressed) < MaxPresses
    /\ port60' = [code |-> code, make |-> make]
    /\ pressed' = IF make THEN Append(pressed, code) ELSE pressed
    /\ servicing' = [servicing EXCEPT ![Keyboard] = IF Keyboard \in masked THEN "no" ELSE "passed"]
    /\ UNCHANGED <<masked, handlers, keys>>

Fire(i) ==
    /\ i # Keyboard /\ servicing[i] = "no" /\ i \notin masked
    /\ servicing' = [servicing EXCEPT ![i] = "passed"]
    /\ UNCHANGED <<masked, handlers, port60, pressed, keys>>

\* A fault: the handler does not look at the break bit.
KeyboardIsrBoth == keys' = Newest(Append(keys, port60.code))

\* keyboard_isr: break codes are left out.
KeyboardIsr ==
    keys' = IF port60.make THEN Newest(Append(keys, port60.code)) ELSE keys

\* What the handler raises is swallowed.
DispatchVector(i) ==
    /\ servicing[i] = "passed"
    /\ IF Vector(i) \in DOMAIN handlers /\ handlers[Vector(i)] = "keyboard" THEN KeyboardIsr
       ELSE UNCHANGED keys
    /\ servicing' = [servicing EXCEPT ![i] = "handled"]
    /\ UNCHANGED <<masked, handlers, port60, pressed>>

Eoi(i) ==
    /\ servicing[i] = "handled"
    /\ servicing' = [servicing EXCEPT ![i] = "no"]
    /\ UNCHANGED <<masked, handlers, port60, pressed, keys>>

InterruptNext ==
    \/ \E i \in Irqs : Mask(i) \/ Unmask(i) \/ Fire(i) \/ DispatchVector(i) \/ Eoi(i)
    \/ \E code \in Scancodes, make \in BOOLEAN : Press(code, make)

InterruptSpec == InterruptInit /\ [][InterruptNext]_interruptVars

-----------------------------------------------------------------------------
\* "ignore break codes": what the buffer holds was typed, in that order and once for each
\* key that was pressed, whichever lines fire and are masked in between.
NoPhantomKeys ==
    \E at \in [DOMAIN keys -> DOMAIN pressed] :
        /\ \A i, j \in DOMAIN keys : i < j => at[i] < at[j]
        /\ \A i \in DOMAIN keys : keys[i] = pressed[at[i]]

-----------------------------------------------------------------------------
(***************************************************************************)
(* VGATextDriver of os/core/aios_core.py: characters at a cursor that      *)
(* wraps and scrolls, in the cells of the VGA buffer.  Colours are left    *)
(* out; write is putchar for each character, so its characters may be      *)
(* interleaved with those of another thread.                               *)
(***************************************************************************)

CONSTANTS Rows, Cols, Letters, MaxText

ASSUME TextScreenAssumption == Rows \in Nat \ {0} /\ Cols \in Nat \ {0}

Blank == " "
BlankRow == [c \in 1..Cols |-> Blank]

VARIABLES
    cells,      \* the VGA buffer: row, column -> character
    row, col,   \* the cursor, from 0
    text        \* what was put since the screen was cleared

screenVars == <<cells, row, col, text>>

ScreenInit ==
    /\ cells = [r \in 1..Rows |-> BlankRow]
    /\ row = 0 /\ col = 0 /\ text = << >>

-----------------------------------------------------------------------------
Clear ==
    /\ text # << >>
    /\ cells' = [r \in 1..Rows |-> BlankRow]
    /\ row' = 0 /\ col' = 0 /\ text' = << >>

\* A fault: the last row keeps what it had.
ScrolledOnly(screen) == [r \in 1..Rows |-> IF r = Rows THEN screen[r] ELSE screen[r + 1]]

Scrolled(screen) == [r \in 1..Rows |-> IF r = Rows THEN BlankRow ELSE screen[r + 1]]

\* The end of putchar: the cursor wraps at the last column, and the screen scrolls.
Settles(screen, r, c) ==
    LET down == IF c >= Cols THEN r + 1 ELSE r IN
    /\ col' = (IF c >= Cols THEN 0 ELSE c)
    /\ row' = (IF down >= Rows THEN Rows - 1 ELSE down)
    /\ cells' = (IF down >= Rows THEN Scrolled(screen) ELSE screen)

PutChar(ch) ==
    /\ Len(text) < MaxText
    /\ text' = Append(text, ch)
    /\ CASE ch = "nl" -> Settles(cells, row + 1, 0)
         [] ch = "cr" -> Settles(cells, row, 0)
         [] ch = "bs" -> IF col = 0 THEN UNCHANGED <<cells, row, col>>
                         ELSE Settles([cells EXCEPT ![row + 1][col] = Blank], row, col - 1)
         [] OTHER     -> Settles([cells EXCEPT ![row + 1][col + 1] = ch], row, col + 1)

ScreenNext == Clear \/ \E ch \in Letters \union {"nl", "cr", "bs"} : PutChar(ch)

ScreenSpec == ScreenInit /\ [][ScreenNext]_screenVars

-----------------------------------------------------------------------------
\* The text on a page that never ends: its lines, and the column after the last character.
Typed(page, ch) ==
    LET n == Len(page.lines) IN
    CASE ch = "nl" -> [lines |-> Append(page.lines, BlankRow), at |-> 0]
      [] ch = "cr" -> [page EXCEPT !.at = 0]
      [] ch = "bs" -> IF page.at = 0 THEN page
                      ELSE [lines |-> [page.lines EXCEPT ![n][page.at] = Blank], at |-> page.at - 1]
      [] OTHER     -> LET put == [page.lines EXCEPT ![n][page.at + 1] = ch] IN
                      IF page.at + 1 < Cols THEN [lines |-> put, at |-> page.at + 1]
                      ELSE [lines |-> Append(put, BlankRow), at |-> 0]

EmptyPage == [lines |-> <<BlankRow>>, at |-> 0]

Page ==
    LET after[k \in 0..Len(text)] == IF k = 0 THEN EmptyPage ELSE Typed(after[k - 1], text[k])
    IN after[Len(text)]

\* "Scroll up by one line": the screen shows the end of the text as an endless page has it,
\* with the cursor after the last character, however often it wrapped and scrolled.
ScreenShowsEnd ==
    LET lines == Page.lines
        first == IF Len(lines) > Rows THEN Len(lines) - Rows ELSE 0
    IN /\ col = Page.at /\ row + 1 = Len(lines) - first
       /\ \A r \in 1..Rows :
            cells[r] = IF first + r <= Len(lines) THEN lines[first + r] ELSE BlankRow
=============================================================================
