------------------------------- MODULE Desktop -------------------------------
(***************************************************************************)
(* The desktop shell of os/desktop/aios_desktop.py over the compositor and *)
(* the window manager of os/desktop/aios_display.py.  The shell's loop     *)
(* handles events, moves the pointer, forgets closed applications, repaints*)
(* the dirty windows and composites the damaged rectangles; meanwhile each *)
(* terminal's poll thread changes its contents and the taskbar's thread    *)
(* redraws the bar.  Positions are cells: a window has a title row with a  *)
(* close box at its end, the taskbar is the bottom row, the pointer is one *)
(* cell and a menu item one row.  The file browser follows at the end.     *)
(*                                                                         *)
(* Of a layer's z only the order is kept: raise_layer gives a window a z   *)
(* above every layer, and the wallpaper, the menu, the taskbar and the     *)
(* pointer have fixed z's in this order.                                   *)
(***************************************************************************)
EXTENDS Integers, Sequences, FiniteSets, SequencesExt

CONSTANTS
  Apps,          \* the terminals that may be opened, each once
  NoApp,
  ScreenW, ScreenH,
  WinW, WinH,    \* the size of a window
  Spots,         \* where the mouse may be
  DirtyFlushCap, \* beyond this many dirty rectangles, the whole screen
  MaxEvents,     \* bound on the events handled
  MaxOutputs     \* bound on the outputs of the terminals

ASSUME DesktopAssumption == NoApp \notin Apps /\ ScreenW > 0 /\ ScreenH > 0

VARIABLES
  open,      \* _windows, in the order they were created
  stack,     \* the compositor's layers from the bottom to the top
  at,        \* window -> its position
  front,     \* the focused window, or NoApp
  apps,      \* the shell's list of applications
  shells,    \* the terminals whose shell and poll thread run
  grid,      \* window -> what its application would paint
  surface,   \* layer -> what is painted on it
  stale,     \* windows with _dirty
  drag,      \* [win, dx, dy], win = NoApp when nothing is dragged
  menu,      \* where the launcher's menu is, or << >>
  mouse, pointer,
  dirty,     \* the damaged rectangles
  fullDirty,
  back,      \* pixel -> layer and contents shown
  loop,      \* [at, todo]: where the main loop is and the windows left to repaint
  unmarked,  \* layers drawn by the taskbar's thread and not marked yet
  uninvalidated, \* terminals between their output and invalidate()
  running,
  events, outputs

wmVars == <<open, stack, at, front, drag, dirty, fullDirty>>
appVars == <<apps, shells, grid, uninvalidated, outputs>>
uiVars == <<menu, mouse, pointer, running, events>>
desktopVars == <<open, stack, at, front, apps, shells, grid, surface, stale, drag, menu, mouse,
                 pointer, dirty, fullDirty, back, loop, unmarked, uninvalidated, running, events, outputs>>

(******************************** Rectangles *******************************)
Rect(x, y, w, h) == [x |-> x, y |-> y, w |-> w, h |-> h]
Least(a, b) == IF a < b THEN a ELSE b
Most(a, b) == IF a < b THEN b ELSE a

IsEmptyRect(r) == r.w <= 0 \/ r.h <= 0
Covers(r, p) == p[1] \in r.x .. r.x + r.w - 1 /\ p[2] \in r.y .. r.y + r.h - 1
Intersects(a, b) == a.x < b.x + b.w /\ a.x + a.w > b.x /\ a.y < b.y + b.h /\ a.y + a.h > b.y

ClipTo(a, b) ==
  LET nx == Most(a.x, b.x)
      ny == Most(a.y, b.y)
  IN Rect(nx, ny, Most(0, Least(a.x + a.w, b.x + b.w) - nx), Most(0, Least(a.y + a.h, b.y + b.h) - ny))

UnionRect(a, b) ==
  IF IsEmptyRect(a) THEN b
  ELSE IF IsEmptyRect(b) THEN a
  ELSE LET nx == Least(a.x, b.x)
           ny == Least(a.y, b.y)
       IN Rect(nx, ny, Most(a.x + a.w, b.x + b.w) - nx, Most(a.y + a.h, b.y + b.h) - ny)

Screen == Rect(0, 0, ScreenW, ScreenH)
Pixels == (0 .. ScreenW - 1) \X (0 .. ScreenH - 1)

(******************************** The layers *******************************)
Bar == "taskbar"
Wallpaper == "wallpaper"
Menu == "launcher"
Pointer == "cursor"
MenuItems == <<"terminal", "shutdown">>

LayerRect(l) ==
  CASE l = Wallpaper -> Screen
    [] l = Bar       -> Rect(0, ScreenH - 1, ScreenW, 1)
    [] l = Menu      -> Rect(menu[1], menu[2], 1, Len(MenuItems))
    [] l = Pointer   -> Rect(pointer[1], pointer[2], 1, 1)
    [] OTHER         -> Rect(at[l][1], at[l][2], WinW, WinH)

\* What composite() draws at a pixel: the surface of the topmost layer there.
Shown(p) ==
  LET over == SelectSeq(stack, LAMBDA l : Covers(LayerRect(l), p))
      top == over[Len(over)]
  IN IF over = << >> THEN <<"background", << >> >> ELSE <<top, surface[top]>>

\* mark_dirty, for a sequence of rectangles one after the other.
Marked(d, r) ==
  LET cr == ClipTo(r, Screen) IN
  IF IsEmptyRect(cr) \/ d.full THEN d
  ELSE IF Len(d.rects) + 1 > DirtyFlushCap THEN [full |-> TRUE, rects |-> <<Screen>>]
  ELSE [d EXCEPT !.rects = Append(@, cr)]

Damage == [full |-> fullDirty, rects |-> dirty]
SetDamage(d) == dirty' = d.rects /\ fullDirty' = d.full
MarkDirty(rs) == SetDamage(FoldLeft(Marked, Damage, rs))

\* One pass of _coalesce_dirty: from the last rectangle on, each is fused with
\* the first of the output it intersects.
FusePass(rs) ==
  FoldLeft(LAMBDA out, r :
             LET hits == {i \in DOMAIN out : Intersects(r, out[i])} IN
             IF hits = {} THEN Append(out, r)
             ELSE LET i == CHOOSE k \in hits : \A j \in hits : k <= j IN
                  [out EXCEPT ![i] = UnionRect(r, @)],
           << >>, Reverse(rs))

RECURSIVE Coalesced(_)
Coalesced(rs) ==
  LET out == FusePass(rs) IN IF Len(out) = Len(rs) THEN out ELSE Coalesced(out)

Spans == IF fullDirty THEN <<Screen>> ELSE Coalesced(dirty)

(**************************** The window manager ***************************)
\* raise_layer: the layer gets a z above all others.
Raised(s, w) == Append(SelectSeq(s, LAMBDA l : l # w), w)
Without(s, x) == SelectSeq(s, LAMBDA y : y # x)

WindowRect(w) == Rect(at[w][1], at[w][2], WinW, WinH)

\* window_at: the topmost window under the point.
Under(p) == SelectSeq(stack, LAMBDA l : l \in Apps /\ Covers(WindowRect(l), p))

\* A fault: the order of the layers is not reversed.
WindowAtBottom(p) == IF Under(p) = << >> THEN NoApp ELSE Under(p)[1]

WindowAt(p) == IF Under(p) = << >> THEN NoApp ELSE Under(p)[Len(Under(p))]

\* create_window by AppWindow.__init__, and _spawn; the window gets the focus.
Cascade == LET n == Len(apps) IN <<n % Most(ScreenW \div 3, 1), n % Most((ScreenH - 1) \div 2, 1)>>
Unopened == {a \in Apps : a \notin ToSet(open) /\ grid[a] = 0 /\ a \notin shells
                          /\ surface[a] = [focus |-> FALSE, text |-> -1]}

OpenApp(a) ==
  /\ open' = Append(open, a) /\ apps' = Append(apps, a) /\ shells' = shells \cup {a}
  /\ at' = [at EXCEPT ![a] = Cascade]
  /\ surface' = [surface EXCEPT ![a] = [focus |-> TRUE, text |-> 0]]
  /\ front' = a /\ stale' = stale \cup {a} \cup ({front} \ {NoApp})

OpenedRect == Rect(Cascade[1], Cascade[2], WinW, WinH)

\* focus_window; moved to the front unless it is there already.
Focus(w) ==
  IF front = w
  THEN UNCHANGED <<front, stale, stack, dirty, fullDirty>>
  ELSE /\ front' = w /\ stale' = stale \cup {w} \cup ({front} \ {NoApp})
       /\ stack' = Raised(stack, w)
       /\ MarkDirty(<<WindowRect(w)>>)

\* destroy_window: the last window of the list gets the focus when it was here.
Destroy(w) ==
  LET rest == Without(open, w)
      next == IF rest = << >> THEN NoApp ELSE rest[Len(rest)]
  IN /\ open' = rest
     /\ front' = next /\ stale' = (stale \ {w}) \cup ({next} \ {NoApp})
     /\ stack' = IF next = NoApp THEN Without(stack, w) ELSE Raised(Without(stack, w), next)
     /\ MarkDirty(<<WindowRect(w)>> \o IF next = NoApp THEN << >> ELSE <<WindowRect(next)>>)

\* A fault: the place a window leaves is not damaged.
MoveMarksNew(w, p) ==
  /\ at' = [at EXCEPT ![w] = p]
  /\ MarkDirty(<<Rect(p[1], p[2], WinW, WinH)>>)

MoveWindow(w, p) ==
  /\ at' = [at EXCEPT ![w] = p]
  /\ MarkDirty(<<WindowRect(w), Rect(p[1], p[2], WinW, WinH)>>)

Undragged == [win |-> NoApp, dx |-> 0, dy |-> 0]

OnMouseDown(p) ==
  LET w == WindowAt(p)
      local == <<p[1] - at[w][1], p[2] - at[w][2]>>
  IN IF w = NoApp
     THEN UNCHANGED <<open, stack, at, front, drag, stale, dirty, fullDirty>>
     ELSE /\ UNCHANGED at
          /\ IF local[2] = 0 /\ local[1] >= WinW - 1
             THEN Destroy(w) /\ UNCHANGED drag
             ELSE /\ Focus(w) /\ UNCHANGED open
                  /\ drag' = IF local[2] = 0 THEN [win |-> w, dx |-> local[1], dy |-> local[2]] ELSE drag

(********************************* The shell *******************************)
DesktopInit ==
  /\ open = << >> /\ stack = <<Wallpaper, Bar, Pointer>> /\ front = NoApp
  /\ at = [a \in Apps |-> <<0, 0>>] /\ apps = << >> /\ shells = {}
  /\ grid = [a \in Apps |-> 0]
  /\ surface = [l \in Apps \cup {Wallpaper, Bar, Pointer, Menu} |->
                  IF l \in Apps THEN [focus |-> FALSE, text |-> -1] ELSE << >>]
  /\ stale = {} /\ drag = Undragged /\ menu = << >>
  /\ mouse \in Spots /\ pointer = mouse
  /\ dirty = <<Screen>> /\ fullDirty = TRUE
  /\ back = [p \in Pixels |-> <<"background", << >> >>]
  /\ loop = [at |-> "events", todo |-> << >>]
  /\ unmarked = {} /\ uninvalidated = {}
  /\ running = TRUE /\ events = 0 /\ outputs = 0

Handling == loop.at = "events" /\ events < MaxEvents /\ events' = events + 1 /\ UNCHANGED loop

\* A click beside the menu has closed it and is handled like any other.
Clicking ==
  /\ menu = << >>
  /\ \/ Handling
     \/ loop.at = "beside" /\ loop' = [loop EXCEPT !.at = "events"] /\ UNCHANGED events

\* The menu closes when a click is handled; a click on an item acts first.
MenuLeft == Without(stack, Menu)

PressF2 ==
  /\ Handling /\ \E a \in Unopened : OpenApp(a) /\ stack' = Raised(stack, a)
  /\ MarkDirty(<<OpenedRect, OpenedRect>>)
  /\ UNCHANGED <<grid, drag, menu, mouse, pointer, back, unmarked, uninvalidated, outputs, running>>

OpenMenu(p) ==
  LET h == Len(MenuItems)
      m == <<Least(p[1], ScreenW - 1), Most(0, Least(p[2] - h, ScreenH - 1 - h))>>
  IN /\ menu' = m
     /\ stack' = <<Wallpaper, Menu>> \o SubSeq(stack, 2, Len(stack))  \* below the taskbar
     /\ MarkDirty(<<Rect(m[1], m[2], 1, h), Rect(m[1], m[2], 1, h)>>)

CloseMenu ==
  /\ menu' = << >> /\ stack' = MenuLeft
  /\ MarkDirty(<<LayerRect(Menu), LayerRect(Menu)>>)

\* A click on the menu: its first item opens a terminal, its last one ends the
\* shell's loop.
ClickMenu ==
  /\ Handling /\ menu # << >> /\ Covers(LayerRect(Menu), mouse)
  /\ menu' = << >>
  /\ running' = (running /\ MenuItems[mouse[2] - menu[2] + 1] # "shutdown")
  /\ IF MenuItems[mouse[2] - menu[2] + 1] = "terminal" /\ Unopened # {}
     THEN /\ \E a \in Unopened : OpenApp(a) /\ stack' = Raised(MenuLeft, a)
          /\ MarkDirty(<<OpenedRect, OpenedRect, LayerRect(Menu), LayerRect(Menu)>>)
     ELSE /\ stack' = MenuLeft
          /\ MarkDirty(<<LayerRect(Menu), LayerRect(Menu)>>)
          /\ UNCHANGED <<open, at, front, apps, shells, surface, stale>>
  /\ UNCHANGED <<grid, drag, mouse, pointer, back, unmarked, uninvalidated, outputs>>

ClickBeside ==
  /\ loop.at = "events" /\ events < MaxEvents /\ events' = events + 1
  /\ menu # << >> /\ ~Covers(LayerRect(Menu), mouse)
  /\ CloseMenu
  /\ loop' = [loop EXCEPT !.at = "beside"]
  /\ UNCHANGED <<open, at, front, apps, shells, grid, surface, stale, drag, mouse, pointer, back,
                 unmarked, uninvalidated, outputs, running>>

InTaskbar(p) == p[2] >= ScreenH - 1

\* The launch button is the first cell of the bar, then one cell per window.
ClickBar ==
  /\ Clicking /\ InTaskbar(mouse)
  /\ IF mouse[1] = 0
     THEN OpenMenu(mouse) /\ UNCHANGED <<front, stale>>
     ELSE /\ UNCHANGED menu
          /\ IF mouse[1] \in DOMAIN open THEN Focus(open[mouse[1]])
             ELSE UNCHANGED <<front, stale, stack, dirty, fullDirty>>
  /\ UNCHANGED <<open, at, apps, shells, grid, surface, drag, mouse, pointer, back, unmarked,
                 uninvalidated, outputs, running>>

RightClick ==
  /\ Clicking /\ ~InTaskbar(mouse)
  /\ OpenMenu(mouse)
  /\ UNCHANGED <<open, at, front, apps, shells, grid, surface, stale, drag, mouse, pointer, back,
                 unmarked, uninvalidated, outputs, running>>

ClickWindow ==
  /\ Clicking /\ ~InTaskbar(mouse)
  /\ OnMouseDown(mouse)
  /\ UNCHANGED <<apps, shells, grid, surface, menu, mouse, pointer, back, unmarked,
                 uninvalidated, outputs, running>>

ReleaseMouse ==
  /\ Handling /\ drag.win # NoApp /\ drag' = Undragged
  /\ UNCHANGED <<open, stack, at, front, apps, shells, grid, surface, stale, menu, mouse, pointer,
                 dirty, fullDirty, back, unmarked, uninvalidated, outputs, running>>

\* A window that was destroyed under the drag is still moved, and damages.
MoveMouse(p) ==
  /\ Handling /\ p # mouse /\ mouse' = p
  /\ IF drag.win # NoApp THEN MoveWindow(drag.win, <<p[1] - drag.dx, p[2] - drag.dy>>)
     ELSE UNCHANGED <<at, dirty, fullDirty>>
  /\ UNCHANGED <<open, stack, front, apps, shells, grid, surface, stale, drag, menu, pointer, back,
                 unmarked, uninvalidated, outputs, running>>

\* _update_cursor and _reap_closed: an application whose window is gone is
\* forgotten and its poll thread ends; nothing stops its shell.
BeginFrame ==
  /\ loop.at = "events"
  /\ loop' = [at |-> "repaint", todo |-> open]
  /\ pointer' = mouse
  /\ IF mouse = pointer THEN UNCHANGED <<dirty, fullDirty>>
     ELSE MarkDirty(<<LayerRect(Pointer), Rect(mouse[1], mouse[2], 1, 1)>>)
  /\ apps' = SelectSeq(apps, LAMBDA a : a \in ToSet(open))
  /\ UNCHANGED <<open, stack, at, front, shells, grid, surface, stale, drag, menu, mouse, back,
                 unmarked, uninvalidated, running, events, outputs>>

SkipClean ==
  /\ loop.at = "repaint" /\ loop.todo # << >> /\ Head(loop.todo) \notin stale
  /\ loop' = [loop EXCEPT !.todo = Tail(@)]
  /\ UNCHANGED <<wmVars, appVars, surface, stale, uiVars, back, unmarked>>

\* _repaint_wrapper in two steps: the contents are painted, then _dirty is reset
\* and the window's layer is damaged.
PaintWindow ==
  /\ loop.at = "repaint" /\ loop.todo # << >> /\ Head(loop.todo) \in stale
  /\ LET w == Head(loop.todo) IN
     surface' = [surface EXCEPT ![w] = [focus |-> front = w, text |-> grid[w]]]
  /\ loop' = [loop EXCEPT !.at = "painted"]
  /\ UNCHANGED <<wmVars, appVars, stale, uiVars, back, unmarked>>

ResetDirty ==
  /\ loop.at = "painted"
  /\ stale' = stale \ {Head(loop.todo)}
  /\ MarkDirty(<<WindowRect(Head(loop.todo))>>)
  /\ loop' = [at |-> "repaint", todo |-> Tail(loop.todo)]
  /\ UNCHANGED <<open, stack, at, front, drag, appVars, surface, uiVars, back, unmarked>>

Composite ==
  /\ loop.at = "repaint" /\ loop.todo = << >>
  /\ back' = [p \in Pixels |-> IF \E i \in DOMAIN Spans : Covers(Spans[i], p) THEN Shown(p)
                               ELSE back[p]]
  /\ dirty' = << >> /\ fullDirty' = FALSE
  /\ loop' = [loop EXCEPT !.at = IF running THEN "events" ELSE "closing"]
  /\ UNCHANGED <<open, stack, at, front, drag, appVars, surface, stale, uiVars, unmarked>>

\* The end of run(): every application left in the list is closed.
CloseApps ==
  /\ loop.at = "closing" /\ loop' = [loop EXCEPT !.at = "ended"]
  /\ shells' = shells \ ToSet(apps) /\ apps' = << >>
  /\ open' = SelectSeq(open, LAMBDA a : a \notin ToSet(apps)) /\ front' = NoApp
  /\ stack' = SelectSeq(stack, LAMBDA l : l \notin ToSet(apps))
  /\ MarkDirty([i \in DOMAIN apps |-> WindowRect(apps[i])])
  /\ UNCHANGED <<at, drag, grid, uninvalidated, outputs, surface, stale, uiVars, back, unmarked>>

(****************************** Other threads ******************************)
\* The poll thread of a terminal: output changes the grid, then invalidate().
Output(a) ==
  /\ a \in shells /\ a \in ToSet(apps) /\ a \notin uninvalidated /\ outputs < MaxOutputs
  /\ grid' = [grid EXCEPT ![a] = outputs + 1] /\ outputs' = outputs + 1
  /\ uninvalidated' = uninvalidated \cup {a}
  /\ UNCHANGED <<wmVars, apps, shells, surface, stale, uiVars, back, loop, unmarked>>

Invalidate(a) ==
  /\ a \in uninvalidated /\ uninvalidated' = uninvalidated \ {a}
  /\ stale' = stale \cup ({a} \cap ToSet(open))
  /\ UNCHANGED <<wmVars, apps, shells, grid, outputs, surface, uiVars, back, loop, unmarked>>

\* The taskbar's thread: a button per window, then the bar is damaged.
DrawBar ==
  /\ unmarked = {} /\ surface[Bar] # <<open, front>>
  /\ surface' = [surface EXCEPT ![Bar] = <<open, front>>]
  /\ unmarked' = {Bar}
  /\ UNCHANGED <<wmVars, appVars, stale, uiVars, back, loop>>

MarkBar ==
  /\ unmarked # {} /\ unmarked' = {}
  /\ MarkDirty(<<LayerRect(Bar)>>)
  /\ UNCHANGED <<open, stack, at, front, drag, appVars, surface, stale, uiVars, back, loop>>

DesktopNext ==
  \/ PressF2 \/ ClickMenu \/ ClickBeside \/ ClickBar \/ RightClick \/ ClickWindow \/ ReleaseMouse
  \/ \E p \in Spots : MoveMouse(p)
  \/ BeginFrame \/ SkipClean \/ PaintWindow \/ ResetDirty \/ Composite \/ CloseApps
  \/ \E a \in Apps : Output(a) \/ Invalidate(a)
  \/ DrawBar \/ MarkBar

DesktopSpec == DesktopInit /\ [][DesktopNext]_desktopVars

------------------------------------------------------------------------------
\* "Dirty-rect driven: callers mark_dirty() when a layer changes; composite()
\* rebuilds only the union-clipped dirty spans" (aios_display.py:1113): the back
\* buffer differs from what the layers show only under a damaged rectangle, or
\* where a thread is between drawing a layer and damaging it.
DamageCovers ==
  \A p \in Pixels :
    back[p] # Shown(p) =>
      \/ \E i \in DOMAIN dirty : Covers(dirty[i], p)
      \/ \E l \in unmarked : Covers(LayerRect(l), p)
      \/ loop.at = "painted" /\ Covers(WindowRect(Head(loop.todo)), p)

\* "Mark window dirty so the WM schedules a repaint next tick"
\* (aios_desktop.py:440): a window that is not dirty shows its contents.
InvalidatedIsRepainted ==
  \A a \in ToSet(open) :
    a \notin stale /\ a \notin uninvalidated /\ loop.at # "painted" => surface[a].text = grid[a]

\* "Remove apps whose WM windows have been destroyed (title-bar close)"
\* (aios_desktop.py:1891): no shell runs on when the desktop has closed.
NoShellLeft == loop.at = "ended" => shells = {}

\* The pixel under the mouse shows the window that a click there reaches: a
\* click on a window never reaches one that is hidden beneath it.
ClicksReachTheTop ==
  loop.at = "events" /\ dirty = << >> /\ unmarked = {} =>
    \A p \in Pixels : back[p][1] \in Apps => WindowAt(p) = back[p][1]

-----------------------------------------------------------------------------
(***************************************************************************)
(* The file browser of os/desktop/aios_desktop.py: a listing of one        *)
(* directory, a selected row and the first row in view, moved by keys,     *)
(* while other programs make and remove files.  A directory is known by    *)
(* the sequence of names that leads to it; names are numbers, in their     *)
(* order.  Other keys and the looks of the rows are left out.              *)
(***************************************************************************)

CONSTANTS
    Disks,          \* the trees that there may be, sets of [at |-> path, kind |-> kind]
    ViewRows,       \* rows of the window's client area
    MaxKeysPressed, MaxDiskChanges

ASSUME FileBrowserAssumption == ViewRows \in Nat \ {0}

VARIABLES
    disk,       \* what is there below the root; a "locked" directory cannot be read
    path,       \* _path
    listing,    \* _entries: [name, isDir], directories first
    sel, firstRow, \* _sel and _scroll
    listedOf,   \* history: the directory that was listed last
    raised,     \* an exception has ended the loop of the desktop
    keysPressed, diskChanges

browserVars == <<disk, path, listing, sel, firstRow, listedOf, raised, keysPressed, diskChanges>>

IsDirectory(kind) == kind \in {"dir", "locked"}
KindOf(p) == IF p = << >> THEN "dir"
             ELSE IF \E e \in disk : e.at = p THEN (CHOOSE e \in disk : e.at = p).kind ELSE "gone"

EntriesOf(p) == {[name |-> Last(e.at), isDir |-> IsDirectory(e.kind)] :
                   e \in {d \in disk : d.at # << >> /\ Front(d.at) = p}}
Sorted(entries) ==
    SetToSortSeq(entries, LAMBDA a, b : IF a.isDir = b.isDir THEN a.name < b.name ELSE a.isDir)

\* A fault: the view stays where it was in the directory before.
LoadsInPlace(p) ==
    /\ path' = p
    /\ IF IsDirectory(KindOf(p))
       THEN /\ listing' = IF KindOf(p) = "locked" THEN << >> ELSE Sorted(EntriesOf(p))
            /\ sel' = 0 /\ listedOf' = p /\ UNCHANGED <<raised, firstRow>>
       ELSE raised' = TRUE /\ UNCHANGED <<listing, sel, firstRow, listedOf>>

\* _load: a directory without permission is listed as empty; one that is gone raises, with
\* the path changed already.
Loads(p) ==
    /\ path' = p
    /\ IF IsDirectory(KindOf(p))
       THEN /\ listing' = IF KindOf(p) = "locked" THEN << >> ELSE Sorted(EntriesOf(p))
            /\ sel' = 0 /\ firstRow' = 0 /\ listedOf' = p /\ UNCHANGED raised
       ELSE raised' = TRUE /\ UNCHANGED <<listing, sel, firstRow, listedOf>>

BrowserInit ==
    /\ disk \in Disks /\ path = << >> /\ listing = Sorted(EntriesOf(<< >>))
    /\ sel = 0 /\ firstRow = 0 /\ listedOf = << >> /\ raised = FALSE
    /\ keysPressed = 0 /\ diskChanges = 0

Pressed == ~raised /\ keysPressed < MaxKeysPressed /\ keysPressed' = keysPressed + 1

BrowseUp ==
    /\ Pressed /\ sel' = IF sel > 1 THEN sel - 1 ELSE 0
    /\ firstRow' = IF sel' < firstRow THEN sel' ELSE firstRow
    /\ UNCHANGED <<disk, path, listing, listedOf, raised, diskChanges>>

\* In an empty directory the row before the first one is selected.
BrowseDown ==
    /\ Pressed /\ sel' = IF sel + 1 < Len(listing) THEN sel + 1 ELSE Len(listing) - 1
    /\ firstRow' = IF sel' >= firstRow + ViewRows THEN sel' - ViewRows + 1 ELSE firstRow
    /\ UNCHANGED <<disk, path, listing, listedOf, raised, diskChanges>>

\* ENTER: without a selected entry the name that is used next is not bound.
BrowseEnter ==
    /\ Pressed /\ UNCHANGED <<disk, diskChanges>>
    /\ IF sel + 1 \notin DOMAIN listing
       THEN raised' = TRUE /\ UNCHANGED <<path, listing, sel, firstRow, listedOf>>
       ELSE IF listing[sel + 1].isDir THEN Loads(Append(path, listing[sel + 1].name))
       ELSE UNCHANGED <<path, listing, sel, firstRow, listedOf, raised>>

BrowseBack ==
    /\ Pressed /\ path # << >> /\ Loads(Front(path))
    /\ UNCHANGED <<disk, diskChanges>>

\* Other programs.
DiskChanges ==
    /\ ~raised /\ diskChanges < MaxDiskChanges /\ diskChanges' = diskChanges + 1
    /\ \E e \in disk : disk' = {d \in disk : ~IsPrefix(e.at, d.at)}
    /\ UNCHANGED <<path, listing, sel, firstRow, listedOf, raised, keysPressed>>

BrowserNext == BrowseUp \/ BrowseDown \/ BrowseEnter \/ BrowseBack \/ DiskChanges

BrowserSpec == BrowserInit /\ [][BrowserNext]_browserVars

-----------------------------------------------------------------------------
\* "Directory tree viewer": the selected entry is one of the rows in view, whatever was
\* entered and left, the last page is a full one, and the entries are those of the path above
\* them.
SelectedInView ==
    /\ listing # << >> => /\ sel \in 0 .. Len(listing) - 1 /\ sel \in firstRow .. firstRow + ViewRows - 1
                          /\ firstRow > 0 => firstRow + ViewRows <= Len(listing)
    /\ ~raised => listedOf = path

\* No key ends the desktop.
BrowserNeverRaises == ~raised
=============================================================================
