---------------------------- MODULE DisplayServer ----------------------------
(***************************************************************************)
(* The display server of os/desktop/aios_display.py under its window       *)
(* manager: drawing on a surface, the output of a surface to a terminal,   *)
(* the widgets of a window, and the life of the render loop.  Each of the  *)
(* four has variables of its own.  A rectangle is the set of its pixels.   *)
(***************************************************************************)
EXTENDS Integers, Sequences, FiniteSets, SequencesExt

Area(x, y, w, h) == (x .. x + w - 1) \X (y .. y + h - 1)
Upto(a, b) == IF a < b THEN a ELSE b
Distance(a, b) == IF a < b THEN b - a ELSE a - b

-----------------------------------------------------------------------------
(***************************************************************************)
(* Surface: fills, lines, outlines, circles and text, blended over what is *)
(* there and confined to the clip.  One channel stands for the three.      *)
(***************************************************************************)
CONSTANTS
    CanvasW, CanvasH,
    Paints,         \* colours, [c |-> channel, a |-> alpha]
    Corners,        \* where lines end and circles and text are put
    Boxes,          \* rectangles, <<x, y, w, h>>
    Glyph,          \* the lit cells <<column, row>> of the font's glyph
    FontW, FontH,
    MaxClips,       \* how deep the blocks with a clip are nested
    MaxStrokes

VARIABLES
    canvas,     \* Surface._buf: pixel -> colour
    clips,      \* the clips of the blocks that are entered, the last one in force
    before,     \* history: the canvas before the last stroke
    stroke,     \* history: its kind, arguments, and marks one after another
    strokes

canvasVars == <<canvas, clips, before, stroke, strokes>>

Canvas == Area(0, 0, CanvasW, CanvasH)
Clip == clips[Len(clips)]
NoStroke == [kind |-> "none", of |-> << >>, marks |-> << >>]

\* A surface without a fill, with an opaque one and with a translucent one.
Fills == {[c |-> 0, a |-> 0], [c |-> 20, a |-> 255], [c |-> 90, a |-> 100]}
CanvasInit ==
    /\ \E c \in Fills : canvas = [p \in Canvas |-> c]
    /\ clips = <<Canvas>> /\ before = canvas /\ stroke = NoStroke /\ strokes = 0

\* _alpha_blend: source over destination, with rounded divisions.
Over(s, d) ==
    LET inv == 255 - s.a
        a == s.a + (inv * d.a + 127) \div 255
    IN CASE s.a >= 255 -> [s EXCEPT !.a = 255]
         [] s.a <= 0   -> d
         [] s.a \in 1..254 /\ d.a >= 255 -> [c |-> Upto(255, (s.a * s.c + inv * d.c + 127) \div 255), a |-> 255]
         [] OTHER -> [c |-> Upto(255, (s.a * s.c + (inv * d.a * d.c + 127) \div 255) \div a), a |-> Upto(255, a)]

Mark(area, paint) == [area |-> area, paint |-> paint]
Painted(marks) ==
    FoldLeft(LAMBDA cv, m : [p \in Canvas |-> IF p \in m.area \cap Clip THEN Over(m.paint, cv[p]) ELSE cv[p]],
             canvas, marks)

Draws(kind, args, marks) ==
    /\ strokes < MaxStrokes /\ strokes' = strokes + 1
    /\ before' = canvas /\ canvas' = Painted(marks)
    /\ stroke' = [kind |-> kind, of |-> args, marks |-> marks]
    /\ UNCHANGED clips

FillRect(b, paint) == Draws("fill", b, <<Mark(Area(b[1], b[2], b[3], b[4]), paint)>>)

\* _bresenham: the pixels of a line in their order.
Bresenham(p, q) ==
    LET dx == Distance(p[1], q[1])
        dy == Distance(p[2], q[2])
        sx == IF p[1] < q[1] THEN 1 ELSE -1
        sy == IF p[2] < q[2] THEN 1 ELSE -1
        walk[x \in Int, y \in Int, err \in Int] ==
            <<<<x, y>>>> \o
            IF <<x, y>> = q THEN << >>
            ELSE LET right == 2 * err > -dy
                     down == 2 * err < dx
                 IN walk[IF right THEN x + sx ELSE x, IF down THEN y + sy ELSE y,
                         err - (IF right THEN dy ELSE 0) + (IF down THEN dx ELSE 0)]
    IN walk[p[1], p[2], dx - dy]

DrawLine(p, q, paint) ==
    LET points == Bresenham(p, q)
    IN Draws("line", <<p, q>>, [i \in DOMAIN points |-> Mark({points[i]}, paint)])

\* draw_rect: two rows and two columns, that meet in the corners.
DrawRect(b, paint) ==
    /\ b[3] > 0 /\ b[4] > 0
    /\ Draws("outline", b,
             <<Mark(Area(b[1], b[2], b[3], 1), paint), Mark(Area(b[1], b[2] + b[4] - 1, b[3], 1), paint),
               Mark(Area(b[1], b[2], 1, b[4]), paint), Mark(Area(b[1] + b[3] - 1, b[2], 1, b[4]), paint)>>)

\* A fault: the error term is advanced by the row before.
CircleStepsLate(r) ==
    LET walk[x \in Int, y \in Int, err \in Int] ==
            IF x < y THEN << >>
            ELSE <<<<x, y>>>> \o
                 IF err < 0 THEN walk[x, y + 1, err + 2 * y + 1]
                 ELSE walk[x - 1, y + 1, err + 2 * (y - x) + 1]
    IN walk[r, 0, 1 - r]

\* The steps of the midpoint algorithm, through an eighth of the circle.
CircleSteps(r) ==
    LET walk[x \in Int, y \in Int, err \in Int] ==
            IF x < y THEN << >>
            ELSE <<<<x, y>>>> \o
                 IF err < 0 THEN walk[x, y + 1, err + 2 * (y + 1) + 1]
                 ELSE walk[x - 1, y + 1, err + 2 * (y + 1 - (x - 1)) + 1]
    IN walk[r, 0, 1 - r]

\* plot8: the rows of a filled circle, or the eight reflections of the step.
Plot(m, step, fill) ==
    LET x == step[1] y == step[2] IN
    IF fill
    THEN <<Area(m[1] - x, m[2] + y, 2 * x + 1, 1), Area(m[1] - x, m[2] - y, 2 * x + 1, 1),
           Area(m[1] - y, m[2] + x, 2 * y + 1, 1), Area(m[1] - y, m[2] - x, 2 * y + 1, 1)>>
    ELSE <<{<<m[1] + x, m[2] + y>>}, {<<m[1] - x, m[2] + y>>}, {<<m[1] + x, m[2] - y>>}, {<<m[1] - x, m[2] - y>>},
           {<<m[1] + y, m[2] + x>>}, {<<m[1] - y, m[2] + x>>}, {<<m[1] + y, m[2] - x>>}, {<<m[1] - y, m[2] - x>>}>>

CircleAreas(m, r, fill) == FoldLeft(LAMBDA out, step : out \o Plot(m, step, fill), << >>, CircleSteps(r))

DrawCircle(m, r, fill, paint) ==
    LET areas == CircleAreas(m, r, fill)
    IN Draws("circle", <<m, r, fill>>, [i \in DOMAIN areas |-> Mark(areas[i], paint)])

\* draw_text: glyph after glyph, each lit cell a block of scale by scale pixels; the other
\* cells are painted when there is a background.
GlyphArea(cells, x, y, scale) ==
    UNION {Area(x + cell[1] * scale, y + cell[2] * scale, scale, scale) : cell \in cells}
DrawText(n, at, scale, fg, bg) ==
    LET x(i) == at[1] + (i - 1) * FontW * scale
        all == Area(0, 0, FontW, FontH)
        lit == [i \in 1..n |-> Mark(GlyphArea(Glyph, x(i), at[2], scale), fg)]
        unlit == [i \in 1..n |-> Mark(GlyphArea(all \ Glyph, x(i), at[2], scale), bg)]
    IN Draws("text", <<n, at, scale>>, IF bg.a = 0 THEN lit ELSE lit \o unlit)

\* clip(): the clip of a block is within the one around it, which comes back at its end.
EnterClip(b) ==
    /\ Len(clips) <= MaxClips /\ clips' = Append(clips, Area(b[1], b[2], b[3], b[4]) \cap Clip)
    /\ before' = canvas /\ stroke' = NoStroke /\ UNCHANGED <<canvas, strokes>>
LeaveClip ==
    /\ Len(clips) > 1 /\ clips' = Front(clips)
    /\ before' = canvas /\ stroke' = NoStroke /\ UNCHANGED <<canvas, strokes>>

CanvasNext ==
    \/ LeaveClip
    \/ \E b \in Boxes : EnterClip(b)
    \/ \E paint \in Paints :
         \/ \E b \in Boxes : FillRect(b, paint) \/ DrawRect(b, paint)
         \/ \E p, q \in Corners : DrawLine(p, q, paint)
         \/ \E m \in Corners, r \in 1..3, fill \in BOOLEAN : DrawCircle(m, r, fill, paint)
         \/ \E p \in Corners, scale \in 1..2, bg \in Paints \union {[c |-> 0, a |-> 0]} :
              DrawText(2, p, scale, paint, bg)

CanvasSpec == CanvasInit /\ [][CanvasNext]_canvasVars

-----------------------------------------------------------------------------
Marks(p) == {i \in DOMAIN stroke.marks : p \in stroke.marks[i].area}
Drawn == UNION {stroke.marks[i].area : i \in DOMAIN stroke.marks}

\* "Bresenham integer line rasteriser": a line of neighbours from one end to the other, as
\* many as its longer side, none further than half a pixel from the exact one.
LineIsStraight ==
    stroke.kind = "line" =>
        LET p == stroke.of[1]
            q == stroke.of[2]
            dx == q[1] - p[1]
            dy == q[2] - p[2]
            long == IF Distance(dx, 0) > Distance(dy, 0) THEN Distance(dx, 0) ELSE Distance(dy, 0)
            points == [i \in DOMAIN stroke.marks |-> CHOOSE x \in stroke.marks[i].area : TRUE]
        IN /\ points[1] = p /\ points[Len(points)] = q /\ Len(points) = long + 1
           /\ \A i \in 2..Len(points) : /\ Distance(points[i][1], points[i - 1][1]) <= 1
                                        /\ Distance(points[i][2], points[i - 1][2]) <= 1
           /\ \A i \in DOMAIN points :
                2 * Distance(dx * (points[i][2] - p[2]), dy * (points[i][1] - p[1])) <= long

\* "Midpoint circle algorithm": the pixels of an outline are within half a pixel of the
\* circle, and a filled circle is, row by row, what its outline encloses.
CircleIsRound ==
    stroke.kind = "circle" =>
        LET m == stroke.of[1]
            r == stroke.of[2]
            edge == CircleAreas(m, r, FALSE)
            outline == UNION {edge[i] : i \in DOMAIN edge}
            square(p) == (p[1] - m[1]) * (p[1] - m[1]) + (p[2] - m[2]) * (p[2] - m[2])
        IN /\ \A p \in outline : Distance(square(p), r * r) <= r
           /\ Drawn = IF ~stroke.of[3] THEN outline
                      ELSE {p \in Area(m[1] - r, m[2] - r, 2 * r + 1, 2 * r + 1) :
                              \E a, b \in outline : a[2] = p[2] /\ b[2] = p[2] /\ a[1] <= p[1] /\ p[1] <= b[1]}

\* "All drawing ops are clipped to an active clip Rect and go through Porter-Duff blending"
\* (:820): a stroke changes nothing outside the clip; inside, a fill, a line and a text
\* blend each of their pixels once, which never makes it more transparent and over an
\* opaque one gives the rounded mixture.
DrawnAsAsked ==
    /\ \A p \in Canvas \ Clip : canvas[p] = before[p]
    /\ \A i \in 2..Len(clips) : clips[i] \subseteq clips[i - 1]
    /\ \A p \in Canvas \cap Clip :
         IF Marks(p) = {} THEN canvas[p] = before[p]
         ELSE /\ stroke.kind \in {"fill", "line", "text"} => Cardinality(Marks(p)) = 1
              /\ canvas[p].a >= before[p].a
              /\ Cardinality(Marks(p)) = 1 /\ before[p].a = 255 =>
                   LET s == stroke.marks[CHOOSE i \in Marks(p) : TRUE].paint
                   IN 2 * Distance(255 * canvas[p].c, s.a * s.c + (255 - s.a) * before[p].c) <= 255
    /\ LineIsStraight /\ CircleIsRound

\* The same for an outline and a circle: "One-pixel rectangle outline."
EveryPixelBlendedOnce == \A p \in Canvas : Cardinality(Marks(p)) <= 1

-----------------------------------------------------------------------------
(***************************************************************************)
(* ANSITerminalDriver: the damaged rectangles of a surface are written to  *)
(* a terminal as half blocks, each cell two pixels.  What is written is a  *)
(* sequence of commands, which the terminal carries out.                   *)
(***************************************************************************)
CONSTANTS TermCols, TermRows, Shades, MaxDamages

ASSUME TerminalSizeAssumption == TermCols \in Nat \ {0} /\ TermRows \in Nat \ {0}

VARIABLES
    pix,        \* the surface: pixel -> colour
    spans,      \* the damaged rectangles, <<x, y, w, h>>
    lines,      \* the terminal's screen: cell -> <<upper, lower>> colour
    damages

outputVars == <<pix, spans, lines, damages>>

PixelsOut == Area(0, 0, TermCols, 2 * TermRows)
CellsOut == Area(0, 0, TermCols, TermRows)
FirstShade == CHOOSE s \in Shades : TRUE

OutputInit ==
    /\ pix = [p \in PixelsOut |-> FirstShade] /\ lines = [c \in CellsOut |-> <<FirstShade, FirstShade>>]
    /\ spans = << >> /\ damages = 0

Change(b, shade) ==
    /\ damages < MaxDamages /\ damages' = damages + 1
    /\ Area(b[1], b[2], b[3], b[4]) \subseteq PixelsOut
    /\ pix' = [p \in PixelsOut |-> IF p \in Area(b[1], b[2], b[3], b[4]) THEN shade ELSE pix[p]]
    /\ spans' = Append(spans, b)
    /\ UNCHANGED lines

\* A fault: a cell whose upper pixel only is damaged is not among them.
CellRowsWhole(b) == b[2] \div 2 .. Upto((b[2] + b[4]) \div 2, TermRows) - 1

\* The rows of cells that a rectangle of pixels touches.
CellRows(b) == b[2] \div 2 .. Upto((b[2] + b[4] + 1) \div 2, TermRows) - 1

\* A row of cells: the cursor is moved, and a colour is written only when it is not the one
\* of the cell before.
RowOut(b, row) ==
    LET lastX == Upto(b[1] + b[3], TermCols) - 1
        upper(x) == pix[<<x, 2 * row>>]
        lower(x) == pix[<<x, 2 * row + 1>>]
        cell(x) == (IF x = b[1] \/ upper(x) # upper(x - 1) THEN <<<<"fg", upper(x)>>>> ELSE << >>)
                   \o (IF x = b[1] \/ lower(x) # lower(x - 1) THEN <<<<"bg", lower(x)>>>> ELSE << >>)
                   \o <<<<"put", "half">>>>
    IN <<<<"to", <<b[1], row>>>>>> \o
       FoldLeft(LAMBDA out, x : out \o cell(x), << >>, [i \in 1..(lastX - b[1] + 1) |-> b[1] + i - 1])

SpanOut(b) ==
    LET first == b[2] \div 2 IN
    FoldLeft(LAMBDA out, row : out \o RowOut(b, row), << >>,
             [i \in 1..Cardinality(CellRows(b)) |-> first + i - 1])

\* The terminal.
Interpreted(t, cmd) ==
    CASE cmd[1] = "to" -> [t EXCEPT !.at = cmd[2]]
      [] cmd[1] = "fg" -> [t EXCEPT !.fg = cmd[2]]
      [] cmd[1] = "bg" -> [t EXCEPT !.bg = cmd[2]]
      [] cmd[1] = "put" -> [t EXCEPT !.screen = [@ EXCEPT ![t.at] = <<t.fg, t.bg>>], !.at = <<@[1] + 1, @[2]>>]

Present ==
    /\ spans # << >> /\ spans' = << >>
    /\ LET cmds == FoldLeft(LAMBDA out, b : out \o SpanOut(b), << >>, spans)
           start == [screen |-> lines, at |-> <<0, 0>>, fg |-> "default", bg |-> "default"]
       IN lines' = FoldLeft(Interpreted, start, cmds).screen
    /\ UNCHANGED <<pix, damages>>

OutputNext == Present \/ \E b \in Boxes, shade \in Shades : Change(b, shade)

OutputSpec == OutputInit /\ [][OutputNext]_outputVars

\* "each terminal cell encodes TWO stacked pixels ... with run-length suppression of redundant
\* codes" (:1873): a cell that no damaged rectangle touches shows its two pixels.
TerminalShowsSurface ==
    \A c \in CellsOut :
        LET two == {<<c[1], 2 * c[2]>>, <<c[1], 2 * c[2] + 1>>}
        IN (\A i \in DOMAIN spans : two \cap Area(spans[i][1], spans[i][2], spans[i][3], spans[i][4]) = {})
           => lines[c] = <<pix[<<c[1], 2 * c[2]>>], pix[<<c[1], 2 * c[2] + 1>>]>>

-----------------------------------------------------------------------------
(***************************************************************************)
(* Window and its tree of widgets.  The loop thread handles the events and *)
(* repaints, one widget after another, while agents add labels, set texts  *)
(* and the title on threads of their own: they found the window under the  *)
(* window manager's lock, but change it without.                           *)
(***************************************************************************)
CONSTANTS
    Labels,         \* what agents add to the client panel
    Inputs,         \* focusable widgets, that the window's owner adds to its box
    Client, Stack, NoWidget,    \* the client panel, and a VBox in it
    WidgetAt,       \* label, Client or Stack -> <<x, y, w, h>> in its parent
    InputH, StackGap, StackPad,
    FrameW, TitleH,
    MaxChanges

Widgets == Labels \union Inputs \union {Client, Stack}

ASSUME WidgetAssumption == NoWidget \notin Widgets

VARIABLES
    kids,       \* widget -> its children, in order
    bounds,     \* widget -> <<x, y, w, h>> in its parent
    unpainted,  \* the widgets with _dirty
    winUnpainted, \* the window's own _dirty
    adding,     \* what Window.add has yet to make dirty: "tree", "window", or "no" when it is done
    texts, title,   \* how often each text and the title were set
    focused,    \* _focused_widget
    flagged,    \* widgets with focused = True
    frames,     \* the render calls of a repaint in progress: <<widget, next child>>, 0 before its paint
                \* and -1 after its children; and -2 when the tree is painted
    seen, seenTitle, \* what the window's surface shows: widget -> its place and text, or << >>
    changes

widgetVars == <<kids, bounds, unpainted, winUnpainted, adding, texts, title, focused, flagged, frames, seen,
                seenTitle, changes>>

Parents(w) == {v \in Widgets : \E i \in DOMAIN kids[v] : kids[v][i] = w}

RECURSIVE Preorder(_), Upwards(_), PlaceOf(_)
Preorder(w) == FoldLeft(LAMBDA out, k : out \o Preorder(k), <<w>>, kids[w])
Upwards(w) == {w} \union UNION {Upwards(v) : v \in Parents(w)}

\* absolute_origin: the sum of the bounds up to the root.
PlaceOf(w) ==
    IF Parents(w) = {} THEN <<bounds[w][1], bounds[w][2]>>
    ELSE LET up == PlaceOf(CHOOSE v \in Parents(w) : TRUE) IN <<up[1] + bounds[w][1], up[2] + bounds[w][2]>>

InTree == ToSet(Preorder(Client))
WindowDirty == winUnpainted \/ unpainted \intersect InTree # {}

\* The window manager has painted the empty window, and its owner has added a VBox to it.
WidgetInit ==
    /\ kids = [w \in Widgets |-> IF w = Client THEN <<Stack>> ELSE << >>]
    /\ bounds = [w \in Widgets |-> IF w \in Inputs THEN <<0, 0, 0, InputH>>
                                   ELSE IF w = Client THEN <<FrameW, TitleH, WidgetAt[w][3], WidgetAt[w][4]>>
                                   ELSE WidgetAt[w]]
    /\ unpainted = Widgets /\ winUnpainted = TRUE /\ adding = "no"
    /\ texts = [w \in Widgets |-> 0] /\ title = 0
    /\ focused = NoWidget /\ flagged = {} /\ frames = << >>
    /\ seen = [w \in Widgets |-> IF w = Client THEN <<PlaceOf(w), 0>> ELSE << >>]
    /\ seenTitle = 0 /\ changes = 0

Changing == changes < MaxChanges /\ changes' = changes + 1
AtEvents == frames = << >>

\* add_label: Window.add appends to the client panel, makes that dirty and then the window.
AgentAddsLabel(w) ==
    /\ Changing /\ w \in Labels /\ w \notin InTree /\ adding = "no"
    /\ kids' = [kids EXCEPT ![Client] = Append(@, w)] /\ adding' = "tree"
    /\ UNCHANGED <<bounds, unpainted, winUnpainted, texts, title, focused, flagged, frames, seen, seenTitle>>
LabelInvalidates ==
    /\ adding = "tree" /\ adding' = "window"
    /\ unpainted' = unpainted \union {Client}
    /\ UNCHANGED <<kids, bounds, winUnpainted, texts, title, focused, flagged, frames, seen, seenTitle, changes>>
LabelDirtiesWindow ==
    /\ adding = "window" /\ adding' = "no"
    /\ winUnpainted' = TRUE
    /\ UNCHANGED <<kids, bounds, unpainted, texts, title, focused, flagged, frames, seen, seenTitle, changes>>

\* Label.text and set_window_title, each of them as one step; a label that was set to a text is
\* as high as its lines.
AgentSetsText(w) ==
    /\ Changing /\ w \in Labels
    /\ texts' = [texts EXCEPT ![w] = @ + 1] /\ bounds' = [bounds EXCEPT ![w][4] = @ + 1]
    /\ unpainted' = unpainted \union Upwards(w)
    /\ UNCHANGED <<kids, winUnpainted, adding, title, focused, flagged, frames, seen, seenTitle>>
AgentSetsTitle ==
    /\ Changing /\ title' = title + 1 /\ winUnpainted' = TRUE
    /\ UNCHANGED <<kids, bounds, unpainted, adding, texts, focused, flagged, frames, seen, seenTitle>>

\* VBox.add: the children are laid out one below the other.
LaidOut(seq) ==
    [w \in Widgets |->
       IF w \in ToSet(seq)
       THEN LET i == CHOOSE i \in DOMAIN seq : seq[i] = w
                above == FoldLeft(LAMBDA y, v : y + bounds[v][4] + StackGap, StackPad, SubSeq(seq, 1, i - 1))
                wide == IF bounds[w][3] = 0 THEN bounds[Stack][3] - 2 * StackPad ELSE bounds[w][3]
            IN <<StackPad, above, wide, bounds[w][4]>>
       ELSE bounds[w]]
OwnerStacks(w) ==
    /\ Changing /\ AtEvents /\ w \in Inputs /\ w \notin InTree
    /\ kids' = [kids EXCEPT ![Stack] = Append(@, w)]
    /\ bounds' = LaidOut(kids'[Stack])
    /\ unpainted' = unpainted \union {Stack, Client}
    /\ UNCHANGED <<winUnpainted, adding, texts, title, focused, flagged, frames, seen, seenTitle>>
OwnerRemoves(w) ==
    /\ Changing /\ AtEvents /\ w \in Inputs /\ w \in InTree
    /\ kids' = [kids EXCEPT ![Stack] = SelectSeq(@, LAMBDA v : v # w)]
    /\ unpainted' = unpainted \union {Stack, Client}
    /\ UNCHANGED <<bounds, winUnpainted, adding, texts, title, focused, flagged, frames, seen, seenTitle>>

\* focus_widget.
Focuses(w) ==
    IF focused = w THEN UNCHANGED <<focused, flagged, unpainted, winUnpainted>>
    ELSE /\ focused' = w /\ winUnpainted' = TRUE
         /\ flagged' = (flagged \ {focused}) \union {w}
         /\ unpainted' = unpainted \union Upwards(w) \union (IF focused = NoWidget THEN {} ELSE Upwards(focused))

\* focus_next: TAB.
PressTab ==
    LET stops == SelectSeq(Preorder(Client), LAMBDA w : w \in Inputs)
        here == {i \in DOMAIN stops : stops[i] = focused}
    IN /\ Changing /\ AtEvents /\ stops # << >>
       /\ Focuses(IF here = {} THEN stops[1] ELSE stops[((CHOOSE i \in here : TRUE) % Len(stops)) + 1])
       /\ UNCHANGED <<kids, bounds, adding, texts, title, frames, seen, seenTitle>>

\* hit_test, with a point of the client area: the last child that is hit comes first.
Encloses(w, p) == p \in Area(PlaceOf(w)[1], PlaceOf(w)[2], bounds[w][3], bounds[w][4])

RECURSIVE Hit(_, _)
Hit(w, p) ==
    LET below == [i \in DOMAIN kids[w] |-> Hit(kids[w][i], p)]
        hits == SelectSeq(below, LAMBDA v : v # NoWidget)
    IN IF ~Encloses(w, p) THEN NoWidget ELSE IF hits = << >> THEN w ELSE hits[Len(hits)]

\* on_event: a point of the window is made one of the client area.
ClickWidget(p) ==
    LET hit == Hit(Client, <<p[1] - FrameW, p[2] - TitleH>>) IN
    /\ Changing /\ AtEvents /\ hit \in Inputs
    /\ Focuses(hit)
    /\ UNCHANGED <<kids, bounds, adding, texts, title, frames, seen, seenTitle>>

\* repaint: the frame and the title, then render through the tree; a widget is clean when
\* it and all its children are painted, and the window when its tree is.
RepaintBegins ==
    /\ AtEvents /\ WindowDirty
    /\ seen' = [w \in Widgets |-> << >>] /\ seenTitle' = title
    /\ frames' = <<<<Client, 0>>>>
    /\ UNCHANGED <<kids, bounds, unpainted, winUnpainted, adding, texts, title, focused, flagged, changes>>

Top == frames[Len(frames)]
RenderPaints ==
    /\ frames # << >> /\ Top[2] = 0
    /\ seen' = [seen EXCEPT ![Top[1]] = <<PlaceOf(Top[1]), texts[Top[1]]>>]
    /\ frames' = Append(Front(frames), <<Top[1], 1>>)
    /\ UNCHANGED <<kids, bounds, unpainted, winUnpainted, adding, texts, title, focused, flagged, seenTitle, changes>>
RenderDescends ==
    /\ frames # << >> /\ Top[2] \in DOMAIN kids[Top[1]]
    /\ frames' = Front(frames) \o <<<<Top[1], Top[2] + 1>>, <<kids[Top[1]][Top[2]], 0>>>>
    /\ UNCHANGED <<kids, bounds, unpainted, winUnpainted, adding, texts, title, focused, flagged, seen, seenTitle, changes>>
\* The loop over the children is over, and one that is added now comes too late.
RenderLeaves ==
    /\ frames # << >> /\ Top[2] > Len(kids[Top[1]])
    /\ frames' = Append(Front(frames), <<Top[1], -1>>)
    /\ UNCHANGED <<kids, bounds, unpainted, winUnpainted, adding, texts, title, focused, flagged, seen, seenTitle, changes>>

AfterWidget == IF Len(frames) = 1 THEN <<<<Client, -2>>>> ELSE Front(frames)

\* A fault: everything in the tree is clean at the end, whatever was added meanwhile.
RenderEndsAll ==
    /\ frames # << >> /\ Top[2] = -1 /\ frames' = AfterWidget
    /\ unpainted' = (IF Len(frames) = 1 THEN unpainted \ InTree ELSE unpainted)
    /\ UNCHANGED <<kids, bounds, winUnpainted, adding, texts, title, focused, flagged, seen, seenTitle, changes>>

RenderEnds ==
    /\ frames # << >> /\ Top[2] = -1 /\ frames' = AfterWidget
    /\ unpainted' = unpainted \ {Top[1]}
    /\ UNCHANGED <<kids, bounds, winUnpainted, adding, texts, title, focused, flagged, seen, seenTitle, changes>>

RepaintEnds ==
    /\ frames # << >> /\ Top[2] = -2 /\ frames' = << >>
    /\ winUnpainted' = FALSE
    /\ UNCHANGED <<kids, bounds, unpainted, adding, texts, title, focused, flagged, seen, seenTitle, changes>>

WidgetNext ==
    \/ \E w \in Labels : AgentAddsLabel(w) \/ AgentSetsText(w)
    \/ LabelInvalidates \/ LabelDirtiesWindow \/ AgentSetsTitle \/ PressTab
    \/ \E w \in Inputs : OwnerStacks(w) \/ OwnerRemoves(w)
    \/ \E p \in Area(0, 0, WidgetAt[Client][3] + 2 * FrameW, WidgetAt[Client][4] + TitleH + FrameW) : ClickWidget(p)
    \/ RepaintBegins \/ RenderPaints \/ RenderDescends \/ RenderLeaves \/ RenderEnds \/ RepaintEnds

WidgetSpec == WidgetInit /\ [][WidgetNext]_widgetVars

-----------------------------------------------------------------------------
\* "Mark this widget (and ancestors) as needing repaint": a window that is not dirty shows
\* each widget of its tree at its place and no other, whenever they were added or removed;
\* only the widget that has the focus looks like it; and a click hits the widget that is
\* painted last of those that lie, with all they lie in, where the search looks.
TreeIsShown ==
    /\ AtEvents /\ ~WindowDirty =>
         \A w \in Widgets : IF w \in InTree THEN seen[w] # << >> /\ seen[w][1] = PlaceOf(w) ELSE seen[w] = << >>
    /\ flagged = {focused} \ {NoWidget}
    /\ AtEvents => \A p \in Area(0, 0, WidgetAt[Client][3] + FrameW, WidgetAt[Client][4] + TitleH) :
         LET there == SelectSeq(Preorder(Client), LAMBDA w : \A v \in Upwards(w) : Encloses(v, p))
         IN Hit(Client, p) = IF there = << >> THEN NoWidget ELSE there[Len(there)]

\* The texts and the title as well.
TextsAreShown ==
    AtEvents /\ ~WindowDirty => seenTitle = title /\ \A w \in InTree : seen[w] # << >> => seen[w][2] = texts[w]

\* "Return the top-most visible widget containing absolute point": a click reaches the widget
\* that the window shows there.
ClickReachesShown ==
    \A p \in Area(FrameW, TitleH, WidgetAt[Client][3], WidgetAt[Client][4]), w \in Inputs \intersect InTree :
        (Encloses(w, p) /\ \A v \in Labels \intersect InTree : ~Encloses(v, p))
           => Hit(Client, <<p[1] - FrameW, p[2] - TitleH>>) = w

\* "Cycle focus among focusable widgets in the client tree": keys go to a widget of the tree.
FocusInTree == focused # NoWidget => focused \in InTree

\* "Stacks children top-to-bottom with a fixed gap".
StackedWithGap ==
    \A i \in DOMAIN kids[Stack] :
        IF i = 1 THEN bounds[kids[Stack][1]][2] = StackPad
        ELSE LET a == bounds[kids[Stack][i - 1]] b == bounds[kids[Stack][i]]
             IN b[2] = a[2] + a[4] + StackGap

-----------------------------------------------------------------------------
(***************************************************************************)
(* DisplayManager's start and stop, called by agents, with the render loop *)
(* that start leaves running and the terminal that both of them change.    *)
(* start holds the lock all along; stop has it for its first assignment    *)
(* only, and waits a bounded time for the loop.  A QUIT event ends the     *)
(* loop without a stop.  display_tick, a frame that an agent asks for      *)
(* itself, is left out.                                                    *)
(***************************************************************************)
CONSTANTS Starters, MaxStarts

VARIABLES
    serving,    \* _running
    renderLoops,      \* render loop -> where it is: "none", "test", "tick", "present" or "ended"
    current,    \* the number of the loop that _thread is, 0 for None
    onAlt,      \* the driver has entered the alternate screen
    rawInput,   \* the terminal is raw and the input thread runs
    stopping,   \* agent -> where its start() or stop() is, and the loop that a stop waits for
    starts,
    restored,   \* history: the last call that ended is a stop, or none was made
    disturbed,  \* history: two calls overlapped, a wait for a loop was given up, or a start
                \* came before a loop that a QUIT event ends had ended
    spilled     \* history: a frame was written to the normal screen

serverVars == <<serving, renderLoops, current, onAlt, rawInput, stopping, starts, restored, disturbed, spilled>>

NotStopping == [at |-> "idle", loop |-> 0]

ServerInit ==
    /\ serving = FALSE /\ renderLoops = [l \in 1..MaxStarts |-> "none"] /\ current = 0
    /\ onAlt = FALSE /\ rawInput = FALSE
    /\ stopping = [a \in Starters |-> NotStopping] /\ starts = 0 /\ restored = TRUE /\ disturbed = FALSE /\ spilled = FALSE

CallsOverlap(a) == \E b \in Starters \ {a} : stopping[b].at # "idle"

RunningLoops == {l \in 1..MaxStarts : renderLoops[l] \in {"test", "tick", "present"}}

\* _lock is free.
DisplayLockFree == \A a \in Starters : stopping[a].at \notin {"starting", "launching"}

StartBegins(a) ==
    /\ stopping[a].at = "idle" /\ DisplayLockFree /\ ~serving /\ starts < MaxStarts
    /\ onAlt' = TRUE /\ restored' = FALSE
    /\ stopping' = [stopping EXCEPT ![a].at = "starting"]
    /\ disturbed' = (disturbed \/ CallsOverlap(a) \/ RunningLoops # {})
    /\ UNCHANGED <<serving, renderLoops, current, rawInput, starts, spilled>>

StartInput(a) ==
    /\ stopping[a].at = "starting" /\ rawInput' = TRUE
    /\ stopping' = [stopping EXCEPT ![a].at = "launching"]
    /\ UNCHANGED <<serving, renderLoops, current, onAlt, starts, restored, disturbed, spilled>>

StartLaunches(a) ==
    /\ stopping[a].at = "launching" /\ serving' = TRUE
    /\ starts' = starts + 1
    /\ current' = starts + 1 /\ renderLoops' = [renderLoops EXCEPT ![starts + 1] = "test"]
    /\ stopping' = [stopping EXCEPT ![a] = NotStopping]
    /\ UNCHANGED <<onAlt, rawInput, restored, disturbed, spilled>>

StopBegins(a) ==
    /\ stopping[a].at = "idle" /\ DisplayLockFree /\ serving' = FALSE
    /\ stopping' = [stopping EXCEPT ![a] = [at |-> "reading", loop |-> 0]]
    /\ disturbed' = (disturbed \/ CallsOverlap(a))
    /\ UNCHANGED <<renderLoops, current, onAlt, rawInput, starts, restored, spilled>>

\* A fault: the loop is not waited for.
StopReadsNone(a) ==
    /\ stopping[a].at = "reading"
    /\ stopping' = [stopping EXCEPT ![a] = [at |-> "input", loop |-> current]]
    /\ UNCHANGED <<serving, renderLoops, current, onAlt, rawInput, starts, restored, disturbed, spilled>>

StopReads(a) ==
    /\ stopping[a].at = "reading"
    /\ stopping' = [stopping EXCEPT ![a] = [at |-> IF current = 0 THEN "input" ELSE "joining", loop |-> current]]
    /\ UNCHANGED <<serving, renderLoops, current, onAlt, rawInput, starts, restored, disturbed, spilled>>

\* join returns when the loop has ended, or after eight frames' time.
StopJoined(a) ==
    /\ stopping[a].at = "joining"
    /\ stopping' = [stopping EXCEPT ![a].at = "input"]
    /\ disturbed' = (disturbed \/ renderLoops[stopping[a].loop] # "ended")
    /\ UNCHANGED <<serving, renderLoops, current, onAlt, rawInput, starts, restored, spilled>>

StopInput(a) ==
    /\ stopping[a].at = "input" /\ rawInput' = FALSE
    /\ stopping' = [stopping EXCEPT ![a].at = "screen"]
    /\ UNCHANGED <<serving, renderLoops, current, onAlt, starts, restored, disturbed, spilled>>

StopScreen(a) ==
    /\ stopping[a].at = "screen" /\ onAlt' = FALSE
    /\ stopping' = [stopping EXCEPT ![a] = NotStopping] /\ restored' = TRUE
    /\ UNCHANGED <<serving, renderLoops, current, rawInput, starts, disturbed, spilled>>

\* _run_loop, and tick with its output at the end.
LoopTests(l) ==
    /\ renderLoops[l] = "test" /\ renderLoops' = [renderLoops EXCEPT ![l] = IF serving THEN "tick" ELSE "ended"]
    /\ UNCHANGED <<serving, current, onAlt, rawInput, stopping, starts, restored, disturbed, spilled>>
LoopTicks(l) ==
    /\ renderLoops[l] = "tick" /\ \E next \in {"present", "test"} : renderLoops' = [renderLoops EXCEPT ![l] = next]
    /\ UNCHANGED <<serving, current, onAlt, rawInput, stopping, starts, restored, disturbed, spilled>>
LoopQuits(l) ==
    /\ renderLoops[l] = "tick" /\ serving' = FALSE
    /\ UNCHANGED <<renderLoops, current, onAlt, rawInput, stopping, starts, restored, disturbed, spilled>>
LoopPresents(l) ==
    /\ renderLoops[l] = "present" /\ renderLoops' = [renderLoops EXCEPT ![l] = "test"]
    /\ spilled' = (spilled \/ ~onAlt)
    /\ UNCHANGED <<serving, current, onAlt, rawInput, stopping, starts, restored, disturbed>>

ServerNext ==
    \/ \E a \in Starters :
         \/ StartBegins(a) \/ StartInput(a) \/ StartLaunches(a)
         \/ StopBegins(a) \/ StopReads(a) \/ StopJoined(a) \/ StopInput(a) \/ StopScreen(a)
    \/ \E l \in 1..MaxStarts : LoopTests(l) \/ LoopTicks(l) \/ LoopQuits(l) \/ LoopPresents(l)

ServerSpec == ServerInit /\ [][ServerNext]_serverVars

-----------------------------------------------------------------------------
ScreenIsOurs == ~spilled /\ (serving => onAlt /\ rawInput) /\ Cardinality(RunningLoops) <= 1

\* "Start the display server: enter device mode, begin input, and launch the render loop
\* thread" and "Stop the render loop, restore terminal state, release input": as long as calls
\* do not overlap and a loop ends in time, one loop draws, on the alternate screen, and
\* when stop has returned there is none and the terminal is as it was.
StopRestores ==
    ~disturbed =>
        /\ ScreenIsOurs
        /\ (\A a \in Starters : stopping[a].at = "idle") /\ restored => RunningLoops = {} /\ ~onAlt /\ ~rawInput
=============================================================================
