------------------------------- MODULE Terminal -------------------------------
(***************************************************************************)
(* The terminal of os/desktop/aios_desktop.py.  The poll thread feeds what *)
(* it has read to AnsiParser, which keeps an incomplete sequence for the   *)
(* next call, and TerminalSurface applies the parsed events to a grid of   *)
(* cells.  A shift or a scroll moves the cell OBJECTS of the grid, and     *)
(* writing a character changes one in place, so the grid is modelled with  *)
(* the identities of its cells.                                            *)
(*                                                                         *)
(* A byte is "ESC", "BEL", "LF", "lead" or "cont" of a two-byte UTF-8      *)
(* character, or the character it stands for.                              *)
(***************************************************************************)
EXTENDS Integers, Sequences, FiniteSets, SequencesExt

CONSTANTS
  Bytes,           \* what the shell may write
  MaxBytes,        \* bound on its length
  Rows, Cols,
  Chars,           \* what may be written into cells
  MaxEdits         \* bound on the events applied to the grid

ASSUME TerminalAssumption == Rows > 1 /\ Cols > 1

VARIABLES
  written,     \* history: the bytes the parser was given
  unread,      \* bytes in the queue of the PTY
  rest,        \* the parser's _buf
  parsed,      \* history: the events it returned
  cellGrid, cellOf,\* position -> cell, cell -> character
  cx, cy, top, bot,
  plain,       \* history: what a terminal without shared cells shows
  edits

parserVars == <<written, unread, rest, parsed>>
gridVars == <<cellGrid, cellOf, cx, cy, top, bot, plain, edits>>

(******************************** The parser *******************************)
Digits == {"0", "1", "2"}
Params == Digits \cup {";", "?", "!", ">", " "}
Event(name, arg) == <<name, arg>>

\* The letters that stand for an event after CSI and after SS3.
CsiNames == [A |-> "CURSOR_UP", B |-> "CURSOR_DOWN", C |-> "CURSOR_FWD", D |-> "CURSOR_BACK",
             H |-> "CURSOR_POS", K |-> "ERASE_LINE", M |-> "DELETE_LINES", P |-> "DELETE_CHARS"]
Ss3Names == [A |-> "CURSOR_UP", B |-> "CURSOR_DOWN", C |-> "CURSOR_FWD", D |-> "CURSOR_BACK",
             H |-> "CURSOR_POS", P |-> "F1"]

Csi(f, p) == IF f \in DOMAIN CsiNames THEN <<Event(CsiNames[f], p)>> ELSE << >>

\* What feed does at the first byte of b: the events, the bytes consumed, and
\* whether it waits for more.
Token(events, used) == [events |-> events, used |-> used, waits |-> FALSE]
Waits == [events |-> << >>, used |-> 0, waits |-> TRUE]

CsiToken(b) ==
  LET finals == {j \in 3 .. Len(b) : b[j] \notin Params} IN
  IF finals = {} THEN Waits
  ELSE LET j == CHOOSE j \in finals : \A k \in finals : j <= k
       IN Token(Csi(b[j], SubSeq(b, 3, j - 1)), j)

Ss3Token(b) ==
  IF Len(b) < 3 THEN Waits
  ELSE Token(IF b[3] \in DOMAIN Ss3Names THEN <<Event(Ss3Names[b[3]], <<"1">>)>> ELSE << >>, 3)

\* An operating system command is skipped up to BEL or the string terminator, or
\* else up to the end of what has been read so far.
OscToken(b) ==
  LET ends == {j \in 3 .. Len(b) : b[j] = "BEL" \/ (b[j] = "ESC" /\ j < Len(b) /\ b[j + 1] = "\\")} IN
  IF ends = {} THEN Token(<< >>, Len(b))
  ELSE LET j == CHOOSE j \in ends : \A k \in ends : j <= k
           after == IF b[j] = "BEL" THEN j ELSE j + 1
       IN Token(<< >>, IF b[j] = "ESC" /\ after < Len(b) /\ b[after + 1] = "BEL" THEN after + 1 ELSE after)

EscapeToken(b) ==
  IF Len(b) < 2 THEN Waits
  ELSE CASE b[2] = "["        -> CsiToken(b)
         [] b[2] = "O"        -> Ss3Token(b)
         [] b[2] = "]"        -> OscToken(b)
         [] b[2] = "M"        -> Token(<<Event("REVERSE_INDEX", << >>)>>, 2)
         [] b[2] = "c"        -> Token(<<Event("RESET", << >>)>>, 2)
         [] b[2] \in {"(", ")"} -> Token(<< >>, IF Len(b) > 2 THEN 3 ELSE 2)
         [] OTHER             -> Token(<< >>, 2)

Utf8Token(b) ==
  IF Len(b) < 2 THEN Waits
  ELSE Token(<<Event("CHAR", <<IF b[2] = "cont" THEN "accented" ELSE "?">>)>>, 2)

\* A fault: an incomplete character is not kept for the next chunk.
FirstTokenHasty(b) ==
  CASE b[1] = "ESC"  -> EscapeToken(b)
    [] b[1] = "lead" -> IF Len(b) < 2 THEN Token(<<Event("CHAR", <<"?">>)>>, 1) ELSE Utf8Token(b)
    [] b[1] = "cont" -> Token(<< >>, 1)
    [] b[1] = "LF"   -> Token(<<Event("LF", << >>)>>, 1)
    [] b[1] = "BEL"  -> Token(<<Event("BEL", << >>)>>, 1)
    [] OTHER         -> Token(<<Event("CHAR", <<b[1]>>)>>, 1)

FirstToken(b) ==
  CASE b[1] = "ESC"  -> EscapeToken(b)
    [] b[1] = "lead" -> Utf8Token(b)
    [] b[1] = "cont" -> Token(<< >>, 1)   \* continuation byte without starter
    [] b[1] = "LF"   -> Token(<<Event("LF", << >>)>>, 1)
    [] b[1] = "BEL"  -> Token(<<Event("BEL", << >>)>>, 1)
    [] OTHER         -> Token(<<Event("CHAR", <<b[1]>>)>>, 1)

RECURSIVE Parse(_)
Parse(b) ==
  IF b = << >> \/ FirstToken(b).waits THEN [events |-> << >>, rest |-> b]
  ELSE LET t == FirstToken(b)
           more == Parse(SubSeq(b, t.used + 1, Len(b)))
       IN [more EXCEPT !.events = t.events \o @]

ParserInit == written = << >> /\ unread = << >> /\ rest = << >> /\ parsed = << >>

Writes(b) ==
  /\ Len(written) + Len(unread) < MaxBytes /\ unread' = Append(unread, b)
  /\ UNCHANGED <<written, rest, parsed>>

\* The poll loop: all pending chunks, joined, are fed to the parser.
Feed ==
  /\ unread # << >> /\ unread' = << >> /\ written' = written \o unread
  /\ LET p == Parse(rest \o unread) IN rest' = p.rest /\ parsed' = parsed \o p.events

(********************************* The grid ********************************)
Positions == (0 .. Rows - 1) \X (0 .. Cols - 1)   \* <<y, x>>
Cells == 1 .. 2 * Rows * Cols
Blank == " "
Smaller(a, b) == IF a < b THEN a ELSE b
Larger(a, b) == IF a < b THEN b ELSE a

\* What new _Cells at the positions of ps give once the others hold moved: cells
\* that nothing refers to any more are reused for the new ones.
Before(p, q) == p[1] < q[1] \/ (p[1] = q[1] /\ p[2] < q[2])
Fresh(moved, ps) ==
  LET spare == Cells \ {moved[p] : p \in Positions \ ps} IN
  [p \in ps |-> CHOOSE c \in spare :
                  Cardinality({d \in spare : d < c}) = Cardinality({q \in ps : Before(q, p)})]

Renewed(chars, moved, ps) ==
  LET fresh == Fresh(moved, ps) IN
  /\ cellGrid' = [p \in Positions |-> IF p \in ps THEN fresh[p] ELSE moved[p]]
  /\ cellOf' = [c \in Cells |-> IF \E p \in Positions \ ps : moved[p] = c THEN chars[c] ELSE Blank]

\* _scroll_up and _scroll_down by one line, within the scroll region.
ScrolledUp == [p \in Positions |-> IF p[1] \in top .. bot - 1 THEN cellGrid[<<p[1] + 1, p[2]>>] ELSE cellGrid[p]]
ScrolledDown == [p \in Positions |-> IF p[1] \in top + 1 .. bot THEN cellGrid[<<p[1] - 1, p[2]>>] ELSE cellGrid[p]]
GridRow(y) == {p \in Positions : p[1] = y}

\* The same on values, row by row.
RowsOf(chars) == [y \in 1 .. Rows |-> [x \in 1 .. Cols |-> chars[<<y - 1, x - 1>>]]]
BlankRow == [x \in 1 .. Cols |-> Blank]
FromRows(rs) == [p \in Positions |-> rs[p[1] + 1][p[2] + 1]]
PlainRows == RowsOf(plain)
PlainRow(y) == PlainRows[y + 1]
PlainUp(rs) == InsertAt(RemoveAt(rs, top + 1), bot + 1, BlankRow)
PlainDown(rs) == InsertAt(RemoveAt(rs, bot + 1), top + 1, BlankRow)
WithRow(rs, y, r) == [rs EXCEPT ![y + 1] = r]

GridInit ==
  /\ cellGrid = [p \in Positions |-> p[1] * Cols + p[2] + 1]
  /\ cellOf = [c \in Cells |-> Blank]
  /\ cx = 0 /\ cy = 0 /\ top = 0 /\ bot = Rows - 1
  /\ plain = [p \in Positions |-> Blank] /\ edits = 0

Edits == edits < MaxEdits /\ edits' = edits + 1
Stays == UNCHANGED <<cx, cy, top, bot>>

Written(ch) == [cellOf EXCEPT ![cellGrid[<<cy, cx>>]] = ch]
PlainWritten(ch) == [plain EXCEPT ![<<cy, cx>>] = ch]

\* _put_char: the cell's attributes are set in place; at the end of a line the
\* cursor goes on to the next one, scrolling on the last line of the region.
PutChar(ch) ==
  /\ Edits /\ UNCHANGED <<top, bot>>
  /\ IF cx < Cols - 1
     THEN /\ cellOf' = Written(ch) /\ plain' = PlainWritten(ch) /\ cx' = cx + 1
          /\ UNCHANGED <<cellGrid, cy>>
     ELSE /\ cx' = 0
          /\ IF cy < bot
             THEN /\ cy' = cy + 1 /\ cellOf' = Written(ch) /\ plain' = PlainWritten(ch)
                  /\ UNCHANGED cellGrid
             ELSE /\ cy' = cy /\ Renewed(Written(ch), ScrolledUp, GridRow(bot))
                  /\ plain' = FromRows(PlainUp(RowsOf(PlainWritten(ch))))

LineFeed ==
  /\ Edits /\ UNCHANGED <<cx, top, bot>>
  /\ IF cy < bot THEN cy' = cy + 1 /\ UNCHANGED <<cellGrid, cellOf, plain>>
     ELSE /\ cy' = cy /\ Renewed(cellOf, ScrolledUp, GridRow(bot)) /\ plain' = FromRows(PlainUp(PlainRows))

ReverseIndex ==
  /\ Edits /\ UNCHANGED <<cx, top, bot>>
  /\ IF cy > top THEN cy' = cy - 1 /\ UNCHANGED <<cellGrid, cellOf, plain>>
     ELSE /\ cy' = cy /\ Renewed(cellOf, ScrolledDown, GridRow(top)) /\ plain' = FromRows(PlainDown(PlainRows))

\* The cells of the cursor's line from x in xs are those n to their right.
LineShifted(xs, n) ==
  [p \in Positions |-> IF p[1] = cy /\ p[2] \in xs THEN cellGrid[<<cy, p[2] + n>>] ELSE cellGrid[p]]
CellsOfLine(xs) == {p \in GridRow(cy) : p[2] \in xs}
Cut(row) == FromRows(WithRow(PlainRows, cy, SubSeq(row, 1, Cols)))

\* A fault: the first of the cells at the end of the line is not renewed.
DeleteCharsShort(n) ==
  /\ Edits /\ Stays
  /\ Renewed(cellOf, LineShifted(cx .. Cols - n - 1, n), CellsOfLine(Larger(cx, Cols - n) + 1 .. Cols - 1))
  /\ plain' = Cut(SubSeq(PlainRow(cy), 1, cx) \o SubSeq(PlainRow(cy), cx + n + 1, Cols) \o BlankRow)

DeleteChars(n) ==
  /\ Edits /\ Stays
  /\ Renewed(cellOf, LineShifted(cx .. Cols - n - 1, n), CellsOfLine(Larger(cx, Cols - n) .. Cols - 1))
  /\ plain' = Cut(SubSeq(PlainRow(cy), 1, cx) \o SubSeq(PlainRow(cy), cx + n + 1, Cols) \o BlankRow)

InsertChars(n) ==
  /\ Edits /\ Stays
  /\ Renewed(cellOf, LineShifted(cx + n .. Cols - 1, -n), CellsOfLine(cx .. Smaller(cx + n, Cols) - 1))
  /\ plain' = Cut(SubSeq(PlainRow(cy), 1, cx) \o SubSeq(BlankRow, 1, Smaller(n, Cols))
                  \o SubSeq(PlainRow(cy), cx + 1, Cols))

\* SCROLL_UP and DELETE_LINES, SCROLL_DOWN and INSERT_LINES, by one line.
ScrollUp ==
  /\ Edits /\ Stays /\ Renewed(cellOf, ScrolledUp, GridRow(bot)) /\ plain' = FromRows(PlainUp(PlainRows))
ScrollDown ==
  /\ Edits /\ Stays /\ Renewed(cellOf, ScrolledDown, GridRow(top)) /\ plain' = FromRows(PlainDown(PlainRows))

\* ERASE_LINE and ERASE_SCREEN, with the rectangles the code erases.
Erased(ps) ==
  /\ Renewed(cellOf, cellGrid, ps)
  /\ plain' = [p \in Positions |-> IF p \in ps THEN Blank ELSE plain[p]]

EraseLine(mode) ==
  /\ Edits /\ Stays
  /\ Erased({p \in GridRow(cy) : CASE mode = 0 -> p[2] >= cx [] mode = 1 -> p[2] <= cx [] mode = 2 -> TRUE})

EraseScreen(mode) ==
  /\ Edits /\ UNCHANGED <<top, bot>>
  /\ Erased({p \in Positions : CASE mode = 0 -> p[1] >= cy /\ p[2] >= cx
                                 [] mode = 1 -> p[1] <= cy /\ p[2] <= cx
                                 [] mode = 2 -> TRUE})
  /\ IF mode = 2 THEN cx' = 0 /\ cy' = 0 ELSE UNCHANGED <<cx, cy>>

CursorPos(y, x) ==
  /\ Edits /\ cy' = y /\ cx' = x /\ UNCHANGED <<cellGrid, cellOf, top, bot, plain>>

SetScrollRegion(t, b) ==
  /\ Edits /\ top' = t /\ bot' = Larger(t, b) /\ cx' = 0 /\ cy' = 0
  /\ UNCHANGED <<cellGrid, cellOf, plain>>

Reset ==
  /\ Edits /\ Erased(Positions) /\ cx' = 0 /\ cy' = 0 /\ top' = 0 /\ bot' = Rows - 1

GridNext ==
  \/ \E ch \in Chars : PutChar(ch)
  \/ LineFeed \/ ReverseIndex \/ ScrollUp \/ ScrollDown \/ Reset
  \/ \E n \in 1 .. Cols + 1 : DeleteChars(n) \/ InsertChars(n)
  \/ \E mode \in 0 .. 2 : EraseLine(mode) \/ EraseScreen(mode)
  \/ \E p \in Positions : CursorPos(p[1], p[2])
  \/ \E t, b \in 0 .. Rows - 1 : SetScrollRegion(t, b)

GridSpec == GridInit /\ [][GridNext]_gridVars
ParserNext == (\E b \in Bytes : Writes(b)) \/ Feed
ParserSpec == ParserInit /\ [][ParserNext]_parserVars

------------------------------------------------------------------------------
Commands == \E i \in DOMAIN written : i < Len(written) /\ written[i] = "ESC" /\ written[i + 1] \in {"]", "(", ")"}

\* "Incremental VT100/VT220 CSI/SGR decoder" (aios_desktop.py:699): how the
\* shell's output was cut into chunks makes no difference, as long as it has no
\* operating system command and no character set selection.
ChunksDoNotMatter ==
  ~Commands => LET whole == Parse(written) IN parsed = whole.events /\ rest = whole.rest

\* The same for every output ("Handles: CSI cursor/erase/scroll/insert/delete,
\* OSC title", aios_desktop.py:701).
AnyChunksDoNotMatter ==
  LET whole == Parse(written) IN parsed = whole.events /\ rest = whole.rest

\* "All VT100/VT220 cursor movement, erase, and scroll operations operate on this
\* grid" (aios_desktop.py:863): no two positions come to share a cell, and the
\* grid shows what the same operations on the characters themselves give.
CellsAreApart ==
  /\ \A p, q \in Positions : cellGrid[p] = cellGrid[q] => p = q
  /\ \A p \in Positions : cellOf[cellGrid[p]] = plain[p]

------------------------------------------------------------------------------
(***************************************************************************)
(* SgrState: the parameters of a "select graphic rendition" sequence, read *)
(* one after the other; 38 and 48 take those that follow for a colour.     *)
(* Colours are known by the parameters that select them.                   *)
(***************************************************************************)
CONSTANTS SgrCodes, MaxSgr

VARIABLES sgrGiven    \* the parameters so far

PlainSgr == [fg |-> << >>, bg |-> << >>, bold |-> FALSE, italic |-> FALSE, underline |-> FALSE, reverse |-> FALSE]

\* How many of the parameters from the first of ns on stand for a colour, with 38 or 48.
Extended(ns) ==
  IF Len(ns) >= 3 /\ ns[2] = 5 THEN 3 ELSE IF Len(ns) >= 5 /\ ns[2] = 2 THEN 5 ELSE 1

ColourOf(ns) == IF Extended(ns) = 1 THEN << >> ELSE SubSeq(ns, 2, Extended(ns))

\* The attribute that a parameter of its own sets.
Attributed(st, n) ==
  CASE n = 0  -> PlainSgr
    [] n = 1  -> [st EXCEPT !.bold = TRUE]      [] n = 22 -> [st EXCEPT !.bold = FALSE]
    [] n = 3  -> [st EXCEPT !.italic = TRUE]    [] n = 23 -> [st EXCEPT !.italic = FALSE]
    [] n = 4  -> [st EXCEPT !.underline = TRUE] [] n = 24 -> [st EXCEPT !.underline = FALSE]
    [] n = 7  -> [st EXCEPT !.reverse = TRUE]   [] n = 27 -> [st EXCEPT !.reverse = FALSE]
    [] n \in 30 .. 37 \cup 90 .. 97   -> [st EXCEPT !.fg = <<n>>]
    [] n \in 40 .. 47 \cup 100 .. 107 -> [st EXCEPT !.bg = <<n - 10>>]
    [] n = 39 -> [st EXCEPT !.fg = << >>]       [] n = 49 -> [st EXCEPT !.bg = << >>]
    [] OTHER  -> st

\* A fault: the components of a true colour are read as parameters as well.
RECURSIVE ApplySgrShort(_, _), ApplySgr(_, _)
ApplySgrShort(st, ns) ==
  IF ns = << >> THEN st
  ELSE LET n == Head(ns)
           used == IF n \in {38, 48} /\ Extended(ns) > 1 THEN 3 ELSE 1
           colour == IF ColourOf(ns) = << >> THEN st
                     ELSE IF n = 38 THEN [st EXCEPT !.fg = ColourOf(ns)] ELSE [st EXCEPT !.bg = ColourOf(ns)]
       IN ApplySgrShort(IF n \in {38, 48} THEN colour ELSE Attributed(st, n), SubSeq(ns, used + 1, Len(ns)))

\* apply_sgr.
ApplySgr(st, ns) ==
  IF ns = << >> THEN st
  ELSE LET n == Head(ns)
           used == IF n \in {38, 48} THEN Extended(ns) ELSE 1
           colour == IF ColourOf(ns) = << >> THEN st
                     ELSE IF n = 38 THEN [st EXCEPT !.fg = ColourOf(ns)] ELSE [st EXCEPT !.bg = ColourOf(ns)]
       IN ApplySgr(IF n \in {38, 48} THEN colour ELSE Attributed(st, n), SubSeq(ns, used + 1, Len(ns)))

SgrInit == sgrGiven = << >>
SgrNext == Len(sgrGiven) < MaxSgr /\ \E n \in SgrCodes : sgrGiven' = Append(sgrGiven, n)
SgrSpec == SgrInit /\ [][SgrNext]_sgrGiven

\* The parameters that are not part of a colour.
OwnPlaces(ns) ==
  LET own[i \in 1 .. Len(ns)] ==
        \A j \in 1 .. i - 1 : own[j] /\ ns[j] \in {38, 48} => j + Extended(SubSeq(ns, j, Len(ns))) <= i
  IN {i \in 1 .. Len(ns) : own[i]}

\* "SGR state tracks Color objects" and attributes (aios_desktop.py:612): each of them is
\* what the last parameter about it says, and no component of a colour is such a parameter.
LastParameterCounts ==
  LET ns == sgrGiven
      st == ApplySgr(PlainSgr, ns)
      LastOf(codes) == CHOOSE i \in 0 .. Len(ns) :
                       /\ i \in {0} \cup {j \in OwnPlaces(ns) : ns[j] \in codes}
                       /\ \A j \in OwnPlaces(ns) : ns[j] \in codes => j <= i
      Colour(code, plainCodes, off) ==
        LET far == {i \in OwnPlaces(ns) : ns[i] = code /\ ColourOf(SubSeq(ns, i, Len(ns))) # << >>}
            near == LastOf(plainCodes \cup off)
        IN IF \E i \in far : i > near
           THEN ColourOf(SubSeq(ns, CHOOSE i \in far : \A j \in far : j <= i, Len(ns)))
           ELSE IF near = 0 \/ ns[near] \in off THEN << >>
           ELSE <<IF code = 48 THEN ns[near] - 10 ELSE ns[near]>>
  IN /\ st.bold = (LastOf({1}) > LastOf({0, 22}))      /\ st.italic = (LastOf({3}) > LastOf({0, 23}))
     /\ st.underline = (LastOf({4}) > LastOf({0, 24})) /\ st.reverse = (LastOf({7}) > LastOf({0, 27}))
     /\ st.fg = Colour(38, 30 .. 37 \cup 90 .. 97, {0, 39})
     /\ st.bg = Colour(48, 40 .. 47 \cup 100 .. 107, {0, 49})

\* A colour that is cut off takes none of what is left for attributes of its own.
CutColourIsNothing ==
  \A n \in OwnPlaces(sgrGiven) :
    sgrGiven[n] = 38 /\ Extended(SubSeq(sgrGiven, n, Len(sgrGiven))) = 1
      => ApplySgr(PlainSgr, sgrGiven) = ApplySgr(PlainSgr, SubSeq(sgrGiven, 1, n - 1))

------------------------------------------------------------------------------
(***************************************************************************)
(* PtyManager: the reader thread takes the shell's output from the master  *)
(* side of a pseudo terminal to a bounded queue, the poll thread empties   *)
(* it, and stop ends the shell, closes the descriptor and waits.  Another  *)
(* terminal that is opened gets the lowest number that is free.            *)
(***************************************************************************)
CONSTANTS PtyQueueMax, MaxShellWrites

VARIABLES
  shellWrote,  \* history: the number of chunks the shell wrote
  inKernel,    \* chunks in the pseudo terminal, 0 for one of another terminal
  ptyQueue,    \* _q
  ptyHeld,     \* the chunk the reader is putting
  received,    \* history: the chunks the poll thread read
  readerAt,    \* "test", "select", "got", "put" or "ended"
  ptyAlive,    \* _alive
  shellRuns,
  master,      \* master_fd: "open", "closed" (its number still there) or "none"
  reused,       \* another terminal has been given the number
  stopAt       \* where stop() is

ptyVars == <<shellWrote, inKernel, ptyQueue, ptyHeld, received, readerAt, ptyAlive, shellRuns, master, reused, stopAt>>

PtyInit ==
  /\ shellWrote = 0 /\ inKernel = << >> /\ ptyQueue = << >> /\ ptyHeld = << >> /\ received = << >>
  /\ readerAt = "test" /\ ptyAlive = TRUE /\ shellRuns = TRUE /\ master = "open" /\ reused = FALSE
  /\ stopAt = "begin"

ShellWrites ==
  /\ shellRuns /\ shellWrote < MaxShellWrites /\ master = "open"
  /\ shellWrote' = shellWrote + 1 /\ inKernel' = Append(inKernel, shellWrote + 1)
  /\ UNCHANGED <<ptyQueue, ptyHeld, received, readerAt, ptyAlive, shellRuns, master, reused, stopAt>>
ShellExits ==
  /\ shellRuns /\ shellRuns' = FALSE
  /\ UNCHANGED <<shellWrote, inKernel, ptyQueue, ptyHeld, received, readerAt, ptyAlive, master, reused, stopAt>>

ReaderTests ==
  /\ readerAt = "test"
  /\ readerAt' = IF ptyAlive /\ master # "none" THEN "select" ELSE "ended"
  /\ UNCHANGED <<shellWrote, inKernel, ptyQueue, ptyHeld, received, ptyAlive, shellRuns, master, reused, stopAt>>

\* select and read: nothing yet, a chunk, the end of the output, a closed descriptor, or
\* None, for which select raises what nothing catches.
ReaderReads ==
  /\ readerAt = "select"
  /\ CASE master = "none" -> readerAt' = "ended" /\ UNCHANGED <<ptyAlive, ptyHeld, inKernel>>
       [] master = "closed" /\ ~reused -> readerAt' = "ended" /\ ptyAlive' = FALSE /\ UNCHANGED <<ptyHeld, inKernel>>
       [] master = "closed" /\ reused -> readerAt' = "got" /\ ptyHeld' = <<0>> /\ UNCHANGED <<ptyAlive, inKernel>>
       [] master = "open" /\ inKernel # << >> ->
            readerAt' = "got" /\ ptyHeld' = <<Head(inKernel)>> /\ inKernel' = Tail(inKernel) /\ UNCHANGED ptyAlive
       [] master = "open" /\ inKernel = << >> /\ ~shellRuns ->
            readerAt' = "ended" /\ ptyAlive' = FALSE /\ UNCHANGED <<ptyHeld, inKernel>>
       [] OTHER -> readerAt' = "test" /\ UNCHANGED <<ptyAlive, ptyHeld, inKernel>>
  /\ UNCHANGED <<shellWrote, ptyQueue, received, shellRuns, master, reused, stopAt>>

\* The chunk is given up once stop was called, and put otherwise.
ReaderTries ==
  /\ readerAt = "got"
  /\ IF ptyAlive THEN readerAt' = "put" /\ UNCHANGED ptyHeld ELSE readerAt' = "test" /\ ptyHeld' = << >>
  /\ UNCHANGED <<shellWrote, inKernel, ptyQueue, received, ptyAlive, shellRuns, master, reused, stopAt>>

\* A fault: a chunk that finds the queue full is dropped.
ReaderDrops ==
  /\ readerAt = "put" /\ readerAt' = "test" /\ ptyHeld' = << >>
  /\ ptyQueue' = IF Len(ptyQueue) < PtyQueueMax THEN ptyQueue \o ptyHeld ELSE ptyQueue
  /\ UNCHANGED <<shellWrote, inKernel, received, ptyAlive, shellRuns, master, reused, stopAt>>

\* put with its timeout: a full queue leads back to the test.
ReaderPuts ==
  /\ readerAt = "put"
  /\ IF Len(ptyQueue) < PtyQueueMax
     THEN ptyQueue' = ptyQueue \o ptyHeld /\ readerAt' = "test" /\ ptyHeld' = << >>
     ELSE readerAt' = "got" /\ UNCHANGED <<ptyQueue, ptyHeld>>
  /\ UNCHANGED <<shellWrote, inKernel, received, ptyAlive, shellRuns, master, reused, stopAt>>

ReadPending ==
  /\ ptyQueue # << >> /\ received' = received \o ptyQueue /\ ptyQueue' = << >>
  /\ UNCHANGED <<shellWrote, inKernel, ptyHeld, readerAt, ptyAlive, shellRuns, master, reused, stopAt>>

\* stop, which waits for the shell and for the reader no longer than two seconds each.
StopPty ==
  /\ CASE stopAt = "begin"  -> ptyAlive' = FALSE /\ stopAt' = "ending" /\ UNCHANGED <<shellRuns, master>>
       [] stopAt = "ending" -> shellRuns' \in {FALSE, shellRuns} /\ stopAt' = "close" /\ UNCHANGED <<ptyAlive, master>>
       [] stopAt = "close"  -> master' = "closed" /\ stopAt' = "forget" /\ UNCHANGED <<ptyAlive, shellRuns>>
       [] stopAt = "forget" -> master' = "none" /\ stopAt' = "join" /\ UNCHANGED <<ptyAlive, shellRuns>>
       [] stopAt = "join"   -> stopAt' = "done" /\ UNCHANGED <<ptyAlive, shellRuns, master>>
       [] OTHER             -> FALSE
  /\ UNCHANGED <<shellWrote, inKernel, ptyQueue, ptyHeld, received, readerAt, reused>>

OtherOpens ==
  /\ master = "closed" /\ ~reused /\ reused' = TRUE
  /\ UNCHANGED <<shellWrote, inKernel, ptyQueue, ptyHeld, received, readerAt, ptyAlive, shellRuns, master, stopAt>>

PtyNext ==
  \/ ShellWrites \/ ShellExits \/ ReadPending \/ StopPty \/ OtherOpens
  \/ ReaderTests \/ ReaderReads \/ ReaderTries \/ ReaderPuts

PtySpec == PtyInit /\ [][PtyNext]_ptyVars

\* "PTY output queued for the terminal widget to drain each frame" (aios_desktop.py:496): the
\* terminal gets what the shell wrote, in order; nothing of it is lost before stop is
\* called, even when the shell has exited or the queue is full.
OutputArrives ==
  LET way == received \o ptyQueue \o ptyHeld \o inKernel IN
  /\ \A i \in 1 .. Len(received) : received[i] = i
  /\ stopAt = "begin" => way = [i \in 1 .. shellWrote |-> i]
  /\ readerAt = "ended" /\ stopAt = "begin" => ~shellRuns /\ ptyHeld = << >> /\ inKernel = << >>
  /\ Len(ptyQueue) <= PtyQueueMax

\* Not even a chunk of another terminal is taken by a reader that outlives its stop.
ReadsItsOwn == 0 \notin ToSet(ptyHeld)
==============================================================================
