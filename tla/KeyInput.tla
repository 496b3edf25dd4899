------------------------------- MODULE KeyInput -------------------------------
(***************************************************************************)
(* Keyboard input of os/desktop: the reader thread of InputDriver decodes  *)
(* terminal bytes into events on the bounded EventQueue, the display's     *)
(* tick drains it, and the window passes the events to a focused TextInput *)
(* (aios_display.py).  Below, the keyboard part of EvdevInputDriver        *)
(* (aios_desktop.py), which keeps the modifiers of the keys.               *)
(*                                                                         *)
(* A byte is "ESC", "BS" or the character it stands for; "pause" in the    *)
(* history of the input is a wait longer than the reader's poll.  Keys the *)
(* text field ignores (up, down, function keys and the others of two       *)
(* digits), reports of the mouse and the modifiers of a key are left out.  *)
(***************************************************************************)
EXTENDS Integers, Sequences

CONSTANTS
  KeyBytes,       \* what may be typed
  MaxTyped,       \* bound on its length
  QueueMax,       \* maxlen of the event queue
  VisibleCols,    \* of the text field
  KeyCodes,       \* keys of the evdev keyboard: some of "lshift", "rshift", "caps", "a", "1"
  MaxKeyEvents

ASSUME KeyInputAssumption ==
  /\ "pause" \notin KeyBytes
  /\ QueueMax \in Nat \ {0} /\ VisibleCols \in Nat \ {0}

VARIABLES
  tty,       \* bytes typed and not read yet
  reader,    \* [at, seq]: the reader's place and the escape sequence so far
  keyQueue,  \* events in the queue
  dropped,   \* history: whether the queue has overflowed
  typed,     \* history: the bytes, and the pauses the reader met in a sequence
  text, cursor, scroll, painted,  \* TextInput, and the scroll of its last paint
  held,      \* history: the evdev keys that are down
  locked,    \* history: whether the lock key was pressed an odd number of times
  bothHeld,  \* history: whether both shift keys were ever down at once
  shift, capsLock,
  char,      \* the character of the last event, "" when it had none
  wanted,    \* history: the character the keys held then stand for
  keyEvents

ttyVars == <<tty, reader, keyQueue, dropped, typed, text, cursor, scroll, painted>>
evdevVars == <<held, locked, bothHeld, shift, capsLock, char, wanted, keyEvents>>

(************************* Decoding of escape sequences ********************)
CsiKeys == [C |-> "RIGHT", D |-> "LEFT", H |-> "HOME", F |-> "END"]
TildeKeys == [i \in {"1", "3", "4"} |-> IF i = "1" THEN "HOME" ELSE IF i = "3" THEN "DELETE" ELSE "END"]
Key(k) == [key |-> k, char |-> ""]
CharKey(c) == [key |-> c, char |-> c]
Final(b) == b \notin {"1", "3", "4", ";", "BS", "ESC"}

\* The event of a sequence without its ESC: none if it is not recognised.  A
\* sequence that is only "[" has no last byte to look at and raises.
Raises(seq) == seq = <<"[">>

\* Begins with the number of a key, which a modifier may follow.
Numbered(seq) == Len(seq) >= 3 /\ seq[2] \in DOMAIN TildeKeys /\ seq[3] \in {"~", ";"}

\* A fault: only the sequences that begin with "[" are known.
DecodeEscapeCsiOnly(seq) ==
  IF seq = << >> THEN <<Key("ESCAPE")>>
  ELSE IF Head(seq) # "[" THEN << >>
  ELSE LET last == seq[Len(seq)] IN
       IF last = "~"
       THEN IF Numbered(seq) THEN <<Key(TildeKeys[seq[2]])>> ELSE << >>
       ELSE IF last \in DOMAIN CsiKeys THEN <<Key(CsiKeys[last])>> ELSE << >>

DecodeEscape(seq) ==
  IF seq = << >> THEN <<Key("ESCAPE")>>
  ELSE IF Head(seq) = "O" /\ Len(seq) >= 2
  THEN IF seq[2] \in DOMAIN CsiKeys THEN <<Key(CsiKeys[seq[2]])>> ELSE << >>
  ELSE IF Head(seq) # "[" THEN << >>
  ELSE LET last == seq[Len(seq)] IN
       IF last = "~"
       THEN IF Numbered(seq) THEN <<Key(TildeKeys[seq[2]])>> ELSE << >>
       ELSE IF last \in DOMAIN CsiKeys THEN <<Key(CsiKeys[last])>> ELSE << >>

PlainKey(b) == IF b = "BS" THEN Key("BACKSPACE") ELSE CharKey(b)

(********************************* The reader ******************************)
\* push: a full queue drops its oldest event.
Push(evs) ==
  LET q == keyQueue \o evs IN
  /\ keyQueue' = IF Len(q) > QueueMax THEN Tail(q) ELSE q
  /\ dropped' = (dropped \/ Len(q) > QueueMax)

Idle == [at |-> "idle", seq |-> << >>]

Sequence(seq) ==
  IF Raises(seq) THEN reader' = [at |-> "dead", seq |-> seq] /\ UNCHANGED <<keyQueue, dropped>>
  ELSE reader' = Idle /\ Push(DecodeEscape(seq))

\* One byte read: after ESC, "[" reads on to a final byte and "O" one byte more.
ReadByte ==
  /\ tty # << >> /\ reader.at # "dead" /\ tty' = Tail(tty)
  /\ LET b == Head(tty)
         seq == Append(reader.seq, b)
     IN CASE reader.at = "idle" /\ b = "ESC" ->
               reader' = [at |-> "escape", seq |-> << >>] /\ UNCHANGED <<keyQueue, dropped>>
          [] reader.at = "idle" /\ b # "ESC" -> reader' = reader /\ Push(<<PlainKey(b)>>)
          [] reader.at = "escape" /\ b \in {"[", "O"} ->
               reader' = [at |-> b, seq |-> seq] /\ UNCHANGED <<keyQueue, dropped>>
          [] reader.at = "[" /\ ~Final(b) ->
               reader' = [at |-> "[", seq |-> seq] /\ UNCHANGED <<keyQueue, dropped>>
          [] OTHER -> Sequence(seq)
  /\ UNCHANGED <<typed, text, cursor, scroll, painted>>

\* _read_byte times out inside a sequence: what has been read is decoded.
ReadTimeout ==
  /\ tty = << >> /\ reader.at \in {"escape", "[", "O"}
  /\ typed' = Append(typed, "pause")
  /\ Sequence(reader.seq)
  /\ UNCHANGED <<tty, text, cursor, scroll, painted>>

TypeByte(b) ==
  /\ Len(typed) < MaxTyped
  /\ typed' = Append(typed, b) /\ tty' = Append(tty, b)
  /\ UNCHANGED <<reader, keyQueue, dropped, text, cursor, scroll, painted>>

(******************************* The text field ****************************)
Edit(t, c, ev) ==
  CASE ev.key = "LEFT"  -> [text |-> t, cursor |-> IF c > 0 THEN c - 1 ELSE 0]
    [] ev.key = "RIGHT" -> [text |-> t, cursor |-> IF c < Len(t) THEN c + 1 ELSE Len(t)]
    [] ev.key = "HOME"  -> [text |-> t, cursor |-> 0]
    [] ev.key = "END"   -> [text |-> t, cursor |-> Len(t)]
    [] ev.key = "BACKSPACE" /\ c > 0 ->
         [text |-> SubSeq(t, 1, c - 1) \o SubSeq(t, c + 1, Len(t)), cursor |-> c - 1]
    [] ev.key = "DELETE" /\ c < Len(t) ->
         [text |-> SubSeq(t, 1, c) \o SubSeq(t, c + 2, Len(t)), cursor |-> c]
    [] ev.char # "" ->
         [text |-> SubSeq(t, 1, c) \o <<ev.char>> \o SubSeq(t, c + 1, Len(t)), cursor |-> c + 1]
    [] OTHER -> [text |-> t, cursor |-> c]

Field == [text |-> text, cursor |-> cursor]
EmptyField == [text |-> << >>, cursor |-> 0]

\* What a sequence of events makes of a text field.
Edited(start, evs) ==
  LET after[n \in 0 .. Len(evs)] ==
        IF n = 0 THEN start ELSE Edit(after[n - 1].text, after[n - 1].cursor, evs[n])
  IN after[Len(evs)]

\* tick: the whole queue is drained and dispatched.
Tick ==
  /\ keyQueue # << >> /\ keyQueue' = << >>
  /\ text' = Edited(Field, keyQueue).text /\ cursor' = Edited(Field, keyQueue).cursor
  /\ painted' = FALSE
  /\ UNCHANGED <<tty, reader, dropped, typed, scroll>>

\* A fault: the column of the cursor itself is not counted.
EnsureCursorVisibleLate ==
  scroll' = IF cursor < scroll THEN cursor
            ELSE IF cursor > scroll + VisibleCols THEN cursor - VisibleCols + 1 ELSE scroll

EnsureCursorVisible ==
  scroll' = IF cursor < scroll THEN cursor
            ELSE IF cursor >= scroll + VisibleCols THEN cursor - VisibleCols + 1 ELSE scroll

Paint ==
  /\ ~painted /\ painted' = TRUE /\ EnsureCursorVisible
  /\ UNCHANGED <<tty, reader, keyQueue, dropped, typed, text, cursor>>

TtyInit ==
  /\ tty = << >> /\ reader = Idle /\ keyQueue = << >> /\ dropped = FALSE /\ typed = << >>
  /\ text = << >> /\ cursor = 0 /\ scroll = 0 /\ painted = TRUE

TtyNext == (\E b \in KeyBytes : TypeByte(b)) \/ ReadByte \/ ReadTimeout \/ Tick \/ Paint
TtySpec == TtyInit /\ [][TtyNext]_ttyVars

(***************************** The evdev keyboard **************************)
EvdevInit ==
  /\ held = {} /\ locked = FALSE /\ bothHeld = FALSE /\ shift = FALSE /\ capsLock = FALSE
  /\ char = "" /\ wanted = "" /\ keyEvents = 0

Shifts == {"lshift", "rshift"}
CharacterKeys == {"a", "1"}
Character(k, shifted, lock) ==
  IF shifted # (lock /\ k = "a") THEN (IF k = "a" THEN "A" ELSE "!") ELSE k

\* A fault: a repeated press of the lock key toggles it again.
DispatchKeyRepeating(k, value) ==
  /\ shift' = IF k \in Shifts THEN value # 0 ELSE shift
  /\ capsLock' = IF k = "caps" /\ value # 0 THEN ~capsLock ELSE capsLock
  /\ char' = IF k \in CharacterKeys /\ value # 0 THEN Character(k, shift, capsLock) ELSE ""

\* _dispatch of a key press (1), repeat (2) or release (0).
DispatchKey(k, value) ==
  /\ shift' = IF k \in Shifts THEN value # 0 ELSE shift
  /\ capsLock' = IF k = "caps" /\ value = 1 THEN ~capsLock ELSE capsLock
  /\ char' = IF k \in CharacterKeys /\ value # 0 THEN Character(k, shift, capsLock) ELSE ""

KeyMoves(k, value) ==
  /\ keyEvents < MaxKeyEvents /\ keyEvents' = keyEvents + 1
  /\ IF value = 1 THEN k \notin held ELSE k \in held
  /\ held' = IF value = 0 THEN held \ {k} ELSE held \cup {k}
  /\ locked' = (locked # (k = "caps" /\ value = 1))
  /\ bothHeld' = (bothHeld \/ Shifts \subseteq held')
  /\ wanted' = IF k \in CharacterKeys /\ value # 0 THEN Character(k, held \cap Shifts # {}, locked) ELSE ""
  /\ DispatchKey(k, value)

EvdevNext == \E k \in KeyCodes, value \in 0 .. 2 : KeyMoves(k, value)
EvdevSpec == EvdevInit /\ [][EvdevNext]_evdevVars

------------------------------------------------------------------------------
\* What the keys of the input mean: an escape sequence ends at its final byte, or
\* at a pause, and then means nothing unless it is complete.
Meaning(seq) ==
  LET last == seq[Len(seq)] IN
  IF seq = << >> THEN <<Key("ESCAPE")>>
  ELSE IF last \in DOMAIN CsiKeys /\ (Head(seq) = "[" \/ (Head(seq) = "O" /\ Len(seq) = 2))
  THEN <<Key(CsiKeys[last])>>
  ELSE IF Head(seq) = "[" /\ last = "~" /\ Numbered(seq) THEN <<Key(TildeKeys[seq[2]])>>
  ELSE << >>

\* Whether the sequence of the ESC at i is over at j.
EndsAt(s, i, j) ==
  \/ s[j] = "pause"
  \/ j = i + 1 /\ s[j] \notin {"[", "O"}
  \/ j = i + 2 /\ s[i + 1] = "O"
  \/ j > i + 1 /\ Final(s[j])

Ends(s, i) == {j \in i + 1 .. Len(s) : EndsAt(s, i, j)}
FirstEnd(s, i) == CHOOSE j \in Ends(s, i) : \A o \in Ends(s, i) : j <= o
SequenceAt(s, i) == SubSeq(s, i + 1, IF s[FirstEnd(s, i)] = "pause" THEN FirstEnd(s, i) - 1 ELSE FirstEnd(s, i))

\* The keys of what comes in s from each place on.
KeysFrom(s) ==
  LET from[i \in 1 .. Len(s) + 1] ==
        IF i > Len(s) THEN << >>
        ELSE IF s[i] # "ESC" THEN <<PlainKey(s[i])>> \o from[i + 1]
        ELSE IF Ends(s, i) = {} THEN << >>
        ELSE Meaning(SequenceAt(s, i)) \o from[FirstEnd(s, i) + 1]
  IN from

Meant == Edited(EmptyField, KeysFrom(typed)[1])

\* "InputDriver -> EventQueue -> WindowManager" (aios_display.py:12): once all
\* the input is read and drained, the text field holds what was typed, unless the
\* queue dropped an event or the reader has died.
TextIsTyped ==
  tty = << >> /\ keyQueue = << >> /\ reader.at # "dead" /\ ~dropped =>
    text = Meant.text /\ cursor = Meant.cursor

\* "Single-line editable text field with a cursor and scroll-in-view"
\* (aios_display.py:1479).
CursorInView == painted => cursor \in scroll .. scroll + VisibleCols - 1

\* "Returns None if the sequence is not recognised" (aios_display.py:1691): no
\* input ends the reader thread.
ReaderSurvives == reader.at # "dead"

\* "shift, ctrl, alt, caps_lock modifier state" (aios_desktop.py:226): while the
\* two shift keys are never down together, a key gives the character that the
\* keys held and the presses of the lock key say.
CharactersMatchKeys == ~bothHeld => char = wanted

\* The text is what was typed, its cursor is in view, and a key sends the character of the
\* modifiers that are held (the keyboards of aios_display.py and aios_desktop.py).
KeysAreTyped == TextIsTyped /\ CursorInView /\ CharactersMatchKeys
==============================================================================
