------------------------------- MODULE Console -------------------------------
(***************************************************************************)
(* The shell at its prompt: the keyboard driver of kernel/src/drivers/     *)
(* ps2.c, whose interrupt handler leaves one character for whoever asks,   *)
(* the line editor of kernel/src/shell/shell.c, and the terminal of Vt100  *)
(* that it draws the line on.  The handler may interrupt the shell between *)
(* any two accesses to that character.  While a command runs the shell     *)
(* waits; see Tasks.                                                       *)
(***************************************************************************)
EXTENDS Vt100

CONSTANTS CMDLINE_MAX,
          Prompt,         \* SHELL_PROMPT
          Letters,        \* keys of printable characters; `C' and `D' with SHIFT
          OtherKeys,      \* a subset of DOMAIN KeyChar
          Pauses,         \* does the typist ever wait until the cursor is drawn?
          Outputs         \* what a command may print

NUL == "NUL"
ETX == "ETX"
FF == "FF"
VT == "VT"

\* ps2_scancode_pressed_set_1, the keys that do not print.  CTRL makes an ESC.
KeyChar == [enter |-> LF, backspace |-> BS, tab |-> VT, esc |-> ESC, ctrl |-> ESC]

ASSUME ConsoleAssumption ==
  /\ CMDLINE_MAX \in 1 .. 9999
  /\ OtherKeys \subseteq DOMAIN KeyChar /\ Pauses \in BOOLEAN
  /\ Prompt \in Seq(STRING) \ {<<>>} /\ Last(Prompt) = Blank
  /\ ToSet(Prompt) \cap Controls = {}
  /\ Letters \subseteq STRING
  /\ Letters \cap (DOMAIN KeyChar \cup Controls \cup {NUL, VT, Hidden}) = {}
  /\ Outputs \subseteq Seq(STRING)

VARIABLES
  ctrl,       \* ps2_current_key_pressed[PS2_KEY_CTRL_LEFT]
  pending,    \* ps2_device_lastchar_pressed
  unread,     \* history: nobody has been given the pending character yet
  reader,     \* where the shell is, see Places
  got,        \* the character the shell has read and not yet cleared
  line,       \* cmdline, from index 0
  pos,        \* cmdlinepos
  term,       \* the terminal
  marred      \* history: why the row may not show the line, see Marks

keyboard == <<ctrl, pending, unread>>
editor == <<line, pos, term, marred>>
vars == <<keyboard, reader, got, editor>>

Chars == Letters \cup {KeyChar[k] : k \in DOMAIN KeyChar} \cup {NUL, ETX, FF}
\* All that is ever printed.
Glyphs == Chars \cup {Blank, Block, "0", "x", "b", "^", "!", "[", "C", "D", "H", "J"}
            \cup ToSet(Numeral) \cup ToSet(Prompt) \cup UNION {ToSet(out) : out \in Outputs}
Places == {"test", "load", "clear", "bracket", "final"}
Keys == Letters \cup OtherKeys

\* A control character was typed, which is echoed as a number; the cursor was
\* left behind the line by CTRL+L; BACKSPACE at the first character left a tail;
\* the drawn cursor covered a character or was left where it was.
Marks == {"control", "lost", "hole", "block"}

-----------------------------------------------------------------------------
(* The keyboard. *)

\* A key goes down, "up" is any key but CTRL that is released.
Events == Keys \cup {"up", "ctrl up"}

\* ps2_keypress_update
CtrlAfter(e) == IF e = "ctrl" THEN TRUE ELSE IF e = "ctrl up" THEN FALSE ELSE ctrl

\* ps2_scancode_set_1_to_char
CharOf(e) ==
  CASE e \in {"up", "ctrl up"}          -> NUL
    [] CtrlAfter(e) /\ e \in {"c", "C"} -> ETX
    [] CtrlAfter(e) /\ e \in {"l", "L"} -> FF
    [] CtrlAfter(e) /\ e \in {"m", "M"} -> LF
    [] e \in DOMAIN KeyChar             -> KeyChar[e]
    [] OTHER                            -> e

\* ps2_device_irq_handler: a released key takes the place of the pressed one.
Irq(e) ==
  /\ ctrl' = CtrlAfter(e)
  /\ pending' = CharOf(e)
  /\ unread' = (CharOf(e) # NUL)
  /\ UNCHANGED <<reader, got, editor>>

\* ps2_device_getchar_non_blocking tests, loads and clears the character.
Test ==
  /\ reader = "test" /\ pending # NUL
  /\ reader' = "load"
  /\ UNCHANGED <<keyboard, got, editor>>

Load ==
  /\ reader = "load"
  /\ got' = pending
  /\ unread' = FALSE
  /\ reader' = "clear"
  /\ UNCHANGED <<ctrl, pending, editor>>

\* Mutant: the character stays for the next one who asks.
ClearedNot == pending
Cleared == NUL

\* The third step, and what the editor does with c until it reads again.
Read(c) ==
  /\ reader = "clear" /\ c = got
  /\ pending' = Cleared
  /\ got' = NUL
  /\ UNCHANGED <<ctrl, unread>>

-----------------------------------------------------------------------------
(* The line and its place on the screen. *)

\* The mark of a move away from the drawn cursor.
CursorLeft == IF term.cursor = Hidden THEN {} ELSE {"block"}

EmptyLine == [i \in 0 .. CMDLINE_MAX |-> NUL]
strlen(s) == CHOOSE n \in 0 .. CMDLINE_MAX : s[n] = NUL /\ \A i \in 0 .. n - 1 : s[i] # NUL
Text(s) == [i \in 1 .. strlen(s) |-> s[i - 1]]

\* Mutant: the gap is not closed.
rmcharGap(s, p) == [s EXCEPT ![p] = NUL]
rmchar(s, p) == [i \in DOMAIN s |-> IF i \in p .. strlen(s) - 1 THEN s[i + 1] ELSE s[i]]

\* Mutant: the cursor goes back to the column it has now, not to the old one.
refreshlineShort(s, p) ==
  IF p = 0 THEN Escape(1, "D") \o <<Blank>> \o Escape(1, "D")
  ELSE Escape(p, "D") \o Text(s) \o <<Blank>> \o Escape(1, "D")
         \o Escape(strlen(s), "D") \o Escape(p, "C")
refreshline(s, p) ==
  IF p = 0 THEN Escape(1, "D") \o <<Blank>> \o Escape(1, "D")
  ELSE Escape(p + 1, "D") \o Text(s) \o <<Blank>> \o Escape(1, "D")
         \o Escape(strlen(s), "D") \o Escape(p, "C")

\* Print `text', forget the line and show a new prompt.
StartOver(text) ==
  /\ line' = [i \in DOMAIN line |-> IF i < CMDLINE_MAX THEN NUL ELSE line[i]]
  /\ pos' = 0
  /\ term' = kprint(term, text \o Prompt)
  /\ marred' = {}

ReadOn == reader' = "test"

\* No key yet: vt100_console_update_draw_screen, and the character before.
Idle ==
  /\ Pauses /\ reader = "test" /\ pending = NUL
  /\ LET before == line[IF pos = 0 THEN 0 ELSE pos - 1]
     IN  term' = IF term.cursor = Hidden
                 THEN DrawCursor(term, IF before = NUL THEN Blank ELSE before)
                 ELSE EraseCursor(term)
  /\ marred' = marred \cup IF pos = strlen(line) THEN {} ELSE {"block"}
  /\ UNCHANGED <<keyboard, reader, got, line, pos>>

\* Enter: shell_exec of a line that is not empty prints something.
Enter ==
  /\ Read(LF) /\ ReadOn
  /\ IF line[0] = NUL THEN StartOver(<<LF>>)
     ELSE \E out \in Outputs : StartOver(<<LF>> \o out)

Interrupted ==
  /\ Read(ETX) /\ ReadOn
  /\ StartOver(<<"^", "C", LF>>)

\* CTRL+L: builtins_clear, the prompt and the line.
ClearScreen ==
  /\ Read(FF) /\ ReadOn
  /\ term' = kprint(term, Escape(2, "J") \o <<ESC, "[", "H">> \o Prompt \o Text(line))
  /\ marred' = (marred \ {"hole", "block"}) \cup (IF pos = strlen(line) THEN {} ELSE {"lost"})
  /\ UNCHANGED <<line, pos>>

Backspace ==
  /\ Read(BS) /\ ReadOn
  /\ IF pos = 0 THEN UNCHANGED editor
     ELSE /\ pos' = pos - 1
          /\ line' = rmchar(line, pos - 1)
          /\ term' = kprint(term, refreshline(line', pos - 1))
          /\ marred' = marred \cup (IF pos' = 0 /\ line'[0] # NUL THEN {"hole"} ELSE {})
                            \cup CursorLeft

\* Mutant: the last cell of the line may be written, and the 0 behind it moves.
HasRoomForOneMore(p) == p <= CMDLINE_MAX - 1
HasRoom(p) == p < CMDLINE_MAX - 1

\* Control characters are shown as a number.
Type(c) ==
  /\ c \in Letters \cup {VT} /\ Read(c) /\ ReadOn
  /\ IF HasRoom(pos)
     THEN /\ line' = [line EXCEPT ![pos] = c]
          /\ pos' = pos + 1
          /\ term' = kprint(term, IF c = VT THEN <<"0", "x", "b">> ELSE <<c>>)
          /\ marred' = IF c = VT THEN marred \cup {"control"} ELSE marred
     ELSE StartOver(<<"!", LF>>)

\* The key was released between the test and the load.
Nothing == Read(NUL) /\ ReadOn /\ UNCHANGED editor

\* ESC: two more characters are read with kgetchar.
EscapeKey == Read(ESC) /\ reader' = "bracket" /\ UNCHANGED editor

\* kgetchar polls the device.  The handler may be there first, and may still be
\* called for a byte that has been polled: both are an Irq.
Polled(e, place) ==
  /\ reader = place
  /\ ctrl' = CtrlAfter(e)
  /\ UNCHANGED <<pending, unread, got>>

Bracket(e) ==
  /\ Polled(e, "bracket")
  /\ reader' = IF CharOf(e) = "[" THEN "final" ELSE "test"
  /\ UNCHANGED editor

MayGoRight(s, p) == p + 1 < CMDLINE_MAX /\ s[p] # NUL

Arrow(c, may, delta) ==
  IF may THEN /\ term' = kprint(term, Escape(1, c))
              /\ pos' = pos + delta
              /\ marred' = marred \cup CursorLeft
              /\ UNCHANGED line
  ELSE UNCHANGED editor

Final(e) ==
  /\ Polled(e, "final") /\ ReadOn
  /\ CASE CharOf(e) = "C" -> Arrow("C", MayGoRight(line, pos), 1)
       [] CharOf(e) = "D" -> Arrow("D", pos > 0, -1)
       [] OTHER           -> StartOver(<<"0", "x", LF>>)

-----------------------------------------------------------------------------
Init ==
  /\ ctrl = FALSE /\ pending = NUL /\ unread = FALSE
  /\ reader = "test" /\ got = NUL
  /\ line = EmptyLine /\ pos = 0
  /\ term = kprint(NewTerminal, Prompt)
  /\ marred = {}

Next ==
  \/ \E e \in Events : Irq(e) \/ Bracket(e) \/ Final(e)
  \/ Test \/ Load \/ Nothing \/ Idle
  \/ Enter \/ Interrupted \/ ClearScreen \/ Backspace \/ EscapeKey
  \/ \E c \in Letters \cup {VT} : Type(c)

Spec == Init /\ [][Next]_vars

-----------------------------------------------------------------------------
\* The buffer is never indexed behind its last but one cell, and the variables
\* have their types.
TypeOK ==
  /\ ctrl \in BOOLEAN /\ pending \in Chars /\ unread \in BOOLEAN
  /\ reader \in Places /\ got \in Chars
  /\ line \in [0 .. CMDLINE_MAX -> Chars] /\ pos \in 0 .. CMDLINE_MAX - 1
  /\ term \in Terminal(Glyphs)
  /\ marred \subseteq Marks

\* Whatever is typed, moved over and removed, the line is one string that the
\* editing position does not leave: behind its first 0 there are only zeros.
\* shell_exec and rmchar take what is there for the line.
LineIsText ==
  /\ pos <= strlen(line) /\ strlen(line) < CMDLINE_MAX
  /\ \A i \in strlen(line) .. CMDLINE_MAX : line[i] = NUL

\* The column of the cursor, which only the escape sequences move, is where the
\* next character goes into the line.  (It is not after CTRL+L in the middle of
\* a line, nor after a control character was echoed.)
CursorFollowsLine ==
  marred \cap {"control", "lost"} = {} => term.x = Len(Prompt) + pos

\* The row of the cursor shows the prompt, the line, perhaps the cursor and
\* nothing else, unless one of the Marks says why not: what is seen is what ENTER
\* runs.
ScreenShowsLine ==
  marred = {} =>
    LET shown == Prompt \o Text(line)
    IN  \A i \in Columns :
          term.screen[term.y][i] = IF i < Len(shown) THEN shown[i + 1]
                                   ELSE IF i = term.x /\ term.cursor # Hidden THEN Block
                                   ELSE Blank

\* The shell is not given one press of a key twice, wherever the interrupt
\* handler comes between its test, its load and its clearing of the character.
TypedOnce == [][got' # got /\ got' # NUL => unread]_vars
=============================================================================
