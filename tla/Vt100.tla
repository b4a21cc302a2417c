-------------------------------- MODULE Vt100 --------------------------------
(***************************************************************************)
(* The terminal of kernel/src/drivers/vt100.c as operators on a terminal   *)
(* value [x, y, screen, escaping, value, cursor]: the position, what the   *)
(* screen shows, the state of the escape parser and the blinking cursor.   *)
(* Columns and rows are counted in characters: every move of the code is   *)
(* by a multiple of the size of the font.                                  *)
(***************************************************************************)
EXTENDS Integers, SequencesExt

CONSTANTS Width, Height     \* of the framebuffer, in characters

ASSUME ScreenAssumption == Width \in Nat \ {0} /\ Height \in Nat \ {0}

TabSize == 9

\* A character is a string; control characters have their ASCII names.
LF == "LF"
CR == "CR"
BS == "BS"
TAB == "TAB"
ESC == "ESC"
Blank == " "
Block == "BLOCK"        \* glyph 0, the cursor
Hidden == "HIDDEN"      \* no cursor is drawn
Controls == {LF, CR, BS, TAB, ESC}

Columns == 0 .. Width - 1
Rows == 0 .. Height - 1
BlankRow == [i \in Columns |-> Blank]

Terminal(chars) ==
  [x : Columns, y : Rows, screen : [Rows -> [Columns -> chars]],
   escaping : BOOLEAN, value : Nat, cursor : chars \cup {Hidden}]

NewTerminal == [x |-> 0, y |-> 0, screen |-> [r \in Rows |-> BlankRow],
                escaping |-> FALSE, value |-> 0, cursor |-> Hidden]

-----------------------------------------------------------------------------
\* framebuffer_device_scroll_down by one row.  Mutant: the last row stays.
scroll_downOnly(t) ==
  [t EXCEPT !.screen = [r \in Rows |-> IF r + 1 \in Rows THEN @[r + 1] ELSE @[r]]]
scroll_down(t) ==
  [t EXCEPT !.screen = [r \in Rows |-> IF r + 1 \in Rows THEN @[r + 1] ELSE BlankRow]]

set_y(t, y) == IF y \in Rows THEN [t EXCEPT !.y = y] ELSE scroll_down(t)
increase_y(t) == set_y(t, t.y + 1)

\* Left of column 0 the unsigned coordinate wraps to a number beyond the width.
set_x(t, x) ==
  IF x \in Columns THEN [t EXCEPT !.x = x] ELSE increase_y([t EXCEPT !.x = 0])

Draw(t, c) == set_x([t EXCEPT !.screen[t.y][t.x] = c], t.x + 1)

-----------------------------------------------------------------------------
Numeral == <<"1", "2", "3", "4", "5", "6", "7", "8", "9">>
\* The value of a digit, or 0: also for the digit 0.
isdigit(c) == IF \E d \in 1 .. 9 : Numeral[d] = c
              THEN CHOOSE d \in 1 .. 9 : Numeral[d] = c ELSE 0

\* Mutant: only the row of the cursor is cleared.
framebuffer_device_clearRow(t) == [t EXCEPT !.screen[t.y] = BlankRow]
framebuffer_device_clear(t) == [t EXCEPT !.screen = NewTerminal.screen]

\* Mutant: the number stays for the next sequence.
EndSequenceOnly(t) == [t EXCEPT !.escaping = FALSE]
EndSequence(t) == [t EXCEPT !.escaping = FALSE, !.value = 0]

\* vt100_console_escaping_stop: the character that ends a sequence, or `['.
escaping_stop(t, c) ==
  LET moved == CASE c = "D" -> set_x(t, t.x - t.value)
                 [] c = "C" -> set_x(t, t.x + t.value)
                 [] c = "H" -> [t EXCEPT !.x = 0, !.y = 0]
                 [] c = "J" -> framebuffer_device_clear(t)
                 [] OTHER   -> t
  IN  IF c = "[" THEN t ELSE EndSequence(moved)

\* vt100_console_update_draw_screen, after enough calls without a character: the
\* cursor is drawn, or taken away again.  `c' is vt100_cursor_current_char.
DrawCursor(t, c) == [t EXCEPT !.screen[t.y][t.x] = Block, !.cursor = c]
EraseCursor(t) == [t EXCEPT !.screen[t.y][t.x] = Blank, !.cursor = Hidden]

\* What putchar does first: it redraws the character before the cursor, and the
\* cursor is no longer known to be drawn.
ForgetCursor(t) ==
  IF t.cursor = Hidden THEN t
  ELSE [t EXCEPT !.screen[t.y][t.x - 1] = t.cursor, !.cursor = Hidden]

\* The rest of vt100_console_putchar.
Put(t, c) ==
  IF t.escaping
  THEN IF isdigit(c) # 0 THEN [t EXCEPT !.value = 10 * @ + isdigit(c)]
                         ELSE escaping_stop(t, c)
  ELSE CASE c = LF  -> increase_y([t EXCEPT !.x = 0])
         [] c = CR  -> [t EXCEPT !.x = 0]
         [] c = BS  -> set_x(t, t.x - 1)
         [] c = TAB -> set_x(t, t.x + TabSize)
         [] c = ESC -> [t EXCEPT !.escaping = TRUE]
         [] OTHER   -> Draw(t, c)

putchar(t, c) == Put(ForgetCursor(t), c)

\* kprint
kprint(t, text) ==
  LET after[n \in 0 .. Len(text)] ==
        IF n = 0 THEN t ELSE putchar(after[n - 1], text[n])
  IN  after[Len(text)]

\* What kprintf makes of %d, up to 9999.
Decimal(n) ==
  LET Powers == <<1000, 100, 10, 1>>
      size == IF n < 10 THEN 1 ELSE IF n < 100 THEN 2 ELSE IF n < 1000 THEN 3 ELSE 4
      digit(i) == (n \div Powers[i]) % 10
  IN  [i \in 1 .. size |-> IF digit(4 - size + i) = 0 THEN "0" ELSE Numeral[digit(4 - size + i)]]
Escape(n, c) == <<ESC, "[">> \o Decimal(n) \o <<c>>
=============================================================================
