---------------------------- MODULE ConsoleProofs ----------------------------
(***************************************************************************)
(* Proofs about Console for every screen, line length, set of keys and     *)
(* prompt.  The first half says what printing does to the terminal, the    *)
(* second half is the inductive invariant of the editor.                   *)
(***************************************************************************)
EXTENDS Console, NatRecursion

-----------------------------------------------------------------------------
(* What kprint computes. *)

\* f[n] is the terminal after the first n characters of the text.
Prints(f, t, text) ==
  /\ f[0] = t
  /\ \A n \in 1 .. Len(text) : f[n] = putchar(f[n - 1], text[n])

\* A function that goes through the text character by character ends with what
\* kprint returns.
LEMMA PrintIs ==
  ASSUME NEW text, Len(text) \in Nat, NEW t, NEW T, NEW f \in [0 .. Len(text) -> T],
         Prints(f, t, text)
  PROVE  kprint(t, text) = f[Len(text)]
<1> DEFINE N == Len(text)
           Body(g) == [n \in 0 .. N |-> IF n = 0 THEN t ELSE putchar(g[n - 1], text[n])]
           g == CHOOSE g : g = Body(g)
<1>1. kprint(t, text) = g[N]
  BY DEF kprint
<1>2. f = Body(f)
  <2>1. ASSUME NEW n \in 0 .. N PROVE f[n] = Body(f)[n]
    <3>1. CASE n = 0
      BY <3>1 DEF Prints
    <3>2. CASE n # 0
      BY <3>2 DEF Prints
    <3> QED
      BY <3>1, <3>2
  <2> HIDE DEF N
  <2>2. DOMAIN f = 0 .. N
    BY DEF N
  <2> QED
    BY <2>1, <2>2
<1>3. g = Body(g)
  <2> HIDE DEF Body
  <2> QED
    BY <1>2
<1> HIDE DEF g
<1>4. 0 .. N \subseteq {n \in 0 .. N : g[n] = f[n]}
  <2> DEFINE I == {n \in 0 .. N : g[n] = f[n]}
  <2>1. 0 \in I
    BY <1>3 DEF Prints
  <2>2. ASSUME NEW n \in 0 .. N - 1, n \in I PROVE n + 1 \in I
    <3>1. n + 1 \in 1 .. N /\ n + 1 \in 0 .. N /\ n + 1 # 0 /\ (n + 1) - 1 = n
      OBVIOUS
    <3>2. f[n + 1] = putchar(f[n], text[n + 1])
      BY <3>1 DEF Prints
    <3>3. g[n + 1] = putchar(g[n], text[n + 1])
      BY <1>3, <3>1
    <3> QED
      BY <2>2, <3>1, <3>2, <3>3
  <2> HIDE DEF I
  <2>3. 0 .. N \subseteq I
    BY <2>1, <2>2, BoundedInduction
  <2> QED
    BY <2>3 DEF I
<1> QED
  BY <1>1, <1>4

\* set_y and set_x give terminals.
LEMMA SetYType ==
  ASSUME NEW S, Blank \in S, NEW u \in Terminal(S), NEW y
  PROVE  set_y(u, y) \in Terminal(S)
<1>1. scroll_down(u) \in Terminal(S)
  <2> DEFINE sc == [r \in Rows |-> IF r + 1 \in Rows THEN u.screen[r + 1] ELSE BlankRow]
  <2>1. sc \in [Rows -> [Columns -> S]]
    BY DEF Terminal, BlankRow
  <2> HIDE DEF sc
  <2>2. scroll_down(u) = [u EXCEPT !.screen = sc]
    BY DEF scroll_down, sc, Terminal
  <2> QED
    BY <2>1, <2>2 DEF Terminal
<1>2. CASE y \in Rows
  BY <1>2 DEF set_y, Terminal
<1>3. CASE y \notin Rows
  BY <1>1, <1>3 DEF set_y
<1> QED
  BY <1>2, <1>3

LEMMA SetXType ==
  ASSUME NEW S, Blank \in S, NEW u \in Terminal(S), NEW x
  PROVE  set_x(u, x) \in Terminal(S)
<1>1. CASE x \in Columns
  BY <1>1 DEF set_x, Terminal
<1>2. CASE x \notin Columns
  <2>0. 0 \in Columns
    BY ScreenAssumption DEF Columns
  <2>1. [u EXCEPT !.x = 0] \in Terminal(S)
    BY <2>0 DEF Terminal
  <2> QED
    BY <1>2, <2>1, SetYType DEF set_x, increase_y
<1> QED
  BY <1>1, <1>2

\* putchar gives a terminal.
LEMMA PutcharType ==
  ASSUME NEW S, Blank \in S, NEW t \in Terminal(S), NEW c \in S
  PROVE  putchar(t, c) \in Terminal(S)
<1>0. 0 \in Columns /\ 0 \in Rows
  BY ScreenAssumption DEF Columns, Rows
<1>1. ASSUME NEW u \in Terminal(S), NEW y PROVE set_y(u, y) \in Terminal(S)
  BY SetYType
<1>2. ASSUME NEW u \in Terminal(S), NEW x PROVE set_x(u, x) \in Terminal(S)
  BY SetXType
<1>3. ASSUME NEW u \in Terminal(S), NEW i, NEW g \in S
      PROVE  [u EXCEPT !.screen[u.y][i] = g] \in Terminal(S)
  BY <1>3 DEF Terminal
<1>4. ForgetCursor(t) \in Terminal(S)
  <2>1. CASE t.cursor # Hidden
    <3>1. t.cursor \in S
      BY <2>1 DEF Terminal
    <3>2. [t EXCEPT !.screen[t.y][t.x - 1] = t.cursor] \in Terminal(S)
      BY <1>3, <3>1
    <3> QED
      BY <2>1, <3>2 DEF ForgetCursor, Terminal
  <2> QED
    BY <2>1 DEF ForgetCursor
<1> SUFFICES ASSUME NEW u \in Terminal(S) PROVE Put(u, c) \in Terminal(S)
  BY <1>4 DEF putchar
<1>5. isdigit(c) \in Nat
  BY DEF isdigit
<1>6. [u EXCEPT !.value = 10 * @ + isdigit(c)] \in Terminal(S)
  <2>1. u.value \in Nat
    BY DEF Terminal
  <2>2. 10 * u.value + isdigit(c) \in Nat
    BY <1>5, <2>1
  <2> QED
    BY <2>2 DEF Terminal
<1>7. [u EXCEPT !.x = 0] \in Terminal(S) /\ [u EXCEPT !.escaping = TRUE] \in Terminal(S)
  BY <1>0 DEF Terminal
<1>8. Draw(u, c) \in Terminal(S)
  BY <1>2, <1>3 DEF Draw
<1>9. escaping_stop(u, c) \in Terminal(S)
  <2>1. [u EXCEPT !.x = 0, !.y = 0] \in Terminal(S)
    BY <1>0 DEF Terminal
  <2>2. framebuffer_device_clear(u) \in Terminal(S)
    BY DEF framebuffer_device_clear, NewTerminal, Terminal, BlankRow
  <2>3. ASSUME NEW v \in Terminal(S) PROVE EndSequence(v) \in Terminal(S)
    BY DEF EndSequence, Terminal
  <2> HIDE DEF Terminal
  <2> DEFINE moved == CASE c = "D" -> set_x(u, u.x - u.value)
                        [] c = "C" -> set_x(u, u.x + u.value)
                        [] c = "H" -> [u EXCEPT !.x = 0, !.y = 0]
                        [] c = "J" -> framebuffer_device_clear(u)
                        [] OTHER   -> u
  <2>4. moved \in Terminal(S)
    BY <1>2, <2>1, <2>2
  <2>5. escaping_stop(u, c) = IF c = "[" THEN u ELSE EndSequence(moved)
    BY DEF escaping_stop
  <2> QED
    BY <2>3, <2>4, <2>5
<1>10. increase_y([u EXCEPT !.x = 0]) \in Terminal(S)
  BY <1>1, <1>7 DEF increase_y
<1> HIDE DEF Terminal
<1> QED
  BY <1>2, <1>6, <1>7, <1>8, <1>9, <1>10 DEF Put

\* The terminals that a text is printed through.
LEMMA PrintExists ==
  ASSUME NEW S, Blank \in S, NEW t \in Terminal(S), NEW text \in Seq(S)
  PROVE  \E f \in [0 .. Len(text) -> Terminal(S)] : Prints(f, t, text)
<1> DEFINE step == [n \in 0 .. Len(text) - 1 |-> [u \in Terminal(S) |-> putchar(u, text[n + 1])]]
<1>1. step \in [0 .. Len(text) - 1 -> [Terminal(S) -> Terminal(S)]]
  <2>1. ASSUME NEW n \in 0 .. Len(text) - 1, NEW u \in Terminal(S)
        PROVE  putchar(u, text[n + 1]) \in Terminal(S)
    BY PutcharType
  <2> HIDE DEF Terminal
  <2> QED
    BY <2>1
<1>2. PICK f : Unrolls(f, Len(text), Terminal(S), t, step)
  <2> HIDE DEF step, Terminal
  <2> QED
    BY <1>1, UnrollingExists
<1> USE <1>2 DEF Unrolls
<1>3. ASSUME NEW n \in 1 .. Len(text) PROVE f[n] = putchar(f[n - 1], text[n])
  <2>1. n - 1 \in 0 .. Len(text) - 1 /\ (n - 1) + 1 = n
    OBVIOUS
  <2>2. f[n] = step[n - 1][f[n - 1]]
    BY <2>1
  <2>3. f[n - 1] \in Terminal(S)
    BY <2>1
  <2> HIDE DEF Terminal, Unrolls
  <2> QED
    BY <2>1, <2>2, <2>3
<1> HIDE DEF step
<1> QED
  BY <1>3 DEF Prints

\* So kprint gives a terminal, too.
LEMMA PrintType ==
  ASSUME NEW S, Blank \in S, NEW t \in Terminal(S), NEW text \in Seq(S)
  PROVE  kprint(t, text) \in Terminal(S)
<1>1. PICK f \in [0 .. Len(text) -> Terminal(S)] : Prints(f, t, text)
  BY PrintExists
<1>2. kprint(t, text) = f[Len(text)]
  <2> HIDE DEF Terminal
  <2> QED
    BY <1>1, PrintIs
<1> HIDE DEF Terminal
<1> QED
  BY <1>2

\* A text in two parts is printed one part after the other.
LEMMA PrintBoth ==
  ASSUME NEW S, Blank \in S, NEW t \in Terminal(S), NEW a \in Seq(S), NEW b \in Seq(S)
  PROVE  kprint(t, a \o b) = kprint(kprint(t, a), b)
<1> DEFINE ab == a \o b
<1>1. ab \in Seq(S) /\ Len(ab) = Len(a) + Len(b)
  OBVIOUS
<1>2. PICK f \in [0 .. Len(ab) -> Terminal(S)] : Prints(f, t, ab)
  <2> HIDE DEF ab
  <2> QED
    BY <1>1, PrintExists
<1>3. /\ \A n \in 1 .. Len(a) : ab[n] = a[n]
      /\ \A n \in 1 .. Len(b) : ab[Len(a) + n] = b[n]
  OBVIOUS
<1> HIDE DEF ab
<1> DEFINE T == Terminal(S)
           g == [n \in 0 .. Len(a) |-> f[n]]
           h == [n \in 0 .. Len(b) |-> f[Len(a) + n]]
<1> HIDE DEF T
<1>4. f \in [0 .. Len(a) + Len(b) -> T]
  BY <1>1, <1>2 DEF T
<1>5. g \in [0 .. Len(a) -> T] /\ h \in [0 .. Len(b) -> T]
  BY <1>4
<1>6. Prints(g, t, a)
  BY <1>1, <1>2, <1>3 DEF Prints
<1>7. Prints(h, f[Len(a)], b)
  <2>1. ASSUME NEW n \in 1 .. Len(b) PROVE h[n] = putchar(h[n - 1], b[n])
    <3>1. /\ Len(a) + n \in 1 .. Len(ab) /\ (Len(a) + n) - 1 = Len(a) + (n - 1)
          /\ n - 1 \in 0 .. Len(b) /\ n \in 0 .. Len(b)
      BY <1>1
    <3>2. f[Len(a) + n] = putchar(f[(Len(a) + n) - 1], ab[Len(a) + n])
      BY <1>2, <3>1 DEF Prints
    <3> QED
      BY <1>3, <3>1, <3>2
  <2>2. h[0] = f[Len(a)]
    OBVIOUS
  <2> QED
    BY <2>1, <2>2 DEF Prints
<1> HIDE DEF g, h
<1> Len(a) \in Nat /\ Len(b) \in Nat /\ Len(ab) \in Nat
  BY <1>1
<1>8. kprint(t, a) = g[Len(a)]
  BY <1>5, <1>6, PrintIs
<1>9. kprint(f[Len(a)], b) = h[Len(b)]
  BY <1>5, <1>7, PrintIs
<1>10. kprint(t, ab) = f[Len(ab)]
  BY <1>1, <1>2, <1>4, PrintIs
<1> QED
  BY <1>1, <1>8, <1>9, <1>10 DEF g, h, ab

\* A single character.
LEMMA PrintOne ==
  ASSUME NEW S, Blank \in S, NEW t \in Terminal(S), NEW c \in S
  PROVE  kprint(t, <<c>>) = putchar(t, c)
<1>1. PICK f \in [0 .. Len(<<c>>) -> Terminal(S)] : Prints(f, t, <<c>>)
  <2>1. <<c>> \in Seq(S)
    OBVIOUS
  <2> HIDE DEF Terminal
  <2> QED
    BY <2>1, PrintExists
<1>2. kprint(t, <<c>>) = f[Len(<<c>>)]
  <2> HIDE DEF Terminal
  <2> QED
    BY <1>1, PrintIs
<1>3. 1 \in 1 .. Len(<<c>>) /\ Len(<<c>>) = 1 /\ 1 - 1 = 0 /\ <<c>>[1] = c
  OBVIOUS
<1>4. f[1] = putchar(f[1 - 1], <<c>>[1])
  BY <1>1, <1>3 DEF Prints
<1> HIDE DEF Terminal
<1> QED
  BY <1>1, <1>2, <1>3, <1>4 DEF Prints

-----------------------------------------------------------------------------
(* The rows below the cursor's. *)

Below(t) == \A r \in Rows : r > t.y => t.screen[r] = BlankRow

\* Between two texts no escape sequence is open, and below the row of the cursor
\* the screen is blank: rows are left downwards only.
Settled(t) == ~t.escaping /\ t.value = 0 /\ Below(t)

\* What the escape parser and the blinking cursor know.
SameModes(t, u) == t.escaping = u.escaping /\ t.value = u.value /\ t.cursor = u.cursor

\* The cursor goes to a blank row.
LEMMA NextRow ==
  ASSUME NEW S, NEW t \in Terminal(S), Below(t)
  PROVE  LET u == increase_y(t)
         IN  Below(u) /\ SameModes(t, u) /\ u.x = t.x /\ u.screen[u.y] = BlankRow
<1> DEFINE u == increase_y(t)
<1>0. Width \in Nat \ {0} /\ Height \in Nat \ {0} /\ t.y \in Rows
  BY ScreenAssumption DEF Terminal
<1>1. CASE t.y + 1 \in Rows
  <2>1. u = [t EXCEPT !.y = t.y + 1]
    BY <1>1 DEF increase_y, set_y
  <2>2. u.y = t.y + 1 /\ u.screen = t.screen /\ SameModes(t, u) /\ u.x = t.x
    BY <2>1 DEF Terminal, SameModes
  <2> HIDE DEF u
  <2>3. Below(u)
    BY <1>0, <2>2 DEF Below, Rows
  <2>4. u.screen[u.y] = BlankRow
    BY <1>0, <1>1, <2>2 DEF Below, Rows
  <2> QED
    BY <2>2, <2>3, <2>4 DEF u
<1>2. CASE t.y + 1 \notin Rows
  <2> DEFINE sc == [r \in Rows |-> IF r + 1 \in Rows THEN t.screen[r + 1] ELSE BlankRow]
  <2>1. u = scroll_down(t)
    BY <1>2 DEF increase_y, set_y
  <2> HIDE DEF sc
  <2>2. scroll_down(t) = [t EXCEPT !.screen = sc]
    BY DEF scroll_down, sc, Terminal
  <2>3. u.y = t.y /\ u.screen = sc /\ SameModes(t, u) /\ u.x = t.x
    BY <2>1, <2>2 DEF Terminal, SameModes
  <2>4. t.y = Height - 1
    BY <1>0, <1>2 DEF Rows
  <2> HIDE DEF u
  <2>5. Below(u)
    BY <1>0, <2>3, <2>4 DEF Below, Rows
  <2>6. sc[t.y] = BlankRow
    BY <1>0, <1>2 DEF sc
  <2> QED
    BY <2>3, <2>5, <2>6 DEF u
<1> QED
  BY <1>1, <1>2

LEMMA Moved ==
  ASSUME NEW S, NEW t \in Terminal(S), NEW x, Below(t)
  PROVE  LET u == set_x(t, x)
         IN  Below(u) /\ SameModes(t, u) /\ (x \in Columns => u = [t EXCEPT !.x = x])
<1> DEFINE u == set_x(t, x)
<1>1. CASE x \in Columns
  <2>1. u = [t EXCEPT !.x = x]
    BY <1>1 DEF set_x
  <2>2. u.y = t.y /\ u.screen = t.screen /\ SameModes(t, u)
    BY <2>1 DEF Terminal, SameModes
  <2> HIDE DEF u
  <2> QED
    BY <1>1, <2>1, <2>2 DEF Below, u
<1>2. CASE x \notin Columns
  <2> DEFINE v == [t EXCEPT !.x = 0]
  <2>1. u = increase_y(v)
    BY <1>2 DEF set_x
  <2>2. 0 \in Columns
    BY ScreenAssumption DEF Columns
  <2>3. v \in Terminal(S) /\ v.y = t.y /\ v.screen = t.screen /\ SameModes(t, v)
    BY <2>2 DEF Terminal, SameModes
  <2> HIDE DEF v
  <2>4. Below(v)
    BY <2>3 DEF Below
  <2>5. Below(increase_y(v)) /\ SameModes(v, increase_y(v))
    BY <2>3, <2>4, NextRow
  <2> QED
    BY <1>2, <2>1, <2>3, <2>5 DEF SameModes
<1> QED
  BY <1>1, <1>2

\* Redrawing the character before the cursor.
LEMMA Forgotten ==
  ASSUME NEW S, NEW t \in Terminal(S)
  PROVE  LET u == ForgetCursor(t)
         IN  /\ u \in Terminal(S)
             /\ u.x = t.x /\ u.y = t.y /\ u.cursor = Hidden
             /\ u.escaping = t.escaping /\ u.value = t.value
             /\ Below(t) => Below(u)
             /\ t.cursor = Hidden => u = t
             /\ t.cursor # Hidden =>
                  u.screen[u.y] = [t.screen[t.y] EXCEPT ![t.x - 1] = t.cursor]
<1> DEFINE u == ForgetCursor(t)
<1>1. CASE t.cursor = Hidden
  BY <1>1 DEF ForgetCursor
<1>2. CASE t.cursor # Hidden
  <2> DEFINE sc == [t.screen EXCEPT ![t.y][t.x - 1] = t.cursor]
  <2>0. t.y \in Rows /\ t.cursor \in S /\ t.screen \in [Rows -> [Columns -> S]]
    BY <1>2 DEF Terminal
  <2>1. u = [t EXCEPT !.screen = sc, !.cursor = Hidden]
    BY <1>2 DEF ForgetCursor
  <2>2. sc \in [Rows -> [Columns -> S]]
    BY <2>0
  <2>3. /\ sc[t.y] = [t.screen[t.y] EXCEPT ![t.x - 1] = t.cursor]
        /\ \A r \in Rows : r # t.y => sc[r] = t.screen[r]
    BY <2>0
  <2> HIDE DEF sc
  <2>4. /\ u \in Terminal(S)
        /\ u.x = t.x /\ u.y = t.y /\ u.cursor = Hidden /\ u.screen = sc
        /\ u.escaping = t.escaping /\ u.value = t.value
    BY <2>1, <2>2 DEF Terminal
  <2>5. \A r \in Rows : r > t.y => r # t.y
    BY <2>0, ScreenAssumption DEF Rows
  <2> HIDE DEF u
  <2>6. Below(t) => Below(u)
    BY <2>3, <2>4, <2>5 DEF Below
  <2> QED
    BY <1>2, <2>3, <2>4, <2>6 DEF u
<1> QED
  BY <1>1, <1>2

\* A character that opens no escape sequence.
LEMMA PutcharSettles ==
  ASSUME NEW S, Blank \in S, NEW t \in Terminal(S), Settled(t), NEW c \in S, c # ESC
  PROVE  /\ Settled(putchar(t, c)) /\ putchar(t, c).cursor = Hidden
         /\ c = LF => LET u == putchar(t, c) IN u.x = 0 /\ u.screen[u.y] = BlankRow
<1> DEFINE u == ForgetCursor(t)
<1>1. u \in Terminal(S) /\ Settled(u) /\ u.cursor = Hidden
  BY Forgotten DEF Settled
<1> HIDE DEF u
<1>2. putchar(t, c) = Put(u, c)
  BY DEF putchar, u
<1>3. ~u.escaping /\ Below(u) /\ u.value = 0
  BY <1>1 DEF Settled
<1>4. ASSUME NEW x PROVE Settled(set_x(u, x)) /\ set_x(u, x).cursor = Hidden
  BY <1>1, <1>3, Moved DEF Settled, SameModes
<1> DEFINE v == [u EXCEPT !.x = 0]
<1>5. v \in Terminal(S) /\ v.y = u.y /\ v.screen = u.screen /\ SameModes(u, v) /\ v.x = 0
  <2>1. 0 \in Columns
    BY ScreenAssumption DEF Columns
  <2> QED
    BY <1>1, <2>1 DEF Terminal, SameModes
<1> HIDE DEF v
<1>6. Below(v) /\ Settled(v) /\ v.cursor = Hidden
  BY <1>1, <1>3, <1>5 DEF Below, Settled, SameModes
<1>7. LET w == increase_y(v)
      IN  Settled(w) /\ w.cursor = Hidden /\ w.x = 0 /\ w.screen[w.y] = BlankRow
  BY <1>5, <1>6, NextRow DEF Settled, SameModes
<1>8. Settled(Draw(u, c)) /\ Draw(u, c).cursor = Hidden
  <2> DEFINE sc == [u.screen EXCEPT ![u.y][u.x] = c]
             w == [u EXCEPT !.screen = sc]
  <2>1. u.y \in Rows /\ u.screen \in [Rows -> [Columns -> S]]
    BY <1>1 DEF Terminal
  <2>2. sc \in [Rows -> [Columns -> S]] /\ \A r \in Rows : r # u.y => sc[r] = u.screen[r]
    BY <2>1
  <2> HIDE DEF sc
  <2>3. w \in Terminal(S) /\ w.y = u.y /\ w.screen = sc /\ SameModes(u, w)
    BY <1>1, <2>2 DEF Terminal, SameModes
  <2> HIDE DEF w
  <2>4. \A r \in Rows : r > u.y => r # u.y
    BY <2>1, ScreenAssumption DEF Rows
  <2>5. Below(w)
    BY <1>3, <2>2, <2>3, <2>4 DEF Below
  <2>6. Below(set_x(w, u.x + 1)) /\ SameModes(w, set_x(w, u.x + 1))
    BY <2>3, <2>5, Moved
  <2>7. Draw(u, c) = set_x(w, u.x + 1)
    BY DEF Draw, w, sc
  <2> QED
    BY <1>1, <1>3, <2>3, <2>6, <2>7 DEF Settled, SameModes
<1>9. CASE c = LF
  <2>1. Put(u, c) = increase_y(v)
    BY <1>3, <1>9 DEF Put, v, LF, CR, BS, TAB, ESC
  <2> QED
    BY <1>2, <1>7, <2>1
<1>10. CASE c = CR
  <2>1. Put(u, c) = v
    BY <1>3, <1>10 DEF Put, v, LF, CR, BS, TAB, ESC
  <2> QED
    BY <1>2, <1>6, <1>10, <2>1 DEF LF, CR
<1>11. CASE c = BS
  <2>1. Put(u, c) = set_x(u, u.x - 1)
    BY <1>3, <1>11 DEF Put, LF, CR, BS, TAB, ESC
  <2> QED
    BY <1>2, <1>4, <1>11, <2>1 DEF LF, BS
<1>12. CASE c = TAB
  <2>1. Put(u, c) = set_x(u, u.x + TabSize)
    BY <1>3, <1>12 DEF Put, LF, CR, BS, TAB, ESC
  <2> QED
    BY <1>2, <1>4, <1>12, <2>1 DEF LF, TAB
<1>13. CASE c \notin Controls
  <2>1. Put(u, c) = Draw(u, c)
    BY <1>3, <1>13 DEF Put, Controls
  <2> QED
    BY <1>2, <1>8, <1>13, <2>1 DEF Controls
<1> QED
  BY <1>9, <1>10, <1>11, <1>12, <1>13 DEF Controls

\* A text without escape sequences, wherever it is printed.  If it ends with a line
\* feed it leaves the cursor in column 0 of a blank row.
LEMMA TextSettles ==
  ASSUME NEW S, Blank \in S, NEW t \in Terminal(S), Settled(t),
         NEW text \in Seq(S), \A i \in 1 .. Len(text) : text[i] # ESC
  PROVE  LET u == kprint(t, text)
         IN  /\ u \in Terminal(S) /\ Settled(u)
             /\ t.cursor = Hidden => u.cursor = Hidden
             /\ Len(text) > 0 /\ text[Len(text)] = LF =>
                  u.cursor = Hidden /\ u.x = 0 /\ u.screen[u.y] = BlankRow
<1> DEFINE N == Len(text)
           Fed(u) == u.cursor = Hidden /\ u.x = 0 /\ u.screen[u.y] = BlankRow
<1>0. N \in Nat /\ N \in 0 .. N /\ \A i \in 1 .. N : text[i] \in S
  OBVIOUS
<1>1. PICK f \in [0 .. N -> Terminal(S)] : Prints(f, t, text)
  BY PrintExists
<1>2. kprint(t, text) = f[N]
  <2> HIDE DEF Terminal
  <2> QED
    BY <1>0, <1>1, PrintIs
<1> DEFINE I == {n \in 0 .. N : /\ Settled(f[n])
                                /\ t.cursor = Hidden => f[n].cursor = Hidden
                                /\ n > 0 /\ text[n] = LF => Fed(f[n])}
<1>3. 0 \in I
  BY <1>0, <1>1 DEF Prints
<1>4. ASSUME NEW n \in 0 .. N - 1, n \in I PROVE n + 1 \in I
  <2>1. n + 1 \in 1 .. N /\ n + 1 \in 0 .. N /\ (n + 1) - 1 = n /\ n \in 0 .. N
    BY <1>0
  <2>2. f[n + 1] = putchar(f[n], text[n + 1])
    BY <1>1, <2>1 DEF Prints
  <2>3. f[n] \in Terminal(S) /\ Settled(f[n]) /\ text[n + 1] \in S /\ text[n + 1] # ESC
    BY <1>0, <1>4, <2>1
  <2> HIDE DEF Terminal
  <2>4. Settled(f[n + 1]) /\ f[n + 1].cursor = Hidden /\ (text[n + 1] = LF => Fed(f[n + 1]))
    BY <2>2, <2>3, PutcharSettles
  <2> HIDE DEF Fed
  <2> QED
    BY <2>1, <2>4
<1> HIDE DEF I
<1>5. 0 .. N \subseteq I
  <2> HIDE DEF N
  <2> QED
    BY <1>0, <1>3, <1>4, BoundedInduction
<1>6. N \in I /\ f[N] \in Terminal(S)
  BY <1>0, <1>5
<1> HIDE DEF N
<1>7. Settled(f[N]) /\ (t.cursor = Hidden => f[N].cursor = Hidden)
      /\ (N > 0 /\ text[N] = LF => Fed(f[N]))
  BY <1>6 DEF I
<1> QED
  BY <1>2, <1>6, <1>7 DEF N, Fed

-----------------------------------------------------------------------------
(* What the texts of the editor do to the row of the cursor. *)

Row(t) == t.screen[t.y]

\* What a sequence is made of.
SequenceChars == {Blank, ESC, "[", "C", "D", "H", "J", "0"} \cup ToSet(Numeral)

LEMMA DigitIs ==
  /\ \A n \in 1 .. 9 : isdigit(Numeral[n]) = n /\ Numeral[n] \in ToSet(Numeral)
                       /\ Numeral[n] # ESC
  /\ isdigit("[") = 0 /\ isdigit("C") = 0 /\ isdigit("D") = 0
  /\ isdigit("H") = 0 /\ isdigit("J") = 0
<1>1. /\ DOMAIN Numeral = 1 .. 9
      /\ Numeral[1] = "1" /\ Numeral[2] = "2" /\ Numeral[3] = "3" /\ Numeral[4] = "4"
      /\ Numeral[5] = "5" /\ Numeral[6] = "6" /\ Numeral[7] = "7" /\ Numeral[8] = "8"
      /\ Numeral[9] = "9"
  BY DEF Numeral
<1>2. \A n \in 1 .. 9 : n = 1 \/ n = 2 \/ n = 3 \/ n = 4 \/ n = 5 \/ n = 6 \/ n = 7
                        \/ n = 8 \/ n = 9
  OBVIOUS
<1>3. \A n, d \in 1 .. 9 : Numeral[n] = Numeral[d] => n = d
  BY <1>1, <1>2
<1>4. \A n \in 1 .. 9 : isdigit(Numeral[n]) = n
  <2> TAKE n \in 1 .. 9
  <2> DEFINE d == CHOOSE d \in 1 .. 9 : Numeral[d] = Numeral[n]
  <2>1. d \in 1 .. 9 /\ Numeral[d] = Numeral[n]
    OBVIOUS
  <2>2. d = n
    BY <1>3, <2>1
  <2>3. isdigit(Numeral[n]) = d
    BY DEF isdigit
  <2> QED
    BY <2>2, <2>3
<1>5. ASSUME NEW c \in {"[", "C", "D", "H", "J"} PROVE isdigit(c) = 0
  <2>1. \A d \in 1 .. 9 : Numeral[d] # c
    BY <1>1, <1>2
  <2> QED
    BY <2>1 DEF isdigit
<1>6. \A n \in 1 .. 9 : Numeral[n] \in ToSet(Numeral) /\ Numeral[n] # ESC
  BY <1>1, <1>2 DEF ToSet, ESC
<1> QED
  BY <1>4, <1>5, <1>6

\* The parts of a text of two parts, and a text with a character more.
LEMMA TwoParts ==
  ASSUME NEW S, NEW p \in Seq(S), NEW q \in Seq(S)
  PROVE  /\ p \o q \in Seq(S) /\ Len(p \o q) = Len(p) + Len(q)
         /\ \A i \in 1 .. Len(p) : (p \o q)[i] = p[i]
         /\ \A i \in 1 .. Len(q) : (p \o q)[Len(p) + i] = q[i]
OBVIOUS

LEMMA OneMore ==
  ASSUME NEW S, NEW p \in Seq(S), NEW c \in S, NEW n \in Nat, Len(p) = n
  PROVE  LET q == p \o <<c>>
         IN  /\ q \in Seq(S) /\ Len(q) = n + 1
             /\ (\A i \in 1 .. n : q[i] = p[i]) /\ q[n + 1] = c
<1>1. <<c>> \in Seq(S) /\ Len(<<c>>) = 1 /\ <<c>>[1] = c
  OBVIOUS
<1> DEFINE e == <<c>>
<1> HIDE DEF e
<1>2. /\ p \o e \in Seq(S) /\ Len(p \o e) = Len(p) + Len(e)
      /\ \A i \in 1 .. Len(p) : (p \o e)[i] = p[i]
      /\ \A i \in 1 .. Len(e) : (p \o e)[Len(p) + i] = e[i]
  BY <1>1, TwoParts DEF e
<1>3. 1 \in 1 .. Len(e) /\ Len(e) = 1 /\ e[1] = c
  BY <1>1 DEF e
<1>4. (p \o e)[Len(p) + 1] = e[1]
  BY <1>2, <1>3
<1> QED
  BY <1>2, <1>3, <1>4 DEF e

\* Numbers are texts of digits, and those below 10 have one.
HasChars(text, c1, c2, c3, c4) ==
  Len(text) = 4 /\ text[1] = c1 /\ text[2] = c2 /\ text[3] = c3 /\ text[4] = c4

LEMMA EscapeText ==
  ASSUME NEW S, SequenceChars \subseteq S, NEW c \in S, NEW n \in Nat, n < 10000
  PROVE  /\ Escape(n, c) \in Seq(S)
         /\ n \in 1 .. 9 => HasChars(Escape(n, c), ESC, "[", Numeral[n], c)
<1> DEFINE Powers == <<1000, 100, 10, 1>>
           size == IF n < 10 THEN 1 ELSE IF n < 100 THEN 2 ELSE IF n < 1000 THEN 3 ELSE 4
           digit(i) == (n \div Powers[i]) % 10
           text == [i \in 1 .. size |->
                      IF digit(4 - size + i) = 0 THEN "0" ELSE Numeral[digit(4 - size + i)]]
<1>1. Decimal(n) = text
  BY DEF Decimal
<1>2. size \in 1 .. 4 /\ \A i \in 1 .. size : 4 - size + i \in 1 .. 4
  OBVIOUS
<1>3. \A i \in 1 .. 4 : digit(i) \in 0 .. 9
  <2> TAKE i \in 1 .. 4
  <2>1. Powers[i] \in Nat \ {0}
    OBVIOUS
  <2>2. n \div Powers[i] \in Int
    BY <2>1
  <2> HIDE DEF Powers
  <2> QED
    BY <2>2
<1> HIDE DEF size
<1>4. ASSUME NEW d \in 0 .. 9 PROVE (IF d = 0 THEN "0" ELSE Numeral[d]) \in S
  <2>1. CASE d = 0
    BY <2>1 DEF SequenceChars
  <2>2. CASE d # 0
    <3>1. d \in 1 .. 9
      BY <2>2
    <3>2. Numeral[d] \in ToSet(Numeral)
      BY <3>1, DigitIs
    <3> QED
      BY <2>2, <3>2 DEF SequenceChars
  <2> QED
    BY <2>1, <2>2
<1> DEFINE char(i) == IF digit(4 - size + i) = 0 THEN "0" ELSE Numeral[digit(4 - size + i)]
<1>5. text \in Seq(S) /\ Len(text) = size
  <2>1. ASSUME NEW i \in 1 .. size PROVE char(i) \in S
    <3>1. digit(4 - size + i) \in 0 .. 9
      BY <1>2, <1>3
    <3> HIDE DEF digit
    <3> QED
      BY <1>4, <3>1
  <2>2. text = [i \in 1 .. size |-> char(i)] /\ size \in Nat
    BY <1>2
  <2> HIDE DEF text, char
  <2>3. [i \in 1 .. size |-> char(i)] \in [1 .. size -> S]
    BY <2>1
  <2>4. text \in [1 .. size -> S]
    BY <2>2, <2>3
  <2> QED
    BY <2>2, <2>4
<1> HIDE DEF text
<1>6. Escape(n, c) = <<ESC, "[">> \o text \o <<c>>
  BY <1>1 DEF Escape
<1>7. <<ESC, "[">> \in Seq(S) /\ <<c>> \in Seq(S)
  BY DEF SequenceChars
<1>8. Escape(n, c) \in Seq(S)
  BY <1>5, <1>6, <1>7
<1>9. CASE n \in 1 .. 9
  <2>1. size = 1 /\ Powers[4] = 1 /\ 4 - 1 + 1 = 4
    BY <1>9 DEF size
  <2>2. digit(4) = n
    BY <1>9, <2>1
  <2>3. n # 0
    BY <1>9
  <2> HIDE DEF digit
  <2>4. text[1] = Numeral[n]
    BY <2>1, <2>2, <2>3 DEF text
  <2>10. text = <<Numeral[n]>>
    BY <1>5, <2>1, <2>4
  <2> DEFINE p == <<ESC, "[">>
             q == p \o text
             r == q \o <<c>>
  <2>5. p \in Seq(S) /\ Len(p) = 2 /\ p[1] = ESC /\ p[2] = "["
    BY <1>7
  <2> HIDE DEF p
  <2>6. q \in Seq(S) /\ Len(q) = 3 /\ q[1] = ESC /\ q[2] = "[" /\ q[3] = Numeral[n]
    <3>1. Numeral[n] \in S
      BY <1>9, DigitIs DEF SequenceChars
    <3>2. q = p \o <<Numeral[n]>>
      BY <2>10
    <3>3. /\ q \in Seq(S) /\ Len(q) = 2 + 1
          /\ (\A i \in 1 .. 2 : q[i] = p[i]) /\ q[2 + 1] = Numeral[n]
      <4> HIDE DEF q
      <4> QED
        BY <2>5, <3>1, <3>2, OneMore
    <3> HIDE DEF q
    <3> QED
      BY <2>5, <3>3
  <2> HIDE DEF q
  <2>7. r \in Seq(S) /\ Len(r) = 4 /\ r[1] = ESC /\ r[2] = "[" /\ r[3] = Numeral[n] /\ r[4] = c
    <3>1. /\ r \in Seq(S) /\ Len(r) = 3 + 1
          /\ (\A i \in 1 .. 3 : r[i] = q[i]) /\ r[3 + 1] = c
      <4>1. r = q \o <<c>>
        OBVIOUS
      <4>2. q \in Seq(S) /\ Len(q) = 3 /\ 3 \in Nat
        BY <2>6
      <4> HIDE DEF r
      <4> QED
        BY <4>1, <4>2, OneMore
    <3> HIDE DEF r
    <3> QED
      BY <2>6, <3>1
  <2>8. Escape(n, c) = r
    BY <1>6 DEF r, q, p
  <2> HIDE DEF r
  <2>9. HasChars(r, ESC, "[", Numeral[n], c)
    BY <2>7 DEF HasChars
  <2> QED
    BY <1>8, <2>8, <2>9
<1>10. n \in 1 .. 9 => HasChars(Escape(n, c), ESC, "[", Numeral[n], c)
  BY <1>9
<1> QED
  BY <1>8, <1>10

\* Before the last character of a sequence.
LEMMA SequenceOpened ==
  ASSUME NEW S, SequenceChars \subseteq S, NEW t \in Terminal(S), Settled(t)
  PROVE  LET u == ForgetCursor(t)
             e == [u EXCEPT !.escaping = TRUE]
         IN  /\ putchar(t, ESC) = e /\ putchar(e, "[") = e /\ e \in Terminal(S)
             /\ \A n \in 1 .. 9 : putchar(e, Numeral[n]) = [e EXCEPT !.value = n]
             /\ \A v \in Nat : ForgetCursor([e EXCEPT !.value = v]) = [e EXCEPT !.value = v]
<1> DEFINE u == ForgetCursor(t)
           e == [u EXCEPT !.escaping = TRUE]
<1>1. u \in Terminal(S) /\ u.cursor = Hidden /\ ~u.escaping /\ u.value = 0
  BY Forgotten DEF Settled
<1>2. putchar(t, ESC) = Put(u, ESC)
  BY DEF putchar
<1> HIDE DEF u
<1>3. Put(u, ESC) = e
  BY <1>1 DEF Put, LF, CR, BS, TAB, ESC
<1>4. e \in Terminal(S) /\ e.cursor = Hidden /\ e.escaping /\ e.value = 0
  BY <1>1 DEF Terminal
<1>5. \A v \in Nat : ForgetCursor([e EXCEPT !.value = v]) = [e EXCEPT !.value = v]
  <2> TAKE v \in Nat
  <2>1. [e EXCEPT !.value = v].cursor = Hidden
    BY <1>1 DEF Terminal
  <2> HIDE DEF e
  <2> QED
    BY <2>1 DEF ForgetCursor
<1> HIDE DEF e
<1>6. ForgetCursor(e) = e
  BY <1>4 DEF ForgetCursor
<1>7. putchar(e, "[") = e
  BY <1>4, <1>6, DigitIs DEF putchar, Put, escaping_stop
<1>8. ASSUME NEW n \in 1 .. 9 PROVE putchar(e, Numeral[n]) = [e EXCEPT !.value = n]
  <2>1. isdigit(Numeral[n]) = n
    BY DigitIs
  <2>2. Put(e, Numeral[n]) = [e EXCEPT !.value = 10 * e.value + n]
    BY <1>4, <2>1 DEF Put
  <2>3. 10 * e.value + n = n
    BY <1>4
  <2> QED
    BY <1>6, <2>2, <2>3 DEF putchar
<1> QED
  BY <1>2, <1>3, <1>4, <1>5, <1>7, <1>8 DEF e, u

\* A sequence with a number of one digit.
LEMMA SequencePrinted ==
  ASSUME NEW S, SequenceChars \subseteq S, NEW t \in Terminal(S), Settled(t),
         NEW n \in 1 .. 9, NEW c \in {"C", "D", "J"}
  PROVE  LET e == [ForgetCursor(t) EXCEPT !.escaping = TRUE, !.value = n]
         IN  /\ kprint(t, Escape(n, c)) = escaping_stop(e, c)
             /\ kprint(t, Escape(n, c)) \in Terminal(S)
             /\ e \in Terminal(S)
<1> DEFINE u == ForgetCursor(t)
           o == [u EXCEPT !.escaping = TRUE]
           e == [u EXCEPT !.escaping = TRUE, !.value = n]
           text == Escape(n, c)
<1>1. n \in Nat /\ n < 10000 /\ c \in S /\ Blank \in S
  BY DEF SequenceChars
<1>2. text \in Seq(S) /\ HasChars(text, ESC, "[", Numeral[n], c)
  <2>1. /\ Escape(n, c) \in Seq(S)
        /\ n \in 1 .. 9 => HasChars(Escape(n, c), ESC, "[", Numeral[n], c)
    <3> HIDE DEF u, o, e, text
    <3> QED
      BY <1>1, EscapeText
  <2>2. n \in 1 .. 9
    OBVIOUS
  <2> QED
    BY <2>1, <2>2
<1> Len(text) = 4
  BY <1>2 DEF HasChars
<1>3. PICK f \in [0 .. Len(text) -> Terminal(S)] : Prints(f, t, text)
  <2> HIDE DEF text, Terminal
  <2> QED
    BY <1>1, <1>2, PrintExists
<1>4. kprint(t, text) = f[Len(text)]
  <2>1. Len(text) \in Nat
    BY <1>2
  <2> HIDE DEF text, Terminal
  <2> QED
    BY <1>3, <2>1, PrintIs
<1>5. /\ f[0] = t /\ f[1] = putchar(f[0], ESC) /\ f[2] = putchar(f[1], "[")
      /\ f[3] = putchar(f[2], Numeral[n]) /\ f[4] = putchar(f[3], c)
  <2>1. \A i \in 1 .. 4 : f[i] = putchar(f[i - 1], text[i])
    BY <1>3 DEF Prints
  <2>2. /\ text[1] = ESC /\ text[2] = "[" /\ text[3] = Numeral[n] /\ text[4] = c
    BY <1>2 DEF HasChars
  <2>3. /\ 1 - 1 = 0 /\ 2 - 1 = 1 /\ 3 - 1 = 2 /\ 4 - 1 = 3
        /\ 1 \in 1 .. 4 /\ 2 \in 1 .. 4 /\ 3 \in 1 .. 4 /\ 4 \in 1 .. 4
    OBVIOUS
  <2> HIDE DEF text
  <2> QED
    BY <1>3, <2>1, <2>2, <2>3 DEF Prints
<1>6. /\ f[1] = o /\ f[2] = o /\ f[3] = [o EXCEPT !.value = n]
      /\ ForgetCursor([o EXCEPT !.value = n]) = [o EXCEPT !.value = n]
  <2>1. /\ putchar(t, ESC) = o /\ putchar(o, "[") = o
        /\ putchar(o, Numeral[n]) = [o EXCEPT !.value = n]
        /\ ForgetCursor([o EXCEPT !.value = n]) = [o EXCEPT !.value = n]
    <3>1. n \in Nat
      OBVIOUS
    <3> HIDE DEF Terminal
    <3> QED
      BY <3>1, SequenceOpened
  <2> HIDE DEF o
  <2> QED
    BY <1>5, <2>1
<1>7. u \in Terminal(S)
  BY Forgotten
<1> HIDE DEF u
<1>8. [o EXCEPT !.value = n] = e /\ e \in Terminal(S) /\ e.escaping
  <2>1. [o EXCEPT !.value = n] = e
    BY <1>7 DEF Terminal
  <2>2. e \in Terminal(S)
    <3>1. n \in Nat
      OBVIOUS
    <3> QED
      BY <1>7, <3>1 DEF Terminal
  <2>3. e.escaping
    BY <1>7 DEF Terminal
  <2> QED
    BY <2>1, <2>2, <2>3
<1>9. f[4] \in Terminal(S)
  BY <1>2
<1> HIDE DEF e, o
<1>10. isdigit(c) = 0
  BY DigitIs
<1>11. f[4] = escaping_stop(e, c)
  BY <1>5, <1>6, <1>8, <1>10 DEF putchar, Put
<1> HIDE DEF text
<1> QED
  BY <1>4, <1>8, <1>9, <1>11 DEF e, u, text

\* The arrows: as long as the cursor does not leave the row, only the column changes.
LEMMA ArrowPrinted ==
  ASSUME NEW S, SequenceChars \subseteq S, NEW t \in Terminal(S), Settled(t),
         NEW n \in 1 .. 9, NEW c \in {"C", "D"}
  PROVE  LET u == kprint(t, Escape(n, c))
             x == IF c = "C" THEN t.x + n ELSE t.x - n
         IN  /\ u \in Terminal(S) /\ Settled(u) /\ u.cursor = Hidden
             /\ x \in Columns => u.x = x /\ Row(u) = Row(ForgetCursor(t))
<1> DEFINE e == [ForgetCursor(t) EXCEPT !.escaping = TRUE, !.value = n]
           u == kprint(t, Escape(n, c))
           x == IF c = "C" THEN t.x + n ELSE t.x - n
           v == set_x(e, x)
<1>1. u = escaping_stop(e, c) /\ u \in Terminal(S) /\ e \in Terminal(S)
  BY SequencePrinted
<1>2. /\ ForgetCursor(t) \in Terminal(S) /\ ForgetCursor(t).x = t.x
      /\ ForgetCursor(t).cursor = Hidden /\ Below(ForgetCursor(t))
  BY Forgotten DEF Settled
<1>3. /\ e.x = t.x /\ e.y = ForgetCursor(t).y /\ e.screen = ForgetCursor(t).screen
      /\ e.value = n /\ e.cursor = Hidden
  BY <1>2 DEF Terminal
<1> HIDE DEF e, u
<1>4. Below(e)
  BY <1>2, <1>3 DEF Below
<1>5. escaping_stop(e, c) = EndSequence(v)
  <2>1. CASE c = "C"
    BY <1>3, <2>1 DEF escaping_stop
  <2>2. CASE c = "D"
    BY <1>3, <2>2 DEF escaping_stop
  <2> QED
    BY <2>1, <2>2
<1> HIDE DEF x
<1>6. Below(v) /\ v.cursor = Hidden /\ (x \in Columns => v = [e EXCEPT !.x = x])
  BY <1>1, <1>3, <1>4, Moved DEF SameModes
<1>7. v \in Terminal(S)
  BY <1>1, SetXType DEF SequenceChars
<1> HIDE DEF v
<1>8. /\ EndSequence(v).x = v.x /\ EndSequence(v).y = v.y /\ EndSequence(v).screen = v.screen
      /\ EndSequence(v).cursor = v.cursor /\ ~EndSequence(v).escaping
      /\ EndSequence(v).value = 0
  BY <1>7 DEF EndSequence, Terminal
<1>9. Settled(u) /\ u.cursor = Hidden
  BY <1>1, <1>5, <1>6, <1>8 DEF Settled, Below
<1>10. x \in Columns => u.x = x /\ Row(u) = Row(ForgetCursor(t))
  <2> SUFFICES ASSUME x \in Columns PROVE u.x = x /\ Row(u) = Row(ForgetCursor(t))
    OBVIOUS
  <2>1. v.x = x /\ v.y = e.y /\ v.screen = e.screen
    BY <1>1, <1>6 DEF Terminal
  <2> QED
    BY <1>1, <1>3, <1>5, <1>8, <2>1 DEF Row
<1> QED
  BY <1>1, <1>9, <1>10 DEF u, x

\* A terminal between two texts, without a drawn cursor: its column and its row.
Shows(t, S, x, row) ==
  t \in Terminal(S) /\ Settled(t) /\ t.cursor = Hidden /\ t.x = x /\ Row(t) = row

\* One arrow at a time.
LEMMA LeftPrinted ==
  ASSUME NEW S, SequenceChars \subseteq S, NEW t \in Terminal(S), Settled(t),
         NEW n \in 1 .. 9, t.x - n \in Columns
  PROVE  Shows(kprint(t, Escape(n, "D")), S, t.x - n, Row(ForgetCursor(t)))
<1>1. "D" \in {"C", "D"} /\ "D" # "C"
  OBVIOUS
<1>2. LET u == kprint(t, Escape(n, "D"))
          y == IF "D" = "C" THEN t.x + n ELSE t.x - n
      IN  /\ u \in Terminal(S) /\ Settled(u) /\ u.cursor = Hidden
          /\ y \in Columns => u.x = y /\ Row(u) = Row(ForgetCursor(t))
  <2> HIDE DEF Terminal
  <2> QED
    BY <1>1, ArrowPrinted
<1> HIDE DEF Terminal
<1> QED
  BY <1>1, <1>2 DEF Shows

LEMMA RightPrinted ==
  ASSUME NEW S, SequenceChars \subseteq S, NEW t \in Terminal(S), Settled(t),
         NEW n \in 1 .. 9, t.x + n \in Columns
  PROVE  Shows(kprint(t, Escape(n, "C")), S, t.x + n, Row(ForgetCursor(t)))
<1>1. "C" \in {"C", "D"}
  OBVIOUS
<1>2. LET u == kprint(t, Escape(n, "C"))
          y == IF "C" = "C" THEN t.x + n ELSE t.x - n
      IN  /\ u \in Terminal(S) /\ Settled(u) /\ u.cursor = Hidden
          /\ y \in Columns => u.x = y /\ Row(u) = Row(ForgetCursor(t))
  <2> HIDE DEF Terminal
  <2> QED
    BY <1>1, ArrowPrinted
<1> HIDE DEF Terminal
<1> QED
  BY <1>1, <1>2 DEF Shows

LEMMA LeftAgain ==
  ASSUME NEW S, SequenceChars \subseteq S, NEW t, NEW y, NEW row, Shows(t, S, y, row),
         NEW n \in 1 .. 9, y - n \in Columns
  PROVE  Shows(kprint(t, Escape(n, "D")), S, y - n, row)
<1>1. /\ t \in Terminal(S) /\ Settled(t) /\ t.x = y
      /\ Row(ForgetCursor(t)) = row
  BY DEF Shows, ForgetCursor
<1> HIDE DEF Terminal
<1>2. Shows(kprint(t, Escape(n, "D")), S, t.x - n, Row(ForgetCursor(t)))
  BY <1>1, LeftPrinted
<1> QED
  BY <1>1, <1>2

LEMMA RightAgain ==
  ASSUME NEW S, SequenceChars \subseteq S, NEW t, NEW y, NEW row, Shows(t, S, y, row),
         NEW n \in 1 .. 9, y + n \in Columns
  PROVE  Shows(kprint(t, Escape(n, "C")), S, y + n, row)
<1>1. /\ t \in Terminal(S) /\ Settled(t) /\ t.x = y
      /\ Row(ForgetCursor(t)) = row
  BY DEF Shows, ForgetCursor
<1> HIDE DEF Terminal
<1>2. Shows(kprint(t, Escape(n, "C")), S, t.x + n, Row(ForgetCursor(t)))
  BY <1>1, RightPrinted
<1> QED
  BY <1>1, <1>2

\* A row in which a text is written from column x on.
Overlay(row, x, text) ==
  [i \in Columns |-> IF x <= i /\ i < x + Len(text) THEN text[i - x + 1] ELSE row[i]]

LEMMA CharPrinted ==
  ASSUME NEW S, Blank \in S, NEW t \in Terminal(S), Settled(t), t.x + 1 \in Columns,
         NEW c \in S, c \notin Controls
  PROVE  Shows(putchar(t, c), S, t.x + 1, [Row(ForgetCursor(t)) EXCEPT ![t.x] = c])
<1> DEFINE u == ForgetCursor(t)
           sc == [u.screen EXCEPT ![u.y][u.x] = c]
           w == [u EXCEPT !.screen = sc]
           v == set_x(w, u.x + 1)
<1>1. u \in Terminal(S) /\ u.x = t.x /\ u.cursor = Hidden /\ ~u.escaping /\ Below(u)
  BY Forgotten DEF Settled
<1>2. putchar(t, c) = Put(u, c)
  BY DEF putchar
<1> HIDE DEF u
<1>3. Put(u, c) = v
  BY <1>1 DEF Put, Controls, Draw
<1>4. u.y \in Rows /\ u.screen \in [Rows -> [Columns -> S]]
  BY <1>1 DEF Terminal
<1>5. /\ sc \in [Rows -> [Columns -> S]]
      /\ sc[u.y] = [u.screen[u.y] EXCEPT ![u.x] = c]
      /\ \A r \in Rows : r # u.y => sc[r] = u.screen[r]
  BY <1>4
<1> HIDE DEF sc
<1>6. w \in Terminal(S) /\ w.y = u.y /\ w.x = u.x /\ w.screen = sc /\ SameModes(u, w)
  BY <1>1, <1>5 DEF Terminal, SameModes
<1> HIDE DEF w
<1>7. Below(w)
  <2>1. \A r \in Rows : r > u.y => r # u.y
    BY <1>4, ScreenAssumption DEF Rows
  <2> QED
    BY <1>1, <1>5, <1>6, <2>1 DEF Below
<1>8. v = [w EXCEPT !.x = u.x + 1]
  BY <1>1 DEF set_x
<1>9. /\ v \in Terminal(S) /\ v.x = u.x + 1 /\ v.y = u.y /\ v.screen = sc /\ v.cursor = Hidden
      /\ ~v.escaping /\ v.value = u.value
  BY <1>1, <1>6, <1>8 DEF Terminal, SameModes
<1> HIDE DEF v
<1>10. Settled(putchar(t, c))
  BY PutcharSettles DEF Controls
<1> QED
  BY <1>1, <1>2, <1>3, <1>5, <1>9, <1>10 DEF Shows, Row, u

\* A text of printable characters that fits into the row.
LEMMA TextPrinted ==
  ASSUME NEW S, Blank \in S, NEW t, NEW x, NEW row, Shows(t, S, x, row),
         NEW text \in Seq(S), \A i \in 1 .. Len(text) : text[i] \notin Controls,
         x + Len(text) \in Columns
  PROVE  Shows(kprint(t, text), S, x + Len(text), Overlay(row, x, text))
<1> DEFINE N == Len(text)
           part(n) == [i \in Columns |-> IF x <= i /\ i < x + n THEN text[i - x + 1] ELSE row[i]]
<1>0. /\ N \in Nat /\ N \in 0 .. N /\ Width \in Nat \ {0} /\ x \in Nat
      /\ t \in Terminal(S) /\ row \in [Columns -> S]
      /\ \A n \in 1 .. N : text[n] \in S
  BY ScreenAssumption DEF Shows, Terminal, Row, Columns
<1>1. PICK f \in [0 .. N -> Terminal(S)] : Prints(f, t, text)
  BY <1>0, PrintExists
<1>2. kprint(t, text) = f[N]
  <2> HIDE DEF Terminal
  <2> QED
    BY <1>0, <1>1, PrintIs
<1> DEFINE I == {n \in 0 .. N : Shows(f[n], S, x + n, part(n))}
<1>3. 0 \in I
  <2>1. f[0] = t /\ 0 \in 0 .. N
    BY <1>0, <1>1 DEF Prints
  <2>2. part(0) = row
    <3>1. \A i \in Columns : ~(x <= i /\ i < x + 0)
      BY <1>0 DEF Columns
    <3> QED
      BY <1>0, <3>1
  <2> HIDE DEF part
  <2> QED
    BY <1>0, <2>1, <2>2
<1>4. ASSUME NEW n \in 0 .. N - 1, n \in I PROVE n + 1 \in I
  <2>1. n + 1 \in 1 .. N /\ n + 1 \in 0 .. N /\ (n + 1) - 1 = n /\ n \in 0 .. N
    BY <1>0
  <2>2. f[n + 1] = putchar(f[n], text[n + 1])
    BY <1>1, <2>1 DEF Prints
  <2>3. Shows(f[n], S, x + n, part(n)) /\ text[n + 1] \in S /\ text[n + 1] \notin Controls
    BY <1>0, <1>4, <2>1
  <2>4. ForgetCursor(f[n]) = f[n]
    BY <2>3 DEF Shows, ForgetCursor
  <2>5. (x + n) + 1 \in Columns /\ (x + n) + 1 = x + (n + 1) /\ x + n \in Columns
    BY <1>0, <2>1 DEF Columns
  <2> HIDE DEF part, Terminal
  <2>6. Shows(f[n + 1], S, x + (n + 1), [part(n) EXCEPT ![x + n] = text[n + 1]])
    BY <2>2, <2>3, <2>4, <2>5, CharPrinted DEF Shows
  <2>7. [part(n) EXCEPT ![x + n] = text[n + 1]] = part(n + 1)
    <3>1. ASSUME NEW i \in Columns
          PROVE  [part(n) EXCEPT ![x + n] = text[n + 1]][i] = part(n + 1)[i]
      <4>1. i \in Nat
        BY <1>0 DEF Columns
      <4>2. CASE i = x + n
        BY <1>0, <2>1, <2>5, <4>1, <4>2 DEF part
      <4>3. CASE i # x + n
        <5>1. (x <= i /\ i < x + n) <=> (x <= i /\ i < x + (n + 1))
          BY <1>0, <2>1, <4>1, <4>3
        <5> QED
          BY <4>3, <5>1 DEF part
      <4> QED
        BY <4>2, <4>3
    <3> QED
      BY <3>1 DEF part
  <2> QED
    BY <2>1, <2>6, <2>7
<1> HIDE DEF I
<1>5. 0 .. N \subseteq I
  <2> HIDE DEF N
  <2> QED
    BY <1>0, <1>3, <1>4, BoundedInduction
<1>6. part(N) = Overlay(row, x, text)
  BY DEF Overlay
<1> HIDE DEF part
<1>7. Shows(f[N], S, x + N, part(N))
  <2> HIDE DEF N
  <2> QED
    BY <1>0, <1>5 DEF I
<1> QED
  BY <1>2, <1>6, <1>7

\* CTRL+L clears the screen and goes to its first row.
LEMMA ClearPrinted ==
  ASSUME NEW S, SequenceChars \subseteq S, NEW t \in Terminal(S), Settled(t)
  PROVE  Shows(kprint(t, Escape(2, "J") \o <<ESC, "[", "H">>), S, 0, BlankRow)
<1> DEFINE e == [ForgetCursor(t) EXCEPT !.escaping = TRUE, !.value = 2]
           cleared == framebuffer_device_clear(e)
           u == EndSequence(cleared)
           home == <<ESC, "[", "H">>
<1>0. Blank \in S /\ ESC \in S /\ "[" \in S /\ "H" \in S /\ "J" \in S /\ 2 \in Nat /\ 2 < 10000
  BY DEF SequenceChars
<1>1. kprint(t, Escape(2, "J")) = escaping_stop(e, "J") /\ e \in Terminal(S)
  <2>1. 2 \in 1 .. 9 /\ "J" \in {"C", "D", "J"}
    OBVIOUS
  <2> QED
    BY <2>1, SequencePrinted
<1>2. ForgetCursor(t) \in Terminal(S) /\ ForgetCursor(t).cursor = Hidden
  BY Forgotten
<1>3. e.cursor = Hidden
  BY <1>2 DEF Terminal
<1> HIDE DEF e
<1>4. escaping_stop(e, "J") = u
  BY DEF escaping_stop
<1> DEFINE sc == [r \in Rows |-> BlankRow]
<1>5. cleared = [e EXCEPT !.screen = sc]
  BY DEF framebuffer_device_clear, NewTerminal
<1>6. sc \in [Rows -> [Columns -> S]] /\ \A r \in Rows : sc[r] = BlankRow
  BY <1>0 DEF BlankRow
<1> HIDE DEF sc
<1>7. cleared \in Terminal(S) /\ cleared.cursor = Hidden /\ cleared.screen = sc
  BY <1>1, <1>3, <1>5, <1>6 DEF Terminal
<1> HIDE DEF cleared
<1>8. /\ u \in Terminal(S) /\ u.cursor = Hidden /\ ~u.escaping /\ u.value = 0
      /\ u.screen = sc
  BY <1>7 DEF Terminal, EndSequence
<1> HIDE DEF u
<1>9. Settled(u) /\ ForgetCursor(u) = u
  BY <1>6, <1>8 DEF Settled, Below, ForgetCursor
<1>10. home \in Seq(S) /\ Len(home) = 3
  BY <1>0
<1>11. PICK f \in [0 .. Len(home) -> Terminal(S)] : Prints(f, u, home)
  <2> HIDE DEF home, Terminal
  <2> QED
    BY <1>0, <1>8, <1>10, PrintExists
<1>12. kprint(u, home) = f[Len(home)]
  <2>1. Len(home) \in Nat
    BY <1>10
  <2> HIDE DEF home, Terminal
  <2> QED
    BY <1>11, <2>1, PrintIs
<1>13. f[0] = u /\ f[1] = putchar(f[0], ESC) /\ f[2] = putchar(f[1], "[") /\ f[3] = putchar(f[2], "H")
  <2>1. \A i \in 1 .. 3 : f[i] = putchar(f[i - 1], home[i])
    BY <1>10, <1>11 DEF Prints
  <2>2. home[1] = ESC /\ home[2] = "[" /\ home[3] = "H"
    OBVIOUS
  <2>3. 1 - 1 = 0 /\ 2 - 1 = 1 /\ 3 - 1 = 2 /\ 1 \in 1 .. 3 /\ 2 \in 1 .. 3 /\ 3 \in 1 .. 3
    OBVIOUS
  <2> HIDE DEF home
  <2> QED
    BY <1>11, <2>1, <2>2, <2>3 DEF Prints
<1> DEFINE o == [u EXCEPT !.escaping = TRUE]
           v == [o EXCEPT !.x = 0, !.y = 0]
           w == EndSequence(v)
<1>14. f[1] = o /\ f[2] = o
  <2>1. putchar(u, ESC) = o /\ putchar(o, "[") = o
    BY <1>8, <1>9, SequenceOpened
  <2> HIDE DEF o
  <2> QED
    BY <1>13, <2>1
<1>15. o \in Terminal(S) /\ o.cursor = Hidden /\ o.escaping /\ o.screen = sc
  BY <1>8 DEF Terminal
<1> HIDE DEF o
<1>16. f[3] = w
  <2>1. ForgetCursor(o) = o
    BY <1>15 DEF ForgetCursor
  <2>2. isdigit("H") = 0
    BY DigitIs
  <2>3. Put(o, "H") = escaping_stop(o, "H")
    BY <1>15, <2>2 DEF Put
  <2> QED
    BY <1>13, <1>14, <2>1, <2>3 DEF putchar, escaping_stop
<1>17. 0 \in Columns /\ 0 \in Rows
  BY ScreenAssumption DEF Columns, Rows
<1>18. v \in Terminal(S) /\ v.x = 0 /\ v.y = 0 /\ v.screen = sc /\ v.cursor = Hidden
  BY <1>15, <1>17 DEF Terminal
<1> HIDE DEF v
<1>19. /\ w \in Terminal(S) /\ w.x = 0 /\ w.y = 0 /\ w.screen = sc /\ w.cursor = Hidden
       /\ ~w.escaping /\ w.value = 0
  BY <1>18 DEF Terminal, EndSequence
<1> HIDE DEF w
<1>20. Shows(w, S, 0, BlankRow)
  BY <1>6, <1>17, <1>19 DEF Shows, Settled, Below, Row
<1>21. kprint(t, Escape(2, "J") \o home) = kprint(kprint(t, Escape(2, "J")), home)
  <2>1. Escape(2, "J") \in Seq(S)
    BY <1>0, EscapeText
  <2> HIDE DEF home, Terminal
  <2> QED
    BY <1>0, <1>10, <2>1, PrintBoth
<1> QED
  BY <1>1, <1>4, <1>10, <1>12, <1>16, <1>20, <1>21

\* A text of six parts.
LEMMA SixParts ==
  ASSUME NEW S, Blank \in S, NEW t \in Terminal(S), NEW a \in Seq(S), NEW b \in Seq(S),
         NEW c \in Seq(S), NEW d \in Seq(S), NEW e \in Seq(S), NEW f \in Seq(S)
  PROVE  kprint(t, a \o b \o c \o d \o e \o f) =
           kprint(kprint(kprint(kprint(kprint(kprint(t, a), b), c), d), e), f)
<1> DEFINE p2 == a \o b
           p3 == p2 \o c
           p4 == p3 \o d
           p5 == p4 \o e
           p6 == p5 \o f
<1> HIDE DEF Terminal
<1>2. p2 \in Seq(S) /\ kprint(t, p2) = kprint(kprint(t, a), b)
  BY PrintBoth
<1> HIDE DEF p2
<1>3. p3 \in Seq(S) /\ kprint(t, p3) = kprint(kprint(t, p2), c)
  BY <1>2, PrintBoth
<1> HIDE DEF p3
<1>4. p4 \in Seq(S) /\ kprint(t, p4) = kprint(kprint(t, p3), d)
  BY <1>3, PrintBoth
<1> HIDE DEF p4
<1>5. p5 \in Seq(S) /\ kprint(t, p5) = kprint(kprint(t, p4), e)
  BY <1>4, PrintBoth
<1> HIDE DEF p5
<1>6. kprint(t, p6) = kprint(kprint(t, p5), f)
  BY <1>5, PrintBoth
<1> QED
  BY <1>2, <1>3, <1>4, <1>5, <1>6 DEF p2, p3, p4, p5

\* What refreshline prints.
Refresh(a, text, m, p) ==
  Escape(a, "D") \o text \o <<Blank>> \o Escape(1, "D") \o Escape(m, "D") \o Escape(p, "C")

AtRest(t, S) == t \in Terminal(S) /\ Settled(t) /\ t.cursor = Hidden

NoEscape(text) == \A i \in 1 .. Len(text) : text[i] # ESC

\* It settles the terminal, wherever the cursor is.
LEMMA RefreshSettles ==
  ASSUME NEW S, SequenceChars \subseteq S, NEW t \in Terminal(S), Settled(t),
         NEW a \in 1 .. 9, NEW m \in 1 .. 9, NEW p \in 1 .. 9,
         NEW text \in Seq(S), NoEscape(text)
  PROVE  AtRest(kprint(t, Refresh(a, text, m, p)), S)
<1> DEFINE t1 == kprint(t, Escape(a, "D"))
           t2 == kprint(t1, text)
           t3 == kprint(t2, <<Blank>>)
           t4 == kprint(t3, Escape(1, "D"))
           t5 == kprint(t4, Escape(m, "D"))
           t6 == kprint(t5, Escape(p, "C"))
<1>0. /\ Blank \in S /\ "C" \in S /\ "D" \in S
      /\ "C" \in {"C", "D"} /\ "D" \in {"C", "D"} /\ 1 \in 1 .. 9
      /\ \A n \in 1 .. 9 : n \in Nat /\ n < 10000
  BY DEF SequenceChars
<1>1. /\ Escape(a, "D") \in Seq(S) /\ Escape(1, "D") \in Seq(S) /\ Escape(m, "D") \in Seq(S)
      /\ Escape(p, "C") \in Seq(S) /\ <<Blank>> \in Seq(S)
  BY <1>0, EscapeText
<1>2. \A i \in 1 .. Len(<<Blank>>) : <<Blank>>[i] # ESC
  <2>1. Blank # ESC
    BY DEF Blank, ESC
  <2>2. \A i \in 1 .. Len(<<Blank>>) : i = 1
    OBVIOUS
  <2>3. <<Blank>>[1] = Blank
    OBVIOUS
  <2> QED
    BY <2>1, <2>2, <2>3
<1> HIDE DEF Terminal
<1>3. kprint(t, Refresh(a, text, m, p)) = t6
  <2> DEFINE A == Escape(a, "D")
             B == <<Blank>>
             C == Escape(1, "D")
             D == Escape(m, "D")
             E == Escape(p, "C")
  <2>1. A \in Seq(S) /\ B \in Seq(S) /\ C \in Seq(S) /\ D \in Seq(S) /\ E \in Seq(S)
    BY <1>1
  <2>2. t6 = kprint(kprint(kprint(kprint(kprint(kprint(t, A), text), B), C), D), E)
    OBVIOUS
  <2> HIDE DEF A, B, C, D, E, t6
  <2>3. kprint(t, A \o text \o B \o C \o D \o E) = t6
    BY <1>0, <2>1, <2>2, SixParts
  <2> QED
    BY <2>3 DEF A, B, C, D, E, Refresh
<1>4. t1 \in Terminal(S) /\ Settled(t1)
  BY <1>0, ArrowPrinted
<1> HIDE DEF t1
<1>5. t2 \in Terminal(S) /\ Settled(t2)
  BY <1>0, <1>4, TextSettles DEF NoEscape
<1> HIDE DEF t2
<1>6. t3 \in Terminal(S) /\ Settled(t3)
  <2> DEFINE blank == <<Blank>>
  <2>1. blank \in Seq(S) /\ \A i \in 1 .. Len(blank) : blank[i] # ESC
    BY <1>1, <1>2
  <2> HIDE DEF blank
  <2>2. kprint(t2, blank) \in Terminal(S) /\ Settled(kprint(t2, blank))
    BY <1>0, <1>5, <2>1, TextSettles
  <2> QED
    BY <2>2 DEF blank
<1> HIDE DEF t3
<1>7. t4 \in Terminal(S) /\ Settled(t4)
  BY <1>0, <1>6, ArrowPrinted
<1> HIDE DEF t4
<1>8. t5 \in Terminal(S) /\ Settled(t5)
  BY <1>0, <1>7, ArrowPrinted
<1> HIDE DEF t5
<1>9. t6 \in Terminal(S) /\ Settled(t6) /\ t6.cursor = Hidden
  BY <1>0, <1>8, ArrowPrinted
<1> QED
  BY <1>3, <1>9 DEF t1, t2, t3, t4, t5, AtRest

\* On its own row: the text is written from where the cursor goes first, followed by
\* a blank, and the cursor goes back into it.
LEMMA RefreshPrinted ==
  ASSUME NEW S, SequenceChars \subseteq S, NEW t \in Terminal(S), Settled(t),
         NEW x \in Nat, NEW a \in 1 .. 9, NEW m \in 1 .. 9, NEW p \in 1 .. 9,
         NEW text \in Seq(S), \A i \in 1 .. Len(text) : text[i] \notin Controls,
         Len(text) = m, p <= m, t.x = x + a, x + m + 1 \in Columns
  PROVE  LET u == kprint(t, Refresh(a, text, m, p))
         IN  Shows(u, S, x + p,
                   [Overlay(Row(ForgetCursor(t)), x, text) EXCEPT ![x + m] = Blank])
<1> DEFINE t1 == kprint(t, Escape(a, "D"))
           t2 == kprint(t1, text)
           t3 == kprint(t2, <<Blank>>)
           t4 == kprint(t3, Escape(1, "D"))
           t5 == kprint(t4, Escape(m, "D"))
           t6 == kprint(t5, Escape(p, "C"))
           r1 == Row(ForgetCursor(t))
           r2 == Overlay(r1, x, text)
           r3 == [r2 EXCEPT ![x + m] = Blank]
<1>0. /\ Blank \in S /\ "C" \in S /\ "D" \in S
      /\ "C" \in {"C", "D"} /\ "D" \in {"C", "D"} /\ 1 \in 1 .. 9
      /\ \A n \in 1 .. 9 : n \in Nat /\ n < 10000
  BY DEF SequenceChars
<1>1. /\ Escape(a, "D") \in Seq(S) /\ Escape(1, "D") \in Seq(S) /\ Escape(m, "D") \in Seq(S)
      /\ Escape(p, "C") \in Seq(S) /\ <<Blank>> \in Seq(S)
  BY <1>0, EscapeText
<1>2. /\ x \in Columns /\ x + m \in Columns /\ x + p \in Columns /\ (x + m) + 1 \in Columns
      /\ (x + a) - a = x /\ (x + m + 1) - 1 = x + m /\ (x + m) - m = x
  BY ScreenAssumption DEF Columns
<1>3. Blank \notin Controls
  BY DEF Controls, Blank, LF, CR, BS, TAB, ESC
<1> HIDE DEF Terminal
<1>4. kprint(t, Refresh(a, text, m, p)) = t6
  <2> DEFINE A == Escape(a, "D")
             B == <<Blank>>
             C == Escape(1, "D")
             D == Escape(m, "D")
             E == Escape(p, "C")
  <2>1. A \in Seq(S) /\ B \in Seq(S) /\ C \in Seq(S) /\ D \in Seq(S) /\ E \in Seq(S)
    BY <1>1
  <2>2. t6 = kprint(kprint(kprint(kprint(kprint(kprint(t, A), text), B), C), D), E)
    OBVIOUS
  <2> HIDE DEF A, B, C, D, E, t6
  <2>3. kprint(t, A \o text \o B \o C \o D \o E) = t6
    BY <1>0, <2>1, <2>2, SixParts
  <2> QED
    BY <2>3 DEF A, B, C, D, E, Refresh
<1>5. Shows(t1, S, x, r1)
  <2>1. t.x - a = x
    OBVIOUS
  <2>2. Shows(t1, S, t.x - a, r1)
    BY <1>2, <2>1, LeftPrinted
  <2> QED
    BY <2>1, <2>2
<1> HIDE DEF t1, r1
<1>6. Shows(t2, S, x + m, r2)
  BY <1>0, <1>2, <1>5, TextPrinted
<1> HIDE DEF t2, r2
<1>7. Shows(t3, S, x + m + 1, r3)
  <2>1. kprint(t2, <<Blank>>) = putchar(t2, Blank)
    BY <1>0, <1>6, PrintOne DEF Shows
  <2>2. ForgetCursor(t2) = t2
    BY <1>6 DEF Shows, ForgetCursor
  <2> QED
    BY <1>0, <1>2, <1>3, <1>6, <2>1, <2>2, CharPrinted DEF Shows
<1> HIDE DEF t3, r3
<1>9. Shows(t4, S, x + m, r3)
  <2> DEFINE y == x + m + 1
  <2>1. Shows(t3, S, y, r3) /\ y - 1 \in Columns /\ y - 1 = x + m
    BY <1>2, <1>7
  <2> HIDE DEF y
  <2>2. Shows(t4, S, y - 1, r3)
    BY <1>0, <2>1, LeftAgain
  <2> QED
    BY <2>1, <2>2
<1> HIDE DEF t4
<1>10. Shows(t5, S, x, r3)
  <2> DEFINE y == x + m
  <2>1. Shows(t4, S, y, r3) /\ y - m \in Columns /\ y - m = x
    BY <1>2, <1>9
  <2> HIDE DEF y
  <2>2. Shows(t5, S, y - m, r3)
    BY <2>1, LeftAgain
  <2> QED
    BY <2>1, <2>2
<1> HIDE DEF t5
<1>11. Shows(t6, S, x + p, r3)
  <2>1. Shows(t5, S, x, r3) /\ x + p \in Columns
    BY <1>2, <1>10
  <2> HIDE DEF r3
  <2> QED
    BY <2>1, RightAgain
<1> QED
  BY <1>4, <1>11 DEF t1, t2, t3, t4, t5, r1, r2, r3

-----------------------------------------------------------------------------
(* The line. *)

\* s is a string of n characters in the buffer, with zeros behind it.
Ends(s, n) ==
  /\ n \in 0 .. CMDLINE_MAX - 1
  /\ \A i \in 0 .. n - 1 : s[i] # NUL
  /\ \A i \in n .. CMDLINE_MAX : s[i] = NUL

LEMMA EndsAt ==
  ASSUME NEW s, NEW n, Ends(s, n)
  PROVE  /\ strlen(s) = n
         /\ Len(Text(s)) = n /\ \A i \in 1 .. n : Text(s)[i] = s[i - 1] /\ s[i - 1] # NUL
<1> CMDLINE_MAX \in Nat \ {0}
  BY ConsoleAssumption
<1> DEFINE End(m) == s[m] = NUL /\ \A i \in 0 .. m - 1 : s[i] # NUL
<1>1. n \in 0 .. CMDLINE_MAX /\ End(n) /\ n \in Nat
  BY DEF Ends
<1>2. ASSUME NEW m \in 0 .. CMDLINE_MAX, End(m) PROVE m = n
  <2>1. ~(m < n)
    BY <1>1, <1>2
  <2>2. ~(n < m)
    BY <1>1, <1>2
  <2> QED
    BY <1>1, <2>1, <2>2
<1>3. strlen(s) = CHOOSE m \in 0 .. CMDLINE_MAX : End(m)
  BY DEF strlen
<1>4. strlen(s) = n
  <2> HIDE DEF End
  <2> QED
    BY <1>1, <1>2, <1>3
<1>5. Text(s) = [i \in 1 .. n |-> s[i - 1]]
  BY <1>4 DEF Text
<1>6. Len([i \in 1 .. n |-> s[i - 1]]) = n
  BY <1>1
<1>7. \A i \in 1 .. n : i - 1 \in 0 .. n - 1
  BY <1>1
<1> QED
  BY <1>4, <1>5, <1>6, <1>7 DEF Ends

\* Two ways in which the line changes.
LEMMA EmptyEnds ==
  ASSUME NEW s, NEW n, Ends(s, n), DOMAIN s = 0 .. CMDLINE_MAX
  PROVE  Ends([i \in DOMAIN s |-> IF i < CMDLINE_MAX THEN NUL ELSE s[i]], 0)
<1> CMDLINE_MAX \in Nat \ {0}
  BY ConsoleAssumption
<1> QED
  BY DEF Ends

LEMMA RemovedEnds ==
  ASSUME NEW s, NEW n, Ends(s, n), DOMAIN s = 0 .. CMDLINE_MAX, NEW p \in Nat, p < n
  PROVE  /\ Ends(rmchar(s, p), n - 1)
         /\ \A i \in 0 .. n - 2 : rmchar(s, p)[i] = IF i < p THEN s[i] ELSE s[i + 1]
<1> CMDLINE_MAX \in Nat \ {0} /\ n \in 0 .. CMDLINE_MAX - 1
  BY ConsoleAssumption DEF Ends
<1>1. rmchar(s, p) = [i \in 0 .. CMDLINE_MAX |-> IF i \in p .. n - 1 THEN s[i + 1] ELSE s[i]]
  BY EndsAt DEF rmchar
<1> DEFINE r == rmchar(s, p)
<1> HIDE DEF r
<1>2. \A i \in 0 .. CMDLINE_MAX : r[i] = IF i \in p .. n - 1 THEN s[i + 1] ELSE s[i]
  BY <1>1 DEF r
<1>3. \A i \in 0 .. n - 2 : r[i] = (IF i < p THEN s[i] ELSE s[i + 1]) /\ r[i] # NUL
  <2> TAKE i \in 0 .. n - 2
  <2>1. i \in 0 .. CMDLINE_MAX /\ i \in 0 .. n - 1 /\ i + 1 \in 0 .. n - 1 /\ i \in Nat
    OBVIOUS
  <2>2. s[i] # NUL /\ s[i + 1] # NUL
    BY <2>1 DEF Ends
  <2>3. CASE i < p
    BY <1>2, <2>1, <2>2, <2>3
  <2>4. CASE ~(i < p)
    <3>1. i \in p .. n - 1
      BY <2>1, <2>4
    <3> QED
      BY <1>2, <2>1, <2>2, <2>4, <3>1
  <2> QED
    BY <2>3, <2>4
<1>4. \A i \in n - 1 .. CMDLINE_MAX : r[i] = NUL
  <2> TAKE i \in n - 1 .. CMDLINE_MAX
  <2>1. i \in 0 .. CMDLINE_MAX /\ i \in Nat
    OBVIOUS
  <2>2. CASE i = n - 1
    <3>1. n \in n .. CMDLINE_MAX /\ i \in p .. n - 1 /\ i + 1 = n
      BY <2>2
    <3> QED
      BY <1>2, <2>1, <3>1 DEF Ends
  <2>3. CASE i # n - 1
    <3>1. i \in n .. CMDLINE_MAX /\ i \notin p .. n - 1
      BY <2>3
    <3> QED
      BY <1>2, <2>1, <3>1 DEF Ends
  <2> QED
    BY <2>2, <2>3
<1>5. n - 1 \in 0 .. CMDLINE_MAX - 1 /\ (n - 1) - 1 = n - 2
  OBVIOUS
<1> QED
  BY <1>3, <1>4, <1>5 DEF Ends, r

\* What is printed consists of glyphs.
LEMMA GlyphFacts ==
  /\ Chars \subseteq Glyphs /\ SequenceChars \subseteq Glyphs
  /\ {Blank, Block, "0", "x", "b", "^", "!", "C", LF, ESC, NUL, VT} \subseteq Glyphs
  /\ {NUL, LF, ESC, ETX, FF, BS, VT} \subseteq Chars /\ Letters \subseteq Chars
  /\ Prompt \in Seq(Glyphs) /\ Outputs \subseteq Seq(Glyphs)
<1>1. DOMAIN KeyChar = {"enter", "backspace", "tab", "esc", "ctrl"}
      /\ KeyChar["enter"] = LF /\ KeyChar["backspace"] = BS /\ KeyChar["tab"] = VT
      /\ KeyChar["esc"] = ESC /\ KeyChar["ctrl"] = ESC
  BY DEF KeyChar
<1>2. {NUL, LF, ESC, ETX, FF, BS, VT} \subseteq Chars /\ Letters \subseteq Chars
  <2>1. {LF, BS, VT, ESC} \subseteq {KeyChar[k] : k \in DOMAIN KeyChar}
    BY <1>1
  <2> QED
    BY <2>1 DEF Chars
<1>3. Chars \subseteq Glyphs
  BY DEF Glyphs
<1>4. SequenceChars \subseteq Glyphs
  <2>1. ESC \in Glyphs
    BY <1>2, <1>3
  <2> QED
    BY <2>1 DEF Glyphs, SequenceChars
<1>5. {Blank, Block, "0", "x", "b", "^", "!", "C"} \subseteq Glyphs
  BY DEF Glyphs
<1>6. ASSUME NEW text \in Seq(STRING), ToSet(text) \subseteq Glyphs PROVE text \in Seq(Glyphs)
  <2>1. \A i \in 1 .. Len(text) : text[i] \in Glyphs
    BY <1>6 DEF ToSet
  <2> QED
    BY <2>1
<1>7. Prompt \in Seq(Glyphs)
  <2>1. ToSet(Prompt) \subseteq Glyphs
    BY DEF Glyphs
  <2> QED
    BY <1>6, <2>1, ConsoleAssumption
<1>8. ASSUME NEW out \in Outputs PROVE out \in Seq(Glyphs)
  <2>1. ToSet(out) \subseteq Glyphs
    BY DEF Glyphs
  <2> QED
    BY <1>6, <2>1, ConsoleAssumption
<1> QED
  BY <1>2, <1>3, <1>4, <1>5, <1>7, <1>8

-----------------------------------------------------------------------------
(* Types, and the line as a string. *)

KeysOK ==
  /\ ctrl \in BOOLEAN /\ pending \in Chars /\ unread \in BOOLEAN
  /\ reader \in Places /\ got \in Chars

\* The editor's variables, as an operator on their values.
EditorOK(l, p, t, m) ==
  /\ l \in [0 .. CMDLINE_MAX -> Chars] /\ p \in 0 .. CMDLINE_MAX - 1
  /\ t \in Terminal(Glyphs) /\ m \subseteq Marks
  /\ \E n \in 0 .. CMDLINE_MAX - 1 : Ends(l, n) /\ p <= n

\* The inductive invariant of the line: it ends somewhere, and there are only zeros
\* behind.  (strlen(line) alone says nothing unless there is a zero at all.)
EditInv == KeysOK /\ EditorOK(line, pos, term, marred)

LEMMA EditInvSays == EditInv => TypeOK /\ LineIsText
<1> SUFFICES ASSUME EditInv PROVE TypeOK /\ LineIsText
  OBVIOUS
<1>1. TypeOK
  BY DEF EditInv, KeysOK, EditorOK, TypeOK
<1>2. PICK n \in 0 .. CMDLINE_MAX - 1 : Ends(line, n) /\ pos <= n
  BY DEF EditInv, EditorOK
<1>3. strlen(line) = n
  BY <1>2, EndsAt
<1>4. n < CMDLINE_MAX
  BY ConsoleAssumption
<1> QED
  BY <1>1, <1>2, <1>3, <1>4 DEF LineIsText, Ends

LEMMA CharOfIsChar == ASSUME NEW e \in Events PROVE CharOf(e) \in Chars
<1>1. e \in Letters \/ e \in DOMAIN KeyChar \/ e \in {"up", "ctrl up"}
  <2>1. OtherKeys \subseteq DOMAIN KeyChar
    BY ConsoleAssumption
  <2> QED
    BY <2>1 DEF Events, Keys
<1>2. \A k \in DOMAIN KeyChar : KeyChar[k] \in Chars
  BY DEF Chars
<1>3. {NUL, ETX, FF, LF} \subseteq Chars /\ Letters \subseteq Chars
  BY GlyphFacts
<1> QED
  BY <1>1, <1>2, <1>3 DEF CharOf

LEMMA KeysKept == ASSUME KeysOK, [Next]_vars PROVE KeysOK'
<1> USE DEF KeysOK
<1>0. NUL \in Chars /\ "test" \in Places /\ "load" \in Places /\ "clear" \in Places
      /\ "bracket" \in Places /\ "final" \in Places
  BY GlyphFacts DEF Places
<1>1. ASSUME NEW e \in Events, Irq(e) PROVE KeysOK'
  <2>1. CharOf(e) \in Chars /\ CtrlAfter(e) \in BOOLEAN
    BY CharOfIsChar DEF CtrlAfter
  <2> QED
    BY <1>1, <2>1 DEF Irq
<1>2. ASSUME NEW e \in Events, Bracket(e) \/ Final(e) PROVE KeysOK'
  <2>1. CtrlAfter(e) \in BOOLEAN
    BY DEF CtrlAfter
  <2>2. reader' \in Places
    BY <1>0, <1>2 DEF Bracket, Final, ReadOn
  <2> QED
    BY <1>2, <2>1, <2>2 DEF Bracket, Final, Polled
<1>3. CASE Test \/ Load
  BY <1>0, <1>3 DEF Test, Load, keyboard
<1>4. ASSUME NEW c, Read(c), reader' \in {"test", "bracket"} PROVE KeysOK'
  BY <1>0, <1>4 DEF Read, Cleared
<1>5. CASE Nothing \/ Enter \/ Interrupted \/ ClearScreen \/ Backspace \/ EscapeKey
  <2>1. reader' \in {"test", "bracket"}
    BY <1>5 DEF Nothing, Enter, Interrupted, ClearScreen, Backspace, EscapeKey, ReadOn
  <2>2. \E c : Read(c)
    BY <1>5 DEF Nothing, Enter, Interrupted, ClearScreen, Backspace, EscapeKey
  <2> QED
    BY <1>4, <2>1, <2>2
<1>6. ASSUME NEW c, Type(c) PROVE KeysOK'
  BY <1>4, <1>6 DEF Type, ReadOn
<1>7. CASE Idle \/ UNCHANGED vars
  BY <1>7 DEF Idle, vars, keyboard
<1> QED
  BY <1>1, <1>2, <1>3, <1>5, <1>6, <1>7 DEF Next

LEMMA StartedOver ==
  ASSUME EditInv, NEW text \in Seq(Glyphs), StartOver(text)
  PROVE  EditorOK(line, pos, term, marred)'
<1> CMDLINE_MAX \in Nat \ {0}
  BY ConsoleAssumption
<1>1. PICK n \in 0 .. CMDLINE_MAX - 1 : Ends(line, n) /\ pos <= n
  BY DEF EditInv, EditorOK
<1>2. line \in [0 .. CMDLINE_MAX -> Chars] /\ term \in Terminal(Glyphs) /\ NUL \in Chars
  BY GlyphFacts DEF EditInv, EditorOK
<1>3. line' \in [0 .. CMDLINE_MAX -> Chars] /\ Ends(line', 0)
  <2>1. line' = [i \in DOMAIN line |-> IF i < CMDLINE_MAX THEN NUL ELSE line[i]]
    BY DEF StartOver
  <2>2. Ends([i \in DOMAIN line |-> IF i < CMDLINE_MAX THEN NUL ELSE line[i]], 0)
    BY <1>1, <1>2, EmptyEnds
  <2> QED
    BY <1>2, <2>1, <2>2
<1>4. term' \in Terminal(Glyphs)
  <2>1. text \o Prompt \in Seq(Glyphs) /\ Blank \in Glyphs
    BY GlyphFacts
  <2>2. term' = kprint(term, text \o Prompt)
    BY DEF StartOver
  <2> HIDE DEF Terminal
  <2> QED
    BY <1>2, <2>1, <2>2, PrintType
<1>5. pos' = 0 /\ marred' = {}
  BY DEF StartOver
<1>6. pos' \in 0 .. CMDLINE_MAX - 1 /\ 0 \in 0 .. CMDLINE_MAX - 1 /\ pos' <= 0
  BY <1>5
<1> QED
  BY <1>3, <1>4, <1>5, <1>6 DEF EditorOK

\* The texts that are printed before a new prompt.
LEMMA LastTexts ==
  /\ <<LF>> \in Seq(Glyphs) /\ <<"^", "C", LF>> \in Seq(Glyphs)
  /\ <<"!", LF>> \in Seq(Glyphs) /\ <<"0", "x", LF>> \in Seq(Glyphs)
  /\ <<"0", "x", "b">> \in Seq(Glyphs) /\ <<ESC, "[", "H">> \in Seq(Glyphs)
  /\ \A out \in Outputs : <<LF>> \o out \in Seq(Glyphs)
<1>1. {Blank, "0", "x", "b", "^", "!", "C", LF, ESC, "[", "H"} \subseteq Glyphs
  BY GlyphFacts DEF SequenceChars
<1>2. <<LF>> \in Seq(Glyphs)
  BY <1>1
<1>3. \A out \in Outputs : <<LF>> \o out \in Seq(Glyphs)
  BY <1>2, GlyphFacts
<1> QED
  BY <1>1, <1>2, <1>3

\* Drawing and erasing the cursor.
LEMMA CursorType ==
  ASSUME NEW S, Blank \in S, Block \in S, NEW t \in Terminal(S), NEW g \in S
  PROVE  DrawCursor(t, g) \in Terminal(S) /\ EraseCursor(t) \in Terminal(S)
<1>1. ASSUME NEW b \in S PROVE [t.screen EXCEPT ![t.y][t.x] = b] \in [Rows -> [Columns -> S]]
  BY DEF Terminal
<1>2. DrawCursor(t, g) = [t EXCEPT !.screen = [t.screen EXCEPT ![t.y][t.x] = Block], !.cursor = g]
  BY DEF DrawCursor
<1>3. EraseCursor(t) =
        [t EXCEPT !.screen = [t.screen EXCEPT ![t.y][t.x] = Blank], !.cursor = Hidden]
  BY DEF EraseCursor
<1>4. DrawCursor(t, g) \in Terminal(S)
  BY <1>1, <1>2 DEF Terminal
<1>5. EraseCursor(t) \in Terminal(S)
  BY <1>1, <1>3 DEF Terminal
<1> QED
  BY <1>4, <1>5

\* Every step of the shell keeps the line a string.
LEMMA EditorKept == ASSUME EditInv, [Next]_vars PROVE EditorOK(line, pos, term, marred)'
<1> CMDLINE_MAX \in Nat \ {0} /\ CMDLINE_MAX < 10000
  BY ConsoleAssumption
<1>0. PICK n \in 0 .. CMDLINE_MAX - 1 : Ends(line, n) /\ pos <= n
  BY DEF EditInv, EditorOK
<1>12. /\ line \in [0 .. CMDLINE_MAX -> Chars] /\ pos \in 0 .. CMDLINE_MAX - 1 /\ pos \in Nat
      /\ term \in Terminal(Glyphs) /\ marred \subseteq Marks /\ EditorOK(line, pos, term, marred)
  BY DEF EditInv, EditorOK
<1>13. /\ Blank \in Glyphs /\ SequenceChars \subseteq Glyphs /\ Chars \subseteq Glyphs
      /\ "C" \in Glyphs /\ "D" \in Glyphs /\ "J" \in Glyphs
  BY GlyphFacts DEF SequenceChars
<1>14. \A c \in Glyphs, m \in Nat : m < 10000 => Escape(m, c) \in Seq(Glyphs)
  BY <1>13, EscapeText
<1>15. ASSUME NEW s \in [0 .. CMDLINE_MAX -> Chars], NEW m, Ends(s, m)
      PROVE  Text(s) \in Seq(Glyphs)
  <2>1. Text(s) = [i \in 1 .. m |-> s[i - 1]] /\ m \in 0 .. CMDLINE_MAX - 1
    <3>1. strlen(s) = m
      BY <1>15, EndsAt
    <3> QED
      BY <1>15, <3>1 DEF Text, Ends
  <2>2. \A i \in 1 .. m : i - 1 \in 0 .. CMDLINE_MAX
    BY <2>1
  <2>3. \A i \in 1 .. m : s[i - 1] \in Glyphs
    BY <1>13, <2>2
  <2>4. [i \in 1 .. m |-> s[i - 1]] \in [1 .. m -> Glyphs] /\ m \in Nat
    BY <2>1, <2>3
  <2> QED
    BY <2>1, <2>4
<1>1. CASE UNCHANGED editor
  BY <1>1, <1>12 DEF editor, EditorOK
<1>2. ASSUME NEW text \in Seq(Glyphs), StartOver(text) PROVE EditorOK(line, pos, term, marred)'
  BY <1>2, StartedOver
<1> HIDE DEF Terminal
<1>3. CASE Enter
  <2>1. CASE line[0] = NUL
    <3> DEFINE text == <<LF>>
    <3>1. text \in Seq(Glyphs) /\ StartOver(text)
      BY <1>3, <2>1, LastTexts DEF Enter
    <3> HIDE DEF text
    <3> QED
      BY <1>2, <3>1
  <2>2. CASE line[0] # NUL
    <3>1. PICK out \in Outputs : StartOver(<<LF>> \o out)
      BY <1>3, <2>2 DEF Enter
    <3> DEFINE text == <<LF>> \o out
    <3>2. text \in Seq(Glyphs) /\ StartOver(text)
      BY <3>1, LastTexts
    <3> HIDE DEF text
    <3> QED
      BY <1>2, <3>2
  <2> QED
    BY <2>1, <2>2
<1>4. CASE Interrupted
  <2> DEFINE text == <<"^", "C", LF>>
  <2>1. text \in Seq(Glyphs) /\ StartOver(text)
    BY <1>4, LastTexts DEF Interrupted
  <2> HIDE DEF text
  <2> QED
    BY <1>2, <2>1
<1>5. CASE ClearScreen
  <2> DEFINE A == Escape(2, "J")
             B == <<ESC, "[", "H">>
             C == Text(line)
  <2>1. A \in Seq(Glyphs)
    <3>1. 2 \in Nat /\ 2 < 10000
      OBVIOUS
    <3> QED
      BY <1>13, <1>14, <3>1
  <2>2. B \in Seq(Glyphs)
    BY LastTexts
  <2>3. C \in Seq(Glyphs)
    BY <1>0, <1>12, <1>15
  <2> DEFINE text == A \o B \o Prompt \o C
  <2>4. term' = kprint(term, text)
    BY <1>5 DEF ClearScreen
  <2> HIDE DEF A, B, C
  <2>6. text \in Seq(Glyphs)
    BY <2>1, <2>2, <2>3, GlyphFacts
  <2> HIDE DEF text
  <2>7. term' \in Terminal(Glyphs)
    BY <1>12, <1>13, <2>4, <2>6, PrintType
  <2>5. marred' \subseteq Marks /\ line' = line /\ pos' = pos
    BY <1>5, <1>12 DEF ClearScreen, Marks
  <2> QED
    BY <1>0, <1>12, <2>5, <2>7 DEF EditorOK
<1>6. CASE Backspace
  <2>1. CASE pos = 0
    BY <1>1, <1>6, <2>1 DEF Backspace
  <2>2. CASE pos # 0
    <3> DEFINE p == pos - 1
               s == rmchar(line, p)
    <3>1. /\ line' = s /\ pos' = p /\ term' = kprint(term, refreshline(line', p))
          /\ marred' \subseteq Marks
      <4>1. line' = s /\ pos' = p /\ term' = kprint(term, refreshline(line', p))
        BY <1>6, <2>2 DEF Backspace
      <4>2. marred' = marred \cup (IF pos' = 0 /\ line'[0] # NUL THEN {"hole"} ELSE {})
                              \cup CursorLeft
        BY <1>6, <2>2 DEF Backspace
      <4>3. (IF pos' = 0 /\ line'[0] # NUL THEN {"hole"} ELSE {}) \subseteq Marks
            /\ CursorLeft \subseteq Marks
        BY DEF Marks, CursorLeft
      <4> HIDE DEF p, s
      <4> QED
        BY <1>12, <4>1, <4>2, <4>3
    <3>2. p \in Nat /\ p < n /\ p \in 0 .. CMDLINE_MAX - 1 /\ p <= n - 1 /\ n < CMDLINE_MAX
      BY <1>0, <1>12, <2>2
    <3> HIDE DEF p
    <3>3. Ends(s, n - 1)
      BY <1>0, <1>12, <3>2, RemovedEnds
    <3>4. strlen(s) = n - 1
      BY <3>3, EndsAt
    <3>5. s \in [0 .. CMDLINE_MAX -> Chars]
      <4>1. s = [i \in 0 .. CMDLINE_MAX |-> IF i \in p .. n - 1 THEN line[i + 1] ELSE line[i]]
        BY <1>0, <1>12, EndsAt DEF rmchar
      <4>2. \A i \in 0 .. CMDLINE_MAX : i \in p .. n - 1 => i + 1 \in 0 .. CMDLINE_MAX
        BY <3>2
      <4> QED
        BY <1>12, <4>1, <4>2
    <3> HIDE DEF s
    <3>6. Text(s) \in Seq(Glyphs)
      BY <1>15, <3>3, <3>5
    <3>7. refreshline(s, p) \in Seq(Glyphs)
      <4>1. /\ Escape(1, "D") \in Seq(Glyphs) /\ Escape(p + 1, "D") \in Seq(Glyphs)
            /\ Escape(n - 1, "D") \in Seq(Glyphs) /\ Escape(p, "C") \in Seq(Glyphs)
        <5>1. /\ 1 \in Nat /\ 1 < 10000 /\ p + 1 \in Nat /\ p + 1 < 10000
              /\ n - 1 \in Nat /\ n - 1 < 10000 /\ p < 10000
          BY <3>2
        <5> QED
          BY <1>13, <1>14, <3>2, <5>1
      <4>2. <<Blank>> \in Seq(Glyphs)
        BY <1>13
      <4> QED
        BY <3>4, <3>6, <4>1, <4>2 DEF refreshline
    <3>8. term' \in Terminal(Glyphs)
      BY <1>12, <1>13, <3>1, <3>7, PrintType
    <3>9. n - 1 \in 0 .. CMDLINE_MAX - 1
      BY <3>2
    <3> QED
      BY <3>1, <3>2, <3>3, <3>5, <3>8, <3>9 DEF EditorOK
  <2> QED
    BY <2>1, <2>2
<1>7. ASSUME NEW c \in Letters \cup {VT}, Type(c) PROVE EditorOK(line, pos, term, marred)'
  <2>1. CASE HasRoom(pos)
    <3> DEFINE text == IF c = VT THEN <<"0", "x", "b">> ELSE <<c>>
               s == [line EXCEPT ![pos] = c]
               m == IF pos = n THEN n + 1 ELSE n
    <3>1. /\ line' = s /\ pos' = pos + 1 /\ term' = kprint(term, text)
          /\ marred' \subseteq Marks
      <4>1. line' = s /\ pos' = pos + 1
        BY <1>7, <2>1 DEF Type
      <4>2. term' = kprint(term, text)
        BY <1>7, <2>1 DEF Type
      <4>3. marred' = IF c = VT THEN marred \cup {"control"} ELSE marred
        BY <1>7, <2>1 DEF Type
      <4>4. marred' \subseteq Marks
        BY <1>12, <4>3 DEF Marks
      <4> HIDE DEF text, s
      <4> QED
        BY <4>1, <4>2, <4>4
    <3>2. c \in Chars /\ c # NUL
      BY GlyphFacts, ConsoleAssumption DEF NUL, VT
    <3>3. pos < CMDLINE_MAX - 1
      BY <2>1 DEF HasRoom
    <3>4. Ends(s, m)
      <4>1. DOMAIN line = 0 .. CMDLINE_MAX
        BY <1>12
      <4>2. pos \in Nat /\ pos <= n /\ Ends(line, n)
        BY <1>0, <1>12
      <4>3. s[pos] = c /\ n \in Nat /\ \A i \in 0 .. CMDLINE_MAX : i # pos => s[i] = line[i]
        BY <1>12
      <4>4. (pos = n => m = n + 1) /\ (pos # n => m = n)
        OBVIOUS
      <4> HIDE DEF s, m
      <4>5. (pos = n => Ends(s, n + 1)) /\ (pos # n => Ends(s, n))
        BY <3>2, <3>3, <4>1, <4>2, <4>3 DEF Ends
      <4> QED
        BY <4>4, <4>5
    <3>5. s \in [0 .. CMDLINE_MAX -> Chars]
      BY <1>12, <3>2
    <3>6. text \in Seq(Glyphs)
      <4>1. <<c>> \in Seq(Glyphs)
        BY <1>13, <3>2
      <4> QED
        BY <4>1, LastTexts
    <3>7. m \in 0 .. CMDLINE_MAX - 1 /\ pos + 1 <= m /\ pos + 1 \in 0 .. CMDLINE_MAX - 1
      BY <1>0, <1>12, <3>3
    <3> HIDE DEF text, s, m
    <3>8. term' \in Terminal(Glyphs)
      BY <1>12, <1>13, <3>1, <3>6, PrintType
    <3> QED
      BY <3>1, <3>4, <3>5, <3>7, <3>8 DEF EditorOK
  <2>2. CASE ~HasRoom(pos)
    <3> DEFINE text == <<"!", LF>>
    <3>1. text \in Seq(Glyphs) /\ StartOver(text)
      BY <1>7, <2>2, LastTexts DEF Type
    <3> HIDE DEF text
    <3> QED
      BY <1>2, <3>1
  <2> QED
    BY <2>1, <2>2
<1>8. ASSUME NEW e \in Events, Final(e) PROVE EditorOK(line, pos, term, marred)'
  <2>1. ASSUME NEW c \in {"C", "D"}, NEW may, NEW delta, pos + delta \in 0 .. n,
               Arrow(c, may, delta)
        PROVE  EditorOK(line, pos, term, marred)'
    <3>1. CASE may
      <4>1. /\ term' = kprint(term, Escape(1, c)) /\ pos' = pos + delta
            /\ marred' \subseteq Marks /\ line' = line
        <5>1. /\ term' = kprint(term, Escape(1, c)) /\ pos' = pos + delta
              /\ marred' = marred \cup CursorLeft /\ line' = line
          BY <2>1, <3>1 DEF Arrow
        <5>2. CursorLeft \subseteq Marks
          BY DEF CursorLeft, Marks
        <5> QED
          BY <1>12, <5>1, <5>2
      <4>2. Escape(1, c) \in Seq(Glyphs)
        <5>1. 1 \in Nat /\ 1 < 10000 /\ c \in Glyphs
          BY <1>13
        <5> QED
          BY <1>14, <5>1
      <4>3. term' \in Terminal(Glyphs)
        BY <1>12, <1>13, <4>1, <4>2, PrintType
      <4>4. pos' \in 0 .. CMDLINE_MAX - 1 /\ pos' <= n
        BY <2>1, <4>1
      <4> QED
        BY <1>0, <1>12, <4>1, <4>3, <4>4 DEF EditorOK
    <3>2. CASE ~may
      BY <1>1, <2>1, <3>2 DEF Arrow
    <3> QED
      BY <3>1, <3>2
  <2>2. CASE CharOf(e) = "C"
    <3>1. Arrow("C", MayGoRight(line, pos), 1)
      BY <1>8, <2>2 DEF Final
    <3>2. CASE MayGoRight(line, pos)
      <4>1. line[pos] # NUL
        BY <3>2 DEF MayGoRight
      <4>2. pos # n
        BY <1>0, <4>1 DEF Ends
      <4>3. pos + 1 \in 0 .. n
        BY <1>0, <1>12, <4>2
      <4> QED
        BY <2>1, <3>1, <4>3
    <3>3. CASE ~MayGoRight(line, pos)
      BY <1>1, <3>1, <3>3 DEF Arrow
    <3> QED
      BY <3>2, <3>3
  <2>3. CASE CharOf(e) = "D"
    <3>1. Arrow("D", pos > 0, -1)
      BY <1>8, <2>3 DEF Final
    <3>2. CASE pos > 0
      <4>1. pos + (-1) \in 0 .. n
        BY <1>0, <1>12, <3>2
      <4> QED
        BY <2>1, <3>1, <4>1
    <3>3. CASE ~(pos > 0)
      BY <1>1, <3>1, <3>3 DEF Arrow
    <3> QED
      BY <3>2, <3>3
  <2>4. CASE CharOf(e) # "C" /\ CharOf(e) # "D"
    <3> DEFINE text == <<"0", "x", LF>>
    <3>1. text \in Seq(Glyphs) /\ StartOver(text)
      BY <1>8, <2>4, LastTexts DEF Final
    <3> HIDE DEF text
    <3> QED
      BY <1>2, <3>1
  <2> QED
    BY <2>2, <2>3, <2>4
<1>9. CASE Idle
  <2> DEFINE before == line[IF pos = 0 THEN 0 ELSE pos - 1]
             g == IF before = NUL THEN Blank ELSE before
  <2>1. g \in Glyphs
    <3>1. (IF pos = 0 THEN 0 ELSE pos - 1) \in 0 .. CMDLINE_MAX
      BY <1>12
    <3>2. before \in Chars
      BY <1>12, <3>1
    <3> QED
      BY <1>13, <3>2
  <2>2. term' = IF term.cursor = Hidden THEN DrawCursor(term, g) ELSE EraseCursor(term)
    BY <1>9 DEF Idle
  <2> HIDE DEF g
  <2>3. DrawCursor(term, g) \in Terminal(Glyphs)
    BY <1>12, <1>13, <2>1, CursorType, GlyphFacts
  <2>4. EraseCursor(term) \in Terminal(Glyphs)
    BY <1>12, <1>13, <2>1, CursorType, GlyphFacts
  <2>5. marred' \subseteq Marks /\ line' = line /\ pos' = pos
    BY <1>9, <1>12 DEF Idle, Marks
  <2> QED
    BY <1>12, <2>2, <2>3, <2>4, <2>5 DEF EditorOK
<1>10. ASSUME NEW e \in Events, Irq(e) \/ Bracket(e) PROVE EditorOK(line, pos, term, marred)'
  BY <1>1, <1>10 DEF Irq, Bracket
<1>11. CASE Test \/ Load \/ Nothing \/ EscapeKey \/ UNCHANGED vars
  BY <1>1, <1>11 DEF Test, Load, Nothing, EscapeKey, vars
<1> QED
  BY <1>3, <1>4, <1>5, <1>6, <1>7, <1>8, <1>9, <1>10, <1>11 DEF Next

LEMMA EditInvStarts == Init => EditInv
<1> SUFFICES ASSUME Init PROVE EditInv
  OBVIOUS
<1> CMDLINE_MAX \in Nat \ {0}
  BY ConsoleAssumption
<1>1. KeysOK
  BY GlyphFacts DEF Init, KeysOK, Places
<1>2. line \in [0 .. CMDLINE_MAX -> Chars] /\ Ends(line, 0) /\ pos = 0
  BY GlyphFacts DEF Init, EmptyLine, Ends
<1>3. NewTerminal \in Terminal(Glyphs)
  <2>1. 0 \in Columns /\ 0 \in Rows
    BY ScreenAssumption DEF Columns, Rows
  <2>2. Blank \in Glyphs
    BY GlyphFacts
  <2> QED
    BY <2>1, <2>2 DEF NewTerminal, Terminal, BlankRow
<1>4. term \in Terminal(Glyphs)
  <2> HIDE DEF Terminal
  <2> QED
    BY <1>3, GlyphFacts, PrintType DEF Init
<1>5. marred \subseteq Marks /\ 0 \in 0 .. CMDLINE_MAX - 1
  BY DEF Init
<1> QED
  BY <1>1, <1>2, <1>4, <1>5 DEF EditInv, EditorOK

LEMMA EditInvHolds == Spec => []EditInv
<1>1. EditInv /\ [Next]_vars => EditInv'
  BY KeysKept, EditorKept DEF EditInv
<1> QED
  BY <1>1, EditInvStarts, PTL DEF Spec

\* All variables have their types: the buffer is never indexed behind its last cell but
\* one, and the cursor stays on the screen, however the code of shell.c and vt100.c is
\* interrupted and whatever is typed and printed.
THEOREM TypeCorrect == Spec => []TypeOK
BY EditInvHolds, EditInvSays, PTL

\* The line is one string, and the editing position is inside it or at its end.
THEOREM LineStaysText == Spec => []LineIsText
BY EditInvHolds, EditInvSays, PTL

-----------------------------------------------------------------------------
(* One press of a key. *)

ReadInv == KeysOK /\ (reader # "clear" /\ pending # NUL => unread)

LEMMA ReadInvKept == ASSUME ReadInv, [Next]_vars PROVE ReadInv'
<1>1. KeysOK'
  BY KeysKept DEF ReadInv
<1>2. ASSUME NEW c, Read(c) PROVE ReadInv'
  BY <1>1, <1>2 DEF ReadInv, Read, Cleared
<1>3. ASSUME NEW e \in Events, Irq(e) \/ Bracket(e) \/ Final(e) PROVE ReadInv'
  <2>1. CASE Irq(e)
    BY <1>1, <2>1 DEF ReadInv, Irq
  <2>2. CASE Bracket(e) \/ Final(e)
    BY <1>1, <2>2 DEF ReadInv, Bracket, Final, Polled
  <2> QED
    BY <1>3, <2>1, <2>2
<1>4. CASE Test \/ Load \/ Idle \/ UNCHANGED vars
  BY <1>1, <1>4 DEF ReadInv, Test, Load, Idle, vars, keyboard
<1>5. CASE Nothing \/ Enter \/ Interrupted \/ ClearScreen \/ Backspace \/ EscapeKey
  BY <1>2, <1>5 DEF Nothing, Enter, Interrupted, ClearScreen, Backspace, EscapeKey
<1>6. ASSUME NEW c, Type(c) PROVE ReadInv'
  BY <1>2, <1>6 DEF Type
<1> QED
  BY <1>3, <1>4, <1>5, <1>6 DEF Next

\* A character that the shell is given is new: ps2_device_getchar_non_blocking tests,
\* loads and clears it in three steps, and none of them takes a press of a key for two
\* wherever the handler interrupts them.
THEOREM ReadOnce == Spec => TypedOnce
<1> DEFINE Fresh == got' # got /\ got' # NUL => unread
<1>1. Init => ReadInv
  BY EditInvStarts DEF EditInv, ReadInv, Init
<1>2. ReadInv /\ [Next]_vars => ReadInv' /\ [Fresh]_vars
  <2> SUFFICES ASSUME ReadInv, [Next]_vars PROVE ReadInv' /\ [Fresh]_vars
    OBVIOUS
  <2>1. ASSUME NEW c, Read(c) PROVE Fresh
    BY <2>1 DEF Read
  <2>2. ASSUME NEW e \in Events, Irq(e) \/ Bracket(e) \/ Final(e) PROVE Fresh
    BY <2>2 DEF Irq, Bracket, Final, Polled
  <2>3. ASSUME Test \/ Idle PROVE Fresh
    BY <2>3 DEF Test, Idle
  <2>4. ASSUME Load PROVE Fresh
    BY <2>4 DEF Load, ReadInv
  <2>5. ASSUME Nothing \/ Enter \/ Interrupted \/ ClearScreen \/ Backspace \/ EscapeKey PROVE Fresh
    BY <2>1, <2>5 DEF Nothing, Enter, Interrupted, ClearScreen, Backspace, EscapeKey
  <2>6. ASSUME NEW c, Type(c) PROVE Fresh
    BY <2>1, <2>6 DEF Type
  <2>7. ASSUME UNCHANGED vars PROVE Fresh
    BY <2>7 DEF vars
  <2>8. ReadInv'
    BY ReadInvKept
  <2>9. [Fresh]_vars
    BY <2>2, <2>3, <2>4, <2>5, <2>6, <2>7 DEF Next
  <2> QED
    BY <2>8, <2>9
<1>3. TypedOnce <=> [][Fresh]_vars
  BY PTL DEF TypedOnce
<1> QED
  BY <1>1, <1>2, <1>3, PTL DEF Spec

-----------------------------------------------------------------------------
(* The row of the cursor, as long as the line has one digit of characters and fits. *)

ShortLength(n) == n < 10 /\ Len(Prompt) + n < Width
ShortLine == ShortLength(strlen(line))

\* The output of a command ends its last row and has no escape sequences.
PlainText(text) ==
  Len(text) > 0 /\ text[Len(text)] = LF /\ \A i \in 1 .. Len(text) : text[i] # ESC
PlainOutputs == \A out \in Outputs : PlainText(out)

\* The prompt and the first n characters of the line.
LineRow(l, n) ==
  [i \in Columns |-> IF i < Len(Prompt) THEN Prompt[i + 1]
                     ELSE IF i < Len(Prompt) + n THEN l[i - Len(Prompt)] ELSE Blank]

\* No character of the line moves the cursor.
Printable(l) == \A i \in 0 .. CMDLINE_MAX : l[i] \notin Controls /\ l[i] # Hidden

\* The cursor is drawn only behind the line, and the terminal knows the character
\* before it.  Below the cursor and behind the line the row is blank.
RowOK(l, n, p, t, m) ==
  /\ m \cap {"control", "lost"} = {} => t.x = Len(Prompt) + p
  /\ m = {} => IF t.cursor = Hidden THEN Row(t) = LineRow(l, n)
               ELSE /\ Row(t) = [LineRow(l, n) EXCEPT ![t.x] = Block]
                    /\ p = n /\ t.cursor = IF p = 0 THEN Blank ELSE l[p - 1]

ScreenOK(l, p, t, m) ==
  Printable(l) /\ Settled(t) /\ RowOK(l, strlen(l), p, t, m)

ScreenInv == EditInv /\ ScreenOK(line, pos, term, marred)

LEMMA PromptFacts ==
  /\ Len(Prompt) \in Nat \ {0} /\ Prompt[Len(Prompt)] = Blank
  /\ \A i \in 1 .. Len(Prompt) : Prompt[i] \notin Controls
  /\ Width \in Nat \ {0} /\ CMDLINE_MAX \in Nat \ {0} /\ CMDLINE_MAX < 10000
<1>1. Prompt \in Seq(STRING) /\ Prompt # <<>> /\ Last(Prompt) = Blank
  BY ConsoleAssumption
<1>2. Len(Prompt) \in Nat \ {0}
  BY <1>1
<1>3. \A i \in 1 .. Len(Prompt) : Prompt[i] \in ToSet(Prompt)
  BY <1>2 DEF ToSet
<1> QED
  BY <1>1, <1>2, <1>3, ConsoleAssumption, ScreenAssumption DEF Last

LEMMA LetterFacts ==
  /\ \A c \in Letters \cup {VT, NUL} : c \notin Controls /\ c # Hidden
  /\ \A c \in Letters \cup {VT} : c # NUL
BY ConsoleAssumption DEF Controls, VT, NUL, LF, CR, BS, TAB, ESC, Hidden

\* A terminal that shows the prompt and the line is as the invariant wants it.
LEMMA ShownIsOK ==
  ASSUME NEW S, NEW l, NEW n, Ends(l, n), Printable(l), NEW p, NEW t, NEW m, NEW x,
         Shows(t, S, x, LineRow(l, n)), m \cap {"control", "lost"} = {} => x = Len(Prompt) + p
  PROVE  ScreenOK(l, p, t, m)
<1>1. strlen(l) = n
  BY EndsAt
<1> HIDE DEF Terminal
<1> QED
  BY <1>1 DEF Shows, ScreenOK, RowOK

\* The character that is redrawn before the cursor is the one that is there.
LEMMA Redrawn ==
  ASSUME NEW l, NEW n, Ends(l, n), ShortLength(n), NEW p, NEW t \in Terminal(Glyphs),
         RowOK(l, n, p, t, {})
  PROVE  Row(ForgetCursor(t)) = Row(t)
<1> DEFINE L == Len(Prompt)
           r == Row(t)
<1>0. L \in Nat \ {0} /\ Prompt[L] = Blank /\ Width \in Nat /\ n \in Nat
  BY PromptFacts DEF Ends
<1>1. CASE t.cursor = Hidden
  BY <1>1 DEF ForgetCursor
<1>2. CASE t.cursor # Hidden
  <2>1. /\ t.x = L + n /\ r = [LineRow(l, n) EXCEPT ![t.x] = Block]
        /\ t.cursor = IF n = 0 THEN Blank ELSE l[n - 1]
    BY <1>2 DEF RowOK
  <2>2. Row(ForgetCursor(t)) = [r EXCEPT ![t.x - 1] = t.cursor]
    BY <1>2, Forgotten DEF Row
  <2>3. t.x - 1 = L + n - 1 /\ t.x - 1 # t.x /\ t.x - 1 \in Columns
    BY <1>0, <2>1 DEF Columns, ShortLength
  <2>4. r[t.x - 1] = LineRow(l, n)[t.x - 1] /\ DOMAIN r = Columns
    BY <2>1, <2>3 DEF LineRow
  <2>5. LineRow(l, n)[t.x - 1] = t.cursor
    <3>1. CASE n = 0
      <4>1. t.x - 1 < L /\ (t.x - 1) + 1 = L
        BY <1>0, <2>3, <3>1
      <4> QED
        BY <1>0, <2>1, <2>3, <3>1, <4>1 DEF LineRow
    <3>2. CASE n # 0
      <4>1. ~(t.x - 1 < L) /\ t.x - 1 < L + n /\ (t.x - 1) - L = n - 1
        BY <1>0, <2>3, <3>2
      <4> QED
        BY <2>1, <2>3, <3>2, <4>1 DEF LineRow
    <3> QED
      BY <3>1, <3>2
  <2>6. r \in [Columns -> Glyphs]
    BY DEF Row, Terminal
  <2> HIDE DEF r
  <2> QED
    BY <2>2, <2>3, <2>4, <2>5, <2>6 DEF r
<1> QED
  BY <1>1, <1>2

\* The prompt on a blank row.
LEMMA PromptPrinted ==
  ASSUME NEW t, Shows(t, Glyphs, 0, BlankRow), ShortLength(0), NEW l
  PROVE  Shows(kprint(t, Prompt), Glyphs, Len(Prompt), LineRow(l, 0))
<1>1. /\ Blank \in Glyphs /\ Prompt \in Seq(Glyphs) /\ Len(Prompt) \in Nat \ {0}
      /\ \A i \in 1 .. Len(Prompt) : Prompt[i] \notin Controls /\ Width \in Nat
  BY GlyphFacts, PromptFacts
<1>2. 0 + Len(Prompt) \in Columns /\ 0 + Len(Prompt) = Len(Prompt)
  BY <1>1, PromptFacts DEF ShortLength, Columns
<1>3. Shows(kprint(t, Prompt), Glyphs, 0 + Len(Prompt), Overlay(BlankRow, 0, Prompt))
  <2> HIDE DEF Terminal
  <2> QED
    BY <1>1, <1>2, TextPrinted
<1>4. Overlay(BlankRow, 0, Prompt) = LineRow(l, 0)
  <2>1. \A i \in Columns : i \in Nat /\ i - 0 + 1 = i + 1
    BY DEF Columns
  <2>2. \A i \in Columns : Overlay(BlankRow, 0, Prompt)[i] = LineRow(l, 0)[i]
    BY <1>1, <2>1 DEF Overlay, LineRow, BlankRow
  <2> QED
    BY <2>2 DEF Overlay, LineRow
<1> QED
  BY <1>2, <1>3, <1>4

\* A text that ends its row, and a new prompt.
LEMMA NewPrompt ==
  ASSUME NEW t \in Terminal(Glyphs), Settled(t), NEW text \in Seq(Glyphs), PlainText(text),
         ShortLength(0), NEW l
  PROVE  Shows(kprint(t, text \o Prompt), Glyphs, Len(Prompt), LineRow(l, 0))
<1>1. Blank \in Glyphs /\ Prompt \in Seq(Glyphs)
  BY GlyphFacts
<1> HIDE DEF Terminal
<1>2. kprint(t, text \o Prompt) = kprint(kprint(t, text), Prompt)
  BY <1>1, PrintBoth
<1>3. Shows(kprint(t, text), Glyphs, 0, BlankRow)
  BY <1>1, TextSettles DEF Shows, Row, PlainText
<1> QED
  BY <1>2, <1>3, PromptPrinted

\* The line behind the prompt.
LEMMA LinePrinted ==
  ASSUME NEW l \in [0 .. CMDLINE_MAX -> Chars], NEW n, Ends(l, n), Printable(l),
         ShortLength(n), NEW t, Shows(t, Glyphs, Len(Prompt), LineRow(l, 0))
  PROVE  /\ Text(l) \in Seq(Glyphs) /\ Len(Text(l)) = n
         /\ \A i \in 1 .. n : Text(l)[i] \notin Controls
         /\ Shows(kprint(t, Text(l)), Glyphs, Len(Prompt) + n, LineRow(l, n))
<1> DEFINE L == Len(Prompt)
           text == Text(l)
<1>0. L \in Nat \ {0} /\ Width \in Nat /\ n \in Nat /\ n < CMDLINE_MAX /\ CMDLINE_MAX \in Nat
  BY PromptFacts DEF Ends
<1>1. Len(text) = n /\ \A i \in 1 .. n : text[i] = l[i - 1]
  BY EndsAt
<1>2. \A i \in 1 .. n : i - 1 \in 0 .. CMDLINE_MAX
  BY <1>0
<1>3. \A i \in 1 .. n : text[i] \in Glyphs /\ text[i] \notin Controls
  BY <1>1, <1>2, GlyphFacts DEF Printable
<1>4. text \in Seq(Glyphs)
  <2>1. strlen(l) = n
    BY EndsAt
  <2>2. text = [i \in 1 .. n |-> l[i - 1]]
    BY <2>1 DEF Text
  <2>3. text \in [1 .. n -> Glyphs]
    BY <1>1, <1>3, <2>2
  <2> QED
    BY <1>0, <2>3
<1>5. L + n \in Columns /\ L + Len(text) = L + n
  BY <1>0, <1>1 DEF Columns, ShortLength
<1>6. Shows(kprint(t, text), Glyphs, L + Len(text), Overlay(LineRow(l, 0), L, text))
  <2>1. \A i \in 1 .. Len(text) : text[i] \notin Controls
    BY <1>1, <1>3
  <2>2. L + Len(text) \in Columns /\ Blank \in Glyphs
    BY <1>5, GlyphFacts
  <2> HIDE DEF Terminal, text
  <2> QED
    BY <1>4, <2>1, <2>2, TextPrinted
<1>7. Overlay(LineRow(l, 0), L, text) = LineRow(l, n)
  <2>1. ASSUME NEW i \in Columns PROVE Overlay(LineRow(l, 0), L, text)[i] = LineRow(l, n)[i]
    <3>1. i \in Nat
      BY DEF Columns
    <3>2. CASE L <= i /\ i < L + n
      <4>1. i - L + 1 \in 1 .. n /\ (i - L + 1) - 1 = i - L /\ ~(i < L)
        BY <1>0, <3>1, <3>2
      <4>2. text[i - L + 1] = l[i - L]
        BY <1>1, <4>1
      <4> HIDE DEF text
      <4> QED
        BY <1>1, <3>2, <4>1, <4>2 DEF Overlay, LineRow
    <3>3. CASE ~(L <= i /\ i < L + n)
      <4>1. ~(i < L) => ~(i < L + 0) /\ ~(i < L + n)
        BY <1>0, <3>1, <3>3
      <4> HIDE DEF text
      <4> QED
        BY <1>1, <3>3, <4>1 DEF Overlay, LineRow
    <3> QED
      BY <3>2, <3>3
  <2> HIDE DEF text
  <2> QED
    BY <2>1 DEF Overlay, LineRow
<1> QED
  BY <1>1, <1>3, <1>4, <1>5, <1>6, <1>7

-----------------------------------------------------------------------------
(* What each operation of the editor leaves on the row. *)

\* StartOver: a text that ends its row, a new prompt, an empty line.
LEMMA StartOverOK ==
  ASSUME NEW l, Ends(l, 0), Printable(l), ShortLength(0),
         NEW t \in Terminal(Glyphs), Settled(t), NEW text \in Seq(Glyphs), PlainText(text)
  PROVE  ScreenOK(l, 0, kprint(t, text \o Prompt), {})
<1> DEFINE u == kprint(t, text \o Prompt)
           x == Len(Prompt)
<1>1. x = Len(Prompt) + 0
  BY PromptFacts
<1> HIDE DEF Terminal
<1>2. Shows(u, Glyphs, x, LineRow(l, 0))
  BY NewPrompt
<1> HIDE DEF u, x
<1>3. ScreenOK(l, 0, u, {})
  BY <1>1, <1>2, ShownIsOK
<1> QED
  BY <1>3 DEF u

\* CTRL+L.
LEMMA ClearScreenOK ==
  ASSUME NEW l \in [0 .. CMDLINE_MAX -> Chars], NEW n, Ends(l, n), Printable(l),
         ShortLength(n), NEW p, NEW m, NEW k,
         m = (k \ {"hole", "block"}) \cup (IF p = n THEN {} ELSE {"lost"}),
         NEW t \in Terminal(Glyphs), Settled(t)
  PROVE  ScreenOK(l, p, kprint(t, Escape(2, "J") \o <<ESC, "[", "H">> \o Prompt \o Text(l)), m)
<1> DEFINE A == Escape(2, "J") \o <<ESC, "[", "H">>
           B == Prompt
           C == Text(l)
           t1 == kprint(t, A)
           t2 == kprint(t1, B)
           t3 == kprint(t2, C)
           x == Len(Prompt) + n
<1>0. /\ Blank \in Glyphs /\ B \in Seq(Glyphs) /\ SequenceChars \subseteq Glyphs /\ ShortLength(0)
      /\ n \in Nat
  <2>1. n \in Nat /\ Width \in Nat /\ Len(Prompt) \in Nat
    BY PromptFacts DEF Ends
  <2>2. ShortLength(0)
    BY <2>1 DEF ShortLength
  <2> QED
    BY <2>1, <2>2, GlyphFacts
<1>1. A \in Seq(Glyphs)
  <2> DEFINE e == Escape(2, "J")
             home == <<ESC, "[", "H">>
  <2>1. "J" \in Glyphs /\ 2 \in Nat /\ 2 < 10000
    BY GlyphFacts DEF SequenceChars
  <2>2. e \in Seq(Glyphs)
    BY <1>0, <2>1, EscapeText
  <2>3. home \in Seq(Glyphs)
    BY LastTexts
  <2> HIDE DEF e, home
  <2>4. e \o home \in Seq(Glyphs)
    BY <2>2, <2>3
  <2> QED
    BY <2>4 DEF e, home
<1> HIDE DEF Terminal
<1>2. Shows(t1, Glyphs, 0, BlankRow)
  BY <1>0, ClearPrinted
<1> HIDE DEF A, t1
<1>3. Shows(t2, Glyphs, Len(Prompt), LineRow(l, 0))
  BY <1>0, <1>2, PromptPrinted
<1> HIDE DEF t2
<1>4. C \in Seq(Glyphs) /\ Shows(t3, Glyphs, x, LineRow(l, n))
  BY <1>3, LinePrinted
<1> HIDE DEF B, C, t3
<1>5. kprint(t, A \o B \o C) = t3
  <2> DEFINE AB == A \o B
  <2>1. AB \in Seq(Glyphs) /\ kprint(t, AB) = kprint(kprint(t, A), B)
    BY <1>0, <1>1, PrintBoth
  <2> HIDE DEF AB
  <2>2. kprint(t, AB \o C) = kprint(kprint(t, AB), C)
    BY <1>0, <1>4, <2>1, PrintBoth
  <2> QED
    BY <2>1, <2>2 DEF AB, t1, t2, t3
<1>6. m \cap {"control", "lost"} = {} => x = Len(Prompt) + p
  BY DEF x
<1> HIDE DEF x
<1>7. ScreenOK(l, p, t3, m)
  BY <1>4, <1>6, ShownIsOK
<1> QED
  BY <1>5, <1>7 DEF A, B, C

\* A character is typed over the line or behind it.
LEMMA TypedOK ==
  ASSUME NEW l \in [0 .. CMDLINE_MAX -> Chars], NEW n, Ends(l, n), NEW p \in Nat, p <= n,
         NEW c \in Letters, NEW s, NEW k, Ends(s, k), k = (IF p = n THEN n + 1 ELSE n),
         ShortLength(k), Printable(s), s[p] = c,
         \A i \in 0 .. CMDLINE_MAX : i # p => s[i] = l[i],
         NEW t \in Terminal(Glyphs), NEW m, Settled(t), RowOK(l, n, p, t, m)
  PROVE  ScreenOK(s, p + 1, kprint(t, <<c>>), m)
<1> DEFINE L == Len(Prompt)
           u == putchar(t, c)
<1>0. /\ L \in Nat \ {0} /\ Width \in Nat /\ n \in Nat /\ k \in Nat /\ n <= k /\ p + 1 <= k
      /\ n < CMDLINE_MAX /\ CMDLINE_MAX \in Nat /\ ShortLength(n)
  <2>1. L \in Nat \ {0} /\ Width \in Nat /\ n \in Nat /\ n < CMDLINE_MAX /\ CMDLINE_MAX \in Nat
    BY PromptFacts DEF Ends
  <2> QED
    BY <2>1 DEF ShortLength
<1>1. c \in Glyphs /\ c \notin Controls /\ Blank \in Glyphs /\ c # ESC
  BY GlyphFacts, LetterFacts DEF Controls
<1>2. kprint(t, <<c>>) = u
  <2> HIDE DEF Terminal
  <2> QED
    BY <1>1, PrintOne
<1>3. Settled(u) /\ u.cursor = Hidden
  <2> HIDE DEF Terminal
  <2> QED
    BY <1>1, PutcharSettles
<1>4. strlen(s) = k
  BY EndsAt
<1>5. CASE m \cap {"control", "lost"} = {}
  <2>1. t.x = L + p /\ t.x + 1 \in Columns /\ t.x \in Columns
    BY <1>0, <1>5 DEF RowOK, Columns, ShortLength
  <2>2. Shows(u, Glyphs, t.x + 1, [Row(ForgetCursor(t)) EXCEPT ![t.x] = c])
    <3> HIDE DEF Terminal
    <3> QED
      BY <1>1, <2>1, CharPrinted
  <2>3. u.x = L + (p + 1)
    BY <1>0, <2>1, <2>2 DEF Shows
  <2>4. ASSUME m = {} PROVE Row(u) = LineRow(s, k)
    <3>1. Row(ForgetCursor(t)) = Row(t)
      BY <1>0, <2>4, Redrawn
    <3>2. Row(u) = [Row(t) EXCEPT ![L + p] = c]
      BY <2>1, <2>2, <3>1 DEF Shows
    <3>3. \A i \in Columns : i # L + p => Row(t)[i] = LineRow(l, n)[i]
      <4>1. DOMAIN LineRow(l, n) = Columns
        BY DEF LineRow
      <4>2. CASE t.cursor = Hidden
        BY <2>4, <4>2 DEF RowOK
      <4>3. CASE t.cursor # Hidden
        <5>1. Row(t) = [LineRow(l, n) EXCEPT ![L + p] = Block]
          BY <2>1, <2>4, <4>3 DEF RowOK
        <5> QED
          BY <4>1, <5>1
      <4> QED
        BY <4>2, <4>3
    <3>4. DOMAIN Row(t) = Columns
      BY DEF Row, Terminal
    <3>5. ASSUME NEW i \in Columns PROVE Row(u)[i] = LineRow(s, k)[i]
      <4>1. i \in Nat
        BY DEF Columns
      <4>2. CASE i = L + p
        <5>1. ~(i < L) /\ i < L + k /\ i - L = p
          BY <1>0, <4>2
        <5> QED
          BY <3>2, <3>4, <4>2, <5>1 DEF LineRow
      <4>3. CASE i # L + p
        <5>1. Row(u)[i] = LineRow(l, n)[i]
          BY <3>2, <3>3, <3>4, <4>3
        <5>2. CASE i < L
          BY <5>1, <5>2 DEF LineRow
        <5>3. CASE ~(i < L) /\ i < L + n
          <6>1. i - L \in 0 .. CMDLINE_MAX /\ i - L # p /\ i < L + k
            BY <1>0, <4>1, <4>3, <5>3
          <6> QED
            BY <5>1, <5>3, <6>1 DEF LineRow
        <5>4. CASE ~(i < L) /\ ~(i < L + n)
          <6>1. ~(i < L + k)
            BY <1>0, <4>1, <4>3, <5>4
          <6> QED
            BY <5>1, <5>4, <6>1 DEF LineRow
        <5> QED
          BY <5>2, <5>3, <5>4
      <4> QED
        BY <4>2, <4>3
    <3>6. Row(u) = [i \in Columns |-> Row(u)[i]]
      <4>1. Row(t) \in [Columns -> Glyphs]
        BY DEF Row, Terminal
      <4> QED
        BY <3>2, <4>1
    <3> QED
      BY <3>5, <3>6 DEF LineRow
  <2> QED
    BY <1>2, <1>3, <1>4, <2>3, <2>4 DEF ScreenOK, RowOK
<1>6. CASE m \cap {"control", "lost"} # {}
  BY <1>2, <1>3, <1>4, <1>6 DEF ScreenOK, RowOK
<1> QED
  BY <1>5, <1>6

\* A control character is shown as a number, and the line is no longer followed.
LEMMA NumberOK ==
  ASSUME NEW s, Printable(s), NEW p, NEW m, "control" \in m,
         NEW t \in Terminal(Glyphs), Settled(t)
  PROVE  ScreenOK(s, p, kprint(t, <<"0", "x", "b">>), m)
<1> DEFINE text == <<"0", "x", "b">>
<1>1. text \in Seq(Glyphs) /\ Blank \in Glyphs
  BY LastTexts, GlyphFacts
<1>2. \A i \in 1 .. Len(text) : text[i] # ESC
  BY DEF ESC
<1> HIDE DEF text, Terminal
<1>3. Settled(kprint(t, text))
  BY <1>1, <1>2, TextSettles
<1>4. m # {} /\ m \cap {"control", "lost"} # {}
  OBVIOUS
<1> QED
  BY <1>3, <1>4 DEF ScreenOK, RowOK, text

\* BACKSPACE at the first character.
LEMMA FirstRemovedOK ==
  ASSUME NEW l, NEW n, Ends(l, n), n # 0, ShortLength(n), NEW s, Ends(s, n - 1), Printable(s),
         NEW t \in Terminal(Glyphs), NEW m, Settled(t), RowOK(l, n, 1, t, m),
         NEW k, k = (m \cup (IF s[0] # NUL THEN {"hole"} ELSE {})
                       \cup (IF t.cursor = Hidden THEN {} ELSE {"block"}))
  PROVE  ScreenOK(s, 0, kprint(t, Escape(1, "D") \o <<Blank>> \o Escape(1, "D")), k)
<1> DEFINE L == Len(Prompt)
           A == Escape(1, "D")
           B == <<Blank>>
           t1 == kprint(t, A)
           t2 == kprint(t1, B)
           t3 == kprint(t2, A)
           row == [Row(ForgetCursor(t)) EXCEPT ![L] = Blank]
<1>0. /\ L \in Nat \ {0} /\ Width \in Nat /\ n \in Nat \ {0} /\ L \in Columns /\ L + 1 \in Columns
      /\ (L + 1) - 1 = L
  <2>1. L \in Nat \ {0} /\ Width \in Nat /\ n \in Nat \ {0}
    BY PromptFacts DEF Ends
  <2> QED
    BY <2>1 DEF ShortLength, Columns
<1>1. /\ SequenceChars \subseteq Glyphs /\ Blank \in Glyphs /\ "D" \in Glyphs /\ Blank \notin Controls
      /\ 1 \in Nat /\ 1 < 10000 /\ 1 \in 1 .. 9 /\ "D" \in {"C", "D"} /\ Blank # ESC
  <2>1. SequenceChars \subseteq Glyphs /\ Blank \in Glyphs
    BY GlyphFacts
  <2>2. "D" \in Glyphs
    BY <2>1 DEF SequenceChars
  <2>3. Blank \notin Controls /\ Blank # ESC
    BY DEF Controls, Blank, LF, CR, BS, TAB, ESC
  <2> QED
    BY <2>1, <2>2, <2>3
<1>2. A \in Seq(Glyphs) /\ B \in Seq(Glyphs)
  BY <1>1, EscapeText
<1>3. kprint(t, A \o B \o A) = t3
  <2> DEFINE AB == A \o B
  <2> HIDE DEF Terminal, A, B
  <2>1. AB \in Seq(Glyphs) /\ kprint(t, AB) = kprint(kprint(t, A), B)
    BY <1>1, <1>2, PrintBoth
  <2> HIDE DEF AB
  <2>2. kprint(t, AB \o A) = kprint(kprint(t, AB), A)
    BY <1>1, <1>2, <2>1, PrintBoth
  <2> QED
    BY <2>1, <2>2 DEF AB
<1>4. t1 \in Terminal(Glyphs) /\ Settled(t1) /\ t1.cursor = Hidden
  <2> HIDE DEF Terminal
  <2> QED
    BY <1>1, ArrowPrinted
<1>5. ASSUME m \cap {"control", "lost"} = {} PROVE Shows(t1, Glyphs, L, Row(ForgetCursor(t)))
  <2>1. t.x = L + 1
    BY <1>5 DEF RowOK
  <2>3. t.x - 1 = L /\ t.x - 1 \in Columns
    BY <1>0, <2>1
  <2> HIDE DEF Terminal, L
  <2>2. Shows(t1, Glyphs, t.x - 1, Row(ForgetCursor(t)))
    BY <1>1, <2>3, LeftPrinted
  <2> QED
    BY <2>2, <2>3
<1> HIDE DEF t1
<1>6. t2 = putchar(t1, Blank)
  <2> HIDE DEF Terminal
  <2> QED
    BY <1>1, <1>4, PrintOne
<1>7. t2 \in Terminal(Glyphs)
  <2> HIDE DEF Terminal, B
  <2> QED
    BY <1>1, <1>2, <1>4, PrintType
<1>8. Settled(t2) /\ t2.cursor = Hidden
  <2> HIDE DEF Terminal
  <2> QED
    BY <1>1, <1>4, <1>6, PutcharSettles
<1>9. ASSUME m \cap {"control", "lost"} = {} PROVE Shows(t2, Glyphs, L + 1, row)
  <2>1. Shows(t1, Glyphs, L, Row(ForgetCursor(t)))
    BY <1>5, <1>9
  <2>2. ForgetCursor(t1) = t1 /\ t1.x = L /\ Row(t1) = Row(ForgetCursor(t))
    BY <2>1 DEF Shows, ForgetCursor
  <2> HIDE DEF Terminal
  <2> QED
    BY <1>0, <1>1, <1>4, <1>6, <2>2, CharPrinted
<1> HIDE DEF t2
<1>10. t3 \in Terminal(Glyphs) /\ Settled(t3) /\ t3.cursor = Hidden
  <2> HIDE DEF Terminal
  <2> QED
    BY <1>1, <1>7, <1>8, ArrowPrinted
<1>11. ASSUME m \cap {"control", "lost"} = {} PROVE Shows(t3, Glyphs, L, row)
  <2> DEFINE y == L + 1
  <2>1. Shows(t2, Glyphs, y, row) /\ y - 1 \in Columns /\ y - 1 = L
    BY <1>0, <1>9, <1>11
  <2> HIDE DEF y, row
  <2>2. Shows(t3, Glyphs, y - 1, row)
    BY <1>1, <2>1, LeftAgain
  <2> QED
    BY <2>1, <2>2
<1> HIDE DEF t3, A, B
<1>12. strlen(s) = n - 1
  BY EndsAt
<1>13. ASSUME k = {} PROVE Row(t3) = LineRow(s, n - 1)
  <2>1. m = {} /\ s[0] = NUL /\ t.cursor = Hidden
    BY <1>13
  <2>2. n = 1
    <3>1. ~(0 \in 0 .. (n - 1) - 1)
      BY <2>1 DEF Ends
    <3> QED
      BY <1>0, <3>1
  <2>3. Row(ForgetCursor(t)) = LineRow(l, n)
    BY <2>1 DEF RowOK, ForgetCursor
  <2>4. Row(t3) = [LineRow(l, n) EXCEPT ![L] = Blank]
    BY <1>11, <2>1, <2>3 DEF Shows
  <2>5. ASSUME NEW i \in Columns PROVE Row(t3)[i] = LineRow(s, n - 1)[i]
    <3>1. i \in Nat /\ n - 1 = 0
      BY <2>2 DEF Columns
    <3>2. CASE i < L
      <4>1. i # L
        <5> HIDE DEF L
        <5> QED
          BY <1>0, <3>1, <3>2
      <4> QED
        BY <2>4, <3>2, <4>1 DEF LineRow
    <3>3. CASE ~(i < L)
      <4>1. i = L \/ ~(i < L + n)
        <5> HIDE DEF L
        <5> QED
          BY <1>0, <2>2, <3>1, <3>3
      <4>2. ~(i < L + (n - 1))
        <5> HIDE DEF L
        <5> QED
          BY <1>0, <3>1, <3>3
      <4> QED
        BY <2>4, <3>3, <4>1, <4>2 DEF LineRow
    <3> QED
      BY <3>2, <3>3
  <2>6. Row(t3) = [i \in Columns |-> Row(t3)[i]]
    BY <2>4 DEF LineRow
  <2> QED
    BY <2>5, <2>6 DEF LineRow
<1>14. ASSUME k \cap {"control", "lost"} = {} PROVE t3.x = L + 0
  <2>1. m \cap {"control", "lost"} = {}
    BY <1>14
  <2> QED
    BY <1>0, <1>11, <2>1 DEF Shows
<1> QED
  BY <1>3, <1>10, <1>12, <1>13, <1>14 DEF ScreenOK, RowOK, A, B

\* BACKSPACE further right.
LEMMA RemovedOK ==
  ASSUME NEW l, NEW n, Ends(l, n), n # 0, ShortLength(n),
         NEW s \in [0 .. CMDLINE_MAX -> Chars], Ends(s, n - 1), Printable(s),
         NEW p \in Nat, p # 0, p <= n - 1,
         NEW t \in Terminal(Glyphs), NEW m, Settled(t), RowOK(l, n, p + 1, t, m),
         NEW k, k = (m \cup (IF t.cursor = Hidden THEN {} ELSE {"block"}))
  PROVE  ScreenOK(s, p, kprint(t, refreshline(s, p)), k)
<1> DEFINE L == Len(Prompt)
           a == p + 1
           h == n - 1
           text == Text(s)
           u == kprint(t, Refresh(a, text, h, p))
           row == [Overlay(Row(ForgetCursor(t)), L, text) EXCEPT ![L + h] = Blank]
<1>0. /\ L \in Nat \ {0} /\ Width \in Nat /\ n \in Nat \ {0} /\ L + h + 1 \in Columns
      /\ h \in 1 .. 9 /\ a \in 1 .. 9 /\ p \in 1 .. 9 /\ p <= h /\ h \in Nat
  <2>1. L \in Nat \ {0} /\ Width \in Nat /\ n \in Nat \ {0}
    BY PromptFacts DEF Ends
  <2> QED
    BY <2>1 DEF ShortLength, Columns
<1>1. strlen(s) = h
  BY EndsAt
<1>2. kprint(t, refreshline(s, p)) = u
  BY <1>1 DEF refreshline, Refresh
<1>3. SequenceChars \subseteq Glyphs /\ text \in Seq(Glyphs)
  <2>1. \A i \in 1 .. h : i - 1 \in 0 .. CMDLINE_MAX
    BY <1>0, PromptFacts DEF Ends
  <2>2. text = [i \in 1 .. h |-> s[i - 1]]
    BY <1>1 DEF Text
  <2>3. text \in [1 .. h -> Glyphs]
    BY <2>1, <2>2, GlyphFacts
  <2> QED
    BY <1>0, <2>3, GlyphFacts
<1>4. Len(text) = h /\ \A i \in 1 .. h : text[i] = s[i - 1]
  BY EndsAt
<1>5. /\ \A i \in 1 .. Len(text) : text[i] \notin Controls
      /\ NoEscape(text)
  <2>1. \A i \in 1 .. h : i - 1 \in 0 .. CMDLINE_MAX
    BY <1>0, PromptFacts DEF Ends
  <2> QED
    BY <1>4, <2>1 DEF Printable, Controls, NoEscape
<1> HIDE DEF text, a, h
<1>6. u \in Terminal(Glyphs) /\ Settled(u) /\ u.cursor = Hidden
  <2>1. a \in 1 .. 9 /\ h \in 1 .. 9 /\ p \in 1 .. 9
    BY <1>0
  <2> HIDE DEF Terminal, L
  <2>2. ASSUME NEW b \in 1 .. 9, NEW c \in 1 .. 9, NEW q \in 1 .. 9
        PROVE  AtRest(kprint(t, Refresh(b, text, c, q)), Glyphs)
    BY <1>3, <1>5, RefreshSettles
  <2> QED
    BY <2>1, <2>2 DEF AtRest
<1>7. ASSUME m \cap {"control", "lost"} = {} PROVE Shows(u, Glyphs, L + p, row)
  <2>1. t.x = L + a
    BY <1>7 DEF RowOK, a
  <2> HIDE DEF Terminal
  <2> QED
    BY <1>0, <1>3, <1>4, <1>5, <2>1, RefreshPrinted
<1> HIDE DEF u
<1>8. ASSUME k = {} PROVE Row(u) = LineRow(s, h)
  <2>1. m = {} /\ t.cursor = Hidden
    BY <1>8
  <2>2. Row(ForgetCursor(t)) = LineRow(l, n)
    BY <2>1 DEF RowOK, ForgetCursor
  <2>3. Row(u) = [Overlay(LineRow(l, n), L, text) EXCEPT ![L + h] = Blank]
    BY <1>7, <2>1, <2>2 DEF Shows
  <2>4. ASSUME NEW i \in Columns PROVE Row(u)[i] = LineRow(s, h)[i]
    <3>1. i \in Nat /\ n = h + 1
      BY <1>0 DEF Columns, h
    <3>2. CASE i < L
      BY <1>0, <1>4, <2>3, <3>1, <3>2 DEF Overlay, LineRow
    <3>3. CASE L <= i /\ i < L + h
      <4>1. i - L + 1 \in 1 .. h /\ (i - L + 1) - 1 = i - L /\ ~(i < L) /\ i # L + h
        BY <1>0, <3>1, <3>3
      <4>2. text[i - L + 1] = s[i - L]
        BY <1>4, <4>1
      <4> QED
        BY <1>4, <2>3, <3>3, <4>1, <4>2 DEF Overlay, LineRow
    <3>4. CASE i = L + h
      <4>1. ~(i < L) /\ ~(i < L + h)
        BY <1>0, <3>4
      <4> QED
        BY <2>3, <3>4, <4>1 DEF Overlay, LineRow
    <3>5. CASE i > L + h
      <4>1. ~(i < L) /\ ~(i < L + h) /\ ~(i < L + n) /\ i # L + h
        BY <1>0, <3>1, <3>5
      <4> QED
        BY <1>4, <2>3, <4>1 DEF Overlay, LineRow
    <3> QED
      BY <1>0, <3>1, <3>2, <3>3, <3>4, <3>5
  <2>5. Row(u) = [i \in Columns |-> Row(u)[i]]
    BY <2>3 DEF Overlay
  <2> QED
    BY <2>4, <2>5 DEF LineRow
<1>9. ASSUME k \cap {"control", "lost"} = {} PROVE u.x = L + p
  <2>1. m \cap {"control", "lost"} = {}
    BY <1>9
  <2> QED
    BY <1>7, <2>1 DEF Shows
<1> QED
  BY <1>1, <1>2, <1>6, <1>8, <1>9 DEF ScreenOK, RowOK

\* The arrows.
LEMMA ArrowOK ==
  ASSUME NEW l, NEW n, Ends(l, n), Printable(l), ShortLength(n),
         NEW p \in Nat, NEW q \in 0 .. n, NEW c \in {"C", "D"},
         q = (IF c = "C" THEN p + 1 ELSE p - 1),
         NEW t \in Terminal(Glyphs), NEW m, Settled(t), RowOK(l, n, p, t, m),
         NEW k, k = (m \cup (IF t.cursor = Hidden THEN {} ELSE {"block"}))
  PROVE  ScreenOK(l, q, kprint(t, Escape(1, c)), k)
<1> DEFINE L == Len(Prompt)
           u == kprint(t, Escape(1, c))
           y == IF c = "C" THEN t.x + 1 ELSE t.x - 1
<1>0. L \in Nat /\ Width \in Nat /\ n \in Nat /\ strlen(l) = n /\ 1 \in 1 .. 9
  <2>1. strlen(l) = n
    BY EndsAt
  <2> QED
    BY <2>1, PromptFacts DEF Ends
<1>1. /\ u \in Terminal(Glyphs) /\ Settled(u) /\ u.cursor = Hidden
      /\ y \in Columns => u.x = y /\ Row(u) = Row(ForgetCursor(t))
  <2> HIDE DEF Terminal
  <2> QED
    BY <1>0, ArrowPrinted, GlyphFacts
<1>2. ASSUME m \cap {"control", "lost"} = {} PROVE y = L + q /\ y \in Columns
  <2>1. t.x = L + p
    BY <1>2 DEF RowOK
  <2>2. y = L + q
    BY <1>0, <2>1
  <2> QED
    BY <1>0, <2>2 DEF ShortLength, Columns
<1> HIDE DEF u, y
<1>3. ASSUME k = {} PROVE Row(u) = LineRow(l, n)
  <2>1. m = {} /\ t.cursor = Hidden
    BY <1>3
  <2> QED
    BY <1>1, <1>2, <2>1 DEF RowOK, ForgetCursor
<1>4. ASSUME k \cap {"control", "lost"} = {} PROVE u.x = L + q
  <2>1. m \cap {"control", "lost"} = {}
    BY <1>4
  <2> QED
    BY <1>1, <1>2, <2>1
<1> QED
  BY <1>0, <1>1, <1>3, <1>4 DEF ScreenOK, RowOK, u

\* One cell of the cursor's row changes.
Drawn(t, g, c) ==
  [t EXCEPT !.screen = [t.screen EXCEPT ![t.y] = [t.screen[t.y] EXCEPT ![t.x] = g]],
            !.cursor = c]

LEMMA CellDrawn ==
  ASSUME NEW t \in Terminal(Glyphs), Settled(t), NEW g, NEW c
  PROVE  LET u == Drawn(t, g, c)
         IN  Settled(u) /\ Row(u) = [Row(t) EXCEPT ![t.x] = g] /\ u.x = t.x /\ u.cursor = c
<1> DEFINE row == [t.screen[t.y] EXCEPT ![t.x] = g]
           sc == [t.screen EXCEPT ![t.y] = row]
           u == [t EXCEPT !.screen = sc, !.cursor = c]
<1>1. t.y \in Rows /\ DOMAIN t.screen = Rows
  BY DEF Terminal
<1> HIDE DEF row
<1>2. sc[t.y] = row /\ \A r \in Rows : r # t.y => sc[r] = t.screen[r]
  BY <1>1
<1> HIDE DEF sc
<1>3. /\ u.y = t.y /\ u.x = t.x /\ u.screen = sc /\ u.cursor = c
      /\ u.escaping = t.escaping /\ u.value = t.value
  BY DEF Terminal
<1> HIDE DEF u
<1>4. \A r \in Rows : r > t.y => r # t.y
  BY <1>1 DEF Rows
<1>5. Settled(u)
  BY <1>2, <1>3, <1>4 DEF Settled, Below
<1> QED
  BY <1>2, <1>3, <1>5 DEF u, sc, row, Row, Drawn

\* The cursor is drawn and taken away behind the line.
LEMMA CursorOK ==
  ASSUME NEW l, NEW n, Ends(l, n), Printable(l), ShortLength(n),
         NEW p \in Nat, p <= n, NEW g,
         g = IF l[IF p = 0 THEN 0 ELSE p - 1] = NUL THEN Blank
             ELSE l[IF p = 0 THEN 0 ELSE p - 1],
         NEW t \in Terminal(Glyphs), NEW m, Settled(t), RowOK(l, n, p, t, m),
         NEW k, k = (m \cup IF p = n THEN {} ELSE {"block"})
  PROVE  /\ t.cursor = Hidden => ScreenOK(l, p, DrawCursor(t, g), k)
         /\ t.cursor # Hidden => ScreenOK(l, p, EraseCursor(t), k)
<1> DEFINE L == Len(Prompt)
           d == DrawCursor(t, g)
           e == EraseCursor(t)
<1>0. L \in Nat /\ Width \in Nat /\ n \in Nat /\ strlen(l) = n
  <2>1. strlen(l) = n
    BY EndsAt
  <2> QED
    BY <2>1, PromptFacts DEF Ends
<1>9. d = Drawn(t, Block, g) /\ e = Drawn(t, Blank, Hidden)
  <2>1. d = Drawn(t, Block, g)
    BY DEF DrawCursor, Drawn
  <2>2. e = Drawn(t, Blank, Hidden)
    BY DEF EraseCursor, Drawn
  <2> HIDE DEF d, e
  <2> QED
    BY <2>1, <2>2
<1>1. Settled(d) /\ Row(d) = [Row(t) EXCEPT ![t.x] = Block] /\ d.x = t.x /\ d.cursor = g
  <2> HIDE DEF d, Terminal
  <2> QED
    BY <1>9, CellDrawn
<1>2. Settled(e) /\ Row(e) = [Row(t) EXCEPT ![t.x] = Blank] /\ e.x = t.x /\ e.cursor = Hidden
  <2> HIDE DEF e, Terminal
  <2> QED
    BY <1>9, CellDrawn
<1> HIDE DEF d, e
<1>3. k \cap {"control", "lost"} = {} => t.x = L + p
  BY DEF RowOK
<1>4. ASSUME k = {} PROVE m = {} /\ p = n /\ t.x = L + n /\ t.x \in Columns
  <2>1. m = {} /\ p = n
    BY <1>4
  <2>2. t.x = L + n
    BY <2>1 DEF RowOK
  <2> QED
    BY <1>0, <2>1, <2>2 DEF ShortLength, Columns
<1>5. ASSUME k = {} PROVE g = (IF p = 0 THEN Blank ELSE l[p - 1])
  <2>1. CASE p = 0
    <3>1. l[0] = NUL
      <4>1. 0 \in n .. CMDLINE_MAX
        BY <1>4, <1>5, <2>1, PromptFacts
      <4> QED
        BY <4>1 DEF Ends
    <3> QED
      BY <2>1, <3>1
  <2>2. CASE p # 0
    <3>1. l[p - 1] # NUL
      <4>1. p - 1 \in 0 .. n - 1
        BY <1>0, <2>2
      <4> QED
        BY <4>1 DEF Ends
    <3> QED
      BY <2>2, <3>1
  <2> QED
    BY <2>1, <2>2
<1>6. ASSUME t.cursor = Hidden PROVE ScreenOK(l, p, d, k)
  <2>1. ASSUME k = {}, d.cursor # Hidden
        PROVE  Row(d) = [LineRow(l, n) EXCEPT ![d.x] = Block] /\ p = n
               /\ d.cursor = IF p = 0 THEN Blank ELSE l[p - 1]
    BY <1>1, <1>4, <1>5, <1>6, <2>1 DEF RowOK
  <2>2. d.cursor = Hidden => k # {}
    <3>1. ASSUME k = {} PROVE g # Hidden
      <4>1. CASE p = 0
        BY <1>5, <3>1, <4>1 DEF Blank, Hidden
      <4>2. CASE p # 0
        <5>1. p - 1 \in 0 .. CMDLINE_MAX
          BY <1>0, <1>4, <3>1, <4>2, PromptFacts DEF Ends
        <5> QED
          BY <1>5, <3>1, <4>2, <5>1 DEF Printable
      <4> QED
        BY <4>1, <4>2
    <3> QED
      BY <1>1, <3>1
  <2> QED
    BY <1>0, <1>1, <1>3, <2>1, <2>2 DEF ScreenOK, RowOK
<1>7. ASSUME t.cursor # Hidden PROVE ScreenOK(l, p, e, k)
  <2>1. ASSUME k = {} PROVE Row(e) = LineRow(l, n)
    <3>1. Row(e) = [[LineRow(l, n) EXCEPT ![t.x] = Block] EXCEPT ![t.x] = Blank]
      BY <1>2, <1>4, <1>7, <2>1 DEF RowOK
    <3>2. LineRow(l, n)[t.x] = Blank
      <4>1. ~(t.x < L) /\ ~(t.x < L + n)
        BY <1>0, <1>4, <2>1
      <4> QED
        BY <1>4, <2>1, <4>1 DEF LineRow
    <3> DEFINE r == LineRow(l, n)
    <3>3. r = [i \in Columns |-> r[i]]
      BY DEF LineRow
    <3> HIDE DEF r
    <3>4. [[r EXCEPT ![t.x] = Block] EXCEPT ![t.x] = Blank] = r
      BY <1>4, <2>1, <3>2, <3>3 DEF r
    <3> QED
      BY <3>1, <3>4 DEF r
  <2> QED
    BY <1>0, <1>2, <1>3, <2>1 DEF ScreenOK, RowOK
<1> QED
  BY <1>6, <1>7 DEF d, e

-----------------------------------------------------------------------------
(* The invariant of the screen. *)

LEMMA ScreenStarts == ASSUME Init, ShortLine PROVE ScreenInv
<1>1. EditInv
  BY EditInvStarts
<1>2. CMDLINE_MAX \in Nat \ {0} /\ 0 \in Columns /\ 0 \in Rows /\ Blank \in Glyphs
  BY GlyphFacts, PromptFacts, ScreenAssumption DEF Columns, Rows
<1>3. Ends(line, 0) /\ Printable(line)
  BY <1>2, LetterFacts DEF Init, EmptyLine, Ends, Printable
<1>4. ShortLength(0)
  <2>1. strlen(line) = 0
    BY <1>3, EndsAt
  <2> QED
    BY <2>1 DEF ShortLine
<1>5. Shows(NewTerminal, Glyphs, 0, BlankRow)
  BY <1>2 DEF Shows, NewTerminal, Terminal, BlankRow, Settled, Below, Row
<1>6. Shows(term, Glyphs, Len(Prompt), LineRow(line, 0))
  <2>1. term = kprint(NewTerminal, Prompt)
    BY DEF Init
  <2> QED
    BY <1>4, <1>5, <2>1, PromptPrinted
<1>7. pos = 0 /\ Len(Prompt) = Len(Prompt) + 0
  BY PromptFacts DEF Init
<1>8. ScreenOK(line, pos, term, marred)
  <2> DEFINE x == Len(Prompt)
  <2>1. Shows(term, Glyphs, x, LineRow(line, 0)) /\ x = Len(Prompt) + pos
    BY <1>6, <1>7
  <2> HIDE DEF x
  <2> QED
    BY <1>3, <2>1, ShownIsOK
<1> QED
  BY <1>1, <1>8 DEF ScreenInv

\* The line of the shell has no character that moves the cursor.
LEMMA LineIsPrintable == ASSUME ScreenInv, [Next]_vars PROVE Printable(line')
<1>0. /\ Printable(line) /\ CMDLINE_MAX \in Nat /\ NUL \notin Controls /\ NUL # Hidden
      /\ DOMAIN line = 0 .. CMDLINE_MAX /\ line \in [0 .. CMDLINE_MAX -> Chars]
      /\ pos \in 0 .. CMDLINE_MAX - 1
  <2>1. NUL \notin Controls /\ NUL # Hidden /\ CMDLINE_MAX \in Nat
    BY LetterFacts, PromptFacts
  <2>2. Printable(line) /\ EditorOK(line, pos, term, marred)
    BY DEF ScreenInv, ScreenOK, EditInv
  <2>3. line \in [0 .. CMDLINE_MAX -> Chars] /\ pos \in 0 .. CMDLINE_MAX - 1
    BY <2>2 DEF EditorOK
  <2> QED
    BY <2>1, <2>2, <2>3
<1>1. ASSUME line' = line PROVE Printable(line')
  BY <1>0, <1>1
<1>2. ASSUME NEW text, StartOver(text) PROVE Printable(line')
  BY <1>0, <1>2 DEF StartOver, Printable
<1>3. CASE Enter
  BY <1>2, <1>3 DEF Enter
<1>4. CASE Interrupted
  BY <1>2, <1>4 DEF Interrupted
<1>5. CASE Backspace
  <2>1. CASE pos = 0
    BY <1>1, <1>5, <2>1 DEF Backspace, editor
  <2>2. CASE pos # 0
    <3>1. PICK n \in 0 .. CMDLINE_MAX - 1 : Ends(line, n)
      BY DEF ScreenInv, EditInv, EditorOK
    <3>2. strlen(line) = n
      BY <3>1, EndsAt
    <3> DEFINE p == pos - 1
               s == [i \in 0 .. CMDLINE_MAX |-> IF i \in p .. n - 1 THEN line[i + 1] ELSE line[i]]
    <3>3. line' = s
      BY <1>0, <1>5, <2>2, <3>2 DEF Backspace, rmchar
    <3>4. \A i \in 0 .. CMDLINE_MAX : i \in p .. n - 1 => i + 1 \in 0 .. CMDLINE_MAX
      BY <1>0
    <3> HIDE DEF p
    <3>5. Printable(s)
      BY <1>0, <3>4 DEF Printable
    <3> QED
      BY <3>3, <3>5
  <2> QED
    BY <2>1, <2>2
<1>6. ASSUME NEW c \in Letters \cup {VT}, Type(c) PROVE Printable(line')
  <2>1. CASE HasRoom(pos)
    <3>1. line' = [line EXCEPT ![pos] = c] /\ c \notin Controls /\ c # Hidden
      BY <1>6, <2>1, LetterFacts DEF Type
    <3> QED
      BY <1>0, <3>1 DEF Printable
  <2>2. CASE ~HasRoom(pos)
    BY <1>2, <1>6, <2>2 DEF Type
  <2> QED
    BY <2>1, <2>2
<1>7. ASSUME NEW e \in Events, Irq(e) \/ Bracket(e) \/ Final(e) PROVE Printable(line')
  <2>1. CASE Irq(e) \/ Bracket(e)
    BY <1>1, <2>1 DEF Irq, Bracket, editor
  <2>2. ASSUME NEW c, NEW may, NEW d, Arrow(c, may, d) PROVE Printable(line')
    BY <1>1, <2>2 DEF Arrow, editor
  <2>3. CASE Final(e)
    BY <1>2, <2>2, <2>3 DEF Final
  <2> QED
    BY <1>7, <2>1, <2>3
<1>8. CASE Test \/ Load \/ Nothing \/ Idle \/ ClearScreen \/ EscapeKey \/ UNCHANGED vars
  BY <1>1, <1>8 DEF Test, Load, Nothing, Idle, ClearScreen, EscapeKey, vars, editor
<1> QED
  BY <1>3, <1>4, <1>5, <1>6, <1>7, <1>8 DEF Next

\* The texts before a new prompt.
LEMMA PlainTexts ==
  /\ PlainText(<<LF>>) /\ PlainText(<<"^", "C", LF>>) /\ PlainText(<<"!", LF>>)
  /\ PlainText(<<"0", "x", LF>>)
  /\ \A out \in Outputs : PlainText(out) => PlainText(<<LF>> \o out)
<1>1. LF # ESC /\ "^" # ESC /\ "C" # ESC /\ "!" # ESC /\ "0" # ESC /\ "x" # ESC
  BY DEF LF, ESC
<1>2. PlainText(<<LF>>)
  BY <1>1 DEF PlainText
<1>3. PlainText(<<"^", "C", LF>>)
  BY <1>1 DEF PlainText
<1>4. PlainText(<<"!", LF>>)
  BY <1>1 DEF PlainText
<1>5. PlainText(<<"0", "x", LF>>)
  BY <1>1 DEF PlainText
<1>6. ASSUME NEW out \in Outputs, PlainText(out) PROVE PlainText(<<LF>> \o out)
  <2> DEFINE a == <<LF>>
             text == a \o out
  <2>1. a \in Seq(Glyphs) /\ out \in Seq(Glyphs) /\ Len(a) = 1 /\ a[1] = LF
    BY GlyphFacts, LastTexts
  <2> HIDE DEF a
  <2>6. a \in Seq(Glyphs) /\ out \in Seq(Glyphs)
    BY <2>1
  <2>2. /\ Len(text) = Len(a) + Len(out) /\ \A i \in 1 .. Len(a) : text[i] = a[i]
        /\ \A i \in 1 .. Len(out) : text[Len(a) + i] = out[i]
    BY <2>6
  <2> HIDE DEF text
  <2>3. Len(out) \in Nat \ {0} /\ Len(text) = 1 + Len(out)
    BY <1>6, <2>1, <2>2 DEF PlainText
  <2>4. text[Len(text)] = LF
    BY <1>6, <2>1, <2>2, <2>3 DEF PlainText
  <2>5. \A i \in 1 .. Len(text) : text[i] # ESC
    <3> TAKE i \in 1 .. Len(text)
    <3>1. CASE i = 1
      BY <1>1, <2>1, <2>2, <3>1
    <3>2. CASE i # 1
      <4>1. i - 1 \in 1 .. Len(out) /\ 1 + (i - 1) = i
        BY <2>3, <3>2
      <4>2. text[i] = out[i - 1]
        BY <2>1, <2>2, <4>1
      <4> QED
        BY <1>6, <4>1, <4>2 DEF PlainText
    <3> QED
      BY <3>1, <3>2
  <2> QED
    BY <2>3, <2>4, <2>5 DEF PlainText, text
<1> QED
  BY <1>2, <1>3, <1>4, <1>5, <1>6

\* Every step, as long as the line is short before and after it.
LEMMA ScreenKept ==
  ASSUME ScreenInv, PlainOutputs, ShortLine, ShortLine', [Next]_vars
  PROVE  ScreenOK(line, pos, term, marred)'
<1>0. EditInv'
  BY KeysKept, EditorKept DEF EditInv, ScreenInv
<1>1. PICK n \in 0 .. CMDLINE_MAX - 1 : Ends(line, n) /\ pos <= n
  BY DEF ScreenInv, EditInv, EditorOK
<1>2. PICK k \in 0 .. CMDLINE_MAX - 1 : Ends(line', k) /\ pos' <= k
  BY <1>0 DEF EditInv, EditorOK
<1>3. /\ strlen(line) = n /\ strlen(line') = k /\ ShortLength(n) /\ ShortLength(k)
      /\ Printable(line) /\ Printable(line') /\ n \in Nat /\ k \in Nat
  <2>1. strlen(line) = n
    BY <1>1, EndsAt
  <2>2. strlen(line') = k
    BY <1>2, EndsAt
  <2> QED
    BY <2>1, <2>2, LineIsPrintable DEF ShortLine, ScreenInv, ScreenOK
<1>4. ShortLength(0)
  BY <1>3, PromptFacts DEF ShortLength
<1>5. /\ line \in [0 .. CMDLINE_MAX -> Chars] /\ pos \in Nat /\ term \in Terminal(Glyphs)
      /\ Settled(term) /\ RowOK(line, n, pos, term, marred)
      /\ line' \in [0 .. CMDLINE_MAX -> Chars]
  <2>1. /\ line \in [0 .. CMDLINE_MAX -> Chars] /\ pos \in Nat /\ term \in Terminal(Glyphs)
        /\ line' \in [0 .. CMDLINE_MAX -> Chars]
    BY <1>0 DEF ScreenInv, EditInv, EditorOK
  <2>2. Settled(term) /\ RowOK(line, n, pos, term, marred)
    BY <1>3 DEF ScreenInv, ScreenOK
  <2> QED
    BY <2>1, <2>2
<1> DEFINE Goal == ScreenOK(line, pos, term, marred)'
<1>6. ASSUME UNCHANGED editor PROVE Goal
  BY <1>6 DEF editor, ScreenInv
<1>7. ASSUME NEW text \in Seq(Glyphs), PlainText(text), StartOver(text) PROVE Goal
  <2>1. pos' = 0 /\ marred' = {} /\ term' = kprint(term, text \o Prompt)
    BY <1>7 DEF StartOver
  <2>2. Ends(line', 0)
    <3>1. line' = [i \in DOMAIN line |-> IF i < CMDLINE_MAX THEN NUL ELSE line[i]]
      BY <1>7 DEF StartOver
    <3>2. Ends([i \in DOMAIN line |-> IF i < CMDLINE_MAX THEN NUL ELSE line[i]], 0)
      BY <1>1, <1>5, EmptyEnds
    <3> QED
      BY <3>1, <3>2
  <2> HIDE DEF Terminal
  <2>3. ScreenOK(line', 0, kprint(term, text \o Prompt), {})
    BY <1>3, <1>4, <1>5, <1>7, <2>2, StartOverOK
  <2> QED
    BY <2>1, <2>3
<1> HIDE DEF Terminal
<1>8. ASSUME Enter PROVE Goal
  <2>1. CASE line[0] = NUL
    <3> DEFINE text == <<LF>>
    <3>1. text \in Seq(Glyphs) /\ PlainText(text) /\ StartOver(text)
      BY <1>8, <2>1, LastTexts, PlainTexts DEF Enter
    <3> HIDE DEF text, Goal
    <3> QED
      BY <1>7, <3>1
  <2>2. CASE line[0] # NUL
    <3>1. PICK out \in Outputs : StartOver(<<LF>> \o out)
      BY <1>8, <2>2 DEF Enter
    <3> DEFINE text == <<LF>> \o out
    <3>2. text \in Seq(Glyphs) /\ PlainText(text) /\ StartOver(text)
      BY <3>1, LastTexts, PlainTexts DEF PlainOutputs
    <3> HIDE DEF text, Goal
    <3> QED
      BY <1>7, <3>2
  <2> QED
    BY <2>1, <2>2
<1>9. ASSUME Interrupted PROVE Goal
  <2> DEFINE text == <<"^", "C", LF>>
  <2>1. text \in Seq(Glyphs) /\ PlainText(text) /\ StartOver(text)
    BY <1>9, LastTexts, PlainTexts DEF Interrupted
  <2> HIDE DEF text, Goal
  <2> QED
    BY <1>7, <2>1
<1>10. ASSUME ClearScreen PROVE Goal
  <2> DEFINE u == kprint(term, Escape(2, "J") \o <<ESC, "[", "H">> \o Prompt \o Text(line))
             m == (marred \ {"hole", "block"}) \cup (IF pos = n THEN {} ELSE {"lost"})
  <2>1. line' = line /\ pos' = pos /\ term' = u /\ marred' = m
    BY <1>3, <1>10 DEF ClearScreen
  <2>2. ScreenOK(line, pos, u, m)
    BY <1>1, <1>3, <1>5, ClearScreenOK
  <2> HIDE DEF u, m
  <2> QED
    BY <2>1, <2>2
<1>11. ASSUME Backspace PROVE Goal
  <2>1. CASE pos = 0
    <3> HIDE DEF Goal
    <3> QED
      BY <1>6, <1>11, <2>1 DEF Backspace
  <2>2. CASE pos # 0
    <3> DEFINE p == pos - 1
               s == line'
               m == marred \cup (IF p = 0 /\ s[0] # NUL THEN {"hole"} ELSE {})
                           \cup (IF term.cursor = Hidden THEN {} ELSE {"block"})
               u == kprint(term, refreshline(s, p))
    <3>1. s = rmchar(line, p) /\ pos' = p /\ term' = u /\ marred' = m
      <4>1. s = rmchar(line, p) /\ pos' = p /\ term' = u
        BY <1>11, <2>2 DEF Backspace
      <4>2. marred' = m
        BY <1>11, <2>2 DEF Backspace, CursorLeft
      <4> HIDE DEF s, p, u, m
      <4> QED
        BY <4>1, <4>2
    <3>2. p \in Nat /\ p < n /\ p <= n - 1 /\ n # 0 /\ p + 1 = pos
      BY <1>1, <1>5, <2>2
    <3>3. Ends(s, n - 1)
      <4> HIDE DEF s, p, m
      <4>1. DOMAIN line = 0 .. CMDLINE_MAX
        BY <1>5
      <4>2. Ends(rmchar(line, p), n - 1)
        BY <1>1, <3>2, <4>1, RemovedEnds
      <4> QED
        BY <3>1, <4>2
    <3>4. s \in [0 .. CMDLINE_MAX -> Chars] /\ Printable(s)
      BY <1>3, <1>5
    <3>5. CASE p = 0
      <4> DEFINE m0 == marred \cup (IF s[0] # NUL THEN {"hole"} ELSE {})
                              \cup (IF term.cursor = Hidden THEN {} ELSE {"block"})
                 u0 == kprint(term, Escape(1, "D") \o <<Blank>> \o Escape(1, "D"))
      <4>1. m = m0
        BY <3>5
      <4>2. u = u0
        BY <3>5 DEF refreshline
      <4>3. RowOK(line, n, 1, term, marred)
        BY <1>5, <3>2, <3>5
      <4> HIDE DEF p, s, m, u
      <4>4. ScreenOK(s, 0, u0, m0)
        BY <1>1, <1>3, <1>5, <3>2, <3>3, <3>4, <4>3, FirstRemovedOK
      <4> QED
        BY <3>1, <3>5, <4>1, <4>2, <4>4 DEF s
    <3>6. CASE p # 0
      <4> DEFINE m1 == marred \cup (IF term.cursor = Hidden THEN {} ELSE {"block"})
      <4>1. m = m1
        BY <3>6
      <4>3. RowOK(line, n, p + 1, term, marred)
        BY <1>5, <3>2
      <4> HIDE DEF p, s, m
      <4>4. ScreenOK(s, p, u, m1)
        BY <1>1, <1>3, <1>5, <3>2, <3>3, <3>4, <3>6, <4>3, RemovedOK
      <4> HIDE DEF u
      <4> QED
        BY <3>1, <4>1, <4>4 DEF s
    <3> QED
      BY <3>5, <3>6
  <2> QED
    BY <2>1, <2>2
<1>12. ASSUME NEW c \in Letters \cup {VT}, Type(c) PROVE Goal
  <2>1. CASE HasRoom(pos)
    <3> DEFINE s == line'
               text == IF c = VT THEN <<"0", "x", "b">> ELSE <<c>>
    <3>1. /\ s = [line EXCEPT ![pos] = c] /\ pos' = pos + 1 /\ term' = kprint(term, text)
          /\ marred' = (IF c = VT THEN marred \cup {"control"} ELSE marred)
          /\ pos < CMDLINE_MAX - 1
      BY <1>12, <2>1 DEF Type, HasRoom
    <3>2. s[pos] = c /\ \A i \in 0 .. CMDLINE_MAX : i # pos => s[i] = line[i]
      BY <1>5, <3>1, PromptFacts
    <3>3. CASE c = VT
      <4> DEFINE m == marred \cup {"control"}
                 p == pos + 1
                 u == kprint(term, <<"0", "x", "b">>)
      <4>1. term' = u /\ marred' = m /\ pos' = p /\ "control" \in m /\ Printable(s)
        BY <1>3, <3>1, <3>3
      <4> HIDE DEF m, p, s
      <4>2. ScreenOK(s, p, u, m)
        BY <1>5, <4>1, NumberOK
      <4> QED
        BY <4>1, <4>2 DEF s
    <3>4. CASE c # VT
      <4>1. c \in Letters /\ term' = kprint(term, <<c>>) /\ marred' = marred /\ Printable(s)
            /\ pos <= n
        BY <1>1, <1>3, <1>12, <3>1, <3>4
      <4>2. k = (IF pos = n THEN n + 1 ELSE n)
        <5>1. CASE pos = n
          <6>1. k > n
            BY <1>1, <1>2, <1>5, <3>1, <5>1
          <6>2. s[n + 1] = NUL
            <7>1. n + 1 \in n .. CMDLINE_MAX /\ n + 1 # pos /\ n + 1 \in 0 .. CMDLINE_MAX
              BY <1>3, <3>1, <5>1, PromptFacts
            <7> QED
              BY <1>1, <3>2, <7>1 DEF Ends
          <6>3. ~(k > n + 1)
            <7>1. ASSUME k > n + 1 PROVE FALSE
              <8>1. n + 1 \in 0 .. k - 1
                BY <1>3, <7>1
              <8> QED
                BY <1>2, <6>2, <8>1 DEF Ends
            <7> QED
              BY <7>1
          <6> QED
            BY <1>3, <5>1, <6>1, <6>3
        <5>2. CASE pos # n
          <6>1. s[n] = NUL
            <7>1. n \in n .. CMDLINE_MAX /\ n \in 0 .. CMDLINE_MAX
              BY <1>1, PromptFacts
            <7> QED
              BY <1>1, <3>2, <5>2, <7>1 DEF Ends
          <6>2. ~(k > n)
            <7>1. ASSUME k > n PROVE FALSE
              <8>1. n \in 0 .. k - 1
                BY <1>3, <7>1
              <8> QED
                BY <1>2, <6>1, <8>1 DEF Ends
            <7> QED
              BY <7>1
          <6>3. ~(k < n)
            <7>1. ASSUME k < n PROVE FALSE
              <8>1. k \in k .. CMDLINE_MAX /\ k \in 0 .. n - 1 /\ k \in 0 .. CMDLINE_MAX
                BY <1>1, <1>3, <7>1, PromptFacts
              <8>2. s[k] = NUL /\ line[k] # NUL
                BY <1>1, <1>2, <8>1 DEF Ends
              <8>3. c # NUL
                BY LetterFacts
              <8> QED
                BY <3>2, <8>1, <8>2, <8>3
            <7> QED
              BY <7>1
          <6> QED
            BY <1>3, <5>2, <6>2, <6>3
        <5> QED
          BY <5>1, <5>2
      <4>3. Ends(s, k)
        BY <1>2
      <4> HIDE DEF s, Goal
      <4>4. ScreenOK(s, pos + 1, kprint(term, <<c>>), marred)
        BY <1>1, <1>3, <1>5, <3>2, <4>1, <4>2, <4>3, TypedOK
      <4> QED
        BY <3>1, <4>1, <4>4 DEF s, Goal
    <3> QED
      BY <3>3, <3>4
  <2>2. CASE ~HasRoom(pos)
    <3> DEFINE text == <<"!", LF>>
    <3>1. text \in Seq(Glyphs) /\ PlainText(text) /\ StartOver(text)
      BY <1>12, <2>2, LastTexts, PlainTexts DEF Type
    <3> HIDE DEF text, Goal
    <3> QED
      BY <1>7, <3>1
  <2> QED
    BY <2>1, <2>2
<1>13. ASSUME NEW e \in Events, Final(e) PROVE Goal
  <2>1. ASSUME NEW c \in {"C", "D"}, NEW may, NEW d, NEW q, Arrow(c, may, d),
               may => q = pos + d /\ q \in 0 .. n /\ q = (IF c = "C" THEN pos + 1 ELSE pos - 1)
        PROVE  Goal
    <3>1. CASE may
      <4> DEFINE m == marred \cup (IF term.cursor = Hidden THEN {} ELSE {"block"})
                 u == kprint(term, Escape(1, c))
      <4>1. line' = line /\ pos' = q /\ term' = u /\ marred' = m
        <5>1. line' = line /\ pos' = q /\ term' = u
          BY <2>1, <3>1 DEF Arrow
        <5>2. marred' = m
          BY <2>1, <3>1 DEF Arrow, CursorLeft
        <5> HIDE DEF m, u
        <5> QED
          BY <5>1, <5>2
      <4> HIDE DEF m
      <4>2. m = marred \cup (IF term.cursor = Hidden THEN {} ELSE {"block"})
        BY DEF m
      <4>3. ScreenOK(line, q, u, m)
        BY <1>1, <1>3, <1>5, <2>1, <3>1, <4>2, ArrowOK
      <4> HIDE DEF u
      <4> QED
        BY <4>1, <4>3
    <3>2. CASE ~may
      <4> HIDE DEF Goal
      <4> QED
        BY <1>6, <2>1, <3>2 DEF Arrow
    <3> QED
      BY <3>1, <3>2
  <2> HIDE DEF Goal
  <2>2. CASE CharOf(e) = "C"
    <3> DEFINE may == MayGoRight(line, pos)
               q == pos + 1
               c == "C"
    <3>1. Arrow(c, may, 1)
      BY <1>13, <2>2 DEF Final
    <3>2. may => q = pos + 1 /\ q \in 0 .. n /\ q = (IF c = "C" THEN pos + 1 ELSE pos - 1)
      <4>1. ASSUME may PROVE q \in 0 .. n
        <5>1. line[pos] # NUL
          BY <4>1 DEF MayGoRight
        <5>2. pos # n
          <6>1. n \in n .. CMDLINE_MAX
            BY <1>1, PromptFacts
          <6> QED
            BY <1>1, <5>1, <6>1 DEF Ends
        <5> QED
          BY <1>1, <1>3, <1>5, <5>2
      <4> QED
        BY <4>1
    <3>3. c \in {"C", "D"}
      OBVIOUS
    <3> HIDE DEF may, q, c
    <3> QED
      BY <2>1, <3>1, <3>2, <3>3
  <2>3. CASE CharOf(e) = "D"
    <3> DEFINE may == pos > 0
               q == pos - 1
               d == -1
               c == "D"
    <3>1. Arrow(c, may, d)
      BY <1>13, <2>3 DEF Final
    <3>2. may => q = pos + d /\ q \in 0 .. n /\ q = (IF c = "C" THEN pos + 1 ELSE pos - 1)
      BY <1>1, <1>3, <1>5
    <3>3. c \in {"C", "D"}
      OBVIOUS
    <3> HIDE DEF may, q, d, c
    <3> QED
      BY <2>1, <3>1, <3>2, <3>3
  <2>4. CASE CharOf(e) # "C" /\ CharOf(e) # "D"
    <3> DEFINE text == <<"0", "x", LF>>
    <3>1. text \in Seq(Glyphs) /\ PlainText(text) /\ StartOver(text)
      BY <1>13, <2>4, LastTexts, PlainTexts DEF Final
    <3> HIDE DEF text
    <3> QED
      BY <1>7, <3>1
  <2> QED
    BY <2>2, <2>3, <2>4
<1>14. ASSUME Idle PROVE Goal
  <2> DEFINE before == line[IF pos = 0 THEN 0 ELSE pos - 1]
             g == IF before = NUL THEN Blank ELSE before
             m == marred \cup IF pos = n THEN {} ELSE {"block"}
  <2>1. /\ term' = (IF term.cursor = Hidden THEN DrawCursor(term, g) ELSE EraseCursor(term))
        /\ line' = line /\ pos' = pos /\ marred' = m
    <3>1. /\ term' = (IF term.cursor = Hidden THEN DrawCursor(term, g) ELSE EraseCursor(term))
          /\ line' = line /\ pos' = pos
      BY <1>14 DEF Idle
    <3>2. marred' = m
      BY <1>3, <1>14 DEF Idle
    <3> HIDE DEF g, m
    <3> QED
      BY <3>1, <3>2
  <2>2. /\ term.cursor = Hidden => ScreenOK(line, pos, DrawCursor(term, g), m)
        /\ term.cursor # Hidden => ScreenOK(line, pos, EraseCursor(term), m)
    <3>1. g = (IF line[IF pos = 0 THEN 0 ELSE pos - 1] = NUL THEN Blank
               ELSE line[IF pos = 0 THEN 0 ELSE pos - 1])
          /\ m = (marred \cup IF pos = n THEN {} ELSE {"block"})
      OBVIOUS
    <3> HIDE DEF g, m
    <3> QED
      BY <1>1, <1>3, <1>5, <3>1, CursorOK
  <2> HIDE DEF g, m
  <2> QED
    BY <2>1, <2>2
<1> HIDE DEF Goal
<1>15. ASSUME NEW e \in Events, Irq(e) \/ Bracket(e) PROVE Goal
  BY <1>6, <1>15 DEF Irq, Bracket
<1>16. ASSUME Test \/ Load \/ Nothing \/ EscapeKey \/ UNCHANGED vars PROVE Goal
  BY <1>6, <1>16 DEF Test, Load, Nothing, EscapeKey, vars
<1>17. Goal
  BY <1>8, <1>9, <1>10, <1>11, <1>12, <1>13, <1>14, <1>15, <1>16 DEF Next
<1> QED
  BY <1>17 DEF Goal

\* What the invariant says about the screen.
LEMMA ScreenInvSays ==
  ASSUME ScreenInv, ShortLine PROVE CursorFollowsLine /\ ScreenShowsLine
<1>1. PICK n \in 0 .. CMDLINE_MAX - 1 : Ends(line, n)
  BY DEF ScreenInv, EditInv, EditorOK
<1>2. strlen(line) = n /\ Len(Text(line)) = n
      /\ \A i \in 1 .. n : Text(line)[i] = line[i - 1]
  BY <1>1, EndsAt
<1>3. RowOK(line, n, pos, term, marred)
  BY <1>2 DEF ScreenInv, ScreenOK
<1>4. CursorFollowsLine
  BY <1>3 DEF RowOK, CursorFollowsLine
<1>5. ScreenShowsLine
  <2> SUFFICES ASSUME marred = {},  NEW i \in Columns
               PROVE  term.screen[term.y][i] =
                        LET shown == Prompt \o Text(line)
                        IN  IF i < Len(shown) THEN shown[i + 1]
                            ELSE IF i = term.x /\ term.cursor # Hidden THEN Block ELSE Blank
    BY DEF ScreenShowsLine
  <2> DEFINE L == Len(Prompt)
             text == Text(line)
             shown == Prompt \o text
  <2>1. L \in Nat /\ i \in Nat /\ n \in Nat /\ Width \in Nat
    BY <1>1, PromptFacts DEF Columns
  <2>2. /\ Len(shown) = L + n
        /\ i < L => shown[i + 1] = Prompt[i + 1]
        /\ ~(i < L) /\ i < L + n => shown[i + 1] = line[i - L]
    <3>1. Prompt \in Seq(Glyphs) /\ text \in Seq(Glyphs)
      <4>1. line \in [0 .. CMDLINE_MAX -> Chars] /\ \A j \in 1 .. n : j - 1 \in 0 .. CMDLINE_MAX
        BY <1>1, PromptFacts DEF ScreenInv, EditInv, EditorOK
      <4>2. text = [j \in 1 .. n |-> line[j - 1]]
        BY <1>2 DEF Text
      <4>3. text \in [1 .. n -> Glyphs]
        BY <4>1, <4>2, GlyphFacts
      <4> QED
        BY <2>1, <4>3, GlyphFacts
    <3> HIDE DEF text
    <3>2. /\ Len(shown) = L + Len(text) /\ \A j \in 1 .. L : shown[j] = Prompt[j]
          /\ \A j \in 1 .. Len(text) : shown[L + j] = text[j]
      BY <3>1
    <3> HIDE DEF shown
    <3>3. Len(shown) = L + n
      BY <1>2, <3>2 DEF text
    <3>4. ASSUME i < L PROVE shown[i + 1] = Prompt[i + 1]
      BY <2>1, <3>2, <3>4
    <3>5. ASSUME ~(i < L), i < L + n PROVE shown[i + 1] = line[i - L]
      <4> DEFINE j == i - L + 1
      <4>1. j \in 1 .. n /\ L + j = i + 1 /\ j - 1 = i - L
        BY <2>1, <3>5
      <4> HIDE DEF j
      <4>2. shown[L + j] = text[j] /\ text[j] = line[j - 1]
        BY <1>2, <3>2, <4>1 DEF text
      <4> QED
        BY <4>1, <4>2
    <3> QED
      BY <3>3, <3>4, <3>5
  <2> HIDE DEF shown, text
  <2>3. Row(term)[i] = IF i = term.x /\ term.cursor # Hidden THEN Block ELSE LineRow(line, n)[i]
    BY <1>3 DEF RowOK, LineRow
  <2>4. term.cursor # Hidden => term.x = L + n
    BY <1>3 DEF RowOK
  <2>5. LineRow(line, n)[i] = IF i < L THEN Prompt[i + 1]
                              ELSE IF i < L + n THEN line[i - L] ELSE Blank
    BY DEF LineRow
  <2>6. term.screen[term.y][i] =
          IF i < Len(shown) THEN shown[i + 1]
          ELSE IF i = term.x /\ term.cursor # Hidden THEN Block ELSE Blank
    <3>1. CASE i < L
      <4>1. i < L + n /\ i # L + n
        BY <2>1, <3>1
      <4> QED
        BY <2>2, <2>3, <2>4, <2>5, <3>1, <4>1 DEF Row
    <3>2. CASE ~(i < L) /\ i < L + n
      <4>1. i # L + n
        BY <2>1, <3>2
      <4> QED
        BY <2>2, <2>3, <2>4, <2>5, <3>2, <4>1 DEF Row
    <3>3. CASE ~(i < L) /\ ~(i < L + n)
      BY <2>2, <2>3, <2>5, <3>3 DEF Row
    <3> QED
      BY <2>1, <3>1, <3>2, <3>3
  <2> QED
    BY <2>6 DEF shown, text
<1> QED
  BY <1>4, <1>5

LEMMA ScreenInvHolds == ASSUME PlainOutputs PROVE Spec /\ []ShortLine => []ScreenInv
<1>1. ScreenInv /\ ShortLine /\ ShortLine' /\ [Next]_vars => ScreenInv'
  BY KeysKept, EditorKept, ScreenKept DEF ScreenInv, EditInv
<1>2. Init /\ ShortLine => ScreenInv
  BY ScreenStarts
<1> QED
  BY <1>1, <1>2, PTL DEF Spec

\* As long as the line has fewer than ten characters and fits into the row behind the
\* prompt, and commands print whole rows, the column of the cursor is the place where
\* the next character goes into the line.
THEOREM CursorIsRight ==
  ASSUME PlainOutputs PROVE Spec /\ []ShortLine => []CursorFollowsLine
BY ScreenInvHolds, ScreenInvSays, PTL

\* Under the same conditions the row of the cursor shows the prompt and the line: what is
\* seen is what ENTER runs.  From ten characters on it does not: refreshline moves the cursor
\* by a number with the digit 0, which ends the escape sequence.
THEOREM ScreenIsRight ==
  ASSUME PlainOutputs PROVE Spec /\ []ShortLine => []ScreenShowsLine
BY ScreenInvHolds, ScreenInvSays, PTL
=============================================================================
