--------------------------- MODULE Screen_proofs ---------------------------
(***************************************************************************)
(* Proofs about Screen, for any size of the screen, any number of          *)
(* terminals and any width of a tab: the types, the cursor, the pages of   *)
(* vidmap, and that Screen implements Texts.                               *)
(*                                                                         *)
(* The invariant keeps positions on the text until a backspace is printed  *)
(* at its beginning.  For the refinement each character is shown to reach  *)
(* the cell that Texts says it does, counted as if the text never moved    *)
(* up (Reaches), and the text to move up as often as that cell asks for    *)
(* (Up); a tab is followed one blank at a time (SpreadTo).                 *)
(***************************************************************************)
EXTENDS Screen, TLAPS, WellFoundedInduction

Ink == Glyph \cup {" "}

(* A position on a text; rows below 0 are where backspaces at the top      *)
(* lead.                                                                   *)
Row    == {y \in Int : y < NUM_ROWS}
Places == [cells : [Cell -> Ink], x : 0 .. NUM_COLS - 1, y : Row]

(* The places on the text itself.                                          *)
Inside == {p \in Places : p.y >= 0}

-----------------------------------------------------------------------------
LEMMA MinExists ==
    ASSUME NEW S, S \subseteq Nat, S # {}
    PROVE  \E m \in S : \A k \in S : m <= k
  <1> DEFINE R == {ss \in Nat \X Nat : ss[1] < ss[2]}
  <1>1. IsWellFoundedOn(R, Nat)
    BY NatLessThanWellFounded DEF OpToRel
  <1>2. PICK m \in S : \A k \in S : ~ (<<k, m>> \in R)
    <2> HIDE DEF R
    <2> QED BY <1>1, WFMin
  <1>3. ASSUME NEW k \in S PROVE m <= k
    <2>1. k \in Nat /\ m \in Nat
      OBVIOUS
    <2>2. <<k, m>> \in Nat \X Nat /\ ~ (<<k, m>> \in R)
      BY <1>2, <2>1
    <2>3. ~ (k < m)
      BY <2>2
    <2> QED BY <2>1, <2>3
  <1> QED BY <1>3

(* A set with 0 and with every successor has all the numbers up to n.      *)
LEMMA UpTo ==
    ASSUME NEW n \in Nat, NEW S, 0 \in S,
           \A i \in 1 .. n : i - 1 \in S => i \in S
    PROVE  0 .. n \subseteq S
  <1> SUFFICES ASSUME (0 .. n) \ S # {} PROVE FALSE
    OBVIOUS
  <1>1. PICK m \in (0 .. n) \ S : \A k \in (0 .. n) \ S : m <= k
    <2>1. (0 .. n) \ S \subseteq Nat
      OBVIOUS
    <2> QED BY <2>1, MinExists
  <1>2. m \in 1 .. n /\ m - 1 \in 0 .. n /\ ~ (m <= m - 1)
    BY <1>1
  <1>3. m - 1 \in S
    BY <1>1, <1>2
  <1> QED BY <1>1, <1>2, <1>3

(* The blanks of a tab, one after the other.                               *)
Blanks(p, n, f) ==
    f = [i \in 0 .. n |-> IF i = 0 THEN p ELSE Glyphed(f[i - 1], " ")]

LEMMA BlanksExist == \A p : \E f : Blanks(p, TAB, f)
  <1> SUFFICES ASSUME NEW p PROVE \E f : Blanks(p, TAB, f)
    OBVIOUS
  <1> DEFINE S == {n \in 0 .. TAB : \E f : Blanks(p, n, f)}
  <1>1. 0 \in S
    <2> DEFINE f == [i \in 0 .. 0 |-> p]
    <2>1. f = [i \in 0 .. 0 |-> IF i = 0 THEN p ELSE Glyphed(f[i - 1], " ")]
      OBVIOUS
    <2> HIDE DEF f
    <2>2. Blanks(p, 0, f)
      BY <2>1 DEF Blanks
    <2> QED BY <2>2, ScreenAssumption
  <1>2. ASSUME NEW n \in 1 .. TAB, n - 1 \in S
        PROVE  n \in S
    <2>1. PICK f : Blanks(p, n - 1, f)
      BY <1>2
    <2> DEFINE g == [i \in 0 .. n |->
                        IF i = n THEN Glyphed(f[n - 1], " ") ELSE f[i]]
    <2>2. ASSUME NEW i \in 0 .. n
          PROVE  g[i] = IF i = 0 THEN p ELSE Glyphed(g[i - 1], " ")
      <3>1. CASE i = n
        <4>1. n - 1 \in 0 .. n /\ n - 1 # n
          BY ScreenAssumption
        <4>2. g[i - 1] = f[i - 1]
          BY <3>1, <4>1
        <4>3. i # 0
          BY <3>1
        <4> QED BY <3>1, <4>2, <4>3
      <3>2. CASE i # n
        <4>1. i \in 0 .. n - 1
          BY <3>2
        <4>2. f[i] = IF i = 0 THEN p ELSE Glyphed(f[i - 1], " ")
          BY <2>1, <4>1 DEF Blanks
        <4>3. i # 0 => i - 1 \in 0 .. n /\ i - 1 # n
          BY <4>1
        <4>4. g[i] = f[i] /\ (i # 0 => g[i - 1] = f[i - 1])
          BY <3>2, <4>3
        <4> QED BY <4>2, <4>4
      <3> QED BY <3>1, <3>2
    <2>3. g = [i \in 0 .. n |-> g[i]]
      OBVIOUS
    <2> HIDE DEF g
    <2>4. g = [i \in 0 .. n |-> IF i = 0 THEN p ELSE Glyphed(g[i - 1], " ")]
      BY <2>2, <2>3
    <2>5. Blanks(p, n, g)
      BY <2>4 DEF Blanks
    <2> QED BY <2>5, ScreenAssumption
  <1> HIDE DEF S
  <1>3. 0 .. TAB \subseteq S
    BY <1>1, <1>2, UpTo, ScreenAssumption
  <1> QED BY <1>3, ScreenAssumption DEF S

(* A tab is the last of a sequence of places, each a blank further.        *)
LEMMA TabbedSteps ==
    ASSUME NEW p
    PROVE  \E f : /\ f[0] = p
                  /\ \A i \in 1 .. TAB : f[i] = Glyphed(f[i - 1], " ")
                  /\ Tabbed(p) = f[TAB]
  <1> DEFINE after == CHOOSE f : Blanks(p, TAB, f)
  <1>1. Blanks(p, TAB, after)
    BY BlanksExist
  <1>2. Tabbed(p) = after[TAB]
    BY DEF Tabbed, Blanks
  <1> HIDE DEF after
  <1>3. ASSUME NEW i \in 0 .. TAB
        PROVE  after[i] = IF i = 0 THEN p ELSE Glyphed(after[i - 1], " ")
    BY <1>1 DEF Blanks
  <1>4. after[0] = p
    <2>1. 0 \in 0 .. TAB
      BY ScreenAssumption
    <2> QED BY <1>3, <2>1, Zenon
  <1>5. ASSUME NEW i \in 1 .. TAB
        PROVE  after[i] = Glyphed(after[i - 1], " ")
    <2>1. i \in 0 .. TAB /\ i # 0
      OBVIOUS
    <2> QED BY <1>3, <2>1, Zenon
  <1> QED BY <1>2, <1>4, <1>5, Zenon

-----------------------------------------------------------------------------
LEMMA PlaceType ==
    ASSUME NEW cells \in [Cell -> Ink], NEW x \in 0 .. NUM_COLS - 1, NEW y \in Row
    PROVE  /\ Place(cells, x, y) \in Places
           /\ y >= 0 => Place(cells, x, y) \in Inside
  BY DEF Place, Places, Inside

LEMMA ScrollType ==
    ASSUME NEW cells \in [Cell -> Ink]
    PROVE  scroll(cells) \in [Cell -> Ink]
  BY DEF scroll, Ink

LEMMA NewLineType ==
    ASSUME NEW p \in Places
    PROVE  /\ NewLine(p) \in Places
           /\ p \in Inside => NewLine(p) \in Inside
  BY ScrollType, ScreenAssumption DEF Places, Inside, Row, NewLine, Place

LEMMA GlyphedType ==
    ASSUME NEW p \in Places, NEW c \in Ink
    PROVE  /\ Glyphed(p, c) \in Places
           /\ p \in Inside => Glyphed(p, c) \in Inside
  <1> DEFINE cells == [p.cells EXCEPT ![NUM_COLS * p.y + p.x] = c]
  <1>1. cells \in [Cell -> Ink] /\ p.x \in 0 .. NUM_COLS - 1 /\ p.y \in Row
    BY DEF Places
  <1> HIDE DEF cells
  <1>2. /\ Place(cells, p.x, p.y) \in Places
        /\ p.x < NUM_COLS - 1 =>
             /\ Place(cells, p.x + 1, p.y) \in Places
             /\ p \in Inside => Place(cells, p.x + 1, p.y) \in Inside
    BY <1>1, ScreenAssumption DEF Place, Places, Inside
  <1>4. p \in Inside => Place(cells, p.x, p.y) \in Inside
    BY <1>1 DEF Place, Places, Inside
  <1>3. Glyphed(p, c) = IF p.x < NUM_COLS - 1 THEN Place(cells, p.x + 1, p.y)
                        ELSE NewLine(Place(cells, p.x, p.y))
    BY DEF Glyphed, cells
  <1> QED BY <1>2, <1>4, <1>3, NewLineType

LEMMA TabbedType ==
    ASSUME NEW p \in Places
    PROVE  /\ Tabbed(p) \in Places
           /\ p \in Inside => Tabbed(p) \in Inside
  <1>1. PICK f : /\ f[0] = p
                 /\ \A i \in 1 .. TAB : f[i] = Glyphed(f[i - 1], " ")
                 /\ Tabbed(p) = f[TAB]
    BY TabbedSteps
  <1> DEFINE S == {i \in 0 .. TAB : /\ f[i] \in Places
                                    /\ p \in Inside => f[i] \in Inside}
  <1>2. 0 \in S
    <2>1. 0 \in 0 .. TAB
      BY ScreenAssumption
    <2>2. f[0] = p
      BY <1>1, Zenon
    <2> QED BY <2>1, <2>2
  <1>3. ASSUME NEW i \in 1 .. TAB, i - 1 \in S
        PROVE  i \in S
    <2>1. f[i] = Glyphed(f[i - 1], " ")
      BY <1>1, Zenon
    <2>2. f[i - 1] \in Places /\ (p \in Inside => f[i - 1] \in Inside)
      BY <1>3
    <2>3. f[i] \in Places /\ (p \in Inside => f[i] \in Inside)
      BY <2>1, <2>2, GlyphedType DEF Ink
    <2>4. i \in 0 .. TAB
      OBVIOUS
    <2> QED BY <2>3, <2>4
  <1> HIDE DEF S
  <1>4. 0 .. TAB \subseteq S
    BY <1>2, <1>3, UpTo, ScreenAssumption
  <1>5. TAB \in S
    BY <1>4, ScreenAssumption
  <1> QED BY <1>1, <1>5 DEF S

LEMMA PrintedType ==
    ASSUME NEW p \in Places, NEW c \in Char, c # "bs"
    PROVE  /\ Printed(p, c) \in Places
           /\ p \in Inside => Printed(p, c) \in Inside
  <1>1. c = "nl" => Printed(p, c) = NewLine(p)
    BY DEF Printed
  <1>2. c = "tab" => Printed(p, c) = Tabbed(p)
    BY DEF Printed
  <1>3. c \notin {"nl", "tab"} => Printed(p, c) = Glyphed(p, c) /\ c \in Ink
    BY DEF Printed, Char, Ink
  <1> QED BY <1>1, <1>2, <1>3, NewLineType, TabbedType, GlyphedType

LEMMA BeforeType ==
    ASSUME NEW p \in Places
    PROVE  /\ Before(p) \in Places
           /\ Before(p).cells = p.cells
           /\ p \in Inside /\ ~(p.x = 0 /\ p.y = 0) => Before(p) \in Inside
  BY ScreenAssumption DEF Places, Inside, Row, Before, Place

LEMMA EraseType ==
    ASSUME NEW cells \in [Cell -> Ink], NEW i \in Int
    PROVE  Erase(cells, i) \in [Cell -> Ink]
  BY DEF Erase, Ink

LEMMA CellOfType ==
    ASSUME NEW p \in Places
    PROVE  CellOf(p) \in Int /\ CellOf(p) = NUM_COLS * p.y + p.x
  BY ScreenAssumption DEF CellOf, Places, Row

-----------------------------------------------------------------------------
(* What every text has, and the position of every terminal.                *)
TextsOK ==
    /\ screen \in [Cell -> Ink]
    /\ terminal_vid_mem \in [Terminal -> [Cell -> Ink]]
    /\ screen_x \in [Terminal -> 0 .. NUM_COLS - 1]
    /\ screen_y \in [Terminal -> Row]
    /\ cursor \in Int
    /\ astray \in BOOLEAN

InText == \A t \in Terminal : screen_y[t] >= 0

TurnsOK ==
    /\ curr_terminal_visible \in active
    /\ curr_terminal_executing \in active
    /\ active \subseteq Terminal

LEMMA MoveToType ==
    ASSUME TextsOK, NEW t \in Terminal, NEW p \in Places, MoveTo(t, p)
    PROVE  /\ screen_x' \in [Terminal -> 0 .. NUM_COLS - 1]
           /\ screen_y' \in [Terminal -> Row]
           /\ screen_x'[t] = p.x /\ screen_y'[t] = p.y
           /\ \A s \in Terminal \ {t} : /\ screen_x'[s] = screen_x[s]
                                       /\ screen_y'[s] = screen_y[s]
           /\ InText /\ p \in Inside => InText'
  <1>1. p.x \in 0 .. NUM_COLS - 1 /\ p.y \in Row /\ (p \in Inside => p.y >= 0)
    BY DEF Places, Inside
  <1>2. /\ screen_x' = [screen_x EXCEPT ![t] = p.x]
        /\ screen_y' = [screen_y EXCEPT ![t] = p.y]
    BY DEF MoveTo
  <1>3. /\ screen_x' \in [Terminal -> 0 .. NUM_COLS - 1]
        /\ screen_y' \in [Terminal -> Row]
        /\ screen_x'[t] = p.x /\ screen_y'[t] = p.y
        /\ \A s \in Terminal \ {t} : /\ screen_x'[s] = screen_x[s]
                                    /\ screen_y'[s] = screen_y[s]
    BY <1>1, <1>2 DEF TextsOK
  <1> QED BY <1>1, <1>3 DEF InText

(* A character on the screen keeps the texts' types, and without a tab's   *)
(* offset leaves the cursor at the position of the visible terminal.       *)
LEMMA PutAheadKeeps ==
    ASSUME TextsOK, TurnsOK, NEW c \in Char, NEW ahead \in Nat,
           PutAhead(c, ahead)
    PROVE  /\ TextsOK'
           /\ InText /\ ~(c = "bs" /\ AtTop(curr_terminal_visible)) => InText'
           /\ astray' = (ahead > 0)
           /\ ahead = 0 =>
                cursor' = NUM_COLS * screen_y'[curr_terminal_visible]
                            + screen_x'[curr_terminal_visible]
  <1> DEFINE v == curr_terminal_visible
             here == Place(screen, screen_x[v], screen_y[v])
             back == Before(here)
             next == IF c = "bs"
                     THEN Place(Erase(screen, CellOf(back)), back.x, back.y)
                     ELSE Printed(here, c)
  <1>1. /\ screen' = next.cells
        /\ MoveTo(v, next)
        /\ cursor' = CellOf(next) + ahead
        /\ astray' = (ahead > 0)
        /\ UNCHANGED terminal_vid_mem
    BY DEF PutAhead
  <1>2. v \in Terminal
    BY DEF TurnsOK
  <1>3. /\ here \in Places
        /\ here.x = screen_x[v] /\ here.y = screen_y[v]
        /\ InText => here \in Inside
    BY <1>2 DEF TextsOK, InText, Place, Places, Inside
  <1> HIDE DEF here
  <1>4. ASSUME c = "bs"
        PROVE  /\ next \in Places
               /\ InText /\ ~(c = "bs" /\ AtTop(v)) => next \in Inside
    <2>1. back \in Places /\ CellOf(back) \in Int
      BY <1>3, BeforeType, CellOfType
    <2>2. InText /\ ~AtTop(v) => back \in Inside
      BY <1>3, BeforeType DEF AtTop
    <2> HIDE DEF back
    <2>3. Erase(screen, CellOf(back)) \in [Cell -> Ink]
      BY <2>1, EraseType DEF TextsOK
    <2>4. next = Place(Erase(screen, CellOf(back)), back.x, back.y)
      BY <1>4
    <2>5. /\ next \in Places
          /\ back \in Inside => next \in Inside
      <3>1. back.x \in 0 .. NUM_COLS - 1 /\ back.y \in Row
            /\ (back \in Inside => back.y >= 0)
        BY <2>1 DEF Places, Inside
      <3> HIDE DEF next
      <3> QED BY <2>3, <2>4, <3>1, PlaceType
    <2> HIDE DEF next
    <2> QED BY <1>4, <2>2, <2>5
  <1>5. ASSUME c # "bs"
        PROVE  /\ next \in Places
               /\ InText /\ ~(c = "bs" /\ AtTop(v)) => next \in Inside
    <2>1. next = Printed(here, c)
      BY <1>5
    <2> HIDE DEF next
    <2> QED BY <1>3, <1>5, <2>1, PrintedType
  <1>6. /\ next \in Places
        /\ InText /\ ~(c = "bs" /\ AtTop(v)) => next \in Inside
    BY <1>4, <1>5
  <1> HIDE DEF next
  <1>7. /\ screen_x' \in [Terminal -> 0 .. NUM_COLS - 1]
        /\ screen_y' \in [Terminal -> Row]
        /\ screen_x'[v] = next.x /\ screen_y'[v] = next.y
        /\ InText /\ next \in Inside => InText'
    BY <1>1, <1>2, <1>6, MoveToType
  <1>8. CellOf(next) \in Int /\ CellOf(next) = NUM_COLS * next.y + next.x
    BY <1>6, CellOfType
  <1>9. cursor' \in Int /\ (ahead = 0 => cursor' = CellOf(next))
    BY <1>1, <1>8
  <1>10. screen' \in [Cell -> Ink]
    BY <1>1, <1>6 DEF Places
  <1>11. TextsOK'
    BY <1>1, <1>7, <1>9, <1>10 DEF TextsOK
  <1> QED BY <1>1, <1>6, <1>7, <1>8, <1>9, <1>11

(* The same of a character on the page of the executing terminal, which    *)
(* leaves the cursor and the position of any other terminal alone.         *)
LEMMA k_putcKeeps ==
    ASSUME TextsOK, TurnsOK, NEW c \in Char, k_putc(c)
    PROVE  /\ TextsOK'
           /\ InText /\ ~(c = "bs" /\ AtTop(curr_terminal_executing)) => InText'
           /\ UNCHANGED <<cursor, astray>>
           /\ \A t \in Terminal \ {curr_terminal_executing} :
                  screen_x'[t] = screen_x[t] /\ screen_y'[t] = screen_y[t]
  <1> DEFINE e == curr_terminal_executing
             here == Place(terminal_vid_mem[e], screen_x[e], screen_y[e])
             next == IF c = "bs" THEN Before(here) ELSE Printed(here, c)
  <1>1. /\ screen' = IF c = "bs" THEN Erase(screen, CellOf(next)) ELSE screen
        /\ terminal_vid_mem' = [terminal_vid_mem EXCEPT ![e] = next.cells]
        /\ MoveTo(e, next)
        /\ UNCHANGED <<cursor, astray>>
    BY DEF k_putc
  <1>2. e \in Terminal
    BY DEF TurnsOK
  <1>3. /\ here \in Places
        /\ here.x = screen_x[e] /\ here.y = screen_y[e]
        /\ InText => here \in Inside
    BY <1>2 DEF TextsOK, InText, Place, Places, Inside
  <1> HIDE DEF here
  <1>4. /\ next \in Places
        /\ InText /\ ~(c = "bs" /\ AtTop(e)) => next \in Inside
    BY <1>3, BeforeType, PrintedType DEF AtTop
  <1> HIDE DEF next
  <1>5. /\ screen_x' \in [Terminal -> 0 .. NUM_COLS - 1]
        /\ screen_y' \in [Terminal -> Row]
        /\ InText /\ next \in Inside => InText'
        /\ \A t \in Terminal \ {e} :
               screen_x'[t] = screen_x[t] /\ screen_y'[t] = screen_y[t]
    BY <1>1, <1>2, <1>4, MoveToType
  <1>6. screen' \in [Cell -> Ink]
    BY <1>1, <1>4, EraseType, CellOfType DEF TextsOK
  <1>7. next.cells \in [Cell -> Ink]
    BY <1>4 DEF Places
  <1>8. terminal_vid_mem' \in [Terminal -> [Cell -> Ink]]
    BY <1>1, <1>7 DEF TextsOK
  <1>9. TextsOK'
    BY <1>1, <1>5, <1>6, <1>8 DEF TextsOK
  <1> QED BY <1>1, <1>4, <1>5, <1>9

-----------------------------------------------------------------------------
(* The inductive invariant, in parts that different actions disturb.       *)
InTextOK == "top" \notin hazards => InText

VideoOK ==
    /\ page_table_video \in [Terminal -> Entry]
    /\ using \subseteq Terminal
    /\ PageOfProgram

FlagsOK ==
    /\ jammer \in BOOLEAN /\ hotjam \in BOOLEAN
    /\ hazards \subseteq {"top", "clear", "erase", "printf", "vidmap", "draw"}

IInv == TextsOK /\ TurnsOK /\ InTextOK /\ VideoOK /\ FlagsOK

LEMMA InitInv == Init => IInv /\ CursorFollows
  <1> SUFFICES ASSUME Init PROVE IInv /\ CursorFollows
    OBVIOUS
  <1> USE ScreenAssumption
  <1>1. TurnsOK /\ CursorFollows
    BY DEF Init, InitWith, TurnsOK, CursorFollows, Terminal
  <1>2. Blank \in [Cell -> Ink] /\ 0 \in Row /\ NUM_COLS + 1 \in Int
    BY DEF Blank, Ink, Row
  <1>3. TextsOK /\ InTextOK
    BY <1>2 DEF Init, InitWith, TextsOK, InTextOK, InText
  <1>4. VideoOK /\ FlagsOK
    BY DEF Init, InitWith, VideoOK, FlagsOK, PageOfProgram, Entry
  <1> QED BY <1>1, <1>3, <1>4 DEF IInv

(* One case per action that writes on a text or moves the cursor.          *)
LEMMA StepTexts ==
    ASSUME IInv, [Next]_vars
    PROVE  TextsOK' /\ InTextOK' /\ (CursorFollows => CursorFollows')
  <1> USE ScreenAssumption DEF IInv
  <1>1. ASSUME NEW c \in Char, NEW h, PutAhead(c, 0), UNCHANGED turns,
               hazards' = hazards \cup h,
               c = "bs" /\ AtTop(curr_terminal_visible) => "top" \in h
        PROVE  TextsOK' /\ InTextOK' /\ CursorFollows'
    <2>1. /\ TextsOK'
          /\ InText /\ ~(c = "bs" /\ AtTop(curr_terminal_visible)) => InText'
          /\ cursor' = NUM_COLS * screen_y'[curr_terminal_visible]
                         + screen_x'[curr_terminal_visible]
      BY <1>1, PutAheadKeeps
    <2>2. curr_terminal_visible' = curr_terminal_visible
      BY <1>1 DEF turns
    <2> QED BY <1>1, <2>1, <2>2 DEF InTextOK, CursorFollows
  <1>2. ASSUME NEW c \in Char \ {"tab"}, KeyEcho(c)
        PROVE  TextsOK' /\ InTextOK' /\ CursorFollows'
    BY <1>1, <1>2 DEF KeyEcho, putc, Cause
  <1>3. CASE TabEcho
    <2>1. PutAhead("tab", TAB) /\ UNCHANGED hazards
      BY <1>3 DEF TabEcho
    <2>2. "tab" \in Char /\ TAB \in Nat /\ TAB > 0
      BY DEF Char
    <2>3. TextsOK' /\ (InText => InText') /\ astray' = (TAB > 0)
      BY <2>1, <2>2, PutAheadKeeps
    <2> QED BY <2>1, <2>2, <2>3 DEF InTextOK, CursorFollows
  <1>4. CASE CtrlL
    <2> DEFINE p == Place(Blank, 0, 0)
    <2>1. /\ screen' = Blank /\ UNCHANGED terminal_vid_mem
          /\ MoveTo(curr_terminal_executing, [x |-> 0, y |-> 0])
          /\ cursor' = NUM_COLS /\ astray'= TRUE
          /\ hazards \subseteq hazards'
      BY <1>4 DEF CtrlL
    <2>2. p \in Inside /\ MoveTo(curr_terminal_executing, p)
      <3>1. Blank \in [Cell -> Ink] /\ 0 \in Row /\ 0 \in 0 .. NUM_COLS - 1
        BY DEF Blank, Ink, Row
      <3>2. p = [cells |-> Blank, x |-> 0, y |-> 0]
        BY DEF Place
      <3> HIDE DEF p
      <3> QED BY <2>1, <3>1, <3>2 DEF Places, Inside, MoveTo
    <2> HIDE DEF p
    <2>3. /\ screen_x' \in [Terminal -> 0 .. NUM_COLS - 1]
          /\ screen_y' \in [Terminal -> Row]
          /\ InText => InText'
      BY <2>2, MoveToType DEF Inside, TurnsOK
    <2>4. TextsOK'
      <3>1. Blank \in [Cell -> Ink] /\ NUM_COLS \in Int
        BY DEF Blank, Ink
      <3> QED BY <2>1, <2>3, <3>1 DEF TextsOK
    <2> QED BY <2>1, <2>3, <2>4 DEF InTextOK, CursorFollows
  <1>5. ASSUME NEW c \in Char, write_terminal(c)
        PROVE  TextsOK' /\ InTextOK' /\ (CursorFollows => CursorFollows')
    <2>1. CASE jammer \/ hotjam
      BY <1>5, <2>1 DEF write_terminal, texts, turns, TextsOK, InTextOK, InText,
                       CursorFollows
    <2>2. CASE ~(jammer \/ hotjam) /\ ~Background
      <3>1. PutAhead(c, 0) /\ UNCHANGED turns
        BY <1>5, <2>2 DEF write_terminal, putc
      <3>2. PICK h : /\ hazards' = hazards \cup h
                     /\ c = "bs" /\ AtTop(curr_terminal_executing) => "top" \in h
        BY <1>5, <2>2 DEF write_terminal, Cause
      <3> QED BY <1>1, <2>2, <3>1, <3>2 DEF Background
    <2>3. CASE ~(jammer \/ hotjam) /\ Background
      <3>1. /\ k_putc(c)
            /\ curr_terminal_visible' = curr_terminal_visible
            /\ hazards \subseteq hazards'
            /\ c = "bs" /\ AtTop(curr_terminal_executing) => "top" \in hazards'
        BY <1>5, <2>3 DEF write_terminal, turns, Cause
      <3>2. /\ TextsOK'
            /\ InText /\ ~(c = "bs" /\ AtTop(curr_terminal_executing)) => InText'
            /\ UNCHANGED <<cursor, astray>>
            /\ \A t \in Terminal \ {curr_terminal_executing} :
                   screen_x'[t] = screen_x[t] /\ screen_y'[t] = screen_y[t]
        BY <3>1, k_putcKeeps
      <3>3. curr_terminal_visible \in Terminal \ {curr_terminal_executing}
        BY <2>3 DEF Background, TurnsOK
      <3> QED BY <3>1, <3>2, <3>3 DEF InTextOK, CursorFollows
    <2> QED BY <2>1, <2>2, <2>3
  <1>6. ASSUME NEW c \in Glyph \cup {"nl"}, printf(c)
        PROVE  TextsOK' /\ InTextOK' /\ CursorFollows'
    <2>1. c \in Char /\ c # "bs"
      BY DEF Char
    <2> QED BY <1>1, <1>6, <2>1 DEF printf, putc
  <1>7. ASSUME NEW t \in Terminal, switch_terminal(t)
        PROVE  TextsOK' /\ InTextOK' /\ CursorFollows'
    <2>1. /\ curr_terminal_visible' = t
          /\ terminal_vid_mem' =
                [terminal_vid_mem EXCEPT ![curr_terminal_visible] = screen]
          /\ screen' = terminal_vid_mem[t]
          /\ cursor' = NUM_COLS * screen_y[t] + screen_x[t]
          /\ astray' = FALSE
          /\ UNCHANGED <<screen_x, screen_y, hazards>>
      BY <1>7 DEF switch_terminal
    <2>2. screen_x[t] \in Int /\ screen_y[t] \in Int
      BY DEF TextsOK, Row
    <2>3. cursor' \in Int
      BY <2>1, <2>2
    <2>4. TextsOK'
      BY <2>1, <2>3 DEF TextsOK
    <2> QED BY <2>1, <2>4 DEF InTextOK, InText, CursorFollows
  <1>8. ASSUME NEW c \in Cell, NEW g \in Glyph, Draw(c, g)
        PROVE  TextsOK' /\ InTextOK' /\ (CursorFollows => CursorFollows')
    <2>1. /\ screen' = screen \/ screen' = [screen EXCEPT ![c] = g]
          /\ UNCHANGED <<terminal_vid_mem, screen_x, screen_y, cursor, turns, astray>>
          /\ hazards \subseteq hazards'
      BY <1>8 DEF Draw
    <2>2. screen' \in [Cell -> Ink]
      BY <2>1 DEF TextsOK, Ink
    <2> QED BY <2>1, <2>2 DEF TextsOK, turns, InTextOK, InText, CursorFollows
  <1>9. CASE \/ LineRead
             \/ \E t \in Terminal : Tick(t)
             \/ vidmap
             \/ \E base \in BOOLEAN : halt(base)
             \/ UNCHANGED vars
    <2>1. /\ UNCHANGED <<texts, cursor, astray, curr_terminal_visible>>
          /\ hazards \subseteq hazards'
      BY <1>9 DEF LineRead, Tick, vidmap, halt, vars, turns
    <2> QED BY <2>1 DEF texts, TextsOK, InTextOK, InText, CursorFollows
  <1> QED BY <1>2, <1>3, <1>4, <1>5, <1>6, <1>7, <1>8, <1>9 DEF Next

LEMMA StepTurns ==
    ASSUME TurnsOK, [Next]_vars
    PROVE  TurnsOK'
  <1>1. ASSUME NEW t \in Terminal, switch_terminal(t)
        PROVE  TurnsOK'
    BY <1>1 DEF switch_terminal, TurnsOK
  <1>2. ASSUME NEW t \in Terminal, Tick(t)
        PROVE  TurnsOK'
    BY <1>2 DEF Tick, TurnsOK
  <1>3. ASSUME UNCHANGED turns
        PROVE  TurnsOK'
    BY <1>3 DEF turns, TurnsOK
  <1> QED BY <1>1, <1>2, <1>3
          DEF Next, KeyEcho, TabEcho, CtrlL, write_terminal, printf, LineRead,
              vidmap, Draw, halt, vars

LEMMA StepVideo ==
    ASSUME VideoOK, FlagsOK, TurnsOK, [Next]_vars
    PROVE  VideoOK' /\ FlagsOK'
  <1>1. CASE vidmap
    <2>1. page_table_video' \in [Terminal -> Entry]
      BY <1>1 DEF vidmap, VideoOK, Entry
    <2>2. using' \subseteq Terminal /\ FlagsOK'
      BY <1>1 DEF vidmap, VideoOK, TurnsOK, FlagsOK, Cause, locks
    <2>3. PageOfProgram'
      <3> SUFFICES ASSUME hazards' = {}, NEW t \in Terminal
                   PROVE  IF t \in using'
                          THEN page_table_video'[t] = [P |-> TRUE, PBA |-> "0xB8"]
                          ELSE ~page_table_video'[t].P
        BY DEF PageOfProgram
      <3>1. /\ hazards = {} /\ curr_terminal_executing = curr_terminal_visible
            /\ page_table_video'[t] =
                 [P   |-> page_table_video[t].P \/ t = curr_terminal_executing,
                  PBA |-> IF t = curr_terminal_visible THEN "0xB8"
                          ELSE page_table_video[t].PBA]
            /\ using' = using \cup {curr_terminal_executing}
        BY <1>1 DEF vidmap, Cause
      <3>2. page_table_video[t] \in Entry
        BY DEF VideoOK
      <3> QED BY <3>1, <3>2 DEF VideoOK, PageOfProgram, Entry
    <2> QED BY <2>1, <2>2, <2>3 DEF VideoOK
  <1>2. ASSUME NEW base \in BOOLEAN, halt(base)
        PROVE  VideoOK' /\ FlagsOK'
    <2>1. /\ page_table_video' =
               [page_table_video EXCEPT ![curr_terminal_executing].P = FALSE]
          /\ using' = using \ {curr_terminal_executing}
          /\ UNCHANGED <<jammer, hazards>>
          /\ hotjam' = (hotjam \/ base)
      BY <1>2 DEF halt
    <2>2. FlagsOK'
      BY <2>1 DEF FlagsOK
    <2>3. page_table_video' \in [Terminal -> Entry]
      BY <2>1 DEF VideoOK, Entry
    <2>4. PageOfProgram'
      BY <2>1, <2>3 DEF VideoOK, PageOfProgram, TurnsOK, Entry
    <2> QED BY <2>1, <2>2, <2>3, <2>4 DEF VideoOK
  <1>3. ASSUME UNCHANGED video, hazards \subseteq hazards'
        PROVE  VideoOK'
    BY <1>3 DEF video, VideoOK, PageOfProgram
  <1>4. CASE Next /\ ~vidmap /\ ~(\E base \in BOOLEAN : halt(base))
    <2>1. UNCHANGED video /\ hazards \subseteq hazards' /\ FlagsOK'
      BY <1>4 DEF Next, KeyEcho, TabEcho, CtrlL, write_terminal, printf,
                  LineRead, switch_terminal, Tick, Draw, locks, FlagsOK, Cause
    <2> QED BY <1>3, <2>1
  <1>5. CASE UNCHANGED vars
    BY <1>3, <1>5 DEF vars, locks, FlagsOK
  <1> QED BY <1>1, <1>2, <1>4, <1>5

LEMMA StepInv == IInv /\ [Next]_vars => IInv'
  BY StepTexts, StepTurns, StepVideo DEF IInv

(* The invariant, and with it the type of the screen's state.              *)
THEOREM Invariance == Spec => []IInv
  <1> QED BY InitInv, StepInv, PTL DEF Spec

(* TypeOK: positions stay in the text unless a backspace was printed at    *)
(* its beginning (lib.c:327).                                              *)
THEOREM TypeCorrect == Spec => []TypeOK
  <1>1. IInv => TypeOK
    <2> SUFFICES ASSUME IInv PROVE TypeOK
      OBVIOUS
    <2>1. "top" \notin hazards => screen_y \in [Terminal -> 0 .. NUM_ROWS - 1]
      BY ScreenAssumption DEF IInv, TextsOK, InTextOK, InText, Row
    <2> QED BY <2>1 DEF IInv, TextsOK, TurnsOK, VideoOK, FlagsOK, TypeOK, Ink, Row
  <1> QED BY <1>1, Invariance, PTL

(* CursorFollows: the cursor is where the next character of the visible    *)
(* terminal appears (keyboard.c:89-110).                                   *)
THEOREM CursorFollowsAlways == Spec => []CursorFollows
  <1>1. IInv /\ CursorFollows /\ [Next]_vars => (IInv /\ CursorFollows)'
    BY StepInv, StepTexts
  <1> QED BY InitInv, <1>1, PTL DEF Spec

(* PageOfProgram: exactly the programs that have called vidmap have the    *)
(* screen mapped (system_call.c:45, 599-635).                              *)
THEOREM PagesMatch == Spec => []PageOfProgram
  <1>1. IInv => PageOfProgram
    BY DEF IInv, VideoOK
  <1> QED BY <1>1, Invariance, PTL

-----------------------------------------------------------------------------
(* Texts counts cells where Screen counts rows and columns.                *)
Size == NUM_ROWS * NUM_COLS

LEMMA SizeType == /\ Size \in Nat /\ Size >= 2 * NUM_COLS
                  /\ Cell = 0 .. Size - 1 /\ Display!Cell = Cell
                  /\ (NUM_ROWS - 1) * NUM_COLS = Size - NUM_COLS
                  /\ NUM_COLS * (NUM_ROWS - 1) = Size - NUM_COLS
  <1>1. /\ Size \in Nat /\ NUM_COLS * NUM_ROWS = Size
        /\ (NUM_ROWS - 1) * NUM_COLS = Size - NUM_COLS
        /\ NUM_COLS * (NUM_ROWS - 1) = Size - NUM_COLS
    BY ScreenAssumption DEF Size
  <1>2. Size >= 2 * NUM_COLS
    <2>1. \A r, c \in Nat : r >= 2 => r * c >= 2 * c
      OBVIOUS
    <2> QED BY <2>1, ScreenAssumption DEF Size
  <1> QED BY <1>1, <1>2 DEF Cell, Size, Display!Cell

(* The first cell of row y.                                                *)
LEMMA RowStart ==
    ASSUME NEW y \in 0 .. NUM_ROWS - 1
    PROVE  /\ NUM_COLS * y \in Nat
           /\ NUM_COLS * (y + 1) = NUM_COLS * y + NUM_COLS
           /\ y = NUM_ROWS - 1 => NUM_COLS * y = Size - NUM_COLS
           /\ y < NUM_ROWS - 1 => NUM_COLS * y <= Size - 2 * NUM_COLS
  <1>1. \A c, d \in Nat : c * d \in Nat
    OBVIOUS
  <1>2. NUM_COLS * y \in Nat
    BY <1>1, ScreenAssumption
  <1>3. NUM_COLS * (y + 1) = NUM_COLS * y + NUM_COLS
    BY ScreenAssumption
  <1>4. y < NUM_ROWS - 1 => NUM_COLS * y <= Size - 2 * NUM_COLS
    <2> SUFFICES ASSUME y < NUM_ROWS - 1 PROVE NUM_COLS * y <= Size - 2 * NUM_COLS
      OBVIOUS
    <2>1. NUM_ROWS - 2 - y \in Nat
      BY ScreenAssumption
    <2>2. NUM_COLS * (NUM_ROWS - 2 - y) \in Nat
      BY <1>1, <2>1, ScreenAssumption
    <2>3. \A a, b, c \in Int : c * (a - 2 - b) = a * c - 2 * c - c * b
      OBVIOUS
    <2>4. NUM_COLS * (NUM_ROWS - 2 - y) = Size - 2 * NUM_COLS - NUM_COLS * y
      BY <2>3, ScreenAssumption DEF Size
    <2> QED BY <1>2, <2>2, <2>4, SizeType, ScreenAssumption
  <1> QED BY <1>2, <1>3, <1>4, SizeType

(* Cell x of the row that starts with cell w, and the end of that row.     *)
LEMMA InRow ==
    ASSUME NEW size \in Nat, NEW cols \in Nat, cols >= 2, size >= 2 * cols,
           NEW w \in Nat, NEW x \in 0 .. cols - 1
    PROVE  /\ w <= size - 2 * cols => /\ w + x \in 0 .. size - 1
                                      /\ w + cols \in 0 .. size - 1
           /\ w = size - cols => w + x \in 0 .. size - 1 /\ w + cols = size
           /\ w <= size - cols /\ x < cols - 1 => w + x + 1 \in 0 .. size - 1
  OBVIOUS

(* The cell of a place, and that of the end of its line.                   *)
LEMMA InsideCell ==
    ASSUME NEW p \in Inside
    PROVE  /\ CellOf(p) = NUM_COLS * p.y + p.x
           /\ CellOf(p) \in Cell
           /\ p.y < NUM_ROWS - 1 => NUM_COLS * p.y + NUM_COLS \in Cell
           /\ p.y = NUM_ROWS - 1 => NUM_COLS * p.y + NUM_COLS = Size
  <1>1. p.x \in 0 .. NUM_COLS - 1 /\ p.y \in 0 .. NUM_ROWS - 1
    BY ScreenAssumption DEF Inside, Places, Row
  <1>2. CellOf(p) = NUM_COLS * p.y + p.x
    BY DEF CellOf
  <1>3. NUM_COLS * p.y \in Nat
    BY <1>1, RowStart
  <1>4. PICK w \in Nat, x \in 0 .. NUM_COLS - 1 : w = NUM_COLS * p.y /\ x = p.x
    BY <1>1, <1>3
  <1>5. /\ Size \in Nat /\ Size >= 2 * NUM_COLS /\ Cell = 0 .. Size - 1
        /\ NUM_COLS \in Nat /\ NUM_COLS >= 2
    BY SizeType, ScreenAssumption
  <1>6. CASE p.y < NUM_ROWS - 1
    <2>1. w <= Size - 2 * NUM_COLS
      BY <1>1, <1>4, <1>6, RowStart
    <2>2. w + x \in 0 .. Size - 1 /\ w + NUM_COLS \in 0 .. Size - 1
      BY <1>5, <2>1, InRow
    <2>3. CellOf(p) \in Cell /\ NUM_COLS * p.y + NUM_COLS \in Cell
      BY <1>2, <1>4, <1>5, <2>2, Zenon
    <2> QED BY <1>1, <1>2, <1>6, <2>3
  <1>7. CASE p.y = NUM_ROWS - 1
    <2>1. w = Size - NUM_COLS
      BY <1>1, <1>4, <1>7, RowStart
    <2>2. w + x \in 0 .. Size - 1 /\ w + NUM_COLS = Size
      BY <1>5, <2>1, InRow
    <2>3. CellOf(p) \in Cell /\ NUM_COLS * p.y + NUM_COLS = Size
      BY <1>2, <1>4, <1>5, <2>2, Zenon
    <2> QED BY <1>1, <1>2, <1>7, <2>3
  <1> QED BY <1>1, <1>6, <1>7, ScreenAssumption

(* A line feed goes to the first cell of the next line, or moves the text. *)
LEMMA NewLineFlat ==
    ASSUME NEW p \in Inside
    PROVE  LET q == NUM_COLS * p.y + NUM_COLS IN
           /\ q \in Cell => NewLine(p).cells = p.cells /\ CellOf(NewLine(p)) = q
           /\ q \notin Cell => /\ q = Size
                               /\ NewLine(p).cells = scroll(p.cells)
                               /\ CellOf(NewLine(p)) = Size - NUM_COLS
  <1>1. p.x \in 0 .. NUM_COLS - 1 /\ p.y \in 0 .. NUM_ROWS - 1
    BY ScreenAssumption DEF Inside, Places, Row
  <1>2. CASE p.y = NUM_ROWS - 1
    <2>1. NewLine(p) = [cells |-> scroll(p.cells), x |-> 0, y |-> p.y]
      BY <1>2 DEF NewLine, Place
    <2>2. CellOf(NewLine(p)) = Size - NUM_COLS
      BY <1>1, <1>2, <2>1, RowStart, SizeType, ScreenAssumption DEF CellOf
    <2> QED BY <1>1, <1>2, <2>1, <2>2, RowStart, SizeType, ScreenAssumption
  <1>3. CASE p.y # NUM_ROWS - 1
    <2>1. NewLine(p) = [cells |-> p.cells, x |-> 0, y |-> p.y + 1]
      BY <1>3 DEF NewLine, Place
    <2>2. CellOf(NewLine(p)) = NUM_COLS * p.y + NUM_COLS
      BY <1>1, <2>1, RowStart, ScreenAssumption DEF CellOf
    <2> QED BY <1>1, <1>3, <2>1, <2>2, InsideCell, ScreenAssumption
  <1> QED BY <1>2, <1>3

(* So does the character in the last cell.                                 *)
LEMMA GlyphedFlat ==
    ASSUME NEW p \in Inside, NEW c \in Ink
    PROVE  LET k     == CellOf(p)
               cells == [p.cells EXCEPT ![k] = c]
           IN  /\ k + 1 \in Cell => /\ Glyphed(p, c).cells = cells
                                    /\ CellOf(Glyphed(p, c)) = k + 1
               /\ k + 1 \notin Cell => /\ k + 1 = Size
                                       /\ Glyphed(p, c).cells = scroll(cells)
                                       /\ CellOf(Glyphed(p, c)) = Size - NUM_COLS
  <1> DEFINE k == CellOf(p)
             cells == [p.cells EXCEPT ![k] = c]
             here == Place(cells, p.x, p.y)
  <1>1. /\ p.x \in 0 .. NUM_COLS - 1 /\ p.y \in 0 .. NUM_ROWS - 1
        /\ k = NUM_COLS * p.y + p.x /\ k \in Cell /\ cells \in [Cell -> Ink]
        /\ NUM_COLS * p.y \in Nat
    BY InsideCell, RowStart, ScreenAssumption DEF Inside, Places, Row
  <1>2. Glyphed(p, c) = IF p.x < NUM_COLS - 1 THEN Place(cells, p.x + 1, p.y)
                        ELSE NewLine(here)
    BY DEF Glyphed, CellOf
  <1>3. /\ here \in Inside /\ here.cells = cells /\ here.y = p.y
        /\ Place(cells, p.x + 1, p.y) = [cells |-> cells, x |-> p.x + 1, y |-> p.y]
    BY <1>1, ScreenAssumption DEF Place, Places, Inside, Row
  <1> HIDE DEF k, cells, here
  <1>4. CASE p.x < NUM_COLS - 1
    <2>1. Glyphed(p, c).cells = cells /\ CellOf(Glyphed(p, c)) = k + 1
      BY <1>1, <1>2, <1>3, <1>4, ScreenAssumption DEF CellOf
    <2>2. p.y < NUM_ROWS - 1 => NUM_COLS * p.y <= Size - 2 * NUM_COLS
      BY <1>1, RowStart
    <2>3. p.y = NUM_ROWS - 1 => NUM_COLS * p.y = Size - NUM_COLS
      BY <1>1, RowStart
    <2>4. PICK w \in Nat, x \in 0 .. NUM_COLS - 1 :
             w = NUM_COLS * p.y /\ x = p.x /\ w + x = k /\ x < NUM_COLS - 1
      BY <1>1, <1>4
    <2>5. k + 1 \in 0 .. Size - 1
      <3>1. /\ Size \in Nat /\ Size >= 2 * NUM_COLS
            /\ NUM_COLS \in Nat /\ NUM_COLS >= 2
        BY SizeType, ScreenAssumption
      <3>2. w <= Size - NUM_COLS
        <4>1. w <= Size - 2 * NUM_COLS \/ w = Size - NUM_COLS
          BY <1>1, <2>2, <2>3, <2>4, ScreenAssumption
        <4> QED BY <3>1, <4>1
      <3>3. w + x + 1 \in 0 .. Size - 1
        BY <2>4, <3>1, <3>2, InRow
      <3> QED BY <2>4, <3>3
    <2>6. k + 1 \in Cell
      BY <2>5, SizeType
    <2> QED BY <2>1, <2>6 DEF k, cells
  <1>5. CASE ~(p.x < NUM_COLS - 1)
    <2>1. p.x = NUM_COLS - 1 /\ Glyphed(p, c) = NewLine(here)
      BY <1>1, <1>2, <1>5, ScreenAssumption
    <2>2. k + 1 = NUM_COLS * here.y + NUM_COLS
      BY <1>1, <1>3, <2>1, ScreenAssumption
    <2> QED BY <1>3, <2>1, <2>2, NewLineFlat DEF k, cells
  <1> QED BY <1>4, <1>5

(* Division by the width of the screen, for rows and columns of any size.  *)
LEMMA DivMod ==
    ASSUME NEW q \in Nat
    PROVE  \E d \in Nat, m \in 0 .. NUM_COLS - 1 :
              /\ q \div NUM_COLS = d /\ q % NUM_COLS = m
              /\ q = d * NUM_COLS + m
  <1>1. q \div NUM_COLS \in Nat
    BY ScreenAssumption
  <1>2. q % NUM_COLS \in 0 .. NUM_COLS - 1
    BY ScreenAssumption
  <1>3. q % NUM_COLS = q - NUM_COLS * (q \div NUM_COLS)
    BY ScreenAssumption
  <1>4. PICK d \in Nat : d = q \div NUM_COLS
    BY <1>1
  <1>5. PICK m \in 0 .. NUM_COLS - 1 : m = q % NUM_COLS
    BY <1>2
  <1>6. m = q - NUM_COLS * d
    BY <1>3, <1>4, <1>5, Zenon
  <1>7. q = d * NUM_COLS + m
    BY <1>6, ScreenAssumption
  <1> QED BY <1>4, <1>5, <1>7, Zenon

LEMMA DivIs ==
    ASSUME NEW q \in Nat, NEW d \in Nat, NEW m \in 0 .. NUM_COLS - 1,
           q = d * NUM_COLS + m
    PROVE  q \div NUM_COLS = d /\ q % NUM_COLS = m
  BY ScreenAssumption

(* How far a text moves up once cell q has been reached, as Texts has it.  *)
Up(q) == IF q \in Cell THEN 0
         ELSE ((q \div NUM_COLS) - NUM_ROWS + 1) * NUM_COLS

LEMMA UpBeyond ==
    ASSUME NEW d \in Nat, NEW m \in 0 .. NUM_COLS - 1,
           NEW q \in Nat, q = d * NUM_COLS + m, q \notin Cell
    PROVE  /\ Up(q) = d * NUM_COLS - Size + NUM_COLS
           /\ q - Up(q) = Size - NUM_COLS + m
           /\ Up(q) \in Nat /\ q - Up(q) \in Cell
  <1>1. d * NUM_COLS \in Nat
    <2>1. \A a, b \in Nat : a * b \in Nat
      OBVIOUS
    <2> QED BY <2>1, ScreenAssumption
  <1>2. q \div NUM_COLS = d
    BY DivIs
  <1>3. Up(q) = (d - NUM_ROWS + 1) * NUM_COLS
    BY <1>2 DEF Up
  <1>4. \A a, b, c \in Int : (a - b + 1) * c = a * c - b * c + c
    OBVIOUS
  <1>5. Up(q) = d * NUM_COLS - Size + NUM_COLS
    BY <1>3, <1>4, ScreenAssumption DEF Size
  <1>6. q >= Size
    BY SizeType
  <1>7. /\ q - Up(q) = Size - NUM_COLS + m
        /\ d * NUM_COLS > Size - NUM_COLS
        /\ Up(q) \in Nat
    BY <1>1, <1>5, <1>6, SizeType, ScreenAssumption
  <1>8. q - Up(q) \in 0 .. Size - 1
    BY <1>7, SizeType, ScreenAssumption
  <1>9. q - Up(q) \in Cell
    BY <1>8, SizeType
  <1> QED BY <1>5, <1>7, <1>9

LEMMA UpType ==
    ASSUME NEW q \in Nat
    PROVE  /\ Up(q) \in Nat
           /\ q - Up(q) \in Cell
  <1>1. CASE q \in Cell
    BY <1>1 DEF Up
  <1>2. CASE q \notin Cell
    <2>1. PICK d \in Nat, m \in 0 .. NUM_COLS - 1 : q = d * NUM_COLS + m
      BY DivMod
    <2> QED BY <1>2, <2>1, UpBeyond
  <1> QED BY <1>1, <1>2

(* One more character moves the text by a line if it was in the last cell. *)
LEMMA UpStep ==
    ASSUME NEW q \in Nat
    PROVE  /\ q - Up(q) + 1 \in Cell => Up(q + 1) = Up(q)
           /\ q - Up(q) + 1 \notin Cell => /\ Up(q + 1) = Up(q) + NUM_COLS
                                           /\ q - Up(q) + 1 = Size
  <1>1. CASE q \in Cell
    <2>1. Up(q) = 0
      BY <1>1 DEF Up
    <2>2. CASE q + 1 \in Cell
      BY <2>1, <2>2 DEF Up
    <2>3. CASE q + 1 \notin Cell
      <3>1. q + 1 = Size
        BY <1>1, <2>3, SizeType
      <3>2. (q + 1) \div NUM_COLS = NUM_ROWS
        BY <3>1, DivIs, ScreenAssumption DEF Size
      <3>3. Up(q + 1) = NUM_COLS
        BY <2>3, <3>2, ScreenAssumption DEF Up
      <3> QED BY <2>1, <2>3, <3>1, <3>3, ScreenAssumption
    <2> QED BY <2>2, <2>3
  <1>2. CASE q \notin Cell
    <2>1. PICK d \in Nat, m \in 0 .. NUM_COLS - 1 : q = d * NUM_COLS + m
      BY DivMod
    <2>2. /\ Up(q) = d * NUM_COLS - Size + NUM_COLS
          /\ q - Up(q) = Size - NUM_COLS + m
      BY <1>2, <2>1, UpBeyond
    <2>3. q + 1 \notin Cell
      BY <1>2, SizeType
    <2>4. d * NUM_COLS \in Int
      BY <2>1, ScreenAssumption
    <2>5. CASE m < NUM_COLS - 1
      <3>1. q + 1 = d * NUM_COLS + (m + 1) /\ m + 1 \in 0 .. NUM_COLS - 1
        BY <2>1, <2>4, <2>5, ScreenAssumption
      <3>2. Up(q + 1) = d * NUM_COLS - Size + NUM_COLS
        BY <2>3, <3>1, UpBeyond
      <3>3. q - Up(q) + 1 \in 0 .. Size - 1
        BY <2>2, <2>5, SizeType, ScreenAssumption
      <3> QED BY <2>2, <3>2, <3>3, SizeType
    <2>6. CASE m = NUM_COLS - 1
      <3>1. (d + 1) * NUM_COLS = d * NUM_COLS + NUM_COLS
        BY ScreenAssumption
      <3>2. /\ q + 1 = (d + 1) * NUM_COLS + 0
            /\ 0 \in 0 .. NUM_COLS - 1 /\ d + 1 \in Nat
        BY <2>1, <2>4, <2>6, <3>1, ScreenAssumption
      <3>3. Up(q + 1) = (d + 1) * NUM_COLS - Size + NUM_COLS
        BY <2>3, <3>2, UpBeyond
      <3>4. Up(q + 1) = Up(q) + NUM_COLS
        BY <2>2, <2>4, <3>1, <3>3, SizeType, ScreenAssumption
      <3>5. q - Up(q) + 1 = Size
        BY <2>2, <2>6, SizeType, ScreenAssumption
      <3> QED BY <3>4, <3>5, SizeType
    <2> QED BY <2>1, <2>5, <2>6, ScreenAssumption
  <1> QED BY <1>1, <1>2

LEMMA UpSize == Up(Size) = NUM_COLS /\ Size \notin Cell
  <1>1. Size = NUM_ROWS * NUM_COLS + 0 /\ Size \notin Cell /\ NUM_ROWS \in Nat
    BY SizeType, ScreenAssumption DEF Size
  <1>2. Up(Size) = NUM_ROWS * NUM_COLS - Size + NUM_COLS
    BY <1>1, UpBeyond, ScreenAssumption
  <1> QED BY <1>1, <1>2, SizeType, ScreenAssumption

(* What Texts writes, for each kind of character.                          *)
Moved(cells, i) == IF i \in Cell THEN cells[i] ELSE " "

LEMMA WriteNewLine ==
    ASSUME NEW cells, NEW k, NEW q
    PROVE  Display!Write(cells, k, "nl", q) =
              [c \in Cell |-> Moved(cells, c + Up(q))]
  BY SizeType DEF Display!Write, Up, Moved

(* Blanks from cell k to before cell q.                                    *)
Spread(cells, k, q) ==
    [c \in Cell |-> IF c + Up(q) \in k .. q - 1 THEN " " ELSE Moved(cells, c + Up(q))]

LEMMA WriteTab ==
    ASSUME NEW cells, NEW k, NEW q
    PROVE  Display!Write(cells, k, "tab", q) = Spread(cells, k, q)
  BY SizeType DEF Display!Write, Up, Moved, Spread

LEMMA WriteGlyph ==
    ASSUME NEW cells, NEW k, NEW q, NEW s, s \notin {"nl", "tab", "bs"}
    PROVE  Display!Write(cells, k, s, q) =
              [c \in Cell |-> IF c + Up(q) = k THEN s ELSE Moved(cells, c + Up(q))]
  BY SizeType DEF Display!Write, Up, Moved

(* A blank in cell q.                                                      *)
Rubbed(cells, q) ==
    [c \in Cell |-> IF c + Up(q) = q THEN " " ELSE Moved(cells, c + Up(q))]

LEMMA WriteBackspace ==
    ASSUME NEW cells, NEW k, NEW q
    PROVE  Display!Write(cells, k, "bs", q) = Rubbed(cells, q)
  BY SizeType DEF Display!Write, Up, Moved, Rubbed

(* The cell of Texts that is written next.                                 *)
LEMMA AtIs ==
    ASSUME NEW q \in Nat
    PROVE  q - Up(q) = IF q \in Cell THEN q
                       ELSE (NUM_ROWS - 1) * NUM_COLS + (q % NUM_COLS)
  <1>1. CASE q \in Cell
    BY <1>1 DEF Up
  <1>2. CASE q \notin Cell
    <2>1. PICK d \in Nat, m \in 0 .. NUM_COLS - 1 :
             q % NUM_COLS = m /\ q = d * NUM_COLS + m
      BY DivMod, Zenon
    <2>2. q - Up(q) = Size - NUM_COLS + m
      BY <1>2, <2>1, UpBeyond
    <2>3. (NUM_ROWS - 1) * NUM_COLS = Size - NUM_COLS
      BY SizeType
    <2> QED BY <1>2, <2>1, <2>2, <2>3, Zenon
  <1> QED BY <1>1, <1>2

-----------------------------------------------------------------------------
(* Every character does to the cells what Texts says it does: in each of   *)
(* these q is the cell that is reached, before the text moves up.          *)
Reaches(r, cells, k, c, q) ==
    /\ q \in Nat
    /\ q = Display!After(k, c)
    /\ CellOf(r) = q - Up(q)
    /\ r.cells = Display!Write(cells, k, c, q)

LEMMA NewLineReaches ==
    ASSUME NEW p \in Inside
    PROVE  \E q : Reaches(NewLine(p), p.cells, CellOf(p), "nl", q)
  <1>1. /\ p.x \in 0 .. NUM_COLS - 1 /\ p.y \in Nat
        /\ p.cells \in [Cell -> Ink]
    BY DEF Inside, Places, Row
  <1>2. /\ CellOf(p) = NUM_COLS * p.y + p.x /\ CellOf(p) \in Nat
        /\ NUM_COLS * p.y \in Nat
    <2>1. p.y \in 0 .. NUM_ROWS - 1
      BY ScreenAssumption DEF Inside, Places, Row
    <2> QED BY <2>1, RowStart, InsideCell, SizeType
  <1>3. CellOf(p) \div NUM_COLS = p.y
    BY <1>1, <1>2, DivIs, ScreenAssumption
  <1>4. PICK q \in Nat : q = NUM_COLS * p.y + NUM_COLS
    BY <1>2, ScreenAssumption
  <1>5. q = (p.y + 1) * NUM_COLS
    BY <1>1, <1>4, ScreenAssumption
  <1>6. q = Display!After(CellOf(p), "nl")
    BY <1>3, <1>5 DEF Display!After
  <1>7. CASE q \in Cell
    <2>1. NewLine(p).cells = p.cells /\ CellOf(NewLine(p)) = q
      BY <1>4, <1>7, NewLineFlat
    <2>2. Up(q) = 0
      BY <1>7 DEF Up
    <2>3. p.cells = [c \in Cell |-> Moved(p.cells, c + 0)]
      BY <1>1, SizeType DEF Moved
    <2>4. p.cells = Display!Write(p.cells, CellOf(p), "nl", q)
      BY <2>2, <2>3, WriteNewLine
    <2> QED BY <1>6, <2>1, <2>2, <2>4 DEF Reaches
  <1>8. CASE q \notin Cell
    <2>1. /\ q = Size
          /\ NewLine(p).cells = scroll(p.cells)
          /\ CellOf(NewLine(p)) = Size - NUM_COLS
      BY <1>4, <1>8, NewLineFlat
    <2>2. Up(q) = NUM_COLS
      BY <2>1, UpSize
    <2>3. scroll(p.cells) = [c \in Cell |-> Moved(p.cells, c + NUM_COLS)]
      BY DEF scroll, Moved
    <2>4. scroll(p.cells) = Display!Write(p.cells, CellOf(p), "nl", q)
      BY <2>2, <2>3, WriteNewLine
    <2> QED BY <1>6, <2>1, <2>2, <2>4 DEF Reaches
  <1> QED BY <1>7, <1>8

LEMMA GlyphedReaches ==
    ASSUME NEW p \in Inside, NEW c \in Glyph
    PROVE  \E q : Reaches(Glyphed(p, c), p.cells, CellOf(p), c, q)
  <1>1. p.cells \in [Cell -> Ink] /\ CellOf(p) \in Cell
    BY InsideCell DEF Inside, Places
  <1>2. PICK k \in Nat : k = CellOf(p) /\ k \in Cell
    BY <1>1, SizeType
  <1>3. c \notin {"nl", "tab", "bs"} /\ c \in Ink
    BY ScreenAssumption DEF Ink
  <1> DEFINE cells == [p.cells EXCEPT ![k] = c]
  <1>4. k + 1 \in Nat /\ k + 1 = Display!After(k, c)
    BY <1>3 DEF Display!After
  <1>5. CASE k + 1 \in Cell
    <2>1. Glyphed(p, c).cells = cells /\ CellOf(Glyphed(p, c)) = k + 1
      BY <1>2, <1>3, <1>5, GlyphedFlat
    <2>2. Up(k + 1) = 0
      BY <1>5 DEF Up
    <2>3. cells = [i \in Cell |-> IF i + 0 = k THEN c ELSE Moved(p.cells, i + 0)]
      BY <1>1, <1>2, SizeType DEF Moved
    <2>4. cells = Display!Write(p.cells, k, c, k + 1)
      BY <1>3, <2>2, <2>3, WriteGlyph
    <2> QED BY <1>2, <1>4, <2>1, <2>2, <2>4 DEF Reaches
  <1>6. CASE k + 1 \notin Cell
    <2>1. /\ k + 1 = Size
          /\ Glyphed(p, c).cells = scroll(cells)
          /\ CellOf(Glyphed(p, c)) = Size - NUM_COLS
      BY <1>2, <1>3, <1>6, GlyphedFlat
    <2>2. Up(k + 1) = NUM_COLS
      BY <2>1, UpSize
    <2>3. scroll(cells) = [i \in Cell |-> IF i + NUM_COLS = k THEN c
                                      ELSE Moved(p.cells, i + NUM_COLS)]
      BY <1>1, <1>2, SizeType, ScreenAssumption DEF scroll, Moved
    <2>4. scroll(cells) = Display!Write(p.cells, k, c, k + 1)
      BY <1>3, <2>2, <2>3, WriteGlyph
    <2> QED BY <1>2, <1>4, <2>1, <2>2, <2>4 DEF Reaches
  <1> QED BY <1>5, <1>6

(* r is where blanks from cell k to before q lead.                         *)
SpreadTo(r, cells, k, q) ==
    /\ r \in Inside
    /\ CellOf(r) = q - Up(q)
    /\ r.cells = Spread(cells, k, q)

LEMMA SpreadStep ==
    ASSUME NEW cells \in [Cell -> Ink], NEW k \in Cell, NEW q \in Nat, q >= k,
           NEW p, SpreadTo(p, cells, k, q)
    PROVE  SpreadTo(Glyphed(p, " "), cells, k, q + 1)
  <1>0. p \in Inside /\ CellOf(p) = q - Up(q) /\ p.cells = Spread(cells, k, q)
    BY DEF SpreadTo
  <1>7. Glyphed(p, " ") \in Inside
    BY <1>0, GlyphedType DEF Inside, Ink
  <1>1. PICK u \in Nat : u = Up(q) /\ q - u \in Cell
    BY UpType
  <1>2. PICK here : here = [p.cells EXCEPT ![q - u] = " "]
    OBVIOUS
  <1>3. /\ DOMAIN here = Cell
        /\ \A c \in Cell : here[c] =
              IF c = q - u THEN " "
              ELSE IF c + u \in k .. q - 1 THEN " " ELSE Moved(cells, c + u)
    BY <1>0, <1>1, <1>2 DEF Spread
  <1>4. k \in Nat /\ q \in Nat /\ u \in Nat /\ Cell = 0 .. Size - 1 /\ Size \in Nat
    BY SizeType
  <1>5. CASE q - u + 1 \in Cell
    <2>1. Up(q + 1) = u
      BY <1>1, <1>5, UpStep
    <2>2. /\ Glyphed(p, " ").cells = here
          /\ CellOf(Glyphed(p, " ")) = q - u + 1
      BY <1>0, <1>1, <1>2, <1>5, GlyphedFlat DEF Ink
    <2>3. ASSUME NEW c \in Cell
          PROVE  here[c] = IF c + Up(q + 1) \in k .. (q + 1) - 1 THEN " "
                           ELSE Moved(cells, c + Up(q + 1))
      <3>1. c + u \in k .. (q + 1) - 1 <=> c = q - u \/ c + u \in k .. q - 1
        BY <1>4
      <3> QED BY <1>3, <2>1, <3>1
    <2>4. here = [c \in Cell |-> here[c]]
      BY <1>0, <1>2, <1>3 DEF Spread
    <2>5. here = [c \in Cell |-> IF c + Up(q + 1) \in k .. (q + 1) - 1 THEN " "
                                 ELSE Moved(cells, c + Up(q + 1))]
      BY <2>3, <2>4
    <2>6. here = Spread(cells, k, q + 1)
      BY <2>5 DEF Spread
    <2>7. q - u + 1 = (q + 1) - Up(q + 1)
      BY <1>4, <2>1
    <2>8. CellOf(Glyphed(p, " ")) = (q + 1) - Up(q + 1)
      BY <2>2, <2>7, Zenon
    <2>9. Glyphed(p, " ").cells = Spread(cells, k, q + 1)
      BY <2>2, <2>6, Zenon
    <2> QED BY <1>7, <2>8, <2>9, Zenon DEF SpreadTo
  <1>6. CASE q - u + 1 \notin Cell
    <2>1. Up(q + 1) = u + NUM_COLS /\ q - u + 1 = Size
      BY <1>1, <1>6, UpStep
    <2>2. /\ Glyphed(p, " ").cells = scroll(here)
          /\ CellOf(Glyphed(p, " ")) = Size - NUM_COLS
      BY <1>0, <1>1, <1>2, <1>6, GlyphedFlat DEF Ink
    <2>3. NUM_COLS \in Nat /\ NUM_COLS >= 2
      BY ScreenAssumption
    <2>4. ASSUME NEW c \in Cell
          PROVE  scroll(here)[c] =
                    IF c + Up(q + 1) \in k .. (q + 1) - 1 THEN " "
                    ELSE Moved(cells, c + Up(q + 1))
      <3>1. scroll(here)[c] = IF c + NUM_COLS \in Cell THEN here[c + NUM_COLS] ELSE " "
        BY DEF scroll
      <3>2. PICK far \in Nat : far = c + (u + NUM_COLS)
        BY <1>4, <2>3
      <3>3. CASE c + NUM_COLS \in Cell
        <4>1. (c + NUM_COLS) + u = far
          BY <1>4, <2>3, <3>2
        <4>2. far \in k .. (q + 1) - 1 <=>
                 c + NUM_COLS = q - u \/ far \in k .. q - 1
          BY <1>4, <2>3, <3>2
        <4>3. here[c + NUM_COLS] =
                 IF c + NUM_COLS = q - u THEN " "
                 ELSE IF far \in k .. q - 1 THEN " " ELSE Moved(cells, far)
          BY <1>3, <3>3, <4>1
        <4> QED BY <2>1, <3>1, <3>2, <3>3, <4>2, <4>3
      <3>4. CASE c + NUM_COLS \notin Cell
        <4>1. far \notin k .. (q + 1) - 1 /\ far \notin Cell
          BY <1>4, <2>1, <2>3, <3>2, <3>4
        <4> QED BY <2>1, <3>1, <3>2, <3>4, <4>1 DEF Moved
      <3> QED BY <3>3, <3>4
    <2>5. scroll(here) = [c \in Cell |-> scroll(here)[c]]
      BY DEF scroll
    <2>6. scroll(here) =
            [c \in Cell |-> IF c + Up(q + 1) \in k .. (q + 1) - 1 THEN " "
                            ELSE Moved(cells, c + Up(q + 1))]
      BY <2>4, <2>5
    <2>7. scroll(here) = Spread(cells, k, q + 1)
      BY <2>6 DEF Spread
    <2>8. Size - NUM_COLS = (q + 1) - Up(q + 1)
      BY <1>4, <2>1, <2>3
    <2>9. CellOf(Glyphed(p, " ")) = (q + 1) - Up(q + 1)
      BY <2>2, <2>8, Zenon
    <2>10. Glyphed(p, " ").cells = Spread(cells, k, q + 1)
      BY <2>2, <2>7, Zenon
    <2> QED BY <1>7, <2>9, <2>10, Zenon DEF SpreadTo
  <1> QED BY <1>5, <1>6

LEMMA TabbedReaches ==
    ASSUME NEW p \in Inside
    PROVE  \E q : Reaches(Tabbed(p), p.cells, CellOf(p), "tab", q)
  <1>1. PICK f : /\ f[0] = p
                 /\ \A i \in 1 .. TAB : f[i] = Glyphed(f[i - 1], " ")
                 /\ Tabbed(p) = f[TAB]
    BY TabbedSteps
  <1>2. p.cells \in [Cell -> Ink] /\ p \in Places
    BY DEF Inside, Places
  <1>3. PICK k \in Cell : k = CellOf(p)
    BY InsideCell
  <1>4. k \in Nat
    BY SizeType
  <1> DEFINE S == {i \in 0 .. TAB : SpreadTo(f[i], p.cells, k, k + i)}
  <1>5. 0 \in S
    <2>1. f[0] = p
      BY <1>1, Zenon
    <2>2. 0 \in 0 .. TAB
      BY ScreenAssumption
    <2>3. k + 0 = k /\ Up(k) = 0 /\ k - 0 = k
      BY <1>4 DEF Up
    <2>4. p.cells = Spread(p.cells, k, k)
      <3>1. \A c \in Cell : c + 0 \notin k .. k - 1 /\ c + 0 = c
        BY <1>4, SizeType
      <3>2. p.cells = [c \in Cell |-> IF c + 0 \in k .. k - 1 THEN " "
                                      ELSE Moved(p.cells, c + 0)]
        BY <1>2, <3>1 DEF Moved
      <3> QED BY <2>3, <3>2 DEF Spread
    <2>5. SpreadTo(p, p.cells, k, k)
      BY <1>3, <2>3, <2>4 DEF SpreadTo
    <2>6. SpreadTo(f[0], p.cells, k, k + 0)
      BY <2>1, <2>3, <2>5, Zenon
    <2> QED BY <2>2, <2>6
  <1>6. ASSUME NEW i \in 1 .. TAB, i - 1 \in S
        PROVE  i \in S
    <2>1. f[i] = Glyphed(f[i - 1], " ")
      BY <1>1, Zenon
    <2>2. /\ k + (i - 1) \in Nat /\ k + (i - 1) >= k
          /\ (k + (i - 1)) + 1 = k + i
      BY <1>4
    <2>3. SpreadTo(f[i - 1], p.cells, k, k + (i - 1))
      BY <1>6, Zenon
    <2>4. SpreadTo(Glyphed(f[i - 1], " "), p.cells, k, (k + (i - 1)) + 1)
      BY <1>2, <2>2, <2>3, SpreadStep, Zenon
    <2>5. SpreadTo(f[i], p.cells, k, k + i)
      BY <2>1, <2>2, <2>4, Zenon
    <2>6. i \in 0 .. TAB
      OBVIOUS
    <2> QED BY <2>5, <2>6
  <1> HIDE DEF S
  <1>7. 0 .. TAB \subseteq S
    BY <1>5, <1>6, UpTo, ScreenAssumption
  <1>8. TAB \in S
    BY <1>7, ScreenAssumption
  <1>9. SpreadTo(f[TAB], p.cells, k, k + TAB)
    BY <1>8, Zenon DEF S
  <1>10. SpreadTo(Tabbed(p), p.cells, k, k + TAB)
    BY <1>1, <1>9, Zenon
  <1>11. k + TAB \in Nat /\ k + TAB = Display!After(k, "tab")
    BY <1>4, ScreenAssumption DEF Display!After
  <1>12. Reaches(Tabbed(p), p.cells, k, "tab", k + TAB)
    BY <1>10, <1>11, WriteTab, Zenon DEF Reaches, SpreadTo
  <1> QED BY <1>3, <1>12, Zenon

(* Every character but a backspace, the only one that can leave the text.  *)
LEMMA PrintedReaches ==
    ASSUME NEW p \in Inside, NEW c \in Char, c # "bs"
    PROVE  \E q : Reaches(Printed(p, c), p.cells, CellOf(p), c, q)
  <1>1. CASE c = "nl"
    BY <1>1, NewLineReaches DEF Printed
  <1>2. CASE c = "tab"
    BY <1>2, TabbedReaches DEF Printed
  <1>3. CASE c \notin {"nl", "tab"}
    BY <1>3, GlyphedReaches DEF Printed, Char
  <1> QED BY <1>1, <1>2, <1>3

LEMMA BeforeReaches ==
    ASSUME NEW p \in Inside, ~(p.x = 0 /\ p.y = 0)
    PROVE  \E q : Reaches(Place(Erase(p.cells, CellOf(Before(p))), Before(p).x, Before(p).y),
                          p.cells, CellOf(p), "bs", q)
  <1>1. p.x \in 0 .. NUM_COLS - 1 /\ p.y \in 0 .. NUM_ROWS - 1
    BY ScreenAssumption DEF Inside, Places, Row
  <1>2. p.cells \in [Cell -> Ink]
    BY DEF Inside, Places
  <1>3. PICK b : b = Before(p)
    OBVIOUS
  <1>4. b \in Inside
    BY <1>3, BeforeType DEF Inside
  <1>5. PICK q \in Cell : q = CellOf(b)
    BY <1>4, InsideCell
  <1>6. q = CellOf(p) - 1
    <2>1. CellOf(p) = NUM_COLS * p.y + p.x
      BY DEF CellOf
    <2>2. NUM_COLS * p.y \in Nat
      BY <1>1, RowStart
    <2>3. CASE p.x = 0
      <3>1. b.x = NUM_COLS - 1 /\ b.y = p.y - 1
        BY <1>3, <2>3 DEF Before, Place
      <3>2. NUM_COLS * (p.y - 1) = NUM_COLS * p.y - NUM_COLS
        BY <1>1, ScreenAssumption
      <3> QED BY <1>5, <2>1, <2>2, <2>3, <3>1, <3>2, ScreenAssumption DEF CellOf
    <2>4. CASE p.x # 0
      <3>1. b.x = p.x - 1 /\ b.y = p.y
        BY <1>3, <2>4 DEF Before, Place
      <3> QED BY <1>1, <1>5, <2>1, <2>2, <3>1, ScreenAssumption DEF CellOf
    <2> QED BY <2>3, <2>4
  <1>7. q \in Nat /\ Up(q) = 0 /\ q - 0 = q
    BY SizeType DEF Up
  <1>8. Erase(p.cells, q) = Display!Write(p.cells, CellOf(p), "bs", q)
    <2>1. \A c \in Cell : c + Up(q) = c
      BY <1>7, SizeType
    <2>2. Erase(p.cells, q) = [c \in Cell |-> IF c = q THEN " " ELSE p.cells[c]]
      BY <1>2 DEF Erase
    <2>3. Erase(p.cells, q) = Rubbed(p.cells, q)
      BY <2>1, <2>2 DEF Moved, Rubbed
    <2> QED BY <2>3, WriteBackspace
  <1>9. q = Display!After(CellOf(p), "bs")
    BY <1>6 DEF Display!After
  <1>10. PICK r : r = Place(Erase(p.cells, q), b.x, b.y)
    OBVIOUS
  <1>11. r.cells = Erase(p.cells, q) /\ CellOf(r) = q
    BY <1>5, <1>10 DEF Place, CellOf
  <1>12. Reaches(r, p.cells, CellOf(p), "bs", q)
    BY <1>7, <1>8, <1>9, <1>11 DEF Reaches
  <1> QED BY <1>3, <1>5, <1>10, <1>12

-----------------------------------------------------------------------------
(* Steps of Screen as steps of Texts.                                      *)
TextOf == [t \in Terminal |-> IF t = curr_terminal_visible THEN screen
                             ELSE terminal_vid_mem[t]]
AtOf   == [t \in Terminal |-> NUM_COLS * screen_y[t] + screen_x[t]]

Calm == hazards = {} /\ hazards' = {}

(* The place of a terminal.                                                *)
Here(t) == Place(TextOf[t], screen_x[t], screen_y[t])

LEMMA HereIs ==
    ASSUME TextsOK, InText, NEW t \in Terminal
    PROVE  /\ Here(t) \in Inside
           /\ Here(t).cells = TextOf[t]
           /\ Here(t).x = screen_x[t] /\ Here(t).y = screen_y[t]
           /\ CellOf(Here(t)) = AtOf[t]
  <1>1. TextOf[t] \in [Cell -> Ink] /\ screen_x[t] \in 0 .. NUM_COLS - 1
        /\ screen_y[t] \in Row /\ screen_y[t] >= 0
    BY DEF TextsOK, InText, TextOf
  <1>2. /\ Here(t).cells = TextOf[t]
        /\ Here(t).x = screen_x[t] /\ Here(t).y = screen_y[t]
    BY DEF Here, Place
  <1>3. AtOf[t] = NUM_COLS * screen_y[t] + screen_x[t]
    BY DEF AtOf
  <1> QED BY <1>1, <1>2, <1>3, PlaceType DEF Here, CellOf

LEMMA Emitted ==
    ASSUME TextsOK, InText, Calm, NEW t \in Terminal, NEW c \in Char,
           NEW r, r \in Inside, MoveTo(t, r),
           \E q : Reaches(r, TextOf[t], AtOf[t], c, q),
           TextOf' = [TextOf EXCEPT ![t] = r.cells],
           curr_terminal_visible' = curr_terminal_visible
    PROVE  Display!Emit(t, c)
  <1>1. PICK q : /\ q \in Nat
                 /\ q = Display!After(AtOf[t], c)
                 /\ CellOf(r) = q - Up(q)
                 /\ r.cells = Display!Write(TextOf[t], AtOf[t], c, q)
    BY DEF Reaches
  <1>2. AtOf' = [AtOf EXCEPT ![t] = CellOf(r)]
    <2>1. /\ screen_x' = [screen_x EXCEPT ![t] = r.x]
          /\ screen_y' = [screen_y EXCEPT ![t] = r.y]
      BY DEF MoveTo
    <2>2. CellOf(r) = NUM_COLS * r.y + r.x
      BY DEF CellOf
    <2>3. ASSUME NEW s \in Terminal
          PROVE  NUM_COLS * screen_y'[s] + screen_x'[s] =
                    IF s = t THEN CellOf(r) ELSE AtOf[s]
      BY <2>1, <2>2 DEF TextsOK, AtOf
    <2>4. AtOf' = [s \in Terminal |-> NUM_COLS * screen_y'[s] + screen_x'[s]]
      BY DEF AtOf
    <2>5. AtOf' = [s \in Terminal |-> IF s = t THEN CellOf(r) ELSE AtOf[s]]
      BY <2>3, <2>4
    <2>6. AtOf = [s \in Terminal |-> AtOf[s]]
      BY DEF AtOf
    <2> QED BY <2>5, <2>6
  <1>3. CellOf(r) = IF q \in Display!Cell THEN q
                    ELSE (NUM_ROWS - 1) * NUM_COLS + (q % NUM_COLS)
    BY <1>1, AtIs, SizeType
  <1>4. TextOf' = [TextOf EXCEPT ![t] = Display!Write(@, AtOf[t], c, q)]
    BY <1>1
  <1>5. q >= 0
    BY <1>1
  <1> QED BY <1>1, <1>2, <1>3, <1>4, <1>5 DEF Display!Emit, TextOf, AtOf, Calm

(* On the screen: a character of the visible terminal.                     *)
LEMMA ScreenEmits ==
    ASSUME TextsOK, TurnsOK, InText, Calm, NEW c \in Char, NEW ahead,
           PutAhead(c, ahead), UNCHANGED turns,
           ~(c = "bs" /\ AtTop(curr_terminal_visible))
    PROVE  Display!Emit(curr_terminal_visible, c)
  <1>1. PICK v \in Terminal : v = curr_terminal_visible
    BY DEF TurnsOK
  <1>2. PICK here : here = Here(v)
    OBVIOUS
  <1>3. /\ here \in Inside /\ here.cells = TextOf[v] /\ TextOf[v] = screen
        /\ here.x = screen_x[v] /\ here.y = screen_y[v]
        /\ CellOf(here) = AtOf[v]
        /\ here = Place(screen, screen_x[v], screen_y[v])
    BY <1>1, <1>2, HereIs DEF TextOf, Here
  <1>4. PICK r : r = IF c = "bs"
                     THEN Place(Erase(screen, CellOf(Before(here))),
                                Before(here).x, Before(here).y)
                     ELSE Printed(here, c)
    OBVIOUS
  <1>5. /\ screen' = r.cells /\ MoveTo(v, r)
        /\ UNCHANGED terminal_vid_mem
    BY <1>1, <1>3, <1>4 DEF PutAhead
  <1>6. ASSUME c = "bs"
        PROVE  r \in Inside /\ \E q : Reaches(r, TextOf[v], AtOf[v], c, q)
    <2>1. ~(here.x = 0 /\ here.y = 0)
      BY <1>1, <1>3, <1>6 DEF AtTop
    <2>2. \E q : Reaches(r, TextOf[v], AtOf[v], c, q)
      BY <1>3, <1>4, <1>6, <2>1, BeforeReaches
    <2>3. Before(here) \in Inside /\ CellOf(Before(here)) \in Int
      BY <1>3, <2>1, BeforeType, CellOfType DEF Inside
    <2>4. Erase(screen, CellOf(Before(here))) \in [Cell -> Ink]
      BY <2>3, EraseType DEF TextsOK
    <2>5. r \in Inside
      BY <1>4, <1>6, <2>3, <2>4, PlaceType DEF Inside, Places
    <2> QED BY <2>2, <2>5
  <1>7. ASSUME c # "bs"
        PROVE  r \in Inside /\ \E q : Reaches(r, TextOf[v], AtOf[v], c, q)
    <2>1. r = Printed(here, c) /\ here \in Places
      BY <1>3, <1>4, <1>7 DEF Inside
    <2> QED BY <1>3, <1>7, <2>1, PrintedType, PrintedReaches
  <1>8. TextOf' = [TextOf EXCEPT ![v] = r.cells] /\ curr_terminal_visible' = v
    BY <1>1, <1>5 DEF TextOf, turns
  <1> QED BY <1>1, <1>5, <1>6, <1>7, <1>8, Emitted

(* In the background: one of the executing terminal, on its page.          *)
LEMMA PageEmits ==
    ASSUME TextsOK, TurnsOK, InText, Calm, NEW c \in Char, c # "bs",
           k_putc(c), UNCHANGED turns, Background
    PROVE  Display!Emit(curr_terminal_executing, c)
  <1>1. PICK e \in Terminal : e = curr_terminal_executing /\ e # curr_terminal_visible
    BY DEF TurnsOK, Background
  <1>2. PICK here : here = Here(e)
    OBVIOUS
  <1>3. /\ here \in Inside /\ here.cells = TextOf[e]
        /\ CellOf(here) = AtOf[e]
        /\ here = Place(terminal_vid_mem[e], screen_x[e], screen_y[e])
    BY <1>1, <1>2, HereIs DEF TextOf, Here
  <1>4. PICK r : r = Printed(here, c)
    OBVIOUS
  <1>5. /\ terminal_vid_mem' = [terminal_vid_mem EXCEPT ![e] = r.cells]
        /\ MoveTo(e, r) /\ UNCHANGED screen
    BY <1>1, <1>3, <1>4 DEF k_putc
  <1>6. r \in Inside /\ \E q : Reaches(r, TextOf[e], AtOf[e], c, q)
    BY <1>3, <1>4, PrintedType, PrintedReaches DEF Inside
  <1>7. /\ TextOf' = [TextOf EXCEPT ![e] = r.cells]
        /\ curr_terminal_visible' = curr_terminal_visible
    <2>1. curr_terminal_visible' = curr_terminal_visible
      BY DEF turns
    <2>2. ASSUME NEW t \in Terminal
          PROVE  (IF t = curr_terminal_visible' THEN screen' ELSE terminal_vid_mem'[t])
                    = IF t = e THEN r.cells ELSE TextOf[t]
      BY <1>1, <1>5, <2>1 DEF TextOf, TextsOK
    <2>3. TextOf' = [t \in Terminal |-> IF t = e THEN r.cells ELSE TextOf[t]]
      BY <2>2 DEF TextOf
    <2>4. TextOf = [t \in Terminal |-> TextOf[t]]
      BY DEF TextOf
    <2> QED BY <2>1, <2>3, <2>4
  <1> QED BY <1>1, <1>5, <1>6, <1>7, Emitted

(* Texts stands still as long as the texts and the terminal shown do.      *)
LEMMA Still ==
    ASSUME Calm, TextOf' = TextOf, AtOf' = AtOf,
           curr_terminal_visible' = curr_terminal_visible
    PROVE  UNCHANGED Display!vars
  BY DEF Display!vars, TextOf, AtOf, Calm

LEMMA SameTexts ==
    ASSUME UNCHANGED texts, curr_terminal_visible' = curr_terminal_visible
    PROVE  TextOf' = TextOf /\ AtOf' = AtOf
  BY DEF texts, TextOf, AtOf

LEMMA StepDisplay ==
    ASSUME IInv, [Next]_vars
    PROVE  [Display!Next]_Display!vars
  <1> USE DEF IInv
  <1>1. CASE hazards' # {}
    <2>1. Display!Break
      BY <1>1 DEF Display!Break
    <2> QED BY <2>1 DEF Display!Next
  <1>2. CASE hazards' = {}
    <2>1. hazards = {}
      BY <1>2 DEF Next, KeyEcho, TabEcho, CtrlL, write_terminal, printf, LineRead,
                  switch_terminal, Tick, vidmap, Draw, halt, vars
    <2>2. Calm /\ InText
      BY <1>2, <2>1 DEF Calm, InTextOK
    <2>3. ASSUME NEW t \in Terminal, NEW c \in Char, Display!Emit(t, c)
          PROVE  Display!Next
      BY <2>3 DEF Display!Next, Char
    <2>4. curr_terminal_visible \in Terminal /\ curr_terminal_executing \in Terminal
      BY DEF TurnsOK
    <2>5. ASSUME NEW c \in Char, NEW ahead, PutAhead(c, ahead), UNCHANGED turns,
                 ~(c = "bs" /\ AtTop(curr_terminal_visible))
          PROVE  Display!Next
      BY <2>2, <2>3, <2>4, <2>5, ScreenEmits
    <2>6. ASSUME NEW c \in Char \ {"tab"}, KeyEcho(c)
          PROVE  Display!Next
      BY <1>2, <2>5, <2>6 DEF KeyEcho, putc, Cause
    <2>7. CASE TabEcho
      BY <2>5, <2>7 DEF TabEcho, Char
    <2>8. CASE CtrlL
      <3>1. /\ curr_terminal_executing = curr_terminal_visible
            /\ screen' = Blank /\ UNCHANGED <<terminal_vid_mem, turns>>
            /\ screen_x' = [screen_x EXCEPT ![curr_terminal_visible] = 0]
            /\ screen_y' = [screen_y EXCEPT ![curr_terminal_visible] = 0]
        BY <1>2, <2>8 DEF CtrlL, MoveTo, Cause, Background
      <3>2. PICK v \in Terminal : v = curr_terminal_visible /\ v = curr_terminal_visible'
        BY <2>4, <3>1 DEF turns
      <3>3. Blank = Display!Blank /\ NUM_COLS * 0 + 0 = 0
        BY SizeType, ScreenAssumption DEF Blank, Display!Blank
      <3>4. TextOf' = [TextOf EXCEPT ![v] = Display!Blank]
        BY <3>1, <3>2, <3>3 DEF TextOf
      <3>5. AtOf' = [AtOf EXCEPT ![v] = 0]
        BY <3>1, <3>2, <3>3 DEF AtOf, TextsOK
      <3>6. Display!Wipe
        BY <2>2, <3>2, <3>4, <3>5 DEF Display!Wipe, TextOf, AtOf, Calm
      <3> QED BY <3>6 DEF Display!Next
    <2>9. ASSUME NEW c \in Char, write_terminal(c)
          PROVE  Display!Next \/ UNCHANGED Display!vars
      <3>1. CASE jammer \/ hotjam
        <4>1. UNCHANGED texts /\ curr_terminal_visible' = curr_terminal_visible
          BY <2>9, <3>1 DEF write_terminal, turns
        <4> QED BY <2>2, <4>1, SameTexts, Still
      <3>2. CASE ~(jammer \/ hotjam) /\ ~Background
        <4>1. PutAhead(c, 0) /\ UNCHANGED turns
          BY <2>9, <3>2 DEF write_terminal, putc
        <4>2. ~(c = "bs" /\ AtTop(curr_terminal_visible))
          BY <1>2, <2>9, <3>2 DEF write_terminal, Cause, Background
        <4> QED BY <2>5, <4>1, <4>2
      <3>3. CASE ~(jammer \/ hotjam) /\ Background
        <4>1. k_putc(c) /\ UNCHANGED turns /\ c # "bs"
          BY <1>2, <2>9, <3>3 DEF write_terminal, Cause
        <4>2. Display!Emit(curr_terminal_executing, c)
          BY <2>2, <3>3, <4>1, PageEmits
        <4> QED BY <2>3, <2>4, <4>2
      <3> QED BY <3>1, <3>2, <3>3
    <2>10. ASSUME NEW c \in Glyph \cup {"nl"}, printf(c)
           PROVE  Display!Next
      <3>1. c \in Char /\ c # "bs"
        BY ScreenAssumption DEF Char
      <3> QED BY <2>5, <2>10, <3>1 DEF printf, putc
    <2>11. ASSUME NEW t \in Terminal, switch_terminal(t)
           PROVE  Display!Next
      <3>1. PICK v \in Terminal : v = curr_terminal_visible
        BY <2>4
      <3>2. /\ t # v /\ curr_terminal_visible' = t
            /\ terminal_vid_mem' = [terminal_vid_mem EXCEPT ![v] = screen]
            /\ screen' = terminal_vid_mem[t]
            /\ UNCHANGED <<screen_x, screen_y>>
        BY <2>11, <3>1 DEF switch_terminal
      <3>3. ASSUME NEW s \in Terminal
            PROVE  (IF s = curr_terminal_visible' THEN screen' ELSE terminal_vid_mem'[s])
                      = IF s = curr_terminal_visible THEN screen ELSE terminal_vid_mem[s]
        BY <3>1, <3>2 DEF TextsOK
      <3>4. TextOf' = TextOf /\ AtOf' = AtOf
        BY <3>2, <3>3 DEF TextOf, AtOf
      <3>5. Display!Show(t)
        BY <2>2, <3>2, <3>4 DEF Display!Show, TextOf, AtOf, Calm
      <3> QED BY <3>5 DEF Display!Next
    <2>12. ASSUME NEW c \in Cell, NEW g \in Glyph, Draw(c, g)
           PROVE  Display!Next \/ UNCHANGED Display!vars
      <3>1. /\ screen' = screen \/ screen' = [screen EXCEPT ![c] = g]
            /\ UNCHANGED <<terminal_vid_mem, screen_x, screen_y, turns>>
        BY <2>12 DEF Draw
      <3>2. PICK v \in Terminal : v = curr_terminal_visible /\ v = curr_terminal_visible'
        BY <2>4, <3>1 DEF turns
      <3>3. CASE screen' = screen
        <4>1. UNCHANGED texts /\ curr_terminal_visible' = curr_terminal_visible
          BY <3>1, <3>2, <3>3 DEF texts
        <4> QED BY <2>2, <4>1, SameTexts, Still
      <3>4. CASE screen' = [screen EXCEPT ![c] = g]
        <4>1. TextOf' = [TextOf EXCEPT ![v][c] = g]
          BY <3>1, <3>2, <3>4 DEF TextOf
        <4>2. AtOf' = AtOf
          BY <3>1 DEF AtOf
        <4>3. Display!Draw(v, c, g)
          BY <2>2, <3>2, <4>1, <4>2 DEF Display!Draw, TextOf, AtOf, Calm
        <4>4. c \in Display!Cell
          BY SizeType
        <4> QED BY <4>3, <4>4 DEF Display!Next
      <3> QED BY <3>1, <3>3, <3>4
    <2>13. CASE \/ LineRead
                \/ \E t \in Terminal : Tick(t)
                \/ vidmap
                \/ \E base \in BOOLEAN : halt(base)
                \/ UNCHANGED vars
      <3>1. UNCHANGED texts /\ curr_terminal_visible' = curr_terminal_visible
        BY <2>13 DEF LineRead, Tick, vidmap, halt, vars, turns
      <3> QED BY <2>2, <3>1, SameTexts, Still
    <2> QED BY <2>6, <2>7, <2>8, <2>9, <2>10, <2>11, <2>12, <2>13 DEF Next
  <1> QED BY <1>1, <1>2

(* ImplementsTexts: until a hazard strikes, every terminal has a text of   *)
(* its own, which only its programs' output, its keys and Ctrl-L change.   *)
THEOREM Refinement == Spec => ImplementsTexts
  <1>1. Init => Display!Init
    <2> SUFFICES ASSUME Init PROVE Display!Init
      OBVIOUS
    <2>1. Blank = Display!Blank /\ NUM_COLS * 0 + 0 = 0
      BY SizeType, ScreenAssumption DEF Blank, Display!Blank
    <2>2. TextOf = [t \in Terminal |-> Display!Blank]
      BY <2>1 DEF Init, InitWith, TextOf
    <2>3. AtOf = [t \in Terminal |-> 0]
      BY <2>1 DEF Init, InitWith, AtOf
    <2>4. curr_terminal_visible \in Terminal /\ hazards = {}
      BY ScreenAssumption DEF Init, InitWith, Terminal
    <2> QED BY <2>2, <2>3, <2>4 DEF Display!Init, TextOf, AtOf
  <1> QED BY <1>1, Invariance, StepDisplay, PTL DEF Spec, ImplementsTexts, Display!Spec

=============================================================================
