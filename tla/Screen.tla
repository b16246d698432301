------------------------------- MODULE Screen -------------------------------
(***************************************************************************)
(* Screen output (lib.c, terminal.c) and the mapping of video memory into  *)
(* programs (vidmap).  The visible terminal's text is in video memory, the *)
(* others' in a page each; programs, the keyboard handler and the kernel's *)
(* own messages write to one or the other.                                 *)
(*                                                                         *)
(* Everything here runs with interrupts disabled or is one character of a  *)
(* longer output, so one action is one character, one key or one call.     *)
(***************************************************************************)
EXTENDS Integers

CONSTANTS
    TERMINAL_NUM,
    NUM_ROWS, NUM_COLS,     \* 25 and 80 in the kernel
    TAB,                    \* the blanks a tab is echoed as, 4
    Glyph                   \* printable characters

ASSUME ScreenAssumption == /\ TERMINAL_NUM \in Nat \ {0}
                           /\ NUM_ROWS \in Nat /\ NUM_ROWS >= 2
                           /\ NUM_COLS \in Nat /\ NUM_COLS >= 2
                           /\ TAB \in Nat \ {0}
                           /\ Glyph \cap {"nl", "bs", "tab"} = {}

VARIABLES
    screen,                 \* 0xB8000
    terminal_vid_mem,       \* multi_terminal[t].terminal_vid_mem, its page
    screen_x, screen_y,     \* multi_terminal[t].screen_x, screen_y
    cursor,                 \* the cell the VGA shows the cursor in
    curr_terminal_visible,
    curr_terminal_executing,
    active,                 \* the t whose multi_terminal[t].active is 1
    jammer, hotjam,
    page_table_video,       \* P and PBA of entry t
    using,      \* history: the t whose program has called vidmap
    astray,     \* history: the last key left the cursor away from the text
    hazards     \* history: the hazardous things that have happened

texts == <<screen, terminal_vid_mem, screen_x, screen_y>>
locks == <<jammer, hotjam>>
turns == <<curr_terminal_visible, curr_terminal_executing, active>>
video == <<page_table_video, using>>
vars  == <<texts, cursor, turns, locks, video, astray, hazards>>

Terminal == 0 .. TERMINAL_NUM - 1
Cell     == 0 .. NUM_ROWS * NUM_COLS - 1
Char     == Glyph \cup {"nl", "bs", "tab"}
Blank    == [c \in Cell |-> " "]

Entry == [P : BOOLEAN, PBA : {"0", "0xB8"}]

Cause(hazard, cond) == IF cond THEN {hazard} ELSE {}

-----------------------------------------------------------------------------
(* No text yet, with the terminals `inUse` and the cursor at `cur`.        *)
InitWith(inUse, cur) ==
    /\ screen = Blank
    /\ terminal_vid_mem = [t \in Terminal |-> Blank]
    /\ screen_x = [t \in Terminal |-> 0]
    /\ screen_y = [t \in Terminal |-> 0]
    /\ cursor = cur
    /\ curr_terminal_visible = 0
    /\ curr_terminal_executing = 0
    /\ active = inUse
    /\ jammer = FALSE /\ hotjam = FALSE
    /\ page_table_video = [t \in Terminal |-> [P |-> FALSE, PBA |-> "0"]]
    /\ using = {}
    /\ astray = TRUE
    /\ hazards = {}

(* init_terminal; the pages hold what the start of the machine left there. *)
Init == InitWith({0}, NUM_COLS + 1)

-----------------------------------------------------------------------------
scroll(cells) ==
    [c \in Cell |-> IF c + NUM_COLS \in Cell THEN cells[c + NUM_COLS] ELSE " "]

(* A place on a text: its cells and where the next character goes.         *)
Place(cells, x, y) == [cells |-> cells, x |-> x, y |-> y]

NewLine(p) ==
    IF p.y = NUM_ROWS - 1 THEN Place(scroll(p.cells), 0, p.y)
    ELSE Place(p.cells, 0, p.y + 1)

(* A printable character.                                                  *)
Glyphed(p, c) ==
    LET cells == [p.cells EXCEPT ![NUM_COLS * p.y + p.x] = c] IN
    IF p.x < NUM_COLS - 1 THEN Place(cells, p.x + 1, p.y)
    ELSE NewLine(Place(cells, p.x, p.y))

Tabbed(p) ==
    LET after[n \in 0 .. TAB] ==
            IF n = 0 THEN p ELSE Glyphed(after[n - 1], " ")
    IN after[TAB]

(* Before the character that p is at: of column 0, the last of the line    *)
(* above, which line 0 does not have.                                      *)
Before(p) ==
    IF p.x = 0 THEN Place(p.cells, NUM_COLS - 1, p.y - 1)
    ELSE Place(p.cells, p.x - 1, p.y)

CellOf(p) == NUM_COLS * p.y + p.x
AtTop(t)  == screen_x[t] = 0 /\ screen_y[t] = 0

MoveTo(t, p) == /\ screen_x' = [screen_x EXCEPT ![t] = p.x]
                /\ screen_y' = [screen_y EXCEPT ![t] = p.y]

Printed(p, c) == CASE c = "nl"  -> NewLine(p)
                   [] c = "tab" -> Tabbed(p)
                   [] OTHER     -> Glyphed(p, c)

Erase(cells, i) == IF i \in Cell THEN [cells EXCEPT ![i] = " "] ELSE cells

(* A character on the screen, at the position of the visible terminal; the *)
(* cursor is set that far ahead of it.                                     *)
PutAhead(c, ahead) ==
    LET v == curr_terminal_visible
        here == Place(screen, screen_x[v], screen_y[v])
        back == Before(here)
        next == IF c = "bs" THEN Place(Erase(screen, CellOf(back)), back.x, back.y)
                ELSE Printed(here, c)
    IN /\ screen' = next.cells
       /\ MoveTo(v, next)
       /\ cursor' = CellOf(next) + ahead
       /\ astray' = (ahead > 0)
       /\ UNCHANGED terminal_vid_mem

putc(c) == PutAhead(c, 0)

(* Mutant: at the position of the visible terminal.                        *)
k_putc_VisiblePosition(c) ==
    LET t == curr_terminal_executing
        v == curr_terminal_visible
        next == Printed(Place(terminal_vid_mem[t], screen_x[v], screen_y[v]), c)
    IN /\ c # "bs"
       /\ terminal_vid_mem' = [terminal_vid_mem EXCEPT ![t] = next.cells]
       /\ MoveTo(v, next)
       /\ UNCHANGED <<screen, cursor, astray>>

(* k_putc: on the page of the executing terminal, at its position, except  *)
(* that a backspace erases on the screen.                                  *)
k_putc(c) ==
    LET t == curr_terminal_executing
        here == Place(terminal_vid_mem[t], screen_x[t], screen_y[t])
        next == IF c = "bs" THEN Before(here) ELSE Printed(here, c)
    IN /\ screen' = IF c = "bs" THEN Erase(screen, CellOf(next)) ELSE screen
       /\ terminal_vid_mem' = [terminal_vid_mem EXCEPT ![t] = next.cells]
       /\ MoveTo(t, next)
       /\ UNCHANGED <<cursor, astray>>

Background == curr_terminal_executing # curr_terminal_visible

-----------------------------------------------------------------------------
(* A key that is echoed.                                                   *)
KeyEcho(c) ==
    /\ putc(c)
    /\ hazards' = hazards \cup
                    Cause("top", c = "bs" /\ AtTop(curr_terminal_visible))
    /\ UNCHANGED <<turns, locks, video>>

(* A tab is echoed as blanks, which move the cursor, and the handler moves *)
(* it as far once more.                                                    *)
TabEcho ==
    /\ PutAhead("tab", TAB)
    /\ UNCHANGED <<turns, locks, video, hazards>>

(* Ctrl-L: clear empties the screen and resets the position of the         *)
(* executing terminal; the cursor is set to line 1.                        *)
CtrlL ==
    /\ screen' = Blank
    /\ MoveTo(curr_terminal_executing, [x |-> 0, y |-> 0])
    /\ cursor' = NUM_COLS
    /\ astray' = TRUE
    /\ hazards' = hazards \cup Cause("clear", Background)
    /\ UNCHANGED <<terminal_vid_mem, turns, locks, video>>

(* write_terminal, called by the executing program.  The first call after  *)
(* a switch to a terminal in use, or after a shell has halted, prints      *)
(* nothing.                                                                *)
write_terminal(c) ==
    \/ /\ jammer \/ hotjam
       /\ IF jammer THEN jammer' = FALSE /\ UNCHANGED hotjam
          ELSE hotjam' = FALSE /\ UNCHANGED jammer
       /\ UNCHANGED <<texts, cursor, turns, video, astray, hazards>>
    \/ /\ ~jammer /\ ~hotjam
       /\ IF Background THEN k_putc(c) ELSE putc(c)
       /\ hazards' = hazards
              \cup Cause("top", c = "bs" /\ AtTop(curr_terminal_executing))
              \cup Cause("erase", c = "bs" /\ Background)
       /\ UNCHANGED <<turns, locks, video>>

(* The kernel's messages: the executing program's, on the screen.          *)
printf(c) ==
    /\ putc(c)
    /\ hazards' = hazards \cup Cause("printf", Background)
    /\ UNCHANGED <<turns, locks, video>>

(* read_terminal found the end of a line.                                  *)
LineRead ==
    /\ jammer' = FALSE
    /\ UNCHANGED <<texts, cursor, turns, hotjam, video, astray, hazards>>

(* Mutant: the screen is not saved when the other terminal is a new one.   *)
switch_terminal_NotSaved(t) ==
    /\ t # curr_terminal_visible
    /\ curr_terminal_visible' = t
    /\ IF t \in active
       THEN /\ terminal_vid_mem' =
                 [terminal_vid_mem EXCEPT ![curr_terminal_visible] = screen]
            /\ jammer' = TRUE
            /\ UNCHANGED <<curr_terminal_executing, active>>
       ELSE /\ active' = active \cup {t}
            /\ curr_terminal_executing' = t
            /\ UNCHANGED <<jammer, terminal_vid_mem>>
    /\ screen' = terminal_vid_mem[t]
    /\ cursor' = NUM_COLS * screen_y[t] + screen_x[t]
    /\ astray' = FALSE
    /\ UNCHANGED <<screen_x, screen_y, hotjam, video, hazards>>

(* The screen goes to the page of its terminal, the page of the other one  *)
(* to the screen.  A terminal that was not in use gets the CPU for its     *)
(* shell.                                                                  *)
switch_terminal(t) ==
    /\ t # curr_terminal_visible
    /\ curr_terminal_visible' = t
    /\ IF t \in active
       THEN jammer' = TRUE /\ UNCHANGED <<curr_terminal_executing, active>>
       ELSE /\ active' = active \cup {t}
            /\ curr_terminal_executing' = t
            /\ UNCHANGED jammer
    /\ terminal_vid_mem' =
          [terminal_vid_mem EXCEPT ![curr_terminal_visible] = screen]
    /\ screen' = terminal_vid_mem[t]
    /\ cursor' = NUM_COLS * screen_y[t] + screen_x[t]
    /\ astray' = FALSE
    /\ UNCHANGED <<screen_x, screen_y, hotjam, video, hazards>>

(* PIT_handler: some terminal in use, Processes says which.                *)
Tick(t) ==
    /\ t \in active
    /\ curr_terminal_executing' = t
    /\ UNCHANGED <<texts, cursor, curr_terminal_visible, active, locks, video,
                   astray, hazards>>

-----------------------------------------------------------------------------
(* vidmap, with an address in the program's page: the entry of the         *)
(* executing terminal becomes present, that of the visible one gets the    *)
(* address of the screen.                                                  *)
vidmap ==
    LET e == curr_terminal_executing
        v == curr_terminal_visible
    IN /\ page_table_video' = [t \in Terminal |->
             [P   |-> page_table_video[t].P \/ t = e,
              PBA |-> IF t = v THEN "0xB8" ELSE page_table_video[t].PBA]]
       /\ using' = using \cup {e}
       /\ hazards' = hazards \cup Cause("vidmap", e # v)
       /\ UNCHANGED <<texts, cursor, turns, locks, astray>>

(* A program stores into the page it was given.                            *)
Draw(c, g) ==
    LET e == curr_terminal_executing IN
    /\ page_table_video[e].P
    /\ screen' = IF page_table_video[e].PBA = "0xB8"
                 THEN [screen EXCEPT ![c] = g] ELSE screen
    /\ hazards' = hazards \cup Cause("draw", Background)
    /\ UNCHANGED <<terminal_vid_mem, screen_x, screen_y, cursor, turns, locks,
                   video, astray>>

(* Mutant: the page of the visible terminal's program is unmapped.         *)
halt_Visible(base) ==
    /\ page_table_video' =
          [page_table_video EXCEPT ![curr_terminal_visible].P = FALSE]
    /\ hotjam' = (hotjam \/ base)
    /\ using' = using \ {curr_terminal_executing}
    /\ UNCHANGED <<texts, cursor, turns, jammer, astray, hazards>>

(* halt: the executing program loses the page; a halting shell, `base`, is *)
(* started again.                                                          *)
halt(base) ==
    /\ page_table_video' =
          [page_table_video EXCEPT ![curr_terminal_executing].P = FALSE]
    /\ hotjam' = (hotjam \/ base)
    /\ using' = using \ {curr_terminal_executing}
    /\ UNCHANGED <<texts, cursor, turns, jammer, astray, hazards>>

-----------------------------------------------------------------------------
Next ==
    \/ \E c \in Char \ {"tab"} : KeyEcho(c)
    \/ TabEcho
    \/ CtrlL
    \/ \E c \in Char : write_terminal(c)
    \/ \E c \in Glyph \cup {"nl"} : printf(c)
    \/ LineRead
    \/ \E t \in Terminal : switch_terminal(t) \/ Tick(t)
    \/ vidmap
    \/ \E c \in Cell, g \in Glyph : Draw(c, g)
    \/ \E base \in BOOLEAN : halt(base)

Spec == Init /\ [][Next]_vars

-----------------------------------------------------------------------------
(* The positions are in the text as long as no backspace was printed at    *)
(* its beginning (lib.c:327).                                              *)
TypeOK ==
    /\ screen \in [Cell -> Glyph \cup {" "}]
    /\ terminal_vid_mem \in [Terminal -> [Cell -> Glyph \cup {" "}]]
    /\ screen_x \in [Terminal -> 0 .. NUM_COLS - 1]
    /\ screen_y \in [Terminal -> {y \in Int : y < NUM_ROWS}]
    /\ "top" \notin hazards => screen_y \in [Terminal -> 0 .. NUM_ROWS - 1]
    /\ cursor \in Int
    /\ {curr_terminal_visible, curr_terminal_executing} \subseteq active
    /\ active \subseteq Terminal
    /\ {jammer, hotjam, astray} \subseteq BOOLEAN
    /\ page_table_video \in [Terminal -> Entry]
    /\ using \subseteq Terminal
    /\ hazards \subseteq {"top", "clear", "erase", "printf", "vidmap", "draw"}

(* The cursor is where the next character of the visible terminal appears, *)
(* through every switch and whatever programs write in the background,     *)
(* unless the last key was a tab or Ctrl-L (keyboard.c:89-110).            *)
CursorFollows ==
    ~astray => cursor = NUM_COLS * screen_y[curr_terminal_visible]
                            + screen_x[curr_terminal_visible]

(* While every program calls vidmap in the foreground, the programs that   *)
(* have called it, and no others, have a page of video memory, and it is   *)
(* the screen: none inherits the page of one that has halted               *)
(* (system_call.c:45, 599-635).                                            *)
PageOfProgram ==
    hazards = {} =>
        \A t \in Terminal : IF t \in using
                           THEN page_table_video[t] = [P |-> TRUE, PBA |-> "0xB8"]
                           ELSE ~page_table_video[t].P

(* Until a hazard strikes, every terminal has a text of its own: only its  *)
(* programs' output, its keys, the kernel's messages for it and Ctrl-L     *)
(* change it, and it comes back unchanged when it is shown again.          *)
Display == INSTANCE Texts WITH
    Term <- Terminal, Width <- NUM_COLS, Height <- NUM_ROWS, Tab <- TAB,
    Char <- Glyph,
    text <- [t \in Terminal |-> IF t = curr_terminal_visible THEN screen
                               ELSE terminal_vid_mem[t]],
    at <- [t \in Terminal |-> NUM_COLS * screen_y[t] + screen_x[t]],
    shown <- curr_terminal_visible,
    intact <- (hazards = {})

ImplementsTexts == Display!Spec
=============================================================================
