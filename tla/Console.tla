------------------------------ MODULE Console ------------------------------
(***************************************************************************)
(* The console a user sees: the line being typed (TerminalIO) and the      *)
(* screen it is echoed on (Screen), which keyboard_handler, the programs   *)
(* and the timer change together.  All terminals are in use.               *)
(***************************************************************************)
EXTENDS TerminalIO, FiniteSets

CONSTANTS NUM_ROWS, NUM_COLS         \* of Screen

ASSUME ConsoleAssumption == /\ NUM_ROWS \in Nat /\ NUM_ROWS >= 2
                            /\ NUM_COLS \in Nat /\ NUM_COLS >= 2
                            /\ TAB # 0

VARIABLES
    screen, terminal_vid_mem, screen_x, screen_y, cursor, astray,
    active, jammer, hotjam, page_table_video, using,
    screenHazards,  \* history: of Screen; those of TerminalIO are `hazards`
    mixed           \* history: what has torn the line and its echo apart

Display == INSTANCE Screen WITH
    TERMINAL_NUM <- T, Glyph <- Letter, hazards <- screenHazards

displayVars == <<screen, terminal_vid_mem, screen_x, screen_y, cursor, astray,
                 active, jammer, hotjam, page_table_video, using, screenHazards>>
lineVars    == <<keyboard, readers, typed, hazards>>
allVars     == <<lineVars, displayVars, curr_terminal_visible,
                 curr_terminal_executing, mixed>>

Mixed(cause, cond) == mixed' = mixed \cup Cause(cause, cond)

(* The cells the first n characters of a line take on the screen.          *)
Echoed(s, n) == n + (TAB - 1) * Cardinality({i \in 1 .. n : s[i] = "tab"})
Width(s)     == Echoed(s, Len(s))
Mark(c)      == IF c = "tab" THEN " " ELSE c

(* The line as it stands in the buffer, with the characters that did not   *)
(* fit.                                                                    *)
Buffered(t) == [i \in 1 .. key_count[t] |->
                  IF i <= B THEN keyboard_buffer[t][i - 1] ELSE typed[t][i]]

Ended(t) == \E i \in DOMAIN typed[t] : typed[t][i] = "nl"

-----------------------------------------------------------------------------
(* The terminals have been opened and cleared with Ctrl-L.                 *)
ConsoleInit ==
    /\ Init
    /\ Display!InitWith(Terminal, NUM_COLS)
    /\ mixed = {}

(* keyboard_handler, for a key with a character: it is counted, echoed and *)
(* goes into the line.  A backspace after a tab erases the tab in the line *)
(* and one of its blanks on the screen.                                    *)
ConsoleKey(c) ==
    LET now == typed[curr_terminal_visible] IN
    /\ Key(c)
    /\ IF c = "tab" THEN Display!TabEcho ELSE Display!KeyEcho(c)
    /\ Mixed("tab", c = "bs" /\ now # <<>> /\ now[Len(now)] = "tab")

(* Mutant: sum is left as it is.                                           *)
ConsoleCtrlL_KeepSum ==
    LET v == curr_terminal_visible IN
    /\ key_count' = [key_count EXCEPT ![v] = 0]
    /\ keyboard_buffer' = [keyboard_buffer EXCEPT ![v] = Empty]
    /\ typed' = [typed EXCEPT ![v] = <<>>]
    /\ UNCHANGED <<sum, enter, hazards, readers, mixed>>
    /\ Display!CtrlL

ConsoleCtrlL == CtrlL /\ Display!CtrlL /\ UNCHANGED mixed

(* Alt-F(t+1), which leaves sum what it was on the other terminal.         *)
ConsoleSwitch(t) ==
    /\ SwitchTo(t) /\ Display!switch_terminal(t)
    /\ Mixed("sum", sum # (IF Ended(t) THEN 0 ELSE Width(typed[t])))

ConsoleTick == /\ Tick /\ Display!Tick(curr_terminal_executing')
               /\ UNCHANGED mixed

-----------------------------------------------------------------------------
(* A program writes a character, perhaps into a line that is being typed   *)
(* at its terminal.                                                        *)
ConsoleWrite(t, c) ==
    /\ At(t, "user")
    /\ Display!write_terminal(c)
    /\ Mixed("output", typed[t] # <<>> /\ ~jammer /\ ~hotjam)
    /\ UNCHANGED lineVars

(* A step of read_terminal; the one that finds the newline clears jammer.  *)
ConsoleRead(t) ==
    /\ ReadStep(t) \/ \E n \in Sizes : Read(t, n)
    /\ IF pc'[t] = "spin" THEN Display!LineRead ELSE UNCHANGED displayVars
    /\ UNCHANGED mixed

ConsoleNext ==
    \/ \E c \in Char : ConsoleKey(c)
    \/ ConsoleCtrlL
    \/ \E t \in Terminal : ConsoleSwitch(t) \/ ConsoleRead(t)
    \/ \E t \in Terminal, c \in Letter \cup {"nl"} : ConsoleWrite(t, c)
    \/ ConsoleTick

ConsoleSpec == ConsoleInit /\ [][ConsoleNext]_allVars

-----------------------------------------------------------------------------
Clean == hazards = {} /\ screenHazards = {} /\ mixed = {}

(* The text ends, before cell `end`, with the echo of the line.            *)
EndsWith(text, end, s) ==
    LET first == end - Width(s) IN
    \A i \in 1 .. Len(s) :
        \A cell \in first + Echoed(s, i - 1) .. first + Echoed(s, i) - 1 :
            cell >= 0 => text[cell] = Mark(s[i])

(* What is on the screen, or on the page of a terminal that is not shown,  *)
(* in front of the next character is the line as it stands in the buffer,  *)
(* those of its characters the buffer has no room for included: the user   *)
(* sees what the program will get, through every backspace, wrapped line,  *)
(* scrolled screen and switch, unless program output, a tab that is erased *)
(* or another hazard tears them apart (keyboard.c:89-222).                 *)
LineShown ==
    Clean => \A t \in Terminal : ~Ended(t) =>
        EndsWith(IF t = curr_terminal_visible THEN screen
                 ELSE terminal_vid_mem[t],
                 NUM_COLS * screen_y[t] + screen_x[t], Buffered(t))

(* sum is the number of cells the unfinished line of the visible terminal  *)
(* takes on the screen, so backspace stops where the line begins and the   *)
(* prompt in front of it is never erased (keyboard.c:178-186).             *)
PromptKept ==
    (Clean /\ ~Ended(curr_terminal_visible)) =>
        sum = Width(Buffered(curr_terminal_visible))
=============================================================================
