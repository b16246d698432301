----------------------------- MODULE TerminalIO -----------------------------
(***************************************************************************)
(* Line input: the keyboard handler that edits the line of the visible     *)
(* terminal (keyboard.c, getChar of terminal.c) and the programs that      *)
(* collect it with read_terminal, one program per terminal.                *)
(*                                                                         *)
(* read_terminal runs with interrupts enabled until it has found the end   *)
(* of the line and its terminal is the visible one: between any two of its *)
(* steps keys arrive, the user switches terminals and the timer passes the *)
(* CPU on, and every step looks curr_terminal_visible up again.            *)
(***************************************************************************)
EXTENDS Integers, Sequences

CONSTANTS
    T,          \* TERMINAL_NUM, all of them in use
    B,          \* the size of keyboard_buffer, 128 in the kernel
    Letter,     \* printable characters
    Sizes,      \* the nbytes programs read with
    TAB,        \* what a tab adds to sum, 4
    MaxKeys,    \* bound: no key is added to a line of this length
    MaxSum      \* bound: no key takes sum past this

ASSUME IOAssumption == /\ T \in Nat \ {0}
                       /\ B \in Nat /\ B >= 2
                       /\ Sizes \subseteq Nat
                       /\ TAB \in Nat
                       /\ MaxKeys \in Nat /\ MaxSum \in Nat
                       /\ Letter \cap {"nl", "bs", "tab", "NUL"} = {}

Terminal == 0 .. T - 1
Char     == Letter \cup {"nl", "bs", "tab"}

VARIABLES
    keyboard_buffer,            \* multi_terminal[t].keyboard_buffer
    key_count,                  \* multi_terminal[t].key_count
    enter,                      \* multi_terminal[t].enter
    sum,                        \* characters on the line, one for all terminals
    curr_terminal_visible,
    curr_terminal_executing,
    pc,         \* where the program of t is in read_terminal
    nbytes,     \* its argument
    buff,       \* what it has stored into the caller's buffer
    returned,   \* what it returns
    typed,      \* history: the line of t as the user has edited it
    hazards     \* history: the hazardous things that have happened

keyboard == <<keyboard_buffer, key_count, enter, sum>>
readers  == <<pc, nbytes, buff, returned>>
vars     == <<keyboard, curr_terminal_visible, curr_terminal_executing,
              readers, typed, hazards>>

Empty == [i \in 0 .. B - 1 |-> "NUL"]

(* Where a program is: not in read_terminal, waiting for the enter flag,   *)
(* copying, waiting to be the visible one, and after a line that was cut   *)
(* off, before each of the three resets.                                   *)
Places    == {"user", "wait", "copy", "spin", "enter", "count", "clear"}
Resetting == {"count", "clear"}

reading_task(t) == IF nbytes[t] < B - 1 THEN nbytes[t] ELSE B - 1

Cause(hazard, cond) == IF cond THEN {hazard} ELSE {}

(* The line of terminal t is complete and not yet taken off the buffer.    *)
Pending(t) == enter[t] \/ \E r \in Terminal : pc[r] \in Resetting

-----------------------------------------------------------------------------
(* All terminals are in use, nothing has been typed.                       *)
Init ==
    /\ keyboard_buffer = [t \in Terminal |-> Empty]
    /\ key_count = [t \in Terminal |-> 0]
    /\ enter = [t \in Terminal |-> FALSE]
    /\ sum = 0
    /\ curr_terminal_visible = 0
    /\ curr_terminal_executing = 0
    /\ pc = [t \in Terminal |-> "user"]
    /\ nbytes = [t \in Terminal |-> 0]
    /\ buff = [t \in Terminal |-> <<>>]
    /\ returned = [t \in Terminal |-> 0]
    /\ typed = [t \in Terminal |-> <<>>]
    /\ hazards = {}

-----------------------------------------------------------------------------
(* The line of the visible terminal gets `count` characters, c at `slot`.  *)
EditLine(enters, count, slot, c) ==
    LET v == curr_terminal_visible IN
    /\ enter' = [enter EXCEPT ![v] = @ \/ enters]
    /\ key_count' = [key_count EXCEPT ![v] = count]
    /\ keyboard_buffer' =
         [keyboard_buffer EXCEPT ![v] =
            [i \in 0 .. B - 1 |-> IF i = slot THEN c ELSE @[i]]]

NoSlot == -1

(* Mutant: the branch for a full buffer forgets enter.                     *)
getChar_FullNoEnter(input) ==
    LET k == key_count[curr_terminal_visible]
        erases == input = "bs" /\ k > 0
        slot == IF erases THEN k - 1 ELSE k IN
    EditLine(input = "nl" /\ k < B,
             IF erases THEN k - 1 ELSE k + 1,
             IF k < B THEN slot ELSE NoSlot,
             IF erases THEN "NUL" ELSE input)

(* getChar: edits the line of the visible terminal.  Characters past the   *)
(* end of the buffer are counted but not stored, and a backspace on an     *)
(* empty line is stored like any other character.                          *)
getChar(input) ==
    LET k == key_count[curr_terminal_visible]
        erases == input = "bs" /\ k > 0
        slot == IF erases THEN k - 1 ELSE k IN
    EditLine(input = "nl",
             IF erases THEN k - 1 ELSE k + 1,
             IF k < B THEN slot ELSE NoSlot,
             IF erases THEN "NUL" ELSE input)

(* The line as the user has edited it.                                     *)
Edit(line, input) ==
    IF input # "bs" THEN Append(line, input)
    ELSE IF line = <<>> THEN line ELSE SubSeq(line, 1, Len(line) - 1)

(* A key that reaches getChar.  A letter counts one in sum, a tab TAB;     *)
(* enter starts a new line; backspace is ignored when sum is 0.            *)
Key(input) ==
    LET v == curr_terminal_visible IN
    /\ input # "bs" => key_count[v] < MaxKeys
    /\ sum' = CASE input \in Letter -> sum + 1
                [] input = "tab"     -> sum + TAB
                [] input = "nl"     -> 0
                [] input = "bs"     -> sum - 1
    /\ sum' \in 0 .. MaxSum
    /\ getChar(input)
    /\ typed' = [typed EXCEPT ![v] = Edit(@, input)]
    /\ hazards' = hazards \cup Cause("ahead", Pending(v))
                          \cup Cause("sum", input = "bs" /\ key_count[v] = 0)
    /\ UNCHANGED <<curr_terminal_visible, curr_terminal_executing, readers>>

(* Ctrl-L: open_terminal forgets the line, but not that enter was pressed. *)
CtrlL ==
    LET v == curr_terminal_visible IN
    /\ sum' = 0
    /\ key_count' = [key_count EXCEPT ![v] = 0]
    /\ keyboard_buffer' = [keyboard_buffer EXCEPT ![v] = Empty]
    /\ typed' = [typed EXCEPT ![v] = <<>>]
    /\ hazards' = hazards \cup Cause("ahead", Pending(v))
    /\ UNCHANGED <<enter, curr_terminal_visible, curr_terminal_executing,
                   readers>>

(* Alt-F(t+1): switch_terminal.                                            *)
SwitchTo(t) ==
    /\ t # curr_terminal_visible
    /\ curr_terminal_visible' = t
    /\ hazards' = hazards \cup
          Cause("switch", \E r \in Terminal : pc[r] \in Places \ {"user", "wait", "spin"})
    /\ UNCHANGED <<keyboard, curr_terminal_executing, readers, typed>>

(* PIT_handler.                                                            *)
Tick ==
    /\ curr_terminal_executing' = (curr_terminal_executing + 1) % T
    /\ UNCHANGED <<keyboard, curr_terminal_visible, readers, typed, hazards>>

-----------------------------------------------------------------------------
(* read_terminal, called by the program of terminal t with nbytes = n.     *)
At(t, place) == curr_terminal_executing = t /\ pc[t] = place
Goto(t, place) == pc' = [pc EXCEPT ![t] = place]

Read(t, n) ==
    /\ At(t, "user") /\ Goto(t, "wait")
    /\ nbytes' = [nbytes EXCEPT ![t] = n]
    /\ buff' = [buff EXCEPT ![t] = <<>>]
    /\ returned' = [returned EXCEPT ![t] = 0]
    /\ UNCHANGED <<keyboard, curr_terminal_visible, curr_terminal_executing,
                   typed, hazards>>

(* It waits for the enter flag of the visible terminal, whichever that is. *)
SeeEnter(t) ==
    /\ At(t, "wait") /\ Goto(t, "copy")
    /\ enter[curr_terminal_visible]
    /\ hazards' = hazards
                    \cup Cause("background", t # curr_terminal_visible)
    /\ UNCHANGED <<keyboard, curr_terminal_visible, curr_terminal_executing,
                   nbytes, buff, returned, typed>>

(* One turn of the copying loop.                                           *)
Copy(t) ==
    LET c == keyboard_buffer[curr_terminal_visible][Len(buff[t])] IN
    /\ At(t, "copy")
    /\ Len(buff[t]) < reading_task(t)
    /\ buff' = [buff EXCEPT ![t] = Append(@, c)]
    /\ returned' = [returned EXCEPT ![t] = @ + 1]
    /\ IF c = "nl" THEN Goto(t, "spin") ELSE UNCHANGED pc
    /\ UNCHANGED <<keyboard, curr_terminal_visible, curr_terminal_executing,
                   nbytes, typed, hazards>>

(* The correction of a length of 127.                                      *)
Corrected(r) == IF r = B - 1 THEN r + 1 ELSE r

ResetLine(v) ==
    /\ enter' = [enter EXCEPT ![v] = FALSE]
    /\ key_count' = [key_count EXCEPT ![v] = 0]
    /\ keyboard_buffer' = [keyboard_buffer EXCEPT ![v] = Empty]

(* Mutants: the line is reset without waiting to be the visible terminal;  *)
(* the key count is not reset.                                             *)
Finish_NoWait(t) ==
    /\ At(t, "spin") /\ Goto(t, "user")
    /\ ResetLine(curr_terminal_visible)
    /\ typed' = [typed EXCEPT ![curr_terminal_visible] = <<>>]
    /\ returned' = [returned EXCEPT ![t] = Corrected(@)]
    /\ UNCHANGED <<sum, curr_terminal_visible, curr_terminal_executing,
                   nbytes, buff, hazards>>

Finish_KeepCount(t) ==
    /\ At(t, "spin") /\ Goto(t, "user")
    /\ curr_terminal_visible = t
    /\ enter' = [enter EXCEPT ![t] = FALSE]
    /\ keyboard_buffer' = [keyboard_buffer EXCEPT ![t] = Empty]
    /\ typed' = [typed EXCEPT ![t] = <<>>]
    /\ returned' = [returned EXCEPT ![t] = Corrected(@)]
    /\ UNCHANGED <<key_count, sum, curr_terminal_visible,
                   curr_terminal_executing, nbytes, buff, hazards>>

(* The end of the line was found: once the terminal is the visible one,    *)
(* the rest of read_terminal runs with interrupts disabled.                *)
Finish(t) ==
    /\ At(t, "spin") /\ Goto(t, "user")
    /\ curr_terminal_visible = t
    /\ ResetLine(t)
    /\ typed' = [typed EXCEPT ![t] = <<>>]
    /\ returned' = [returned EXCEPT ![t] = Corrected(@)]
    /\ UNCHANGED <<sum, curr_terminal_visible, curr_terminal_executing,
                   nbytes, buff, hazards>>

(* The line is longer than the buffer: a newline is stored after its first *)
(* reading_task characters, and counted unless the byte there already was  *)
(* one.  The three resets that follow can be interrupted.                  *)
Cut(t) ==
    LET task == reading_task(t) IN
    /\ At(t, "copy") /\ Goto(t, "enter")
    /\ Len(buff[t]) = task
    /\ IF task = 0 THEN UNCHANGED <<buff, returned>>
       ELSE /\ buff' = [buff EXCEPT ![t] = Append(@, "nl")]
            /\ \E stored \in 0 .. 1 :
                  returned' = [returned EXCEPT ![t] = @ + stored]
    /\ UNCHANGED <<keyboard, curr_terminal_visible, curr_terminal_executing,
                   nbytes, typed, hazards>>

ResetEnter(t) ==
    /\ At(t, "enter") /\ Goto(t, "count")
    /\ enter' = [enter EXCEPT ![curr_terminal_visible] = FALSE]
    /\ UNCHANGED <<keyboard_buffer, key_count, sum, curr_terminal_visible,
                   curr_terminal_executing, nbytes, buff, returned, typed,
                   hazards>>

ResetCount(t) ==
    /\ At(t, "count") /\ Goto(t, "clear")
    /\ key_count' = [key_count EXCEPT ![curr_terminal_visible] = 0]
    /\ UNCHANGED <<keyboard_buffer, enter, sum, curr_terminal_visible,
                   curr_terminal_executing, nbytes, buff, returned, typed,
                   hazards>>

Clear(t) ==
    /\ At(t, "clear") /\ Goto(t, "user")
    /\ keyboard_buffer' =
          [keyboard_buffer EXCEPT ![curr_terminal_visible] = Empty]
    /\ typed' = [typed EXCEPT ![curr_terminal_visible] = <<>>]
    /\ returned' = [returned EXCEPT ![t] = Corrected(@)]
    /\ UNCHANGED <<key_count, enter, sum, curr_terminal_visible,
                   curr_terminal_executing, nbytes, buff, hazards>>

-----------------------------------------------------------------------------
ReadStep(t) == SeeEnter(t) \/ Copy(t) \/ Finish(t) \/ Cut(t)
                   \/ ResetEnter(t) \/ ResetCount(t) \/ Clear(t)

Next ==
    \/ \E input \in Char : Key(input)
    \/ CtrlL
    \/ \E t \in Terminal : SwitchTo(t)
    \/ Tick
    \/ \E t \in Terminal : \/ \E n \in Sizes : Read(t, n)
                           \/ ReadStep(t)

Spec == Init /\ [][Next]_vars

(* The timer ticks, and leaves a program that can go on time to go on.     *)
FairSpec == Spec /\ WF_vars(Tick) /\ \A t \in Terminal : SF_vars(ReadStep(t))

-----------------------------------------------------------------------------
TypeOK ==
    /\ keyboard_buffer \in [Terminal -> [0 .. B - 1 -> Char \cup {"NUL"}]]
    /\ key_count \in [Terminal -> Nat]
    /\ enter \in [Terminal -> BOOLEAN]
    /\ sum \in Nat
    /\ curr_terminal_visible \in Terminal
    /\ curr_terminal_executing \in Terminal
    /\ pc \in [Terminal -> Places]
    /\ nbytes \in [Terminal -> Nat]
    /\ buff \in [Terminal -> Seq(Char \cup {"NUL"})]
    /\ returned \in [Terminal -> Nat]
    /\ typed \in [Terminal -> Seq(Char)]
    /\ hazards \subseteq {"ahead", "sum", "background", "switch"}

(* As long as no key arrives while a line waits to be read, no backspace   *)
(* hits an empty line, no program reads in the background and none is      *)
(* switched away from while it copies, the buffer holds the line on the    *)
(* screen: every character that fits, at its place, and the length of all  *)
(* of it, whatever was typed past the end and erased again                 *)
(* (terminal.c:10-36).                                                     *)
BufferHoldsLine ==
    (hazards = {} /\ \A r \in Terminal : pc[r] \notin Resetting) =>
        \A t \in Terminal :
            /\ key_count[t] = Len(typed[t])
            /\ \A i \in 1 .. Len(typed[t]) :
                  i <= B => keyboard_buffer[t][i - 1] = typed[t][i]

(* Under the same condition read_terminal delivers to a program the line   *)
(* typed at its own terminal as it was edited, the first reading_task      *)
(* characters and a newline if it is longer (terminal.c:104-143).          *)
Expected(line, task) ==
    IF Len(line) <= task THEN line
    ELSE IF task = 0 THEN <<>>
    ELSE Append(SubSeq(line, 1, task), "nl")

LineIsTyped ==
    [][ \A t \in Terminal :
          (hazards' = {} /\ pc[t] \in {"spin", "clear"} /\ pc'[t] = "user") =>
              buff'[t] = Expected(typed[t], reading_task(t)) ]_vars

(* A line that is entered at the visible terminal while its program waits  *)
(* for one is delivered, unless the user turns to another terminal or one  *)
(* of the hazards strikes: no interleaving with the timer loses the        *)
(* wake-up (terminal.c:104-117).                                           *)
LineDelivered ==
    \A t \in Terminal :
        ("nl" \in {typed[t][i] : i \in DOMAIN typed[t]} /\ pc[t] = "wait"
             /\ curr_terminal_visible = t)
            ~> (pc[t] = "user" \/ curr_terminal_visible # t \/ hazards # {})
=============================================================================
