------------------------------- MODULE Texts -------------------------------
(***************************************************************************)
(* What the display promises: every terminal has a text of its own, as     *)
(* wide and as high as the screen, and a position in it.  Characters are   *)
(* written one after the other, whether the terminal is shown or not; a    *)
(* text that runs over its end moves up by a line.  Showing another        *)
(* terminal changes no text.  A display that is not `intact` any more      *)
(* promises nothing.                                                       *)
(***************************************************************************)
EXTENDS Integers

CONSTANTS Term, Width, Height, Tab, Char

VARIABLES
    text,       \* of each terminal, its cells
    at,         \* and the cell that is written next
    shown,      \* the terminal on the screen
    intact

vars == <<text, at, shown, intact>>

Cell  == 0 .. Width * Height - 1
Blank == [c \in Cell |-> " "]

(* The cell that is written after cell p once s has been written at p.     *)
After(p, s) == CASE s = "nl" -> (p \div Width + 1) * Width
                 [] s = "bs" -> p - 1
                 [] s = "tab" -> p + Tab
                 [] OTHER -> p + 1

(* s is written at p, then the text moves up until cell q is in it.        *)
Write(cells, p, s, q) ==
    LET up == IF q \in Cell THEN 0 ELSE ((q \div Width) - Height + 1) * Width
        wet == CASE s = "nl"  -> [i \in {} |-> " "]
                 [] s = "bs"  -> [i \in {q} |-> " "]
                 [] s = "tab" -> [i \in p .. q - 1 |-> " "]
                 [] OTHER     -> [i \in {p} |-> s]
    IN [c \in Cell |-> IF c + up \in DOMAIN wet THEN wet[c + up]
                       ELSE IF c + up \in Cell THEN cells[c + up] ELSE " "]

Init ==
    /\ text = [t \in Term |-> Blank]
    /\ at = [t \in Term |-> 0]
    /\ shown \in Term
    /\ intact = TRUE

Emit(t, s) ==
    LET q == After(at[t], s) IN
    /\ intact /\ q >= 0
    /\ text' = [text EXCEPT ![t] = Write(@, at[t], s, q)]
    /\ at' = [at EXCEPT ![t] =
                IF q \in Cell THEN q ELSE (Height - 1) * Width + (q % Width)]
    /\ UNCHANGED <<shown, intact>>

Wipe ==
    /\ intact
    /\ text' = [text EXCEPT ![shown] = Blank]
    /\ at' = [at EXCEPT ![shown] = 0]
    /\ UNCHANGED <<shown, intact>>

(* A program draws into a cell of its terminal's text.                     *)
Draw(t, c, s) ==
    /\ intact
    /\ text' = [text EXCEPT ![t][c] = s]
    /\ UNCHANGED <<at, shown, intact>>

Show(t) ==
    /\ intact
    /\ shown' = t
    /\ UNCHANGED <<text, at, intact>>

(* The texts may become anything.                                          *)
Break == intact' = FALSE

Next == \/ \E t \in Term, s \in Char \cup {"nl", "bs", "tab"} : Emit(t, s)
        \/ Wipe
        \/ \E t \in Term, c \in Cell, s \in Char : Draw(t, c, s)
        \/ \E t \in Term : Show(t)
        \/ Break

Spec == Init /\ [][Next]_vars
=============================================================================
