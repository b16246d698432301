------------------------------ MODULE Keyboard ------------------------------
(***************************************************************************)
(* keyboard_handler (keyboard.c) as a decoder: it turns the scan codes the *)
(* keyboard sends into characters and commands, with the modifiers it      *)
(* remembers between two interrupts.  What becomes of a character is in    *)
(* TerminalIO, Screen and Console.                                         *)
(***************************************************************************)
EXTENDS Integers, FiniteSets

CONSTANTS
    LetterKey,      \* keys of letters, "l" for Ctrl-L among them or not
    OtherKey        \* keys of other printable characters

Shifts   == {"LShift", "RShift"}
Modifier == Shifts \cup {"Ctrl", "Alt", "CapsLock"}
Key      == LetterKey \cup OtherKey \cup Modifier \cup {"Tab", "F1"}

(* A key of the tables of characters is no other one.                      *)
ASSUME KeyAssumption ==
    (LetterKey \cup OtherKey) \cap (Modifier \cup {"Tab", "F1"}) = {}

VARIABLES shift, ctrl, alt, cap, cap_ready

flags == <<shift, ctrl, alt, cap, cap_ready>>

(* What a scan code amounts to: a character, the upper one of its key or   *)
(* not, or a command; F1 and CapsLock have characters in lookupcodes too.  *)
Nothing    == [key |-> "none", upper |-> FALSE]
Command(c) == [key |-> c, upper |-> FALSE]

InitFlags ==
    /\ shift = FALSE /\ ctrl = FALSE /\ alt = FALSE
    /\ cap = FALSE /\ cap_ready = TRUE

(* Mutant: caps lock and shift together give a capital letter.             *)
Character_Or(k) ==
    [key |-> k, upper |-> IF k \in LetterKey THEN cap \/ shift ELSE shift]

(* Capital letters with either caps lock or shift; shifthelper for others. *)
Character(k) ==
    [key |-> k, upper |-> IF k \in LetterKey THEN cap # shift ELSE shift]

(* A code below 0x80.  The second code of a CapsLock that is held, and F1  *)
(* without Alt, get as far as the table of characters.                     *)
Pressed(k, out) ==
    LET toggles == k = "CapsLock" /\ cap_ready IN
    /\ shift' = (shift \/ k \in Shifts)
    /\ ctrl' = (ctrl \/ k = "Ctrl")
    /\ alt' = (alt \/ k = "Alt")
    /\ cap' = (cap # toggles)
    /\ cap_ready' = (cap_ready /\ ~toggles)
    /\ out = CASE k = "l" /\ ctrl        -> Command("clear")
               [] k = "Tab"              -> Command("tab")
               [] k = "F1" /\ alt        -> Command("switch")
               [] k \in Modifier /\ (k = "CapsLock" => toggles) -> Nothing
               [] OTHER                  -> Character(k)

(* Mutant: Alt stays pressed.                                              *)
Released_AltStays(k) ==
    /\ shift' = (shift /\ k \notin Shifts)
    /\ ctrl' = (ctrl /\ k # "Ctrl")
    /\ cap_ready' = (cap_ready \/ k = "CapsLock")
    /\ UNCHANGED <<cap, alt>>

(* A code from 0x80 on.                                                    *)
Released(k) ==
    /\ shift' = (shift /\ k \notin Shifts)
    /\ ctrl' = (ctrl /\ k # "Ctrl")
    /\ alt' = (alt /\ k # "Alt")
    /\ cap_ready' = (cap_ready \/ k = "CapsLock")
    /\ UNCHANGED cap
=============================================================================
