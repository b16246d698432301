---------------------------- MODULE MCTerminalIO ----------------------------
(* Instances of TerminalIO for TLC.                                        *)
EXTENDS TerminalIO, FiniteSets

(* Bound: what follows a hazard is not explored.                           *)
StopAtHazard == hazards = {}

-----------------------------------------------------------------------------
(* What the comments say and the code does not do.                         *)

(* getChar: "if input is \b, reduce buffer size by 1 and keycount by 1":   *)
(* no backspace gets into a line (terminal.c:16).                          *)
BackspaceErases ==
    \A t \in Terminal : \A i \in DOMAIN keyboard_buffer[t] :
        keyboard_buffer[t][i] # "bs"

(* read_terminal returns the number of bytes it has stored, "returned is   *)
(* the bytes being returned" (terminal.c:106): said of the lines that end  *)
(* in the newline the user typed.                                          *)
ReturnsLength ==
    \A t \in Terminal :
        (pc[t] = "user" /\ nbytes[t] > B) => returned[t] = Len(buff[t])

(* nbytes is "the size of buffer in bytes" (system_call.c:346): read       *)
(* stores no more than that.                                               *)
FitsBuffer == \A t \in Terminal : Len(buff[t]) <= nbytes[t]

(* Sessions are separate (README.md:17): once a program has its line, the  *)
(* line was one typed at its own terminal.                                 *)
OwnLine ==
    [][ \A t \in Terminal :
          (hazards' \subseteq {"background"} /\ pc[t] = "spin" /\ pc'[t] = "user")
              => buff'[t] = typed[t] ]_vars
=============================================================================
