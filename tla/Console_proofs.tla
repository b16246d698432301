-------------------------- MODULE Console_proofs --------------------------
(***************************************************************************)
(* Proofs about the line a user types (TerminalIO) and about its echo on   *)
(* the screen (Console), for any number of terminals, any size of buffer   *)
(* and screen, and any line.                                               *)
(*                                                                         *)
(* The buffer holds the line and read_terminal delivers it.  Neither is    *)
(* inductive: the invariant says of each terminal, as long as no hazard    *)
(* has struck, who may touch its line.  A program between the flag and the *)
(* last reset has its terminal on the screen, and the enter flag is up     *)
(* until it resets it, so that no key gets into the line; a newline is the *)
(* last character of a line, and there is one just when the line is        *)
(* complete; and what a program has copied is the beginning of the line,   *)
(* short of its newline.                                                   *)
(*                                                                         *)
(* The screen shows that line.  A key edits line and text alike: Texts, of *)
(* which Screen_proofs shows Screen to be an implementation, says what its *)
(* echo does to the cells, and a line that ended the text before still     *)
(* ends it, however far the text has moved up.                             *)
(***************************************************************************)
EXTENDS Console, SequenceTheorems, FiniteSetTheorems, TLAPS

Busy    == {"copy", "enter", "count", "clear"}
Holding == {"copy", "spin", "enter"}

(* The line is complete, or taken and not yet forgotten.                   *)
Entered(t) == enter[t] \/ pc[t] \in Resetting

(* The buffer holds the line; its length is lost one reset before it is.   *)
Held(t) ==
    /\ key_count[t] = IF pc[t] = "clear" THEN 0 ELSE Len(typed[t])
    /\ \A i \in 1 .. Len(typed[t]) :
          i <= B => keyboard_buffer[t][i - 1] = typed[t][i]

(* A newline ends the line, and ends it only once it is entered.           *)
Ends(t) ==
    /\ Entered(t) => /\ typed[t] # <<>>
                     /\ typed[t][Len(typed[t])] = "nl"
    /\ \A i \in 1 .. Len(typed[t]) :
          typed[t][i] = "nl" => i = Len(typed[t]) /\ Entered(t)

(* What the program of t has stored.                                       *)
Taken(t) ==
    /\ pc[t] = "wait" => buff[t] = <<>>
    /\ pc[t] = "copy" =>
          /\ Len(buff[t]) < Len(typed[t])
          /\ Len(buff[t]) <= reading_task(t)
          /\ \A i \in 1 .. Len(buff[t]) : buff[t][i] = typed[t][i]
    /\ pc[t] = "spin" => /\ buff[t] = typed[t]
                         /\ Len(typed[t]) <= reading_task(t)
    /\ pc[t] \in {"enter", "count", "clear"} =>
          buff[t] = Expected(typed[t], reading_task(t))

InOrder(t) ==
    /\ pc[t] \in Busy => t = curr_terminal_visible
    /\ pc[t] \in Holding => enter[t]
    /\ pc[t] \in Resetting => ~enter[t]
    /\ Held(t) /\ Ends(t) /\ Taken(t)

Calm == hazards = {} => \A t \in Terminal : InOrder(t)

IInv == TypeOK /\ Calm

-----------------------------------------------------------------------------
(* What read_terminal copies fits both the caller's count and the buffer.  *)
LEMMA TaskFits ==
    ASSUME TypeOK, NEW t \in Terminal
    PROVE  reading_task(t) \in Nat /\ reading_task(t) <= B - 1
  BY IOAssumption DEF reading_task, TypeOK

(* The first n characters of a line.                                       *)
LEMMA Prefix ==
    ASSUME NEW S, NEW s \in Seq(S), NEW n \in 0 .. Len(s)
    PROVE  /\ SubSeq(s, 1, n) \in Seq(S) /\ Len(SubSeq(s, 1, n)) = n
           /\ \A i \in 1 .. n : SubSeq(s, 1, n)[i] = s[i]
<1> DEFINE sub == SubSeq(s, 1, n)
<1>1. \A i \in 1 .. n : s[i] \in S
  BY ElementOfSeq
<1>2. /\ sub \in Seq(S)
      /\ Len(sub) = IF 1 <= n THEN n - 1 + 1 ELSE 0
      /\ \A i \in 1 .. n - 1 + 1 : sub[i] = s[1 + i - 1]
  BY <1>1, SubSeqProperties
<1> HIDE DEF sub
<1>3. Len(sub) = n /\ \A i \in 1 .. n : sub[i] = s[i]
  BY <1>2
<1> QED BY <1>2, <1>3 DEF sub

(* A key appends itself to the line, a backspace takes the last one off.   *)
LEMMA Editing ==
    ASSUME NEW line \in Seq(Char), NEW input \in Char
    PROVE  /\ Edit(line, input) \in Seq(Char)
           /\ input # "bs" =>
                /\ Len(Edit(line, input)) = Len(line) + 1
                /\ \A i \in 1 .. Len(line) : Edit(line, input)[i] = line[i]
                /\ Edit(line, input)[Len(line) + 1] = input
           /\ (input = "bs" /\ Len(line) > 0) =>
                /\ Len(Edit(line, input)) = Len(line) - 1
                /\ \A i \in 1 .. Len(line) - 1 : Edit(line, input)[i] = line[i]
<1>1. CASE input # "bs"
  BY <1>1, AppendProperties DEF Edit
<1>2. CASE input = "bs" /\ line = <<>>
  BY <1>2 DEF Edit
<1>3. CASE input = "bs" /\ line # <<>>
  <2>1. Len(line) \in Nat \ {0}
    BY <1>3, EmptySeq
  <2>2. Len(line) - 1 \in 0 .. Len(line)
    BY <2>1
  <2>3. Edit(line, input) = SubSeq(line, 1, Len(line) - 1)
    BY <1>3 DEF Edit
  <2> QED BY <1>3, <2>1, <2>2, <2>3, Prefix
<1> QED BY <1>1, <1>2, <1>3

-----------------------------------------------------------------------------
LEMMA InitType == Init => TypeOK
<1> SUFFICES ASSUME Init PROVE TypeOK
  OBVIOUS
<1>1. 0 \in Terminal /\ <<>> \in Seq(Char) /\ <<>> \in Seq(Char \cup {"NUL"})
  BY IOAssumption DEF Terminal
<1> QED BY <1>1 DEF Init, TypeOK, Empty, Places

(* A key keeps the types: the count goes below 0 on no line.               *)
LEMMA KeyType ==
    ASSUME TypeOK, NEW input \in Char, Key(input) PROVE TypeOK'
<1> DEFINE v == curr_terminal_visible
           k == key_count[v]
           erases == input = "bs" /\ k > 0
           slot == IF erases THEN k - 1 ELSE k
<1>1. v \in Terminal /\ k \in Nat /\ typed[v] \in Seq(Char)
  BY DEF TypeOK
<1>2. EditLine(input = "nl", IF erases THEN k - 1 ELSE k + 1,
               IF k < B THEN slot ELSE NoSlot, IF erases THEN "NUL" ELSE input)
  BY DEF Key, getChar
<1>3. enter' \in [Terminal -> BOOLEAN] /\ key_count' \in [Terminal -> Nat]
  BY <1>1, <1>2 DEF EditLine, TypeOK
<1>4. keyboard_buffer' \in [Terminal -> [0 .. B - 1 -> Char \cup {"NUL"}]]
  BY <1>1, <1>2 DEF EditLine, TypeOK
<1>5. typed' \in [Terminal -> Seq(Char)]
  BY <1>1, Editing DEF Key, TypeOK
<1>6. sum' \in Nat
  <2>1. sum' \in 0 .. MaxSum
    BY DEF Key
  <2> QED BY <2>1, IOAssumption
<1>7. hazards' \subseteq {"ahead", "sum", "background", "switch"}
  BY DEF Key, Cause, TypeOK
<1> QED BY <1>3, <1>4, <1>5, <1>6, <1>7 DEF Key, TypeOK, readers

LEMMA StepType == TypeOK /\ [Next]_vars => TypeOK'
<1> SUFFICES ASSUME TypeOK, [Next]_vars PROVE TypeOK'
  OBVIOUS
<1> USE DEF TypeOK
<1>1. ASSUME NEW input \in Char, Key(input) PROVE TypeOK'
  BY <1>1, KeyType
<1>2. CASE CtrlL
  <2> DEFINE v == curr_terminal_visible
  <2>1. v \in Terminal /\ <<>> \in Seq(Char)
        /\ Empty \in [0 .. B - 1 -> Char \cup {"NUL"}]
    BY DEF Empty
  <2>2. key_count' \in [Terminal -> Nat] /\ sum' \in Nat
    BY <1>2 DEF CtrlL
  <2>3. keyboard_buffer' \in [Terminal -> [0 .. B - 1 -> Char \cup {"NUL"}]]
    BY <1>2, <2>1 DEF CtrlL
  <2>4. typed' \in [Terminal -> Seq(Char)]
    BY <1>2, <2>1 DEF CtrlL
  <2>5. hazards' \subseteq {"ahead", "sum", "background", "switch"}
    BY <1>2 DEF CtrlL, Cause
  <2>6. UNCHANGED <<enter, curr_terminal_visible, curr_terminal_executing, pc,
                    nbytes, buff, returned>>
    BY <1>2 DEF CtrlL, readers
  <2> QED BY <2>2, <2>3, <2>4, <2>5, <2>6
<1>3. ASSUME NEW t \in Terminal, SwitchTo(t) PROVE TypeOK'
  BY <1>3 DEF SwitchTo, Cause, keyboard, readers
<1>4. CASE Tick
  <2>1. curr_terminal_executing' \in Terminal
    BY <1>4, IOAssumption DEF Tick, Terminal
  <2> QED BY <1>4, <2>1 DEF Tick, keyboard, readers
<1>5. ASSUME NEW t \in Terminal, NEW n \in Sizes, Read(t, n) PROVE TypeOK'
  <2>1. nbytes' \in [Terminal -> Nat] /\ returned' \in [Terminal -> Nat]
    BY <1>5, IOAssumption DEF Read
  <2>2. buff' \in [Terminal -> Seq(Char \cup {"NUL"})]
    <3>1. <<>> \in Seq(Char \cup {"NUL"})
      OBVIOUS
    <3> QED BY <1>5, <3>1 DEF Read
  <2> QED BY <1>5, <2>1, <2>2 DEF Read, Goto, Places, keyboard
<1>6. ASSUME NEW t \in Terminal, SeeEnter(t) PROVE TypeOK'
  BY <1>6 DEF SeeEnter, Goto, Places, Cause, keyboard
<1>7. ASSUME NEW t \in Terminal, Copy(t) PROVE TypeOK'
  <2> DEFINE c == keyboard_buffer[curr_terminal_visible][Len(buff[t])]
  <2>1. Len(buff[t]) \in 0 .. B - 1
    <3>1. Len(buff[t]) \in Nat /\ Len(buff[t]) < reading_task(t)
      BY <1>7 DEF Copy
    <3>2. reading_task(t) \in Nat /\ reading_task(t) <= B - 1
      BY TaskFits
    <3> QED BY <3>1, <3>2, IOAssumption
  <2>2. c \in Char \cup {"NUL"}
    <3>1. keyboard_buffer[curr_terminal_visible]
             \in [0 .. B - 1 -> Char \cup {"NUL"}]
      OBVIOUS
    <3> QED BY <2>1, <3>1
  <2>3. buff' \in [Terminal -> Seq(Char \cup {"NUL"})]
    BY <1>7, <2>2, AppendProperties DEF Copy
  <2>4. returned' \in [Terminal -> Nat]
    <3>1. returned' = [returned EXCEPT ![t] = returned[t] + 1]
      BY <1>7 DEF Copy
    <3>2. returned[t] + 1 \in Nat
      OBVIOUS
    <3> QED BY <3>1, <3>2
  <2>5. pc' \in [Terminal -> Places]
    BY <1>7 DEF Copy, Goto, Places
  <2> QED BY <1>7, <2>3, <2>4, <2>5 DEF Copy, keyboard
<1>8. ASSUME NEW t \in Terminal, Finish(t) PROVE TypeOK'
  <2>1. <<>> \in Seq(Char)
    OBVIOUS
  <2>2. returned' \in [Terminal -> Nat]
    BY <1>8 DEF Finish, Corrected
  <2> QED BY <1>8, <2>1, <2>2 DEF Finish, ResetLine, Goto, Places, Empty
<1>9. ASSUME NEW t \in Terminal, Cut(t) PROVE TypeOK'
  <2>1. "nl" \in Char \cup {"NUL"}
    BY DEF Char
  <2>2. buff' \in [Terminal -> Seq(Char \cup {"NUL"})]
    <3>1. Append(buff[t], "nl") \in Seq(Char \cup {"NUL"})
      BY <2>1, AppendProperties
    <3> QED BY <1>9, <3>1 DEF Cut
  <2>3. returned' \in [Terminal -> Nat]
    <3>1. PICK stored \in 0 .. 1 :
             returned' = [returned EXCEPT ![t] = returned[t] + stored]
      BY <1>9 DEF Cut
    <3>2. returned[t] + stored \in Nat
      OBVIOUS
    <3> QED BY <3>1, <3>2
  <2> QED BY <1>9, <2>2, <2>3 DEF Cut, Goto, Places, keyboard
<1>10. ASSUME NEW t \in Terminal, ResetEnter(t) \/ ResetCount(t) PROVE TypeOK'
  <2>1. CASE ResetEnter(t)
    BY <2>1 DEF ResetEnter, Goto, Places
  <2>2. CASE ResetCount(t)
    BY <2>2 DEF ResetCount, Goto, Places
  <2> QED BY <1>10, <2>1, <2>2
<1>11. ASSUME NEW t \in Terminal, Clear(t) PROVE TypeOK'
  <2>1. <<>> \in Seq(Char)
    OBVIOUS
  <2>2. returned' \in [Terminal -> Nat]
    BY <1>11 DEF Clear, Corrected
  <2> QED BY <1>11, <2>1, <2>2 DEF Clear, Goto, Places, Empty
<1>12. CASE UNCHANGED vars
  BY <1>12 DEF vars, keyboard, readers
<1> QED BY <1>1, <1>2, <1>3, <1>4, <1>5, <1>6, <1>7, <1>8, <1>9, <1>10, <1>11,
           <1>12 DEF Next, ReadStep

-----------------------------------------------------------------------------
(* A step that does not touch the line of t, nor its program, nor takes t  *)
(* off the screen while the program is busy with the line.                 *)
LEMMA Untouched ==
    ASSUME NEW t \in Terminal, InOrder(t),
           enter'[t] = enter[t], key_count'[t] = key_count[t],
           keyboard_buffer'[t] = keyboard_buffer[t], typed'[t] = typed[t],
           pc'[t] = pc[t], nbytes'[t] = nbytes[t], buff'[t] = buff[t],
           pc[t] \in Busy => t = curr_terminal_visible'
    PROVE  InOrder(t)'
  BY DEF InOrder, Held, Ends, Taken, Entered, reading_task

(* A key that is not typed ahead finds a line nobody is busy with, that    *)
(* ends in no newline: it is edited alike on the screen and in the buffer. *)
LEMMA KeyCalm ==
    ASSUME TypeOK, \A t \in Terminal : InOrder(t),
           NEW input \in Char, Key(input), hazards' = {},
           NEW v \in Terminal, v = curr_terminal_visible
    PROVE  \A t \in Terminal : InOrder(t)'
<1> DEFINE k == key_count[v]
           erases == input = "bs" /\ k > 0
           slot == IF erases THEN k - 1 ELSE k
<1>1. k \in Nat /\ typed[v] \in Seq(Char)
      /\ keyboard_buffer[v] \in [0 .. B - 1 -> Char \cup {"NUL"}]
      /\ pc[v] \in Places
  BY DEF TypeOK
<1>2. EditLine(input = "nl", IF erases THEN k - 1 ELSE k + 1,
               IF k < B THEN slot ELSE NoSlot, IF erases THEN "NUL" ELSE input)
  BY DEF Key, getChar
<1>3. /\ typed' = [typed EXCEPT ![v] = Edit(@, input)]
      /\ UNCHANGED <<curr_terminal_visible, pc, nbytes, buff>>
      /\ ~Pending(v) /\ (input = "bs" => k # 0)
  BY DEF Key, readers, Cause
<1>4. \A t \in Terminal : t # v => InOrder(t)'
  <2> SUFFICES ASSUME NEW t \in Terminal, t # v PROVE InOrder(t)'
    OBVIOUS
  <2>1. /\ enter'[t] = enter[t] /\ key_count'[t] = key_count[t]
        /\ keyboard_buffer'[t] = keyboard_buffer[t]
    BY <1>2 DEF EditLine, TypeOK
  <2>2. typed'[t] = typed[t]
    BY <1>3 DEF TypeOK
  <2> QED BY <1>3, <2>1, <2>2, Untouched DEF InOrder
<1>5. ~enter[v] /\ pc[v] \in {"user", "wait"}
  <2>1. ~enter[v] /\ pc[v] \notin Resetting
    BY <1>1, <1>3 DEF Pending
  <2> QED BY <1>1, <2>1 DEF InOrder, Holding, Resetting, Places
<1>6. /\ k = Len(typed[v])
      /\ \A i \in 1 .. k : i <= B => keyboard_buffer[v][i - 1] = typed[v][i]
      /\ \A i \in 1 .. k : typed[v][i] # "nl"
  BY <1>1, <1>5 DEF InOrder, Held, Ends, Entered, Resetting
<1>7. pc'[v] \in {"user", "wait"} /\ Taken(v)'
  BY <1>3, <1>5 DEF InOrder, Taken
<1> DEFINE line  == typed[v]
           line2 == typed'[v]
           buf   == keyboard_buffer[v]
           buf2  == keyboard_buffer'[v]
<1>8. /\ enter'[v] = (input = "nl")
      /\ key_count'[v] = IF erases THEN k - 1 ELSE k + 1
      /\ line2 = Edit(line, input)
  BY <1>1, <1>2, <1>3, <1>5 DEF EditLine, TypeOK
<1>9. \A i \in 0 .. B - 1 :
         buf2[i] = IF i = (IF k < B THEN slot ELSE NoSlot)
                   THEN IF erases THEN "NUL" ELSE input
                   ELSE buf[i]
  BY <1>1, <1>2 DEF EditLine, TypeOK
<1>10. CASE input # "bs"
  <2>1. /\ Len(line2) = k + 1
        /\ \A i \in 1 .. k : line2[i] = line[i]
        /\ line2[k + 1] = input
    <3>1. /\ Len(Edit(line, input)) = Len(line) + 1
          /\ \A i \in 1 .. Len(line) : Edit(line, input)[i] = line[i]
          /\ Edit(line, input)[Len(line) + 1] = input
      BY <1>1, <1>10, Editing
    <3> QED BY <1>6, <1>8, <3>1
  <2>2. \A i \in 1 .. k + 1 : i <= B => buf2[i - 1] = line2[i]
    <3> SUFFICES ASSUME NEW i \in 1 .. k + 1, i <= B
                 PROVE  buf2[i - 1] = line2[i]
      OBVIOUS
    <3>1. i - 1 \in 0 .. B - 1 /\ i \in Nat
      BY <1>1, IOAssumption
    <3>2. buf2[i - 1] = IF i - 1 = (IF k < B THEN k ELSE NoSlot)
                        THEN input ELSE buf[i - 1]
      BY <1>9, <1>10, <3>1
    <3> HIDE DEF line, line2, buf, buf2, k
    <3>3. CASE i = k + 1
      BY <1>1, <2>1, <3>1, <3>2, <3>3, IOAssumption
    <3>4. CASE i # k + 1
      <4>1. i \in 1 .. k /\ i - 1 # k /\ i - 1 # NoSlot
        BY <1>1, <3>1, <3>4 DEF NoSlot
      <4>2. buf[i - 1] = line[i]
        BY <1>6, <4>1 DEF line, buf, k
      <4> QED BY <2>1, <3>2, <4>1, <4>2
    <3> QED BY <3>3, <3>4
  <2>3. Held(v)'
    <3>1. key_count'[v] = k + 1 /\ pc'[v] # "clear"
      BY <1>3, <1>5, <1>8, <1>10
    <3> QED BY <2>1, <2>2, <3>1, <1>3 DEF Held
  <2>4. Ends(v)'
    <3>1. Entered(v)' <=> input = "nl"
      BY <1>3, <1>5, <1>8 DEF Entered, Resetting
    <3>2. \A i \in 1 .. k + 1 : i # k + 1 => line2[i] # "nl"
      <4> SUFFICES ASSUME NEW i \in 1 .. k + 1, i # k + 1
                   PROVE  line2[i] # "nl"
        OBVIOUS
      <4>1. i \in 1 .. k
        BY <1>1
      <4> QED BY <1>6, <2>1, <4>1
    <3>3. line2 # <<>>
      BY <1>1, <2>1, EmptySeq
    <3> HIDE DEF k
    <3> QED BY <1>3, <2>1, <3>1, <3>2, <3>3 DEF Ends
  <2> QED BY <1>4, <1>7, <2>3, <2>4
          DEF InOrder, Busy, Holding, Resetting
<1>11. CASE input = "bs"
  <2>1. k > 0
    BY <1>1, <1>3, <1>11
  <2>2. /\ Len(line2) = k - 1
        /\ \A i \in 1 .. k - 1 : line2[i] = line[i]
    BY <1>1, <1>6, <1>8, <1>11, <2>1, Editing
  <2>3. \A i \in 1 .. k - 1 : i <= B => buf2[i - 1] = line2[i]
    <3> SUFFICES ASSUME NEW i \in 1 .. k - 1, i <= B
                 PROVE  buf2[i - 1] = line2[i]
      OBVIOUS
    <3>1. i - 1 \in 0 .. B - 1 /\ i \in Nat /\ i \in 1 .. k /\ i - 1 # k - 1
      BY <1>1, IOAssumption
    <3>2. buf2[i - 1] = IF i - 1 = (IF k < B THEN k - 1 ELSE NoSlot)
                        THEN "NUL" ELSE buf[i - 1]
      BY <1>9, <1>11, <2>1, <3>1
    <3>3. buf[i - 1] = line[i]
      BY <1>6, <3>1
    <3> HIDE DEF line, line2, buf, buf2, k
    <3> QED BY <2>2, <3>1, <3>2, <3>3 DEF NoSlot
  <2>4. Held(v)'
    <3>1. key_count'[v] = k - 1 /\ pc'[v] # "clear"
      BY <1>3, <1>5, <1>8, <1>11, <2>1
    <3> QED BY <2>2, <2>3, <3>1, <1>3 DEF Held
  <2>5. Ends(v)'
    <3>1. ~Entered(v)'
      BY <1>3, <1>5, <1>8, <1>11 DEF Entered, Resetting
    <3>2. \A i \in 1 .. k - 1 : line2[i] # "nl"
      <4> SUFFICES ASSUME NEW i \in 1 .. k - 1 PROVE line2[i] # "nl"
        OBVIOUS
      <4>1. i \in 1 .. k
        BY <1>1
      <4> QED BY <1>6, <2>2, <4>1
    <3> HIDE DEF k
    <3> QED BY <1>3, <2>2, <3>1, <3>2 DEF Ends
  <2> QED BY <1>4, <1>7, <2>4, <2>5
          DEF InOrder, Busy, Holding, Resetting
<1> QED BY <1>4, <1>10, <1>11

(* A line that was not entered may be forgotten.                           *)
LEMMA ForgetCalm ==
    ASSUME TypeOK, \A t \in Terminal : InOrder(t), CtrlL, hazards' = {},
           NEW v \in Terminal, v = curr_terminal_visible
    PROVE  \A t \in Terminal : InOrder(t)'
<1>1. pc[v] \in Places
  BY DEF TypeOK
<1>2. /\ UNCHANGED <<curr_terminal_visible, enter, pc, nbytes, buff>>
      /\ ~Pending(v)
  BY DEF CtrlL, readers, Cause
<1>3. \A t \in Terminal : t # v => InOrder(t)'
  <2> SUFFICES ASSUME NEW t \in Terminal, t # v PROVE InOrder(t)'
    OBVIOUS
  <2>1. /\ key_count'[t] = key_count[t] /\ typed'[t] = typed[t]
        /\ keyboard_buffer'[t] = keyboard_buffer[t]
    BY DEF CtrlL, TypeOK
  <2> QED BY <1>2, <2>1, Untouched DEF InOrder
<1>4. ~enter[v] /\ pc[v] \in {"user", "wait"}
  <2>1. ~enter[v] /\ pc[v] \notin Resetting
    BY <1>1, <1>2 DEF Pending
  <2> QED BY <1>1, <2>1 DEF InOrder, Holding, Resetting, Places
<1>5. key_count'[v] = 0 /\ typed'[v] = <<>> /\ Len(typed'[v]) = 0
  BY <1>1 DEF CtrlL, TypeOK
<1>6. pc'[v] \in {"user", "wait"} /\ ~enter'[v] /\ buff'[v] = buff[v]
      /\ pc'[v] = pc[v]
  BY <1>2, <1>4
<1>7. Held(v)' /\ Ends(v)'
  BY <1>2, <1>5, <1>6 DEF Held, Ends, Entered, Resetting
<1>8. InOrder(v)'
  <2>1. Taken(v)'
    BY <1>6 DEF InOrder, Taken
  <2> QED BY <1>6, <1>7, <2>1 DEF InOrder, Busy, Holding, Resetting
<1> QED BY <1>3, <1>8

(* Steps of one program that leave all lines alone.                        *)
LEMMA OneReader ==
    ASSUME TypeOK, \A u \in Terminal : InOrder(u), NEW t \in Terminal,
           UNCHANGED <<enter, key_count, keyboard_buffer, typed,
                       curr_terminal_visible>>,
           \A u \in Terminal : u # t =>
              pc'[u] = pc[u] /\ nbytes'[u] = nbytes[u] /\ buff'[u] = buff[u],
           InOrder(t)'
    PROVE  \A u \in Terminal : InOrder(u)'
<1> SUFFICES ASSUME NEW u \in Terminal, u # t PROVE InOrder(u)'
  OBVIOUS
<1> QED BY Untouched DEF InOrder

(* Two equally long sequences with the same elements.                      *)
LEMMA SameLine ==
    ASSUME NEW s \in Seq(Char \cup {"NUL"}), NEW line \in Seq(Char),
           NEW n \in 0 .. Len(line), Len(s) = n,
           \A i \in 1 .. n : s[i] = line[i]
    PROVE  s = SubSeq(line, 1, n) /\ (n = Len(line) => s = line)
<1>1. line \in Seq(Char \cup {"NUL"}) /\ Len(line) \in Nat
  BY SeqMonotonic
<1>2. /\ SubSeq(line, 1, n) \in Seq(Char \cup {"NUL"})
      /\ Len(SubSeq(line, 1, n)) = n
      /\ \A i \in 1 .. n : SubSeq(line, 1, n)[i] = line[i]
  BY <1>1, Prefix
<1>3. s = SubSeq(line, 1, n)
  BY <1>2, SeqEqual
<1>4. n = Len(line) => s = line
  BY <1>1, SeqEqual
<1> QED BY <1>3, <1>4

LEMMA CopyCalm ==
    ASSUME TypeOK, \A u \in Terminal : InOrder(u), NEW t \in Terminal, Copy(t)
    PROVE  \A u \in Terminal : InOrder(u)'
<1> DEFINE n == Len(buff[t])
           c == keyboard_buffer[t][n]
           line == typed[t]
<1>1. /\ buff[t] \in Seq(Char \cup {"NUL"}) /\ line \in Seq(Char)
      /\ n \in Nat /\ Len(line) \in Nat /\ pc[t] = "copy"
  BY DEF TypeOK, Copy, At
<1>2. t = curr_terminal_visible /\ enter[t]
  BY <1>1 DEF InOrder, Busy, Holding
<1>3. /\ n < Len(line) /\ n < reading_task(t)
      /\ \A i \in 1 .. n : buff[t][i] = line[i]
  BY <1>1 DEF InOrder, Taken, Copy
<1>4. reading_task(t) \in Nat /\ reading_task(t) <= B - 1
  BY TaskFits
<1>5. c = line[n + 1] /\ c \in Char
  <2>1. n + 1 \in 1 .. Len(line) /\ n + 1 <= B
    BY <1>1, <1>3, <1>4, IOAssumption
  <2>2. keyboard_buffer[t][n + 1 - 1] = line[n + 1]
    BY <2>1 DEF InOrder, Held
  <2> QED BY <1>1, <2>1, <2>2, ElementOfSeq
<1>6. /\ buff' = [buff EXCEPT ![t] = Append(@, c)]
      /\ IF c = "nl" THEN pc' = [pc EXCEPT ![t] = "spin"] ELSE pc' = pc
      /\ UNCHANGED <<enter, key_count, keyboard_buffer, typed, nbytes,
                     curr_terminal_visible>>
  BY <1>2 DEF Copy, Goto, keyboard
<1>7. /\ buff'[t] \in Seq(Char \cup {"NUL"}) /\ Len(buff'[t]) = n + 1
      /\ \A i \in 1 .. n + 1 : buff'[t][i] = line[i]
  <2>1. buff'[t] = Append(buff[t], c)
    BY <1>6 DEF TypeOK
  <2>2. /\ Append(buff[t], c) \in Seq(Char \cup {"NUL"})
        /\ Len(Append(buff[t], c)) = n + 1
        /\ \A i \in 1 .. n : Append(buff[t], c)[i] = buff[t][i]
        /\ Append(buff[t], c)[n + 1] = c
    BY <1>1, <1>5, AppendProperties
  <2> QED BY <1>1, <1>3, <1>5, <2>1, <2>2
<1>8. pc'[t] \in {"copy", "spin"}
  BY <1>1, <1>6 DEF TypeOK
<1>9. Held(t)' /\ Ends(t)'
  <2>1. Held(t) /\ Ends(t)
    BY DEF InOrder
  <2>2. pc'[t] # "clear" /\ pc'[t] \notin Resetting /\ pc[t] \notin Resetting
    BY <1>1, <1>8 DEF Resetting
  <2>3. Entered(t)' = Entered(t)
    BY <1>6, <2>2 DEF Entered
  <2>4. Held(t)'
    BY <1>1, <1>6, <2>1, <2>2 DEF Held
  <2>5. Ends(t)'
    BY <1>6, <2>1, <2>3 DEF Ends
  <2> QED BY <2>4, <2>5
<1>10. Taken(t)'
  <2>1. reading_task(t)' = reading_task(t) /\ typed'[t] = line
    BY <1>6 DEF reading_task
  <2>2. CASE c = "nl"
    <3>1. n + 1 = Len(line)
      <4>1. n + 1 \in 1 .. Len(line)
        BY <1>1, <1>3
      <4> QED BY <1>5, <2>2, <4>1 DEF InOrder, Ends
    <3>2. buff'[t] = line
      <4>1. /\ buff'[t] \in Seq(Char \cup {"NUL"}) /\ Len(line) \in 0 .. Len(line)
            /\ Len(buff'[t]) = Len(line)
        BY <1>1, <1>7, <3>1
      <4>2. \A i \in 1 .. Len(line) : buff'[t][i] = line[i]
        BY <1>7, <3>1
      <4> HIDE DEF line
      <4> QED BY <1>1, <4>1, <4>2, SameLine
    <3>3. pc'[t] = "spin"
      BY <1>6, <2>2 DEF TypeOK
    <3> QED BY <1>1, <1>3, <1>4, <2>1, <3>1, <3>2, <3>3 DEF Taken
  <2>3. CASE c # "nl"
    <3>1. n + 1 # Len(line)
      BY <1>2, <1>5, <2>3 DEF InOrder, Ends, Entered
    <3>2. pc'[t] = "copy"
      BY <1>1, <1>6, <2>3
    <3> QED BY <1>1, <1>3, <1>4, <1>7, <2>1, <3>1, <3>2 DEF Taken
  <2> QED BY <2>2, <2>3
<1>11. InOrder(t)'
  BY <1>2, <1>6, <1>8, <1>9, <1>10 DEF InOrder, Resetting
<1>12. \A u \in Terminal : u # t =>
          pc'[u] = pc[u] /\ nbytes'[u] = nbytes[u] /\ buff'[u] = buff[u]
  BY <1>6 DEF TypeOK
<1> QED BY <1>6, <1>11, <1>12, OneReader

(* A line that does not end within the task is cut off after it.           *)
LEMMA CutCalm ==
    ASSUME TypeOK, \A u \in Terminal : InOrder(u), NEW t \in Terminal, Cut(t)
    PROVE  \A u \in Terminal : InOrder(u)'
<1> DEFINE task == reading_task(t)
           line == typed[t]
<1>1. /\ buff[t] \in Seq(Char \cup {"NUL"}) /\ line \in Seq(Char)
      /\ Len(line) \in Nat /\ pc[t] = "copy" /\ task \in Nat
      /\ Len(buff[t]) = task
  <2>1. pc[t] = "copy" /\ Len(buff[t]) = task
    BY DEF Cut, At
  <2>2. task \in Nat
    BY TaskFits
  <2> QED BY <2>1, <2>2 DEF TypeOK
<1>2. t = curr_terminal_visible /\ enter[t]
  BY <1>1 DEF InOrder, Busy, Holding
<1>3. /\ task < Len(line)
      /\ \A i \in 1 .. task : buff[t][i] = line[i]
  BY <1>1 DEF InOrder, Taken
<1>4. buff[t] = SubSeq(line, 1, task)
  BY <1>1, <1>3, SameLine
<1>5. /\ pc' = [pc EXCEPT ![t] = "enter"]
      /\ IF task = 0 THEN buff' = buff
         ELSE buff' = [buff EXCEPT ![t] = Append(@, "nl")]
      /\ UNCHANGED <<enter, key_count, keyboard_buffer, typed, nbytes,
                     curr_terminal_visible>>
  BY DEF Cut, Goto, keyboard
<1>6. pc'[t] = "enter"
  BY <1>5 DEF TypeOK
<1>7. buff'[t] = Expected(line, task)
  <2>1. ~ (Len(line) <= task)
    BY <1>1, <1>3
  <2>2. CASE task = 0
    <3>1. buff[t] = <<>>
      BY <1>1, <2>2, EmptySeq
    <3> QED BY <1>5, <2>1, <2>2, <3>1 DEF Expected
  <2>3. CASE task # 0
    <3>1. buff'[t] = Append(buff[t], "nl")
      BY <1>5, <2>3 DEF TypeOK
    <3> QED BY <1>4, <2>1, <2>3, <3>1 DEF Expected
  <2> QED BY <2>2, <2>3
<1>8. Taken(t)'
  <2>1. reading_task(t)' = task /\ typed'[t] = line
    BY <1>5 DEF reading_task
  <2> QED BY <1>6, <1>7, <2>1 DEF Taken
<1>9. Held(t)' /\ Ends(t)'
  <2>1. pc[t] = "copy" /\ pc'[t] = "enter" /\ Held(t) /\ Ends(t)
    BY <1>1, <1>6 DEF InOrder
  <2>2. UNCHANGED <<enter, key_count, keyboard_buffer, typed>>
    BY <1>5
  <2> QED BY <2>1, <2>2 DEF Held, Ends, Entered, Resetting
<1>10. InOrder(t)'
  BY <1>2, <1>5, <1>6, <1>8, <1>9 DEF InOrder, Resetting
<1>11. \A u \in Terminal : u # t =>
          pc'[u] = pc[u] /\ nbytes'[u] = nbytes[u] /\ buff'[u] = buff[u]
  BY <1>5 DEF TypeOK
<1> QED BY <1>5, <1>10, <1>11, OneReader

(* A program that begins to read, or finds its own line complete.          *)
LEMMA BeginCalm ==
    ASSUME TypeOK, \A u \in Terminal : InOrder(u), NEW t \in Terminal,
           \/ \E n \in Sizes : Read(t, n)
           \/ SeeEnter(t) /\ hazards' = {}
    PROVE  \A u \in Terminal : InOrder(u)'
<1>1. CASE \E n \in Sizes : Read(t, n)
  <2>1. PICK n \in Sizes : Read(t, n)
    BY <1>1
  <2>2. /\ pc[t] = "user" /\ pc' = [pc EXCEPT ![t] = "wait"]
        /\ nbytes' = [nbytes EXCEPT ![t] = n] /\ buff' = [buff EXCEPT ![t] = <<>>]
        /\ UNCHANGED <<enter, key_count, keyboard_buffer, typed,
                       curr_terminal_visible>>
    BY <2>1 DEF Read, At, Goto, keyboard
  <2>3. pc'[t] = "wait" /\ buff'[t] = <<>>
    BY <2>2 DEF TypeOK
  <2>4. InOrder(t)'
    BY <2>2, <2>3 DEF InOrder, Held, Ends, Taken, Entered, Busy, Holding,
                      Resetting
  <2>5. \A u \in Terminal : u # t =>
           pc'[u] = pc[u] /\ nbytes'[u] = nbytes[u] /\ buff'[u] = buff[u]
    BY <2>2 DEF TypeOK
  <2> QED BY <2>2, <2>4, <2>5, OneReader
<1>2. CASE SeeEnter(t) /\ hazards' = {}
  <2>1. /\ pc[t] = "wait" /\ pc' = [pc EXCEPT ![t] = "copy"]
        /\ t = curr_terminal_visible /\ enter[t]
        /\ UNCHANGED <<enter, key_count, keyboard_buffer, typed,
                       curr_terminal_visible, nbytes, buff>>
    BY <1>2 DEF SeeEnter, At, Goto, Cause, keyboard
  <2>2. pc'[t] = "copy"
    BY <2>1 DEF TypeOK
  <2>3. buff[t] = <<>> /\ Len(buff[t]) = 0
    BY <2>1 DEF InOrder, Taken
  <2>4. Len(typed[t]) \in Nat \ {0}
    <3>1. typed[t] # <<>> /\ typed[t] \in Seq(Char)
      BY <2>1 DEF InOrder, Ends, Entered, TypeOK
    <3> QED BY <3>1, EmptySeq
  <2>5. reading_task(t)' \in Nat
    <3>1. reading_task(t)' = reading_task(t)
      BY <2>1 DEF reading_task
    <3> QED BY <3>1, TaskFits
  <2>6. Taken(t)'
    BY <2>1, <2>2, <2>3, <2>4, <2>5 DEF Taken
  <2>7. Held(t)' /\ Ends(t)'
    BY <2>1, <2>2 DEF InOrder, Held, Ends, Entered, Resetting
  <2>8. InOrder(t)'
    BY <2>1, <2>2, <2>6, <2>7 DEF InOrder, Resetting
  <2>9. \A u \in Terminal : u # t =>
           pc'[u] = pc[u] /\ nbytes'[u] = nbytes[u] /\ buff'[u] = buff[u]
    BY <2>1 DEF TypeOK
  <2> QED BY <2>1, <2>8, <2>9, OneReader
<1> QED BY <1>1, <1>2

(* The resets after a cut-off line hit its own terminal, and so does the   *)
(* single one after a line that was not cut off.                           *)
LEMMA ResetCalm ==
    ASSUME TypeOK, \A u \in Terminal : InOrder(u), NEW t \in Terminal,
           ResetEnter(t) \/ ResetCount(t) \/ Clear(t) \/ Finish(t)
    PROVE  \A u \in Terminal : InOrder(u)'
<1>1. t = curr_terminal_visible /\ curr_terminal_visible' = curr_terminal_visible
  BY DEF ResetEnter, ResetCount, Clear, Finish, At, InOrder, Busy
<1>2. ASSUME NEW u \in Terminal, u # t
      PROVE  /\ enter'[u] = enter[u] /\ key_count'[u] = key_count[u]
             /\ keyboard_buffer'[u] = keyboard_buffer[u]
             /\ typed'[u] = typed[u] /\ pc'[u] = pc[u]
             /\ nbytes'[u] = nbytes[u] /\ buff'[u] = buff[u]
  <2>1. CASE ResetEnter(t)
    BY <1>1, <1>2, <2>1 DEF ResetEnter, Goto, TypeOK
  <2>2. CASE ResetCount(t)
    BY <1>1, <1>2, <2>2 DEF ResetCount, Goto, TypeOK
  <2>3. CASE Clear(t)
    BY <1>1, <1>2, <2>3 DEF Clear, Goto, TypeOK
  <2>4. CASE Finish(t)
    BY <1>1, <1>2, <2>4 DEF Finish, ResetLine, Goto, TypeOK
  <2> QED BY <2>1, <2>2, <2>3, <2>4
<1>3. ASSUME NEW u \in Terminal, u # t PROVE InOrder(u)'
  <2>1. pc[u] \notin Busy
    BY <1>1, <1>3 DEF InOrder
  <2> QED BY <1>2, <1>3, <2>1, Untouched
<1>4. CASE ResetEnter(t)
  <2>1. /\ pc[t] = "enter" /\ pc'[t] = "count" /\ enter[t] /\ ~enter'[t]
        /\ UNCHANGED <<key_count, keyboard_buffer, typed, nbytes, buff>>
    BY <1>1, <1>4 DEF ResetEnter, At, Goto, InOrder, Holding, TypeOK
  <2>2. Held(t)' /\ Ends(t)' /\ Taken(t)'
    BY <2>1 DEF InOrder, Held, Ends, Taken, Entered, Resetting, reading_task
  <2> QED BY <1>1, <1>3, <2>1, <2>2 DEF InOrder, Holding, Resetting
<1>5. CASE ResetCount(t)
  <2>1. /\ pc[t] = "count" /\ pc'[t] = "clear" /\ key_count'[t] = 0
        /\ UNCHANGED <<enter, keyboard_buffer, typed, nbytes, buff>>
    BY <1>1, <1>5 DEF ResetCount, At, Goto, TypeOK
  <2>2. Held(t)' /\ Ends(t)' /\ Taken(t)'
    BY <2>1 DEF InOrder, Held, Ends, Taken, Entered, Resetting, reading_task
  <2> QED BY <1>1, <1>3, <2>1, <2>2 DEF InOrder, Holding, Resetting
<1>6. CASE Clear(t) \/ Finish(t)
  <2>1. pc'[t] = "user" /\ typed'[t] = <<>> /\ Len(typed'[t]) = 0
    BY <1>1, <1>6 DEF Clear, Finish, Goto, TypeOK
  <2>2. key_count'[t] = 0 /\ ~enter'[t]
    <3>1. CASE Clear(t)
      BY <3>1 DEF Clear, At, InOrder, Held, Resetting
    <3>2. CASE Finish(t)
      BY <3>2 DEF Finish, ResetLine, TypeOK
    <3> QED BY <1>6, <3>1, <3>2
  <2>3. Held(t)' /\ Ends(t)' /\ Taken(t)'
    BY <2>1, <2>2 DEF Held, Ends, Taken, Entered, Resetting
  <2> QED BY <1>1, <1>3, <2>1, <2>2, <2>3 DEF InOrder, Busy, Holding, Resetting
<1> QED BY <1>4, <1>5, <1>6

-----------------------------------------------------------------------------
LEMMA InitCalm == Init => Calm
<1> SUFFICES ASSUME Init, NEW t \in Terminal PROVE InOrder(t)
  BY DEF Calm
<1>1. /\ pc[t] = "user" /\ typed[t] = <<>> /\ Len(typed[t]) = 0
      /\ key_count[t] = 0 /\ ~enter[t]
  BY DEF Init
<1> QED BY <1>1 DEF InOrder, Held, Ends, Taken, Entered, Busy, Holding,
                    Resetting

(* A hazard that has struck stays recorded.                                *)
LEMMA HazardsGrow == [Next]_vars => hazards \subseteq hazards'
  BY DEF Next, vars, Key, CtrlL, SwitchTo, Tick, Read, ReadStep, SeeEnter,
         Copy, Finish, Cut, ResetEnter, ResetCount, Clear

LEMMA StepCalm == IInv /\ [Next]_vars => Calm'
<1> SUFFICES ASSUME IInv, [Next]_vars, hazards' = {}
             PROVE  \A t \in Terminal : InOrder(t)'
  BY DEF Calm
<1>1. TypeOK /\ \A t \in Terminal : InOrder(t)
  BY HazardsGrow DEF IInv, Calm
<1>2. CASE \E input \in Char : Key(input)
  <2>1. PICK v \in Terminal : v = curr_terminal_visible
    BY <1>1 DEF TypeOK
  <2> QED BY <1>1, <1>2, <2>1, KeyCalm
<1>3. CASE CtrlL
  <2>1. PICK v \in Terminal : v = curr_terminal_visible
    BY <1>1 DEF TypeOK
  <2> QED BY <1>1, <1>3, <2>1, ForgetCalm
<1>4. CASE \E t \in Terminal : SwitchTo(t)
  <2>1. /\ UNCHANGED <<enter, key_count, keyboard_buffer, typed, pc, nbytes,
                       buff>>
        /\ \A r \in Terminal : pc[r] \notin Places \ {"user", "wait", "spin"}
    BY <1>4 DEF SwitchTo, keyboard, readers, Cause
  <2>2. \A r \in Terminal : pc[r] \notin Busy
    BY <1>1, <2>1 DEF Busy, Places
  <2> QED BY <1>1, <2>1, <2>2, Untouched
<1>5. CASE Tick \/ UNCHANGED vars
  <2>1. UNCHANGED <<enter, key_count, keyboard_buffer, typed, pc, nbytes, buff,
                    curr_terminal_visible>>
    BY <1>5 DEF Tick, vars, keyboard, readers
  <2> QED BY <1>1, <2>1, Untouched DEF InOrder
<1>6. ASSUME NEW t \in Terminal,
             (\E n \in Sizes : Read(t, n)) \/ ReadStep(t)
      PROVE  \A u \in Terminal : InOrder(u)'
  BY <1>1, <1>6, BeginCalm, CopyCalm, CutCalm, ResetCalm DEF ReadStep
<1> QED BY <1>2, <1>3, <1>4, <1>5, <1>6 DEF Next

LEMMA InitInv == Init => IInv
  BY InitType, InitCalm DEF IInv

LEMMA StepInv == IInv /\ [Next]_vars => IInv'
  BY StepType, StepCalm DEF IInv

(* The inductive invariant: types, and until a hazard strikes where every  *)
(* terminal's line and reader stand (terminal.c:10-36, 104-143).           *)
THEOREM Invariance == Spec => []IInv
  BY InitInv, StepInv, PTL DEF Spec

(* TypeOK: every key, copy and reset keeps to the buffer and the line      *)
(* (terminal.c:10-36, 104-143).                                            *)
THEOREM TypeCorrect == Spec => []TypeOK
<1>1. IInv => TypeOK
  BY DEF IInv
<1> QED BY Invariance, <1>1, PTL

(* No key, however many go past the end of the buffer, and no interrupt,   *)
(* switch or reset takes the buffer away from the line on the screen,      *)
(* unless one of the four hazards strikes (terminal.c:10-36).              *)
THEOREM BufferIsLine == Spec => []BufferHoldsLine
<1>1. IInv => BufferHoldsLine
  BY DEF IInv, Calm, InOrder, Held, BufferHoldsLine, Resetting
<1> QED BY Invariance, <1>1, PTL

(* read_terminal returns the line typed at its own terminal, the first     *)
(* reading_task characters and a newline of a longer one                   *)
(* (terminal.c:104-143).                                                   *)
THEOREM LineReturned == Spec => LineIsTyped
<1> DEFINE Right ==
        \A t \in Terminal :
            (hazards' = {} /\ pc[t] \in {"spin", "clear"} /\ pc'[t] = "user") =>
                buff'[t] = Expected(typed[t], reading_task(t))
<1>1. IInv /\ [Next]_vars => [Right]_vars
  <2> SUFFICES ASSUME IInv, Next, hazards' = {}, NEW t \in Terminal,
                      pc[t] \in {"spin", "clear"}, pc'[t] = "user"
               PROVE  buff'[t] = Expected(typed[t], reading_task(t))
    OBVIOUS
  <2>1. InOrder(t) /\ TypeOK
    BY HazardsGrow DEF IInv, Calm
  <2>2. buff[t] = Expected(typed[t], reading_task(t))
    BY <2>1 DEF InOrder, Taken, Expected
  <2>3. buff'[t] = buff[t]
    <3>1. CASE \E u \in Terminal : \/ \E n \in Sizes : Read(u, n)
                                   \/ Copy(u) \/ Cut(u)
      <4>1. PICK u \in Terminal : \/ \E n \in Sizes : Read(u, n)
                                  \/ Copy(u) \/ Cut(u)
        BY <3>1
      <4>2. u # t /\ \E b : buff' = [buff EXCEPT ![u] = b] \/ buff' = buff
        BY <4>1 DEF Read, Copy, Cut, At
      <4> QED BY <4>2, <2>1 DEF TypeOK
    <3>2. CASE \/ \E input \in Char : Key(input)
               \/ CtrlL \/ Tick \/ \E u \in Terminal : SwitchTo(u)
      BY <3>2 DEF Key, CtrlL, SwitchTo, Tick, readers
    <3>3. CASE \E u \in Terminal : SeeEnter(u) \/ Finish(u) \/ ResetEnter(u)
                                     \/ ResetCount(u) \/ Clear(u)
      BY <3>3 DEF SeeEnter, Finish, ResetEnter, ResetCount, Clear
    <3>4. ASSUME NEW u \in Terminal, ReadStep(u) PROVE buff'[t] = buff[t]
      BY <3>1, <3>3, <3>4 DEF ReadStep
    <3> QED BY <3>1, <3>2, <3>4 DEF Next
  <2> QED BY <2>2, <2>3
<1>2. Spec => [][Right]_vars
  BY <1>1, Invariance, PTL DEF Spec
<1> QED BY <1>2 DEF LineIsTyped

-----------------------------------------------------------------------------
(* The cells of a line.                                                    *)
Taking(c) == IF c = "tab" THEN TAB ELSE 1

LEMMA EchoedIs ==
    ASSUME NEW s, NEW n \in Nat
    PROVE  /\ IsFiniteSet({i \in 1 .. n : s[i] = "tab"})
           /\ Cardinality({i \in 1 .. n : s[i] = "tab"}) \in Nat
           /\ Echoed(s, n) \in Int
<1> DEFINE tabs == {i \in 1 .. n : s[i] = "tab"}
<1>1. IsFiniteSet(tabs)
  <2>1. tabs \in SUBSET (1 .. n)
    OBVIOUS
  <2>2. IsFiniteSet(1 .. n)
    BY FS_Interval
  <2> QED BY <2>1, <2>2, FS_Subset
<1>2. Cardinality(tabs) \in Nat
  BY <1>1, FS_CardinalityType
<1> HIDE DEF tabs
<1>3. (TAB - 1) * Cardinality(tabs) \in Int
  BY <1>2, IOAssumption
<1> QED BY <1>1, <1>2, <1>3 DEF Echoed, tabs

(* One character more.                                                     *)
LEMMA EchoedStep ==
    ASSUME NEW s, NEW n \in Nat
    PROVE  Echoed(s, n + 1) = Echoed(s, n) + Taking(s[n + 1])
<1> DEFINE Tabs(m) == {i \in 1 .. m : s[i] = "tab"}
           k == Cardinality(Tabs(n))
<1>1. k \in Nat /\ IsFiniteSet(Tabs(n))
  BY EchoedIs
<1>2. CASE s[n + 1] = "tab"
  <2>1. Tabs(n + 1) = Tabs(n) \cup {n + 1} /\ n + 1 \notin Tabs(n)
    BY <1>2
  <2>2. Cardinality(Tabs(n + 1)) = k + 1
    BY <1>1, <2>1, FS_AddElement
  <2> HIDE DEF Tabs, k
  <2>3. (TAB - 1) * (k + 1) = (TAB - 1) * k + (TAB - 1)
    BY <1>1, IOAssumption
  <2>4. (TAB - 1) * k \in Int
    BY <1>1, IOAssumption
  <2>5. Echoed(s, n) = n + (TAB - 1) * k
    BY DEF Echoed, Tabs, k
  <2>6. Echoed(s, n + 1) = n + 1 + (TAB - 1) * (k + 1)
    BY <2>2 DEF Echoed, Tabs
  <2> QED BY <1>2, <2>3, <2>4, <2>5, <2>6, IOAssumption DEF Taking
<1>3. CASE s[n + 1] # "tab"
  <2>1. Tabs(n + 1) = Tabs(n)
    BY <1>3
  <2>2. Echoed(s, n) = n + (TAB - 1) * k
    BY DEF Echoed
  <2>3. Echoed(s, n + 1) = n + 1 + (TAB - 1) * k
    BY <2>1 DEF Echoed
  <2> HIDE DEF Tabs, k
  <2>4. (TAB - 1) * k \in Int
    BY <1>1, IOAssumption
  <2> QED BY <1>3, <2>2, <2>3, <2>4 DEF Taking
<1> QED BY <1>2, <1>3

(* It depends on the first n characters alone, and more take more.         *)
LEMMA EchoedSame ==
    ASSUME NEW s, NEW r, NEW n \in Nat, \A i \in 1 .. n : r[i] = s[i]
    PROVE  Echoed(r, n) = Echoed(s, n)
<1>1. {i \in 1 .. n : r[i] = "tab"} = {i \in 1 .. n : s[i] = "tab"}
  OBVIOUS
<1> QED BY <1>1 DEF Echoed

LEMMA EchoedGrows ==
    ASSUME NEW s, NEW n \in Nat, NEW m \in 0 .. n
    PROVE  Echoed(s, m) <= Echoed(s, n)
<1> DEFINE Tabs(j) == {i \in 1 .. j : s[i] = "tab"}
<1>1. /\ IsFiniteSet(Tabs(n)) /\ Tabs(m) \subseteq Tabs(n)
      /\ Cardinality(Tabs(m)) \in Nat /\ Cardinality(Tabs(n)) \in Nat
  <2>1. m \in Nat /\ Tabs(m) \subseteq Tabs(n)
    OBVIOUS
  <2> QED BY <2>1, EchoedIs
<1>2. Cardinality(Tabs(m)) <= Cardinality(Tabs(n))
  <2> HIDE DEF Tabs
  <2> QED BY <1>1, FS_Subset
<1>3. PICK a \in Nat, b \in Nat : a = Cardinality(Tabs(m)) /\ b = Cardinality(Tabs(n))
  BY <1>1
<1>4. Echoed(s, m) = m + (TAB - 1) * a /\ Echoed(s, n) = n + (TAB - 1) * b
  BY <1>3 DEF Echoed
<1>5. \A w, x, y \in Nat : x <= y => w * x <= w * y
  OBVIOUS
<1>6. TAB - 1 \in Nat
  BY IOAssumption, ConsoleAssumption
<1>7. (TAB - 1) * a <= (TAB - 1) * b /\ (TAB - 1) * a \in Int /\ (TAB - 1) * b \in Int
  BY <1>2, <1>3, <1>5, <1>6
<1> QED BY <1>4, <1>7

LEMMA EndsWithIf ==
    ASSUME NEW text, NEW end, NEW s, NEW f, f = end - Width(s),
           \A i \in 1 .. Len(s) :
               \A cell \in f + Echoed(s, i - 1) .. f + Echoed(s, i) - 1 :
                   cell >= 0 => text[cell] = Mark(s[i])
    PROVE  EndsWith(text, end, s)
  BY DEF EndsWith

(* A cell of an earlier character, and one of the last, before the text    *)
(* moves up by u.                                                          *)
LEMMA EarlierCell ==
    ASSUME NEW last \in Int, NEW k \in 0 .. last, NEW u \in Nat, NEW w \in Int,
           NEW a \in Int, NEW b \in Int, b <= w,
           NEW cell \in (k - u - w) + a .. (k - u - w) + b - 1, cell >= 0
    PROVE  /\ cell + u \in (k - w) + a .. (k - w) + b - 1
           /\ cell + u >= 0 /\ cell + u \in 0 .. k - 1 /\ cell \in 0 .. last
  OBVIOUS

LEMMA LastCell ==
    ASSUME NEW last \in Int, NEW k \in 0 .. last, NEW u \in Nat, NEW w \in Int,
           NEW n \in Nat, k + n - u \in 0 .. last,
           NEW cell \in (k - u - w) + w .. (k - u - w) + (w + n) - 1, cell >= 0
    PROVE  cell + u \in k .. k + n - 1 /\ cell \in 0 .. last
  OBVIOUS

(* c on the n cells from k on, then the text moved up by u.                *)
Written(text, new, last, k, n, u, c) ==
    \A cell \in 0 .. last :
        /\ cell + u \in k .. k + n - 1 => new[cell] = Mark(c)
        /\ cell + u \in 0 .. k - 1 => new[cell] = text[cell + u]

(* r is s and c.                                                           *)
Longer(r, s, c) ==
    /\ Len(s) \in Nat /\ Len(r) = Len(s) + 1
    /\ \A i \in 1 .. Len(s) : r[i] = s[i]
    /\ r[Len(s) + 1] = c

LEMMA WidthLonger ==
    ASSUME NEW s, NEW r, NEW c, Longer(r, s, c)
    PROVE  Width(s) \in Int /\ Width(r) = Width(s) + Taking(c)
<1>1. PICK n \in Nat : /\ n = Len(s) /\ Len(r) = n + 1
                       /\ \A i \in 1 .. n : r[i] = s[i]
                       /\ r[n + 1] = c
  BY DEF Longer
<1>2. Echoed(r, n) = Echoed(s, n) /\ Echoed(s, n) \in Int
  BY <1>1, EchoedIs, EchoedSame
<1>3. Echoed(r, n + 1) = Echoed(r, n) + Taking(r[n + 1])
  BY EchoedStep
<1>4. Width(r) = Echoed(r, n + 1) /\ Width(s) = Echoed(s, n)
  BY <1>1, Zenon DEF Width
<1> QED BY <1>1, <1>2, <1>3, <1>4, Zenon

(* Where a line's next character has been written, the text that ended     *)
(* with it ends with the longer one.                                       *)
LEMMA Lengthened ==
    ASSUME NEW text, NEW new, NEW s, NEW r, NEW c, Longer(r, s, c),
           NEW last \in Int, NEW k \in 0 .. last, NEW u \in Nat,
           NEW t \in Nat, t = Taking(c), NEW e \in 0 .. last, e = k + t - u,
           Written(text, new, last, k, t, u, c), EndsWith(text, k, s)
    PROVE  EndsWith(new, e, r)
<1>1. PICK n \in Nat : /\ n = Len(s) /\ Len(r) = n + 1
                       /\ \A i \in 1 .. n : r[i] = s[i]
                       /\ r[n + 1] = c
  BY DEF Longer
<1>2. PICK w \in Int : w = Width(s) /\ w = Echoed(s, n)
  BY <1>1, EchoedIs DEF Width
<1>3. Echoed(r, n) = w /\ Width(r) = w + t
  <2>1. Echoed(r, n) = w
    BY <1>1, <1>2, EchoedSame
  <2>2. Width(r) = w + t
    BY <1>2, WidthLonger
  <2> QED BY <2>1, <2>2
<1>4. PICK f \in Int : f = k - u - w /\ f = e - Width(r)
  BY <1>3
<1> SUFFICES ASSUME NEW i \in 1 .. n + 1
             PROVE  \A cell \in f + Echoed(r, i - 1) .. f + Echoed(r, i) - 1 :
                       cell >= 0 => new[cell] = Mark(r[i])
  <2>1. f = e - Width(r) /\ Len(r) = n + 1
    BY <1>1, <1>4, Zenon
  <2> SUFFICES \A i \in 1 .. Len(r) :
                  \A cell \in f + Echoed(r, i - 1) .. f + Echoed(r, i) - 1 :
                      cell >= 0 => new[cell] = Mark(r[i])
    BY <2>1, EndsWithIf
  <2> QED BY <2>1, Zenon
<1>5. PICK a \in Int, b \in Int : a = Echoed(r, i - 1) /\ b = Echoed(r, i)
  <2>1. i - 1 \in Nat /\ i \in Nat
    OBVIOUS
  <2> QED BY <2>1, EchoedIs
<1> SUFFICES ASSUME NEW cell \in f + a .. f + b - 1, cell >= 0
             PROVE  new[cell] = Mark(r[i])
  BY <1>5
<1>6. CASE i <= n
  <2>1. a = Echoed(s, i - 1) /\ b = Echoed(s, i) /\ r[i] = s[i]
    <3>1. i \in 1 .. n /\ i - 1 \in Nat /\ i \in Nat
      BY <1>6
    <3>2. /\ \A j \in 1 .. i - 1 : r[j] = s[j]
          /\ \A j \in 1 .. i : r[j] = s[j]
      BY <1>1, <3>1
    <3> QED BY <1>1, <1>5, <3>1, <3>2, EchoedSame
  <2>2. b <= w
    BY <1>2, <1>6, <2>1, EchoedGrows
  <2>3. /\ cell + u \in (k - w) + a .. (k - w) + b - 1
        /\ cell + u >= 0 /\ cell + u \in 0 .. k - 1 /\ cell \in 0 .. last
    <3>1. cell \in (k - u - w) + a .. (k - u - w) + b - 1
      BY <1>4, Zenon
    <3> QED BY <2>2, <3>1, EarlierCell, Zenon
  <2>4. \A d \in (k - w) + a .. (k - w) + b - 1 : d >= 0 => text[d] = Mark(s[i])
    <3>1. i \in 1 .. Len(s)
      BY <1>1, <1>6
    <3> QED BY <1>2, <2>1, <3>1 DEF EndsWith
  <2>5. text[cell + u] = Mark(s[i])
    BY <2>3, <2>4
  <2> QED BY <2>1, <2>3, <2>5 DEF Written
<1>7. CASE i = n + 1
  <2>1. a = w /\ b = w + t /\ r[i] = c
    <3>1. i - 1 = n
      BY <1>7
    <3>2. Width(r) = Echoed(r, n + 1)
      BY <1>1, Zenon DEF Width
    <3> QED BY <1>1, <1>3, <1>5, <1>7, <3>1, <3>2, Zenon
  <2>2. cell + u \in k .. k + t - 1 /\ cell \in 0 .. last
    <3>1. cell \in (k - u - w) + w .. (k - u - w) + (w + t) - 1
      BY <1>4, <2>1, Zenon
    <3> QED BY <3>1, LastCell, Zenon
  <2> QED BY <2>1, <2>2 DEF Written
<1> QED BY <1>6, <1>7

(* One whose last character, which is no tab, has been rubbed out.         *)
LEMMA Shortened ==
    ASSUME NEW text, NEW new, NEW s, NEW r, NEW c, Longer(s, r, c), c # "tab",
           NEW last \in Int, NEW k \in 0 .. last,
           \A cell \in 0 .. last : cell # k - 1 => new[cell] = text[cell],
           EndsWith(text, k, s)
    PROVE  EndsWith(new, k - 1, r)
<1>1. PICK n \in Nat : /\ n = Len(r) /\ Len(s) = n + 1
                       /\ \A i \in 1 .. n : r[i] = s[i]
                       /\ s[n + 1] # "tab"
  BY DEF Longer
<1>2. PICK w \in Int : w = Width(r) /\ w = Echoed(r, n) /\ w = Echoed(s, n)
  BY <1>1, EchoedIs, EchoedSame DEF Width
<1>3. Width(s) = w + 1
  <2>1. Echoed(s, n + 1) = Echoed(s, n) + Taking(s[n + 1])
    BY EchoedStep
  <2>2. Width(s) = Echoed(s, n + 1)
    BY <1>1, Zenon DEF Width
  <2>3. Taking(s[n + 1]) = 1
    BY <1>1 DEF Taking
  <2> QED BY <1>2, <2>1, <2>2, <2>3, Zenon
<1>4. PICK f \in Int : f = k - 1 - w /\ f = k - Width(s)
  BY <1>3
<1> SUFFICES ASSUME NEW i \in 1 .. n
             PROVE  \A cell \in f + Echoed(r, i - 1) .. f + Echoed(r, i) - 1 :
                       cell >= 0 => new[cell] = Mark(r[i])
  BY <1>1, <1>2, <1>4 DEF EndsWith
<1>5. PICK a \in Int, b \in Int : /\ a = Echoed(r, i - 1) /\ b = Echoed(r, i)
                                  /\ a = Echoed(s, i - 1) /\ b = Echoed(s, i)
  <2>1. /\ i - 1 \in Nat /\ i \in Nat
        /\ \A j \in 1 .. i - 1 : r[j] = s[j]
        /\ \A j \in 1 .. i : r[j] = s[j]
    BY <1>1
  <2> QED BY <2>1, EchoedIs, EchoedSame
<1>6. b <= w
  BY <1>2, <1>5, EchoedGrows
<1>7. i \in 1 .. Len(s) /\ r[i] = s[i]
  BY <1>1
<1>8. \A cell \in f + a .. f + b - 1 : cell >= 0 => text[cell] = Mark(s[i])
  BY <1>4, <1>5, <1>7 DEF EndsWith
<1> SUFFICES ASSUME NEW cell \in f + a .. f + b - 1, cell >= 0
             PROVE  new[cell] = Mark(r[i])
  BY <1>5
<1>9. cell \in 0 .. last /\ cell # k - 1
  BY <1>4, <1>6
<1> QED BY <1>7, <1>8, <1>9

-----------------------------------------------------------------------------
(* What is proved of Screen, for the screen of the console.                *)
Screens == INSTANCE Screen_proofs WITH
    TERMINAL_NUM <- T, Glyph <- Letter, hazards <- screenHazards

LEMMA ScreenGiven ==
    /\ T \in Nat \ {0}
    /\ NUM_ROWS \in Nat /\ NUM_ROWS >= 2
    /\ NUM_COLS \in Nat /\ NUM_COLS >= 2
    /\ TAB \in Nat \ {0}
    /\ Letter \cap {"nl", "bs", "tab"} = {}
  BY IOAssumption, ConsoleAssumption

(* The text of a terminal and the cell its next character goes to.         *)
TextAt(t) == IF t = curr_terminal_visible THEN screen ELSE terminal_vid_mem[t]
EndAt(t)  == NUM_COLS * screen_y[t] + screen_x[t]

LEMMA TextIs ==
    ASSUME NEW t \in Terminal
    PROVE  Screens!TextOf[t] = TextAt(t) /\ Screens!AtOf[t] = EndAt(t)
  BY DEF Screens!TextOf, Screens!AtOf, TextAt, EndAt, Terminal, Screens!Terminal

LEMMA EndInside ==
    ASSUME Screens!TextsOK, Screens!InText, NEW t \in Terminal
    PROVE  EndAt(t) \in Screens!Cell
<1>1. t \in Screens!Terminal
  BY DEF Terminal, Screens!Terminal
<1>2. /\ Screens!Here(t) \in Screens!Inside
      /\ Screens!CellOf(Screens!Here(t)) = Screens!AtOf[t]
  BY <1>1, Screens!HereIs, ScreenGiven
<1> QED BY <1>2, Screens!InsideCell, ScreenGiven, TextIs

(* A character that Texts emits: q is the cell that follows it.            *)
LEMMA EmitIs ==
    ASSUME NEW t \in Terminal, NEW c, NEW q \in Nat,
           q = Screens!Display!After(EndAt(t), c), Screens!Display!Emit(t, c)
    PROVE  /\ TextAt(t)' = Screens!Display!Write(TextAt(t), EndAt(t), c, q)
           /\ EndAt(t)' = q - Screens!Up(q)
<1>1. /\ Screens!TextOf' = [Screens!TextOf EXCEPT ![t] =
                              Screens!Display!Write(@, EndAt(t), c, q)]
      /\ Screens!AtOf' = [Screens!AtOf EXCEPT ![t] =
             IF q \in Screens!Display!Cell THEN q
             ELSE (NUM_ROWS - 1) * NUM_COLS + (q % NUM_COLS)]
  BY TextIs DEF Screens!Display!Emit, Screens!TextOf, Screens!AtOf
<1>2. /\ q - Screens!Up(q) = IF q \in Screens!Cell THEN q
                             ELSE (NUM_ROWS - 1) * NUM_COLS + (q % NUM_COLS)
      /\ Screens!Display!Cell = Screens!Cell
  BY Screens!AtIs, Screens!SizeType, ScreenGiven
<1>3. ASSUME NEW s \in Terminal
      PROVE  /\ TextAt(s) = Screens!TextOf[s] /\ EndAt(s) = Screens!AtOf[s]
             /\ TextAt(s)' = Screens!TextOf'[s] /\ EndAt(s)' = Screens!AtOf'[s]
  BY DEF Screens!TextOf, Screens!AtOf, TextAt, EndAt, Terminal, Screens!Terminal
<1>4. /\ Screens!TextOf = [s \in Terminal |-> Screens!TextOf[s]]
      /\ Screens!AtOf = [s \in Terminal |-> Screens!AtOf[s]]
  BY DEF Screens!TextOf, Screens!AtOf, Terminal, Screens!Terminal
<1> QED BY <1>1, <1>2, <1>3, <1>4

(* The other terminals keep theirs.                                        *)
LEMMA Beside ==
    ASSUME NEW t \in Terminal, NEW c, Screens!Display!Emit(t, c),
           NEW s \in Terminal, s # t
    PROVE  TextAt(s)' = TextAt(s) /\ EndAt(s)' = EndAt(s)
<1>1. /\ \E text : Screens!TextOf' = [Screens!TextOf EXCEPT ![t] = text]
      /\ \E cell : Screens!AtOf' = [Screens!AtOf EXCEPT ![t] = cell]
  BY DEF Screens!Display!Emit, Screens!TextOf, Screens!AtOf
<1>2. /\ TextAt(s) = Screens!TextOf[s] /\ EndAt(s) = Screens!AtOf[s]
      /\ TextAt(s)' = Screens!TextOf'[s] /\ EndAt(s)' = Screens!AtOf'[s]
  BY DEF Screens!TextOf, Screens!AtOf, TextAt, EndAt, Terminal, Screens!Terminal
<1>3. Screens!TextOf'[s] = Screens!TextOf[s] /\ Screens!AtOf'[s] = Screens!AtOf[s]
  BY <1>1 DEF Screens!TextOf, Screens!AtOf, Terminal, Screens!Terminal
<1> QED BY <1>2, <1>3

LEMMA GlyphWritten ==
    ASSUME NEW text, NEW k, NEW q, NEW c, c \notin {"nl", "tab", "bs"},
           NEW u, u = Screens!Up(q), NEW d \in Screens!Cell
    PROVE  Screens!Display!Write(text, k, c, q)[d] =
              IF d + u = k THEN c ELSE Screens!Moved(text, d + u)
<1>1. Screens!Display!Write(text, k, c, q)[d] =
         IF d + Screens!Up(q) = k THEN c
         ELSE Screens!Moved(text, d + Screens!Up(q))
  BY Screens!WriteGlyph, ScreenGiven
<1> QED BY <1>1, Zenon

(* Where c is no backspace, its cells look like c and the others move up.  *)
LEMMA EmitWrites ==
    ASSUME NEW last \in Int, Screens!Cell = 0 .. last, NEW text,
           NEW k \in 0 .. last, NEW c \in Letter \cup {"tab"},
           NEW q \in Nat, q = k + Taking(c), NEW u \in Nat, u = Screens!Up(q)
    PROVE  Written(text, Screens!Display!Write(text, k, c, q), last, k, q - k, u, c)
<1>1. ASSUME NEW d \in Screens!Cell, d + u \in 0 .. k - 1
      PROVE  d + u \in Screens!Cell /\ d + u \notin k .. q - 1 /\ d + u # k
  BY <1>1
<1>2. CASE c = "tab"
  <2>1. Screens!Display!Write(text, k, c, q) = Screens!Spread(text, k, q)
    BY <1>2, Screens!WriteTab, ScreenGiven
  <2>2. ASSUME NEW d \in Screens!Cell
        PROVE  /\ d + u \in k .. q - 1 =>
                      Screens!Display!Write(text, k, c, q)[d] = Mark(c)
               /\ d + u \in 0 .. k - 1 =>
                      Screens!Display!Write(text, k, c, q)[d] = text[d + u]
    BY <1>1, <1>2, <2>1, Zenon DEF Mark, Screens!Spread, Screens!Moved
  <2> QED BY <2>2 DEF Written
<1>3. CASE c # "tab"
  <2>1. c \notin {"nl", "tab", "bs"} /\ Mark(c) = c /\ q = k + 1
    BY <1>3, ScreenGiven DEF Mark, Taking
  <2>2. ASSUME NEW d \in Screens!Cell
        PROVE  /\ d + u = k => Screens!Display!Write(text, k, c, q)[d] = Mark(c)
               /\ d + u \in 0 .. k - 1 =>
                      Screens!Display!Write(text, k, c, q)[d] = text[d + u]
    <3>1. CASE d + u = k
      <4>1. Screens!Display!Write(text, k, c, q)[d] = c
        BY <2>1, <3>1, GlyphWritten
      <4> QED BY <1>1, <2>1, <3>1, <4>1, Zenon
    <3>2. CASE d + u # k
      <4>1. Screens!Display!Write(text, k, c, q)[d] = Screens!Moved(text, d + u)
        BY <2>1, <3>2, GlyphWritten
      <4> QED BY <1>1, <2>1, <3>2, <4>1, Zenon DEF Screens!Moved
    <3> QED BY <3>1, <3>2
  <2>3. \A d \in Screens!Cell : d + u \in k .. k + (q - k) - 1 => d + u = k
    BY <2>1
  <2> QED BY <2>2, <2>3 DEF Written
<1> QED BY <1>2, <1>3

LEMMA EmitLonger ==
    ASSUME Screens!TextsOK, Screens!InText, NEW t \in Terminal,
           NEW c \in Letter \cup {"tab"}, Screens!Display!Emit(t, c),
           NEW s, NEW r, Longer(r, s, c), EndsWith(TextAt(t), EndAt(t), s)
    PROVE  EndsWith(TextAt(t)', EndAt(t)', r)
<1>1. PICK last \in Int : Screens!Cell = 0 .. last
  BY Screens!SizeType, ScreenGiven
<1>2. PICK k \in 0 .. last : k = EndAt(t)
  BY <1>1, EndInside
<1>3. PICK n \in Nat : n = Taking(c)
  BY ScreenGiven DEF Taking
<1>4. PICK q \in Nat : q = k + n
  OBVIOUS
<1>5. q = Screens!Display!After(EndAt(t), c)
  BY <1>2, <1>3, <1>4, ScreenGiven DEF Screens!Display!After, Taking
<1>6. PICK u \in Nat : u = Screens!Up(q) /\ q - u \in 0 .. last
  BY <1>1, Screens!UpType, ScreenGiven
<1>7. TextAt(t)' = Screens!Display!Write(TextAt(t), k, c, q) /\ EndAt(t)' = q - u
  BY <1>2, <1>5, <1>6, EmitIs
<1>8. PICK text, new : text = TextAt(t) /\ new = TextAt(t)'
  OBVIOUS
<1>9. Written(text, new, last, k, n, u, c)
  <2>1. Written(text, new, last, k, q - k, u, c)
    <3>1. Written(text, Screens!Display!Write(text, k, c, q), last, k, q - k, u, c)
      <4>1. q = k + Taking(c)
        BY <1>3, <1>4
      <4>2. u = Screens!Up(q)
        BY <1>6
      <4> QED BY <1>1, <4>1, <4>2, EmitWrites
    <3>2. new = Screens!Display!Write(text, k, c, q)
      BY <1>7, <1>8
    <3> QED BY <3>1, <3>2
  <2>2. q - k = n
    BY <1>4
  <2> QED BY <2>1, <2>2
<1>10. PICK e \in 0 .. last : e = EndAt(t)' /\ e = k + n - u
  BY <1>4, <1>6, <1>7
<1>11. EndsWith(text, k, s)
  BY <1>2, <1>8
<1>12. EndsWith(new, e, r)
  BY <1>3, <1>9, <1>10, <1>11, Lengthened
<1> QED BY <1>8, <1>10, <1>12

LEMMA EmitShorter ==
    ASSUME Screens!TextsOK, Screens!InText, NEW t \in Terminal,
           Screens!Display!Emit(t, "bs"),
           NEW s, NEW r, NEW c, Longer(s, r, c), c # "tab",
           EndsWith(TextAt(t), EndAt(t), s)
    PROVE  EndsWith(TextAt(t)', EndAt(t)', r)
<1>1. PICK last \in Int : Screens!Cell = 0 .. last
  BY Screens!SizeType, ScreenGiven
<1>2. PICK k \in 0 .. last : k = EndAt(t)
  BY <1>1, EndInside
<1>3. k - 1 = Screens!Display!After(EndAt(t), "bs") /\ k - 1 >= 0
  <2>1. Screens!Display!After(EndAt(t), "bs") = k - 1
    BY <1>2 DEF Screens!Display!After
  <2>2. Screens!Display!After(Screens!AtOf[t], "bs") >= 0
    BY Zenon DEF Screens!Display!Emit, Screens!AtOf
  <2> QED BY <2>1, <2>2, TextIs
<1>4. PICK q \in Nat : q = k - 1 /\ q \in Screens!Cell
  BY <1>1, <1>3
<1>5. Screens!Up(q) = 0
  BY <1>4 DEF Screens!Up
<1>6. TextAt(t)' = Screens!Display!Write(TextAt(t), k, "bs", q) /\ EndAt(t)' = q
  BY <1>2, <1>3, <1>4, <1>5, EmitIs
<1>7. TextAt(t)' = Screens!Rubbed(TextAt(t), q)
  BY <1>6, Screens!WriteBackspace, ScreenGiven
<1>8. ASSUME NEW d \in Screens!Cell, d # k - 1
      PROVE  TextAt(t)'[d] = TextAt(t)[d]
  <2>1. d + Screens!Up(q) = d
    BY <1>1, <1>5
  <2> QED BY <1>4, <1>7, <1>8, <2>1, Zenon DEF Screens!Rubbed, Screens!Moved
<1>9. PICK text, new : text = TextAt(t) /\ new = TextAt(t)'
  OBVIOUS
<1>10. EndsWith(new, k - 1, r)
  BY <1>1, <1>2, <1>8, <1>9, Shortened
<1> QED BY <1>4, <1>6, <1>9, <1>10

-----------------------------------------------------------------------------
(* A step of the console is one of the line's and one of the screen's.     *)
LEMMA LineSteps == [ConsoleNext]_allVars => [Next]_vars
<1> SUFFICES ASSUME [ConsoleNext]_allVars PROVE [Next]_vars
  OBVIOUS
<1>1. ASSUME NEW c \in Char, ConsoleKey(c) PROVE Next
  BY <1>1 DEF ConsoleKey, Next
<1>2. CASE ConsoleCtrlL
  BY <1>2 DEF ConsoleCtrlL, Next
<1>3. ASSUME NEW t \in Terminal, ConsoleSwitch(t) \/ ConsoleRead(t) PROVE Next
  BY <1>3 DEF ConsoleSwitch, ConsoleRead, Next
<1>4. ASSUME NEW t \in Terminal, NEW c, ConsoleWrite(t, c) PROVE UNCHANGED vars
  <2>1. UNCHANGED <<curr_terminal_visible, curr_terminal_executing>>
    BY <1>4 DEF ConsoleWrite, Display!write_terminal, Display!turns
  <2>2. UNCHANGED lineVars
    BY <1>4 DEF ConsoleWrite
  <2> QED BY <2>1, <2>2 DEF lineVars, vars
<1>5. CASE ConsoleTick
  BY <1>5 DEF ConsoleTick, Next
<1>6. CASE UNCHANGED allVars
  BY <1>6 DEF allVars, lineVars, vars
<1> QED BY <1>1, <1>2, <1>3, <1>4, <1>5, <1>6 DEF ConsoleNext

(* The actions of Screen, under the name they have in each instance.       *)
LEMMA SamePlaces ==
    ASSUME NEW p, NEW c, NEW i, NEW cells
    PROVE  /\ Display!Printed(p, c) = Screens!Printed(p, c)
           /\ Display!Before(p) = Screens!Before(p)
           /\ Display!CellOf(p) = Screens!CellOf(p)
           /\ Display!Erase(cells, i) = Screens!Erase(cells, i)
           /\ Display!Blank = Screens!Blank
  BY DEF Display!Printed, Display!NewLine, Display!Tabbed, Display!Glyphed,
         Display!scroll, Display!Place, Display!Cell, Display!Before,
         Display!CellOf, Display!Erase, Display!Blank,
         Screens!Printed, Screens!NewLine, Screens!Tabbed, Screens!Glyphed,
         Screens!scroll, Screens!Place, Screens!Cell, Screens!Before,
         Screens!CellOf, Screens!Erase, Screens!Blank

LEMMA SamePut ==
    ASSUME NEW c, NEW ahead, Display!PutAhead(c, ahead)
    PROVE  Screens!PutAhead(c, ahead)
<1> DEFINE v == curr_terminal_visible
           here == Screens!Place(screen, screen_x[v], screen_y[v])
           back == Screens!Before(here)
           next == IF c = "bs"
                   THEN Screens!Place(Screens!Erase(screen, Screens!CellOf(back)),
                                      back.x, back.y)
                   ELSE Screens!Printed(here, c)
<1>1. \A cells, x, y : Display!Place(cells, x, y) = Screens!Place(cells, x, y)
  BY DEF Display!Place, Screens!Place
<1>2. /\ screen' = next.cells
      /\ Display!MoveTo(v, next)
      /\ cursor' = Screens!CellOf(next) + ahead
      /\ astray' = (ahead > 0)
      /\ UNCHANGED terminal_vid_mem
  BY <1>1, SamePlaces DEF Display!PutAhead
<1>3. Screens!MoveTo(v, next)
  BY <1>2 DEF Display!MoveTo, Screens!MoveTo
<1> QED BY <1>2, <1>3 DEF Screens!PutAhead

LEMMA SameKey ==
    /\ \A c : Display!KeyEcho(c) => Screens!KeyEcho(c)
    /\ Display!TabEcho => Screens!TabEcho
    /\ Display!CtrlL => Screens!CtrlL
  BY SamePut, SamePlaces
     DEF Display!KeyEcho, Display!putc, Display!TabEcho, Display!CtrlL,
         Display!Cause, Display!AtTop, Display!turns, Display!locks,
         Display!video, Display!MoveTo, Display!Background,
         Screens!KeyEcho, Screens!putc, Screens!TabEcho, Screens!CtrlL,
         Screens!Cause, Screens!AtTop, Screens!turns, Screens!locks,
         Screens!video, Screens!MoveTo, Screens!Background

LEMMA SameWrite ==
    ASSUME NEW c, Display!write_terminal(c) PROVE Screens!write_terminal(c)
<1>1. ASSUME Display!k_putc(c) PROVE Screens!k_putc(c)
  BY <1>1, SamePlaces
     DEF Display!k_putc, Display!Place, Display!MoveTo,
         Screens!k_putc, Screens!Place, Screens!MoveTo
<1>2. ASSUME Display!putc(c) PROVE Screens!putc(c)
  BY <1>2, SamePut DEF Display!putc, Screens!putc
<1> QED BY <1>1, <1>2
     DEF Display!write_terminal, Display!Cause, Display!AtTop, Display!turns,
         Display!locks, Display!video, Display!texts, Display!Background,
         Screens!write_terminal, Screens!Cause, Screens!AtTop, Screens!turns,
         Screens!locks, Screens!video, Screens!texts, Screens!Background

LEMMA SameTurn ==
    /\ \A t : Display!switch_terminal(t) => Screens!switch_terminal(t)
    /\ \A t : Display!Tick(t) => Screens!Tick(t)
    /\ Display!LineRead => Screens!LineRead
  BY DEF Display!switch_terminal, Display!Tick, Display!LineRead,
         Display!turns, Display!locks, Display!video, Display!texts,
         Screens!switch_terminal, Screens!Tick, Screens!LineRead,
         Screens!turns, Screens!locks, Screens!video, Screens!texts

LEMMA SameTerminals == Terminal = Screens!Terminal /\ Char = Screens!Char
  BY DEF Terminal, Screens!Terminal, Char, Screens!Char

(* Reading leaves the screen alone, but for jammer.                        *)
LEMMA ReadShows ==
    ASSUME NEW t \in Terminal, ConsoleRead(t)
    PROVE  /\ Screens!LineRead \/ UNCHANGED Screens!vars
           /\ UNCHANGED <<screen, terminal_vid_mem, screen_x, screen_y,
                          curr_terminal_visible, screenHazards>>
<1>1. UNCHANGED <<curr_terminal_visible, curr_terminal_executing>>
  BY DEF ConsoleRead, Read, ReadStep, SeeEnter, Copy, Finish, Cut, ResetEnter,
         ResetCount, Clear
<1>2. Display!LineRead \/ UNCHANGED displayVars
  BY DEF ConsoleRead
<1>3. CASE Display!LineRead
  BY <1>1, <1>3, SameTurn DEF Screens!LineRead, Screens!texts
<1>4. CASE UNCHANGED displayVars
  BY <1>1, <1>4 DEF displayVars, Screens!vars, Screens!texts, Screens!turns,
                    Screens!locks, Screens!video
<1> QED BY <1>2, <1>3, <1>4

LEMMA ScreenSteps ==
    TypeOK' /\ [ConsoleNext]_allVars => [Screens!Next]_(Screens!vars)
<1> SUFFICES ASSUME TypeOK', [ConsoleNext]_allVars
             PROVE  [Screens!Next]_(Screens!vars)
  OBVIOUS
<1>1. ASSUME NEW c \in Char, ConsoleKey(c) PROVE Screens!Next
  <2>1. \/ c = "tab" /\ Screens!TabEcho
        \/ c # "tab" /\ Screens!KeyEcho(c)
    BY <1>1, SameKey DEF ConsoleKey
  <2> QED BY <2>1, SameTerminals DEF Screens!Next
<1>2. CASE ConsoleCtrlL
  BY <1>2, SameKey DEF ConsoleCtrlL, Screens!Next
<1>3. ASSUME NEW t \in Terminal, ConsoleSwitch(t) PROVE Screens!Next
  <2>1. Screens!switch_terminal(t)
    BY <1>3, SameTurn DEF ConsoleSwitch
  <2> QED BY <2>1, SameTerminals DEF Screens!Next
<1>4. ASSUME NEW t \in Terminal, ConsoleRead(t)
      PROVE  Screens!Next \/ UNCHANGED Screens!vars
  BY <1>4, ReadShows DEF Screens!Next
<1>5. ASSUME NEW t \in Terminal, NEW c \in Letter \cup {"nl"}, ConsoleWrite(t, c)
      PROVE  Screens!Next
  <2>1. Screens!write_terminal(c) /\ c \in Screens!Char
    BY <1>5, SameWrite DEF ConsoleWrite, Screens!Char
  <2> QED BY <2>1 DEF Screens!Next
<1>6. CASE ConsoleTick
  <2>1. Screens!Tick(curr_terminal_executing')
    BY <1>6, SameTurn DEF ConsoleTick
  <2>2. curr_terminal_executing' \in Screens!Terminal
    BY SameTerminals DEF TypeOK
  <2> QED BY <2>1, <2>2 DEF Screens!Next
<1>7. CASE UNCHANGED allVars
  BY <1>7 DEF allVars, displayVars, Screens!vars, Screens!texts,
              Screens!turns, Screens!locks, Screens!video
<1> QED BY <1>1, <1>2, <1>3, <1>4, <1>5, <1>6, <1>7 DEF ConsoleNext

-----------------------------------------------------------------------------
(* The inductive invariant of the console: those of its two parts; until   *)
(* the line and its echo are torn apart, sum is what the line of the       *)
(* visible terminal takes on the screen, and every line that has not been  *)
(* entered ends the text of its terminal.                                  *)
Cells(t) == IF Ended(t) THEN 0 ELSE Width(typed[t])
SumRight == Clean => sum = Cells(curr_terminal_visible)

Shows(t) == ~Ended(t) => EndsWith(TextAt(t), EndAt(t), typed[t])
AllShown == Clean => \A t \in Terminal : Shows(t)

ConsoleInv == IInv /\ Screens!IInv /\ SumRight /\ AllShown

LEMMA EmptyLine == Width(<<>>) = 0 /\ \A text, end : EndsWith(text, end, <<>>)
<1>1. {i \in 1 .. 0 : <<>>[i] = "tab"} = {} /\ Len(<<>>) = 0
  OBVIOUS
<1>2. Width(<<>>) = 0
  BY <1>1, FS_EmptySet, IOAssumption DEF Width, Echoed
<1> QED BY <1>1, <1>2 DEF EndsWith

LEMMA ConsoleInitInv == ConsoleInit => ConsoleInv
<1> SUFFICES ASSUME ConsoleInit PROVE ConsoleInv
  OBVIOUS
<1>1. IInv
  BY InitInv DEF ConsoleInit
<1>2. Screens!IInv
  <2>1. /\ curr_terminal_visible = 0 /\ curr_terminal_executing = 0
        /\ active = Screens!Terminal /\ using = {} /\ screenHazards = {}
        /\ jammer = FALSE /\ hotjam = FALSE
        /\ page_table_video =
              [t \in Screens!Terminal |-> [P |-> FALSE, PBA |-> "0"]]
    BY SameTerminals DEF ConsoleInit, Display!InitWith, Display!Terminal,
                         Terminal, Screens!Terminal
  <2>2. Screens!TurnsOK /\ Screens!VideoOK /\ Screens!FlagsOK
    <3>1. Screens!TurnsOK
      BY <2>1, ScreenGiven DEF Screens!TurnsOK, Screens!Terminal
    <3>2. Screens!VideoOK /\ Screens!FlagsOK
      BY <2>1 DEF Screens!VideoOK, Screens!FlagsOK, Screens!PageOfProgram,
                  Screens!Entry
    <3> QED BY <3>1, <3>2
  <2>3. /\ screen = Screens!Blank
        /\ terminal_vid_mem = [t \in Terminal |-> Screens!Blank]
    BY SamePlaces DEF ConsoleInit, Display!InitWith, Terminal, Display!Terminal
  <2>4. Screens!Blank \in [Screens!Cell -> Screens!Ink]
    BY Zenon DEF Screens!Blank, Screens!Ink
  <2>5. Screens!TextsOK /\ Screens!InTextOK
    BY <2>3, <2>4, SameTerminals, ScreenGiven
       DEF ConsoleInit, Display!InitWith, Display!Terminal, Screens!Terminal,
           Screens!TextsOK, Screens!InTextOK, Screens!InText, Screens!Row
  <2> QED BY <2>2, <2>5 DEF Screens!IInv
<1>3. curr_terminal_visible \in Terminal
  BY <1>1 DEF IInv, TypeOK
<1>4. /\ \A t \in Terminal : typed[t] = <<>>
      /\ sum = 0
  BY DEF ConsoleInit, Init
<1>5. \A t \in Terminal : Cells(t) = 0 /\ Shows(t)
  BY <1>4, EmptyLine DEF Cells, Shows
<1> QED BY <1>1, <1>2, <1>3, <1>4, <1>5 DEF ConsoleInv, SumRight, AllShown

(* What has torn the line and its echo apart stays recorded.               *)
LEMMA CleanBefore ==
    TypeOK' /\ [ConsoleNext]_allVars /\ Clean' => Clean
<1> SUFFICES ASSUME TypeOK', [ConsoleNext]_allVars, Clean' PROVE Clean
  OBVIOUS
<1>1. hazards = {}
  BY LineSteps, HazardsGrow DEF Clean
<1>2. [Screens!Next]_(Screens!vars) => screenHazards \subseteq screenHazards'
  BY DEF Screens!Next, Screens!vars, Screens!KeyEcho, Screens!TabEcho,
         Screens!CtrlL, Screens!write_terminal, Screens!printf,
         Screens!LineRead, Screens!switch_terminal, Screens!Tick,
         Screens!vidmap, Screens!Draw, Screens!halt
<1>3. screenHazards = {}
  BY <1>2, ScreenSteps DEF Clean
<1>4. mixed \subseteq mixed'
  BY DEF ConsoleNext, allVars, ConsoleKey, ConsoleCtrlL, ConsoleSwitch,
         ConsoleRead, ConsoleWrite, ConsoleTick, Mixed
<1> QED BY <1>1, <1>3, <1>4 DEF Clean

(* The state of a console whose line and echo agree, and stay so.          *)
Tidy == /\ TypeOK /\ \A t \in Terminal : InOrder(t)
        /\ Screens!TextsOK /\ Screens!TurnsOK /\ Screens!InText
        /\ sum = Cells(curr_terminal_visible)
        /\ \A t \in Terminal : Shows(t)

LEMMA ConsoleTidy == ConsoleInv /\ Clean => Tidy
  BY DEF ConsoleInv, Clean, SumRight, AllShown, Tidy, IInv, Calm,
         Screens!IInv, Screens!InTextOK

LEMMA CleanCalm == Clean /\ Clean' => Screens!Calm
  BY DEF Clean, Screens!Calm

(* A terminal whose line and text stay what they are.                      *)
LEMMA StillShows ==
    ASSUME NEW t, Shows(t), TextAt(t)' = TextAt(t), EndAt(t)' = EndAt(t),
           typed'[t] = typed[t]
    PROVE  Shows(t)' /\ Cells(t)' = Cells(t)
<1>1. Ended(t)' = Ended(t)
  BY DEF Ended
<1> QED BY <1>1 DEF Shows, Cells, EndsWith

LEMMA EmptyShows ==
    ASSUME NEW t, typed'[t] = <<>> PROVE Shows(t)' /\ Cells(t)' = 0
<1>1. ~Ended(t)'
  BY DEF Ended
<1> QED BY <1>1, EmptyLine DEF Shows, Cells

-----------------------------------------------------------------------------
(* A key of a line that is not typed ahead: its echo, if it is no newline, *)
(* lengthens or shortens text and line alike.                              *)
LEMMA KeyShows ==
    ASSUME Tidy, Clean, Clean', NEW c \in Char, ConsoleKey(c)
    PROVE  sum' = Cells(curr_terminal_visible)' /\ \A t \in Terminal : Shows(t)'
<1>1. PICK v \in Terminal : v = curr_terminal_visible
  BY DEF Tidy, TypeOK
<1>2. PICK s \in Seq(Char) : s = typed[v]
  BY DEF Tidy, TypeOK
<1>3. /\ curr_terminal_visible' = v /\ typed' = [typed EXCEPT ![v] = Edit(s, c)]
      /\ typed' = [t \in Terminal |-> IF t = v THEN Edit(s, c) ELSE typed[t]]
      /\ ~Pending(v) /\ (c = "bs" => key_count[v] # 0)
      /\ c = "bs" => ~(s # <<>> /\ s[Len(s)] = "tab")
  <2>1. Key(c) /\ Mixed("tab", c = "bs" /\ s # <<>> /\ s[Len(s)] = "tab")
    BY <1>1, <1>2 DEF ConsoleKey
  <2> QED BY <1>1, <1>2, <2>1 DEF Key, Cause, Mixed, Clean, Tidy, TypeOK
<1>4. ~Entered(v) /\ ~Ended(v) /\ key_count[v] = Len(s)
  <2>1. ~Entered(v) /\ pc[v] # "clear"
    BY <1>3 DEF Pending, Entered, Resetting
  <2>2. Ends(v) /\ Held(v)
    BY DEF Tidy, InOrder
  <2>3. DOMAIN s = 1 .. Len(s)
    OBVIOUS
  <2> QED BY <1>2, <2>1, <2>2, <2>3 DEF Ends, Held, Ended
<1>5. sum = Width(s) /\ EndsWith(TextAt(v), EndAt(v), s)
  BY <1>1, <1>2, <1>4 DEF Tidy, Cells, Shows
<1>6. Screens!Display!Emit(v, c)
  <2>1. Screens!Calm /\ c \in Screens!Char
    BY CleanCalm, SameTerminals
  <2>2. CASE c = "tab"
    <3>1. Screens!TabEcho
      BY <2>2, SameKey DEF ConsoleKey
    <3>2. Screens!PutAhead(c, TAB) /\ UNCHANGED Screens!turns
      BY <2>2, <3>1 DEF Screens!TabEcho
    <3>3. ~(c = "bs" /\ Screens!AtTop(curr_terminal_visible))
      BY <2>2
    <3> QED BY <1>1, <2>1, <3>2, <3>3, ScreenGiven, Screens!ScreenEmits DEF Tidy
  <2>3. CASE c # "tab"
    <3>1. Screens!KeyEcho(c)
      BY <2>3, SameKey DEF ConsoleKey
    <3>2. Screens!PutAhead(c, 0) /\ UNCHANGED Screens!turns
      BY <3>1 DEF Screens!KeyEcho, Screens!putc
    <3>3. ~(c = "bs" /\ Screens!AtTop(curr_terminal_visible))
      BY <3>1 DEF Screens!KeyEcho, Screens!Cause, Clean
    <3> QED BY <1>1, <2>1, <3>2, <3>3, ScreenGiven, Screens!ScreenEmits DEF Tidy
  <2> QED BY <2>2, <2>3
<1>7. ASSUME NEW t \in Terminal, t # v PROVE Shows(t)'
  <2>1. TextAt(t)' = TextAt(t) /\ EndAt(t)' = EndAt(t)
    BY <1>6, <1>7, Beside
  <2>2. typed'[t] = typed[t] /\ Shows(t)
    BY <1>3, <1>7 DEF Tidy
  <2> QED BY <2>1, <2>2, StillShows
<1>8. typed'[v] = Edit(s, c)
  BY <1>3
<1>9. CASE c \in Letter \cup {"tab"}
  <2>1. Longer(Edit(s, c), s, c)
    <3>1. c # "bs"
      BY <1>9, IOAssumption
    <3>2. /\ Len(Edit(s, c)) = Len(s) + 1
          /\ \A i \in 1 .. Len(s) : Edit(s, c)[i] = s[i]
          /\ Edit(s, c)[Len(s) + 1] = c
      BY <3>1, Editing
    <3>3. Len(s) \in Nat
      OBVIOUS
    <3> QED BY <3>2, <3>3 DEF Longer
  <2>2. EndsWith(TextAt(v)', EndAt(v)', typed'[v])
    BY <1>5, <1>6, <1>8, <1>9, <2>1, EmitLonger DEF Tidy
  <2>3. sum' = sum + Taking(c)
    BY <1>9, IOAssumption DEF ConsoleKey, Key, Taking
  <2>4. ~Ended(v)'
    <3>1. DOMAIN typed'[v] = 1 .. Len(s) + 1 /\ DOMAIN s = 1 .. Len(s)
      <4>1. Edit(s, c) \in Seq(Char) /\ Len(Edit(s, c)) = Len(s) + 1
        BY <2>1, Editing DEF Longer
      <4> QED BY <1>8, <4>1
    <3>2. \A i \in 1 .. Len(s) : s[i] # "nl"
      BY <1>2, <1>4, <3>1 DEF Ended
    <3>3. c # "nl"
      BY <1>9, IOAssumption
    <3> QED BY <1>8, <2>1, <3>1, <3>2, <3>3 DEF Ended, Longer
  <2>5. sum' = Width(typed'[v])
    BY <1>5, <1>8, <2>1, <2>3, WidthLonger
  <2> QED BY <1>3, <1>7, <2>2, <2>4, <2>5 DEF Cells, Shows
<1>10. CASE c = "nl"
  <2>1. Longer(Edit(s, c), s, c) /\ Edit(s, c) \in Seq(Char)
    BY <1>10, Editing DEF Longer
  <2>2. Ended(v)'
    <3>1. Len(s) + 1 \in DOMAIN typed'[v] /\ typed'[v][Len(s) + 1] = "nl"
      BY <1>8, <1>10, <2>1 DEF Longer
    <3> QED BY <3>1 DEF Ended
  <2>3. sum' = 0
    BY <1>10, IOAssumption DEF ConsoleKey, Key
  <2> QED BY <1>3, <1>7, <2>2, <2>3 DEF Cells, Shows
<1>11. CASE c = "bs"
  <2>1. /\ Len(s) \in Nat /\ Len(s) > 0 /\ s # <<>> /\ Edit(s, c) \in Seq(Char)
        /\ Len(Edit(s, c)) = Len(s) - 1
        /\ \A i \in 1 .. Len(s) - 1 : Edit(s, c)[i] = s[i]
    <3>1. Len(s) \in Nat /\ Len(s) > 0 /\ s # <<>>
      BY <1>3, <1>4, <1>11
    <3> QED BY <1>11, <3>1, Editing
  <2>2. PICK last : last = s[Len(s)] /\ last # "tab"
    BY <1>3, <1>11, <2>1
  <2>3. Longer(s, Edit(s, c), last)
    BY <2>1, <2>2 DEF Longer
  <2>4. EndsWith(TextAt(v)', EndAt(v)', typed'[v])
    BY <1>5, <1>6, <1>8, <1>11, <2>2, <2>3, EmitShorter DEF Tidy
  <2>5. sum' = sum - 1
    BY <1>11, IOAssumption DEF ConsoleKey, Key
  <2>6. ~Ended(v)'
    <3>1. DOMAIN typed'[v] = 1 .. Len(s) - 1 /\ DOMAIN s = 1 .. Len(s)
      BY <1>8, <2>1
    <3>2. \A i \in 1 .. Len(s) : s[i] # "nl"
      BY <1>2, <1>4, <3>1 DEF Ended
    <3> QED BY <1>8, <2>1, <3>1, <3>2 DEF Ended
  <2>7. sum' = Width(typed'[v])
    <3>1. Width(Edit(s, c)) \in Int /\ Width(s) = Width(Edit(s, c)) + 1
      BY <2>2, <2>3, WidthLonger DEF Taking
    <3> QED BY <1>5, <1>8, <2>5, <3>1
  <2> QED BY <1>3, <1>7, <2>4, <2>6, <2>7 DEF Cells, Shows
<1> QED BY <1>9, <1>10, <1>11 DEF Char

(* Ctrl-L, in the foreground: both are empty.                              *)
LEMMA ClearShows ==
    ASSUME Tidy, Clean', ConsoleCtrlL
    PROVE  sum' = Cells(curr_terminal_visible)' /\ \A t \in Terminal : Shows(t)'
<1>1. PICK v \in Terminal : v = curr_terminal_visible
  BY DEF Tidy, TypeOK
<1>2. /\ curr_terminal_visible' = v /\ sum' = 0 /\ typed'[v] = <<>>
      /\ \A t \in Terminal \ {v} : typed'[t] = typed[t]
  BY <1>1 DEF ConsoleCtrlL, CtrlL, Tidy, TypeOK
<1>3. Screens!CtrlL /\ curr_terminal_executing = v
  BY <1>1, SameKey DEF ConsoleCtrlL, Screens!CtrlL, Screens!Cause,
                       Screens!Background, Clean
<1>4. ASSUME NEW t \in Terminal, t # v PROVE Shows(t)'
  <2>1. TextAt(t)' = TextAt(t) /\ EndAt(t)' = EndAt(t)
    BY <1>1, <1>2, <1>3, <1>4
       DEF Screens!CtrlL, Screens!MoveTo, TextAt, EndAt, Tidy, Screens!TextsOK,
           Terminal, Screens!Terminal
  <2> QED BY <1>2, <1>4, <2>1, StillShows DEF Tidy
<1>5. Shows(v)' /\ Cells(v)' = 0
  BY <1>2, EmptyShows
<1> QED BY <1>2, <1>4, <1>5 DEF Cells

(* Another terminal is shown: no text changes, and sum suits its line.     *)
LEMMA SwitchShows ==
    ASSUME Tidy, Clean', NEW u \in Terminal, ConsoleSwitch(u)
    PROVE  sum' = Cells(curr_terminal_visible)' /\ \A t \in Terminal : Shows(t)'
<1>1. PICK v \in Terminal : v = curr_terminal_visible
  BY DEF Tidy, TypeOK
<1>2. /\ curr_terminal_visible' = u /\ u # v
      /\ sum' = sum /\ typed' = typed /\ sum = Cells(u)
  BY <1>1 DEF ConsoleSwitch, SwitchTo, keyboard, Mixed, Cause, Clean, Cells
<1>3. Screens!switch_terminal(u)
  BY SameTurn DEF ConsoleSwitch
<1>4. ASSUME NEW t \in Terminal PROVE Shows(t)' /\ Cells(t)' = Cells(t)
  <2>1. EndAt(t)' = EndAt(t)
    BY <1>3 DEF Screens!switch_terminal, EndAt
  <2>2. TextAt(t)' = TextAt(t)
    BY <1>1, <1>2, <1>3 DEF Screens!switch_terminal, TextAt, Tidy,
       Screens!TextsOK, Terminal, Screens!Terminal
  <2> QED BY <1>2, <2>1, <2>2, StillShows DEF Tidy
<1> QED BY <1>2, <1>4 DEF Cells, Ended

(* Output of the program of u, which is not in the middle of a line.       *)
LEMMA WriteShows ==
    ASSUME Tidy, Clean, Clean', NEW u \in Terminal,
           NEW c \in Letter \cup {"nl"}, ConsoleWrite(u, c)
    PROVE  sum' = Cells(curr_terminal_visible)' /\ \A t \in Terminal : Shows(t)'
<1>1. /\ sum' = sum /\ typed' = typed /\ u = curr_terminal_executing
      /\ typed[u] = <<>> \/ jammer \/ hotjam
  BY DEF ConsoleWrite, At, lineVars, keyboard, Mixed, Cause, Clean
<1>2. Screens!write_terminal(c)
  BY SameWrite DEF ConsoleWrite
<1>3. curr_terminal_visible' = curr_terminal_visible /\ UNCHANGED Screens!turns
  BY <1>2 DEF Screens!write_terminal, Screens!turns
<1>4. ASSUME NEW t \in Terminal PROVE Shows(t)'
  <2>1. CASE jammer \/ hotjam
    <3>1. TextAt(t)' = TextAt(t) /\ EndAt(t)' = EndAt(t)
      BY <1>2, <1>3, <2>1 DEF Screens!write_terminal, Screens!texts, TextAt, EndAt
    <3> QED BY <1>1, <3>1, StillShows DEF Tidy
  <2>2. CASE ~jammer /\ ~hotjam
    <3>1. Screens!Calm /\ c \in Screens!Char /\ c # "bs"
      BY CleanCalm, SameTerminals, IOAssumption DEF Char
    <3>2. Screens!Display!Emit(u, c)
      <4>1. CASE Screens!Background
        <5>1. Screens!k_putc(c)
          BY <1>2, <2>2, <4>1 DEF Screens!write_terminal
        <5> QED BY <1>1, <1>3, <3>1, <4>1, <5>1, ScreenGiven, Screens!PageEmits
                DEF Tidy
      <4>2. CASE ~Screens!Background
        <5>1. Screens!PutAhead(c, 0) /\ u = curr_terminal_visible
          BY <1>1, <1>2, <2>2, <4>2
             DEF Screens!write_terminal, Screens!putc, Screens!Background
        <5>2. ~(c = "bs" /\ Screens!AtTop(curr_terminal_visible))
          BY <3>1
        <5> QED BY <1>3, <3>1, <5>1, <5>2, ScreenGiven, Screens!ScreenEmits
                DEF Tidy
      <4> QED BY <4>1, <4>2
    <3>3. CASE t = u
      <4>1. typed'[t] = <<>>
        BY <1>1, <2>2, <3>3
      <4> QED BY <4>1, EmptyShows
    <3>4. CASE t # u
      <4>1. TextAt(t)' = TextAt(t) /\ EndAt(t)' = EndAt(t)
        BY <3>2, <3>4, Beside
      <4> QED BY <1>1, <4>1, StillShows DEF Tidy
    <3> QED BY <3>3, <3>4
  <2> QED BY <2>1, <2>2
<1> QED BY <1>1, <1>3, <1>4 DEF Cells, Ended, Tidy

(* A line that is read was ended, which left sum 0.                        *)
LEMMA ReadKeeps ==
    ASSUME Tidy, NEW u \in Terminal, ConsoleRead(u)
    PROVE  sum' = Cells(curr_terminal_visible)' /\ \A t \in Terminal : Shows(t)'
<1>1. PICK v \in Terminal : v = curr_terminal_visible
  BY DEF Tidy, TypeOK
<1>2. /\ UNCHANGED <<screen, terminal_vid_mem, screen_x, screen_y>>
      /\ curr_terminal_visible' = v
  BY <1>1, ReadShows
<1>3. sum' = sum /\ sum = Cells(v)
  BY <1>1 DEF Tidy, ConsoleRead, Read, ReadStep, SeeEnter, Copy, Finish, Cut,
              ResetEnter, ResetCount, Clear, keyboard
<1>4. \A t \in Terminal : TextAt(t)' = TextAt(t) /\ EndAt(t)' = EndAt(t)
  BY <1>1, <1>2 DEF TextAt, EndAt
<1>5. CASE Finish(u) \/ Clear(u)
  <2>1. u = v /\ Entered(v) /\ typed' = [typed EXCEPT ![v] = <<>>]
    BY <1>1, <1>5 DEF Finish, Clear, At, Tidy, InOrder, Busy, Holding, Entered,
                      Resetting
  <2>2. Cells(v) = 0
    <3>1. typed[v] \in Seq(Char) /\ typed[v] # <<>>
          /\ typed[v][Len(typed[v])] = "nl"
      BY <2>1 DEF Tidy, TypeOK, InOrder, Ends
    <3>2. Len(typed[v]) \in DOMAIN typed[v]
      BY <3>1
    <3> QED BY <3>1, <3>2 DEF Cells, Ended
  <2>3. typed'[v] = <<>> /\ \A t \in Terminal \ {v} : typed'[t] = typed[t]
    BY <2>1 DEF Tidy, TypeOK
  <2>4. Shows(v)' /\ Cells(v)' = 0
    BY <2>3, EmptyShows
  <2>5. \A t \in Terminal \ {v} : Shows(t)'
    BY <1>4, <2>3, StillShows DEF Tidy
  <2> QED BY <1>2, <1>3, <2>2, <2>4, <2>5 DEF Cells
<1>6. CASE ~(Finish(u) \/ Clear(u))
  <2>1. typed' = typed
    BY <1>6 DEF ConsoleRead, Read, ReadStep, SeeEnter, Copy, Cut, ResetEnter,
                ResetCount
  <2>2. \A t \in Terminal : Shows(t)' /\ Cells(t)' = Cells(t)
    BY <1>4, <2>1, StillShows DEF Tidy
  <2> QED BY <1>2, <1>3, <2>1, <2>2 DEF Cells, Ended
<1> QED BY <1>5, <1>6

LEMMA ConsoleStepInv == ConsoleInv /\ [ConsoleNext]_allVars => ConsoleInv'
<1> SUFFICES ASSUME ConsoleInv, [ConsoleNext]_allVars PROVE ConsoleInv'
  OBVIOUS
<1>1. IInv'
  BY LineSteps, StepInv DEF ConsoleInv
<1>2. TypeOK'
  BY <1>1 DEF IInv
<1>3. Screens!IInv'
  BY <1>2, ScreenSteps, ScreenGiven, Screens!StepInv DEF ConsoleInv
<1>4. ASSUME Clean'
      PROVE  sum' = Cells(curr_terminal_visible)' /\ \A t \in Terminal : Shows(t)'
  <2>1. Clean /\ Tidy
    BY <1>2, <1>4, CleanBefore, ConsoleTidy
  <2>2. CASE \E c \in Char : ConsoleKey(c)
    BY <1>4, <2>1, <2>2, KeyShows
  <2>3. CASE ConsoleCtrlL
    BY <1>4, <2>1, <2>3, ClearShows
  <2>4. CASE \E t \in Terminal : ConsoleSwitch(t) \/ ConsoleRead(t)
    BY <1>4, <2>1, <2>4, SwitchShows, ReadKeeps
  <2>5. CASE \E t \in Terminal, c \in Letter \cup {"nl"} : ConsoleWrite(t, c)
    BY <1>4, <2>1, <2>5, WriteShows
  <2>6. CASE ConsoleTick \/ UNCHANGED allVars
    <3>1. UNCHANGED <<sum, typed, screen, terminal_vid_mem, screen_x, screen_y,
                      curr_terminal_visible>>
      BY <2>6 DEF ConsoleTick, Tick, keyboard, Display!Tick, Display!texts,
                  allVars, lineVars, displayVars
    <3>2. ASSUME NEW t \in Terminal PROVE Shows(t)' /\ Cells(t)' = Cells(t)
      <4>1. TextAt(t)' = TextAt(t) /\ EndAt(t)' = EndAt(t)
        BY <3>1 DEF TextAt, EndAt
      <4> QED BY <2>1, <3>1, <4>1, StillShows DEF Tidy
    <3>3. sum = Cells(curr_terminal_visible)
      BY <2>1 DEF Tidy
    <3> QED BY <3>1, <3>2, <3>3 DEF Cells, Ended
  <2> QED BY <2>2, <2>3, <2>4, <2>5, <2>6 DEF ConsoleNext
<1> QED BY <1>1, <1>3, <1>4 DEF ConsoleInv, SumRight, AllShown

(* The inductive invariant of the console: until a hazard strikes, every   *)
(* line not yet entered ends the text of its terminal, and sum counts the  *)
(* cells of the visible one's (keyboard.c:89-222).                         *)
THEOREM ConsoleInvariance == ConsoleSpec => []ConsoleInv
  BY ConsoleInitInv, ConsoleStepInv, PTL DEF ConsoleSpec

(* A line that has not been entered is in the buffer as it was edited.     *)
LEMMA BufferedIs ==
    ASSUME Tidy, NEW t \in Terminal, ~Ended(t) PROVE Buffered(t) = typed[t]
<1>1. PICK s \in Seq(Char) : s = typed[t]
  BY DEF Tidy, TypeOK
<1>2. ~Entered(t)
  <2>1. Len(s) \in DOMAIN s \/ s = <<>>
    OBVIOUS
  <2> QED BY <1>1, <2>1 DEF Tidy, InOrder, Ends, Ended
<1>3. /\ key_count[t] = Len(s)
      /\ \A i \in 1 .. Len(s) : i <= B => keyboard_buffer[t][i - 1] = s[i]
  BY <1>1, <1>2 DEF Tidy, InOrder, Held, Entered, Resetting
<1>4. Buffered(t) = [i \in 1 .. Len(s) |-> s[i]]
  BY <1>1, <1>3 DEF Buffered
<1>5. s = [i \in 1 .. Len(s) |-> s[i]]
  OBVIOUS
<1> QED BY <1>1, <1>4, <1>5

(* PromptKept: backspace stops at the beginning of the line               *)
(* (keyboard.c:178-186).                                                   *)
THEOREM PromptAlwaysKept == ConsoleSpec => []PromptKept
<1>1. ConsoleInv => PromptKept
  <2> SUFFICES ASSUME ConsoleInv, Clean, ~Ended(curr_terminal_visible)
               PROVE  sum = Width(Buffered(curr_terminal_visible))
    BY DEF PromptKept
  <2>1. Tidy /\ curr_terminal_visible \in Terminal
    BY ConsoleTidy DEF Tidy, TypeOK
  <2>2. Buffered(curr_terminal_visible) = typed[curr_terminal_visible]
    BY <2>1, BufferedIs
  <2> QED BY <2>1, <2>2 DEF Tidy, Cells
<1> QED BY ConsoleInvariance, <1>1, PTL

(* LineShown: on the screen, and on the page of a terminal that is not     *)
(* shown, the text ends with the line in the buffer, whatever was typed,   *)
(* erased, scrolled and switched in between (keyboard.c:89-222).           *)
THEOREM LineAlwaysShown == ConsoleSpec => []LineShown
<1>1. ConsoleInv => LineShown
  <2> SUFFICES ASSUME ConsoleInv, Clean, NEW t \in Terminal, ~Ended(t)
               PROVE  EndsWith(TextAt(t), EndAt(t), Buffered(t))
    BY DEF LineShown, TextAt, EndAt
  <2>1. Tidy
    BY ConsoleTidy
  <2>2. Buffered(t) = typed[t]
    BY <2>1, BufferedIs
  <2> QED BY <2>1, <2>2 DEF Tidy, Shows
<1> QED BY ConsoleInvariance, <1>1, PTL

-----------------------------------------------------------------------------
(* The console is one of the uses TerminalIO allows: what is proved of the *)
(* line and its readers holds with screen, echo and output around it       *)
(* (keyboard.c:89-222, terminal.c:104-143).                                *)
THEOREM ConsoleIsTerminalIO == ConsoleSpec => Spec
<1>1. ConsoleInit => Init
  BY DEF ConsoleInit
<1> QED BY <1>1, LineSteps, PTL DEF ConsoleSpec, Spec

(* Line and screen together still give every terminal a text of its own,   *)
(* from a start with all of them in use (lib.c:176-361,                    *)
(* terminal.c:160-260).                                                    *)
THEOREM ConsoleImplementsTexts == ConsoleSpec => Screens!ImplementsTexts
<1>1. ConsoleInit => Screens!Display!Init
  <2> SUFFICES ASSUME ConsoleInit PROVE Screens!Display!Init
    OBVIOUS
  <2>1. /\ screen = Screens!Blank
        /\ terminal_vid_mem = [t \in Terminal |-> Screens!Blank]
        /\ screen_x = [t \in Terminal |-> 0]
        /\ screen_y = [t \in Terminal |-> 0]
        /\ screenHazards = {} /\ curr_terminal_visible = 0
    BY SamePlaces DEF ConsoleInit, Display!InitWith, Terminal, Display!Terminal
  <2>2. Screens!Display!Blank = Screens!Blank
    BY Screens!SizeType, ScreenGiven DEF Screens!Display!Blank, Screens!Blank
  <2>3. 0 \in Screens!Terminal
    BY ScreenGiven DEF Screens!Terminal
  <2>4. NUM_COLS * 0 + 0 = 0
    BY ScreenGiven
  <2> QED BY <2>1, <2>2, <2>3, <2>4 DEF Screens!Display!Init, Terminal,
                                        Screens!Terminal
<1>2. ConsoleInv /\ ConsoleInv' /\ [ConsoleNext]_allVars =>
         [Screens!Display!Next]_(Screens!Display!vars)
  BY ScreenSteps, ScreenGiven, Screens!StepDisplay DEF ConsoleInv, IInv
<1> QED BY <1>1, <1>2, ConsoleInvariance, PTL
        DEF ConsoleSpec, Screens!ImplementsTexts, Screens!Display!Spec
=============================================================================
