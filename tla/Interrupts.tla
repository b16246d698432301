----------------------------- MODULE Interrupts -----------------------------
(***************************************************************************)
(* Interrupts from boot on: the two interrupt controllers and their driver *)
(* (i8259.c), the order in which entry (kernel.c) sets the machine up, and *)
(* the three handlers as far as the controllers and the keyboard see them. *)
(* Handlers run with interrupts disabled, so each is one action.           *)
(***************************************************************************)
EXTENDS Keyboard, Sequences

CONSTANTS
    MaxHeld,    \* bound: keys held at a time
    MaxCodes    \* bound: scan codes the keyboard holds back

Master == {0, 1, 2}     \* timer, keyboard, slave
Slave  == {8, 12}       \* real-time clock, and a device without a driver
Line   == Master \cup Slave

VARIABLES
    master_mask, slave_mask,    \* the kernel's copies, sets of masked lines
    imr,            \* the masks in the controllers
    irr,            \* requests
    isr,            \* lines in service
    IF_flag,        \* the interrupt flag of the CPU
    booted,         \* how many of the calls in Boot have been made
    rtc_reported,   \* the clock waits for its register C to be read
    codes,          \* the scan codes the keyboard has not been asked for
    held,           \* the keys that are down, caps the state of CapsLock
    caps,
    output,         \* what the last code amounted to
    hazards         \* history: the hazardous things that have happened

pic      == <<master_mask, slave_mask, imr, irr, isr>>
keyboard == <<codes, held, caps>>
vars     == <<flags, pic, IF_flag, booted, rtc_reported, keyboard, output,
              hazards>>

Cause(hazard, cond) == IF cond THEN {hazard} ELSE {}

(* Mutant: the timer is started before the terminals exist.                *)
Boot_TimerFirst ==
        <<"i8259_init", "inti_RTC", "enable_irq8", "init_keyboard",
          "file_system_init", "initial_paging", "init_PIT", "init_terminal",
          "execute">>

(* The calls of entry; inti_RTC enables interrupts, then calls enable_irq. *)
Boot == <<"i8259_init", "inti_RTC", "enable_irq8", "init_keyboard",
          "file_system_init", "initial_paging", "init_terminal", "init_PIT",
          "execute">>
Done(call) == \E i \in 1 .. booted : Boot[i] = call
Now(call)  == booted < Len(Boot) /\ Boot[booted + 1] = call

-----------------------------------------------------------------------------
(* The loader leaves interrupts disabled and some controller state.  Keys  *)
(* may have been pressed.                                                  *)
Init ==
    /\ InitFlags
    /\ master_mask = Master /\ slave_mask = Slave
    /\ imr \in {{}, Line}
    /\ irr = {} /\ isr = {}
    /\ IF_flag = FALSE
    /\ booted = 0
    /\ rtc_reported = FALSE
    /\ codes = <<>> /\ held = {} /\ caps = FALSE
    /\ output = Nothing
    /\ hazards = {}

-----------------------------------------------------------------------------
(* Mutant: the other masks are not kept.                                   *)
enable_irq_Alone(n) ==
    /\ IF n \in Slave
       THEN /\ slave_mask' = Slave \ {n}
            /\ UNCHANGED master_mask
       ELSE /\ master_mask' = Master \ {n}
            /\ UNCHANGED slave_mask
    /\ imr' = IF n \in Slave THEN (imr \cap Master) \cup slave_mask'
              ELSE (imr \cap Slave) \cup master_mask'

(* enable_irq writes one of the two masks.                                 *)
enable_irq(n) ==
    /\ IF n \in Slave
       THEN /\ slave_mask' = slave_mask \ {n}
            /\ UNCHANGED master_mask
       ELSE /\ master_mask' = master_mask \ {n}
            /\ UNCHANGED slave_mask
    /\ imr' = IF n \in Slave THEN (imr \cap Master) \cup slave_mask'
              ELSE (imr \cap Slave) \cup master_mask'

(* The lines in service after send_eoi.                                    *)
send_eoi(n, serving) == IF n > 7 THEN serving \ {n, 2} ELSE serving \ {n}

(* i8259_init.  The initialisation words make the controllers forget their *)
(* requests and masks; enable_irq(2) then writes the master's mask again.  *)
(* A scan code that is waiting in the keyboard raises no new edge.         *)
i8259_init ==
    /\ Now("i8259_init")
    /\ master_mask' = master_mask \ {2}
    /\ UNCHANGED slave_mask
    /\ imr' = master_mask'
    /\ irr' = {} /\ isr' = {}
    /\ booted' = booted + 1
    /\ hazards' = hazards \cup Cause("early", codes # <<>>)
    /\ UNCHANGED <<flags, IF_flag, rtc_reported, keyboard, output>>

(* The other calls of entry, as far as they change this state.             *)
BootCall ==
    /\ booted < Len(Boot) /\ ~Now("i8259_init")
    /\ IF Now("enable_irq8") THEN enable_irq(8)
       ELSE IF Now("init_keyboard") THEN enable_irq(1)
       ELSE IF Now("init_PIT") THEN enable_irq(0)
       ELSE UNCHANGED <<master_mask, slave_mask, imr>>
    /\ IF_flag' = (IF_flag \/ Now("inti_RTC"))
    /\ booted' = booted + 1
    /\ UNCHANGED <<flags, irr, isr, rtc_reported, keyboard, output, hazards>>

(* After boot the kernel disables and enables interrupts again and again.  *)
Cli == /\ Done("execute") /\ IF_flag /\ IF_flag' = FALSE
       /\ UNCHANGED <<flags, pic, booted, rtc_reported, keyboard, output, hazards>>

Sti == /\ Done("execute") /\ ~IF_flag /\ IF_flag' = TRUE
       /\ UNCHANGED <<flags, pic, booted, rtc_reported, keyboard, output, hazards>>

-----------------------------------------------------------------------------
(* The devices request service.                                            *)
TimerTicks ==
    /\ irr' = irr \cup {0}
    /\ UNCHANGED <<flags, master_mask, slave_mask, imr, isr, IF_flag, booted,
                   rtc_reported, keyboard, output, hazards>>

(* The clock, once inti_RTC has enabled its interrupt.                     *)
ClockTicks ==
    /\ Done("inti_RTC") /\ ~rtc_reported
    /\ rtc_reported' = TRUE
    /\ irr' = irr \cup {8}
    /\ UNCHANGED <<flags, master_mask, slave_mask, imr, isr, IF_flag, booted,
                   keyboard, output, hazards>>

OtherDevice ==
    /\ irr' = irr \cup {12}
    /\ UNCHANGED <<flags, master_mask, slave_mask, imr, isr, IF_flag, booted,
                   rtc_reported, keyboard, output, hazards>>

(* What the user means by pressing k, with the keys in `down` held and     *)
(* caps lock on or not.                                                    *)
Meant(k, down, on) ==
    LET shifted == down \cap Shifts # {} IN
    CASE k = "l" /\ "Ctrl" \in down -> Command("clear")
      [] k = "Tab"                  -> Command("tab")
      [] k = "F1"  -> IF "Alt" \in down THEN Command("switch") ELSE Nothing
      [] k \in Modifier             -> Nothing
      [] OTHER                      ->
           [key |-> k, upper |-> IF k \in LetterKey THEN on # shifted
                                 ELSE shifted]

(* The keyboard has a code.  It interrupts with the first, and with the    *)
(* next when one has been taken.                                           *)
Send(k, make) ==
    /\ Len(codes) < MaxCodes
    /\ codes' = Append(codes, [key |-> k, make |-> make,
                               means |-> IF make THEN Meant(k, held, caps)
                                         ELSE Nothing])
    /\ irr' = IF codes = <<>> THEN irr \cup {1} ELSE irr
    /\ UNCHANGED <<flags, master_mask, slave_mask, imr, isr, IF_flag, booted,
                   rtc_reported, output>>

Press(k) ==
    /\ k \notin held /\ Cardinality(held) < MaxHeld
    /\ Send(k, TRUE)
    /\ held' = held \cup {k}
    /\ caps' = (caps # (k = "CapsLock"))
    /\ hazards' = hazards \cup Cause("fkey", k = "F1" /\ "Alt" \notin held)

Repeat(k) ==
    /\ k \in held
    /\ Send(k, TRUE)
    /\ hazards' = hazards \cup Cause("fkey", k = "F1" /\ "Alt" \notin held)
                          \cup Cause("repeat", k = "CapsLock")
    /\ UNCHANGED <<held, caps>>

Release(k) ==
    /\ k \in held
    /\ Send(k, FALSE)
    /\ held' = held \ {k}
    /\ hazards' = hazards \cup Cause("twin", k \in Shifts /\ Shifts \subseteq held)
    /\ UNCHANGED caps

-----------------------------------------------------------------------------
(* The line the controllers interrupt with: no line that is in service has *)
(* a priority as high, and a line of the slave comes in on line 2.         *)
Rank(n) == IF n > 7 THEN 2 ELSE n

Interrupting(n) ==
    /\ IF_flag /\ n \in irr \ imr
    /\ n > 7 => 2 \notin imr
    /\ \A m \in isr : Rank(m) > Rank(n)
    /\ \A m \in irr \ imr : m # 2 /\ (m > 7 => 2 \notin imr) => m >= n

Serving(n) == IF n > 7 THEN isr \cup {n, 2} ELSE isr \cup {n}

PIT_handler ==
    /\ Interrupting(0)
    /\ irr' = irr \ {0}
    /\ isr' = send_eoi(0, Serving(0))
    /\ UNCHANGED <<flags, master_mask, slave_mask, imr, IF_flag, booted,
                   rtc_reported, keyboard, output, hazards>>

(* Mutant: register C is not read.                                         *)
RTC_handler_Deaf ==
    /\ Interrupting(8)
    /\ irr' = irr \ {8}
    /\ isr' = send_eoi(8, Serving(8))
    /\ UNCHANGED <<flags, master_mask, slave_mask, imr, IF_flag, booted,
                   rtc_reported, keyboard, output, hazards>>

RTC_handler ==
    /\ Interrupting(8)
    /\ irr' = irr \ {8}
    /\ rtc_reported' = FALSE
    /\ isr' = send_eoi(8, Serving(8))
    /\ UNCHANGED <<flags, master_mask, slave_mask, imr, IF_flag, booted,
                   keyboard, output, hazards>>

(* Mutant: the return after a shift key has no send_eoi.                   *)
keyboard_handler_ShiftNoEoi ==
    LET code == Head(codes) IN
    /\ Interrupting(1)
    /\ codes' = Tail(codes)
    /\ irr' = IF Len(codes) = 1 THEN irr \ {1} ELSE irr
    /\ isr' = IF code.make /\ code.key \in Shifts THEN Serving(1)
              ELSE send_eoi(1, Serving(1))
    /\ IF code.make THEN Pressed(code.key, output')
       ELSE Released(code.key) /\ output' = Nothing
    /\ hazards' = hazards \cup Cause("early", ~Done("init_terminal"))
    /\ UNCHANGED <<master_mask, slave_mask, imr, IF_flag, booted, rtc_reported,
                   held, caps>>

(* keyboard_handler takes one code from port 0x60; every return, that of   *)
(* switch_terminal too, is after a send_eoi.                               *)
keyboard_handler ==
    LET code == Head(codes) IN
    /\ Interrupting(1)
    /\ codes' = Tail(codes)
    /\ irr' = IF Len(codes) = 1 THEN irr \ {1} ELSE irr
    /\ isr' = send_eoi(1, Serving(1))
    /\ IF code.make THEN Pressed(code.key, output')
       ELSE Released(code.key) /\ output' = Nothing
    /\ hazards' = hazards \cup Cause("early", ~Done("init_terminal"))
    /\ UNCHANGED <<master_mask, slave_mask, imr, IF_flag, booted, rtc_reported,
                   held, caps>>

(* A line whose IDT entry is empty: the CPU jumps to address 0.            *)
NoHandler ==
    /\ Interrupting(12)
    /\ irr' = irr \ {12}
    /\ isr' = Serving(12)
    /\ hazards' = hazards \cup {"stray"}
    /\ UNCHANGED <<flags, master_mask, slave_mask, imr, IF_flag, booted,
                   rtc_reported, keyboard, output>>

-----------------------------------------------------------------------------
Handlers == PIT_handler \/ RTC_handler \/ keyboard_handler

Next ==
    \/ i8259_init \/ BootCall \/ Cli \/ Sti
    \/ TimerTicks \/ ClockTicks \/ OtherDevice
    \/ \E k \in Key : Press(k) \/ Repeat(k) \/ Release(k)
    \/ Handlers \/ NoHandler

Spec == Init /\ [][Next]_vars

(* Boot goes on, the kernel enables interrupts again, and the CPU takes    *)
(* every interrupt that it again and again could take.                     *)
FairSpec == /\ Spec
            /\ WF_vars(i8259_init \/ BootCall) /\ WF_vars(Sti)
            /\ SF_vars(PIT_handler) /\ SF_vars(RTC_handler)
            /\ SF_vars(keyboard_handler)

-----------------------------------------------------------------------------
TypeOK ==
    /\ {shift, ctrl, alt, cap, cap_ready, IF_flag, rtc_reported, caps}
          \subseteq BOOLEAN
    /\ master_mask \subseteq Master /\ slave_mask \subseteq Slave
    /\ imr \subseteq Line /\ irr \subseteq Line /\ isr \subseteq Line
    /\ booted \in 0 .. Len(Boot)
    /\ held \subseteq Key
    /\ codes \in Seq([key : Key, make : BOOLEAN,
                      means : [key : Key \cup {"none", "clear", "tab", "switch"},
                               upper : BOOLEAN]])
    /\ output \in [key : Key \cup {"none", "clear", "tab", "switch"},
                   upper : BOOLEAN]
    /\ hazards \subseteq {"early", "fkey", "repeat", "twin", "stray"}

(* When the CPU can be interrupted no line is left in service: every path  *)
(* through the handlers has told the controllers, both of them for the     *)
(* clock (keyboard.c:67-241, scheduling.c:40, rtc.c:52, i8259.c:85-101).   *)
NoneInService == (IF_flag /\ hazards = {}) => isr = {}

(* A line that can interrupt has what its handler needs: the timer finds   *)
(* the terminals, and a device without a handler is masked, except between *)
(* inti_RTC's sti and its enable_irq (kernel.c:148-171, rtc.c:29-32).      *)
LinesReady ==
    IF_flag => /\ 0 \notin imr => Done("init_terminal")
               /\ 12 \notin imr => ~Done("enable_irq8")

(* What the kernel believes of the modifier keys is what the user holds    *)
(* down, once it has seen every code, those sent while it was booting      *)
(* included; caps lock has been toggled once each time it was pressed      *)
(* (keyboard.c:74-128, 223-239).                                           *)
ModifiersFollow ==
    (hazards = {} /\ codes = <<>>) =>
        /\ shift <=> (held \cap Shifts # {})
        /\ ctrl <=> ("Ctrl" \in held)
        /\ alt <=> ("Alt" \in held)
        /\ cap <=> caps
        /\ cap_ready <=> ("CapsLock" \notin held)

(* Every key amounts to what the user meant when pressing it, however many *)
(* modifiers have gone down or up before the kernel sees its code.         *)
KeyAsMeant ==
    [][ (hazards' = {} /\ codes # <<>> /\ codes' = Tail(codes))
           => output' = Head(codes).means ]_vars

(* The keyboard never goes dead: it gets rid of its codes, whatever the    *)
(* other lines and the kernel's cli do, unless a key was pressed before    *)
(* i8259_init made the controllers forget its request (i8259.c:20-37).     *)
KeysTaken == Len(codes) = MaxCodes ~> (Len(codes) < MaxCodes \/ hazards # {})

(* The clock never stops: each of its reports is read, provided that the   *)
(* lines before it leave it time again and again (rtc.c:44-53).            *)
ClockGoesOn ==
    []<>(irr \cap {0, 1} = {})
        => (rtc_reported ~> (~rtc_reported \/ hazards # {}))
=============================================================================
