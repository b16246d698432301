-------------------------------- MODULE Rtc --------------------------------
(***************************************************************************)
(* The real-time clock driver (rtc.c), called by programs through open,    *)
(* read and write of system_call.c.  The registers of the device are       *)
(* reached in two steps, a port that selects and a port that transfers,    *)
(* and the interrupt handler uses the same ports.                          *)
(***************************************************************************)
EXTENDS Integers

CONSTANTS
    Program,    \* the programs that use the clock
    NoProgram,
    Frequency,  \* the values they pass to RTC_write
    MaxSeen     \* bound: interrupts counted by the history variable

ASSUME RtcAssumption == /\ NoProgram \notin Program
                        /\ Frequency \subseteq Int
                        /\ MaxSeen \in Nat \ {0}

VARIABLES
    fg,         \* fg
    index,      \* the register the index port selects
    rate,       \* the low four bits of register A
    pc,         \* where each program is in the driver
    masked,     \* the program that runs with interrupts disabled, or none
    input,      \* of each program in the driver: the rate it will write
    seen,       \* history: interrupts since the program's RTC_read began
    asked,      \* history: the frequency its caller asked for
    hz          \* history: the frequency that was asked for last

device == <<index, rate, hz>>
vars   == <<fg, device, pc, masked, input, asked, seen>>

(* The points between two port accesses, in the order of inti_RTC; those   *)
(* of RTC_write are the last four.                                         *)
Access == {"selectB", "inB", "reselectB", "outB",
           "selectA", "inA", "reselectA", "outA"}
Places == Access \cup {"user", "wait"}

After(place) == CASE place = "selectB" -> "inB"   [] place = "inB" -> "reselectB"
                  [] place = "reselectB" -> "outB" [] place = "outB" -> "selectA"
                  [] place = "selectA" -> "inA"   [] place = "inA" -> "reselectA"
                  [] place = "reselectA" -> "outA" [] place = "outA" -> "user"

Register(place) == IF place \in {"selectB", "inB", "reselectB", "outB"}
                   THEN "B" ELSE "A"

Selects  == {"selectB", "reselectB", "selectA", "reselectA"}

(* The frequency the device gives for a rate: 32768 Hz, halved rate - 1    *)
(* times (the data sheet of the MC146818, for rates from 3 up).            *)
Hertz[r \in 1 .. 15] == IF r = 1 THEN 32768 ELSE Hertz[r - 1] \div 2

-----------------------------------------------------------------------------
Rejected == -1

(* The loop of RTC_write: how often the frequency can be halved; an odd    *)
(* one on the way is rejected.                                             *)
Halvings[store \in 0 .. 1024] ==
    IF store < 2 THEN 0
    ELSE IF store % 2 = 1 \/ Halvings[store \div 2] = Rejected THEN Rejected
    ELSE Halvings[store \div 2] + 1

(* Mutant: it counts down from 15, the rate of 2 Hz.                       *)
RateOf_From15(frequency) == 15 - Halvings[frequency]

RateOf(frequency) == 16 - Halvings[frequency]

(* After boot: inti_RTC has run.                                           *)
Init ==
    /\ fg = 0
    /\ index = "A"
    /\ rate = 15
    /\ pc = [p \in Program |-> "user"]
    /\ masked = NoProgram
    /\ input = [p \in Program |-> 15]
    /\ asked = [p \in Program |-> 2]
    /\ seen = [p \in Program |-> 0]
    /\ hz = 2

MayRun(p) == masked \in {p, NoProgram}
Goto(p, place) == pc' = [pc EXCEPT ![p] = place]

(* Mutant: open does not disable interrupts.                               *)
RTC_open_Enabled(p) ==
    /\ MayRun(p) /\ pc[p] = "user" /\ Goto(p, "selectB")
    /\ input' = [input EXCEPT ![p] = 15]
    /\ asked' = [asked EXCEPT ![p] = 2]
    /\ masked' = NoProgram
    /\ UNCHANGED <<fg, device, seen>>

(* open of the file "rtc": interrupts are off from its first line on.      *)
RTC_open(p) ==
    /\ MayRun(p) /\ pc[p] = "user" /\ Goto(p, "selectB")
    /\ input' = [input EXCEPT ![p] = 15]
    /\ asked' = [asked EXCEPT ![p] = 2]
    /\ masked' = p
    /\ UNCHANGED <<fg, device, seen>>

(* write to it: nothing happens unless the size and the frequency are      *)
(* right.                                                                  *)
RTC_write(p, frequency, nbytes) ==
    /\ MayRun(p) /\ pc[p] = "user"
    /\ nbytes \in 1 .. 4
    /\ frequency \in 2 .. 1024
    /\ Halvings[frequency] # Rejected
    /\ Goto(p, "selectA")
    /\ input' = [input EXCEPT ![p] = RateOf(frequency)]
    /\ asked' = [asked EXCEPT ![p] = frequency]
    /\ masked' = p
    /\ UNCHANGED <<fg, device, seen>>

(* A selecting access.                                                     *)
Select(p) ==
    /\ MayRun(p) /\ pc[p] \in Selects /\ Goto(p, After(pc[p]))
    /\ index' = Register(pc[p])
    /\ masked' = IF pc[p] = "selectA" THEN p ELSE masked
    /\ UNCHANGED <<fg, rate, input, asked, seen, hz>>

(* A transferring one: a write to register A sets the rate, and the last   *)
(* access enables interrupts; the locals are gone after it.                *)
Transfer(p) ==
    /\ MayRun(p) /\ pc[p] \in Access \ Selects /\ Goto(p, After(pc[p]))
    /\ rate' = IF pc[p] = "outA" /\ index = "A" THEN input[p] ELSE rate
    /\ hz' = IF pc[p] = "outA" THEN asked[p] ELSE hz
    /\ masked' = IF pc[p] = "outA" THEN NoProgram ELSE masked
    /\ input' = IF pc[p] = "outA" THEN [input EXCEPT ![p] = 15] ELSE input
    /\ asked' = IF pc[p] = "outA" THEN [asked EXCEPT ![p] = 2] ELSE asked
    /\ UNCHANGED <<fg, index, seen>>

(* Mutant: fg is not set before it is waited for.                          *)
RTC_read_Unarmed(p) ==
    /\ MayRun(p) /\ pc[p] = "user" /\ Goto(p, "wait")
    /\ fg' = fg
    /\ seen' = [seen EXCEPT ![p] = 0]
    /\ UNCHANGED <<device, masked, input, asked>>

RTC_read(p) ==
    /\ MayRun(p) /\ pc[p] = "user" /\ Goto(p, "wait")
    /\ fg' = 1
    /\ seen' = [seen EXCEPT ![p] = 0]
    /\ UNCHANGED <<device, masked, input, asked>>

(* while (fg);                                                             *)
ReadReturn(p) ==
    /\ MayRun(p) /\ pc[p] = "wait" /\ Goto(p, "user")
    /\ fg = 0
    /\ UNCHANGED <<fg, device, masked, input, asked, seen>>

(* Mutant: the handler does not clear fg.                                  *)
RTC_handler_Deaf ==
    /\ masked = NoProgram
    /\ index' = "C"
    /\ seen' = [p \in Program |-> IF seen[p] < MaxSeen THEN seen[p] + 1 ELSE seen[p]]
    /\ UNCHANGED <<fg, rate, hz, pc, masked, input, asked>>

(* The interrupt: register C is selected and read, fg is cleared.          *)
RTC_handler ==
    /\ masked = NoProgram
    /\ index' = "C"
    /\ fg' = 0
    /\ seen' = [p \in Program |-> IF seen[p] < MaxSeen THEN seen[p] + 1 ELSE seen[p]]
    /\ UNCHANGED <<rate, hz, pc, masked, input, asked>>

Step(p) == Select(p) \/ Transfer(p) \/ ReadReturn(p)

Next ==
    \/ RTC_handler
    \/ \E p \in Program :
          \/ RTC_open(p) \/ RTC_read(p) \/ Step(p)
          \/ \E f \in Frequency, nbytes \in 0 .. 5 : RTC_write(p, f, nbytes)

Spec == Init /\ [][Next]_vars

(* The clock keeps interrupting, and a program that can go on does.        *)
FairSpec == Spec /\ WF_vars(RTC_handler) /\ \A p \in Program : WF_vars(Step(p))

-----------------------------------------------------------------------------
TypeOK ==
    /\ fg \in {0, 1}
    /\ index \in {"A", "B", "C"}
    /\ rate \in 3 .. 15
    /\ pc \in [Program -> Places]
    /\ masked \in Program \cup {NoProgram}
    /\ input \in [Program -> 3 .. 15]
    /\ asked \in [Program -> Nat]
    /\ seen \in [Program -> 0 .. MaxSeen]
    /\ hz \in Nat

(* The data port transfers the register the driver selected: neither the   *)
(* handler, which selects register C, nor another program gets in between. *)
(* inti_RTC disables interrupts for register A only and relies on its      *)
(* caller for register B (rtc.c:16-28, 135-142; system_call.c:386, 423).   *)
PortsPaired ==
    \A p \in Program : pc[p] \in Access \ Selects => index = Register(pc[p])

(* The device runs at the frequency that was asked for last, a power of    *)
(* two from 2 to 1024 that the loop of RTC_write has turned into the right *)
(* rate (rtc.c:115-141).                                                   *)
RateRight ==
    /\ Hertz[rate] = hz
    /\ hz \in {2, 4, 8, 16, 32, 64, 128, 256, 512, 1024}

(* RTC_read does not return before an interrupt has come                   *)
(* (rtc.c:92-93).                                                          *)
NoEarlyReturn == \A p \in Program : (pc[p] = "wait" /\ seen[p] = 0) => fg = 1

(* However many programs share fg, they are not all stuck in RTC_read.     *)
SomeoneReturns ==
    (\A p \in Program : pc[p] = "wait") ~> (\E p \in Program : pc[p] # "wait")
=============================================================================
