------------------------- MODULE Interrupts_proofs -------------------------
(***************************************************************************)
(* Proofs about Interrupts, for every set of keys and every bound on the   *)
(* codes the keyboard holds back.  What the lines need is not inductive:   *)
(* that a line is masked now says nothing of the enable_irq of another     *)
(* line that writes its mask again.  The invariant relates the masks in    *)
(* the controllers to the kernel's copies of them, and both to how far     *)
(* entry has come.                                                         *)
(*                                                                         *)
(* Nor is what the kernel believes of the modifier keys, as long as codes  *)
(* are on their way: KeyInv follows the keys from code to code.            *)
(***************************************************************************)
EXTENDS Interrupts, SequenceTheorems, TLAPS

(* The copies from which enable_irq writes the masks: a line leaves its    *)
(* copy in the one call of entry that enables it.                          *)
Copies ==
    /\ master_mask \subseteq Master /\ slave_mask \subseteq Slave
    /\ booted < 8 => 0 \in master_mask
    /\ 12 \in slave_mask

(* The controllers: the master's mask is the copy once i8259_init has been *)
(* called; the slave's is after enable_irq(8).                             *)
Controllers ==
    /\ booted >= 1 => imr \cap Master = master_mask
    /\ booted >= 3 => 12 \in imr

Progress ==
    /\ booted \in 0 .. 9
    /\ IF_flag \in BOOLEAN
    /\ IF_flag => booted >= 2

MaskInv == Copies /\ Controllers /\ Progress

(* No handler leaves a line in service.                                    *)
ServiceInv == hazards = {} => isr = {}

-----------------------------------------------------------------------------
(* The order of the calls of entry.                                        *)
LEMMA BootOrder ==
    ASSUME booted \in 0 .. 9
    PROVE  /\ Len(Boot) = 9
           /\ Now("i8259_init") <=> booted = 0
           /\ Now("inti_RTC") <=> booted = 1
           /\ Now("enable_irq8") <=> booted = 2
           /\ Now("init_keyboard") <=> booted = 3
           /\ Now("init_PIT") <=> booted = 7
<1>1. Len(Boot) = 9
  BY DEF Boot
<1>2. /\ Boot[1] = "i8259_init" /\ Boot[2] = "inti_RTC"
      /\ Boot[3] = "enable_irq8" /\ Boot[4] = "init_keyboard"
      /\ Boot[5] = "file_system_init" /\ Boot[6] = "initial_paging"
      /\ Boot[7] = "init_terminal" /\ Boot[8] = "init_PIT"
      /\ Boot[9] = "execute"
  BY DEF Boot
<1>3. booted < 9 => booted + 1 \in {1, 2, 3, 4, 5, 6, 7, 8, 9}
  OBVIOUS
<1> QED BY <1>1, <1>2, <1>3 DEF Now

(* Which calls have been made.                                             *)
LEMMA BootDone ==
    ASSUME booted \in 0 .. 9
    PROVE  /\ booted >= 7 => Done("init_terminal")
           /\ Done("enable_irq8") => booted >= 3
<1>1. Boot[7] = "init_terminal"
  BY DEF Boot
<1>2. Boot[1] = "i8259_init" /\ Boot[2] = "inti_RTC"
  BY DEF Boot
<1>3. booted < 3 => \A i \in 1 .. booted : i = 1 \/ i = 2
  OBVIOUS
<1> QED BY <1>1, <1>2, <1>3 DEF Done

-----------------------------------------------------------------------------
LEMMA InitMasks == Init => MaskInv /\ ServiceInv
<1> SUFFICES ASSUME Init PROVE MaskInv /\ ServiceInv
  OBVIOUS
<1>1. /\ master_mask = Master /\ slave_mask = Slave /\ isr = {}
      /\ IF_flag = FALSE /\ booted = 0
  BY DEF Init
<1>2. Copies
  BY <1>1 DEF Copies, Master, Slave
<1>3. Controllers
  BY <1>1 DEF Controllers
<1>4. Progress
  <2>1. booted \in 0 .. 9
    BY <1>1
  <2>2. IF_flag \in BOOLEAN /\ ~IF_flag
    BY <1>1, Zenon
  <2> QED BY <2>1, <2>2 DEF Progress
<1> QED BY <1>1, <1>2, <1>3, <1>4 DEF MaskInv, ServiceInv

(* The controllers are set up: the master's mask is written, the slave's   *)
(* is not, and so is empty.                                                *)
LEMMA SetUpMasks == ASSUME MaskInv, i8259_init PROVE MaskInv'
<1>1. booted = 0 /\ booted' = 1 /\ ~IF_flag /\ IF_flag' = IF_flag
  BY BootOrder DEF MaskInv, Progress, i8259_init
<1>2. /\ master_mask' = master_mask \ {2} /\ imr' = master_mask'
      /\ slave_mask' = slave_mask
  BY DEF i8259_init
<1>3. Copies'
  BY <1>1, <1>2 DEF MaskInv, Copies, Master
<1>4. Controllers'
  BY <1>1, <1>2 DEF MaskInv, Copies, Controllers
<1>5. Progress'
  BY <1>1 DEF MaskInv, Progress
<1> QED BY <1>3, <1>4, <1>5 DEF MaskInv

(* enable_irq takes its line out of the copy and writes that copy.         *)
LEMMA EnableMasks ==
    ASSUME MaskInv, NEW n \in {0, 1, 8}, enable_irq(n), booted >= 1,
           booted' = booted + 1, booted' \in 0 .. 9,
           n = 0 => booted' >= 8, booted' >= 3 => (booted >= 3 \/ n = 8)
    PROVE  Copies' /\ Controllers'
<1>1. booted \in 0 .. 9 /\ 12 \in slave_mask /\ imr \cap Master = master_mask
  BY DEF MaskInv, Copies, Controllers, Progress
<1>2. Master = {0, 1, 2} /\ Slave = {8, 12}
  BY DEF Master, Slave
<1>3. CASE n = 8
  <2>1. /\ slave_mask' = slave_mask \ {8} /\ master_mask' = master_mask
        /\ imr' = (imr \cap Master) \cup slave_mask'
    BY <1>2, <1>3 DEF enable_irq
  <2>2. slave_mask' \subseteq Slave /\ 12 \in slave_mask'
    BY <1>1, <2>1 DEF MaskInv, Copies
  <2>3. imr' \cap Master = master_mask' /\ 12 \in imr'
    <3>1. slave_mask' \cap Master = {}
      BY <1>2, <2>2
    <3> QED BY <1>1, <2>1, <2>2, <3>1
  <2> QED BY <1>1, <1>3, <2>1, <2>2, <2>3 DEF MaskInv, Copies, Controllers
<1>4. CASE n \in {0, 1}
  <2>1. /\ master_mask' = master_mask \ {n} /\ slave_mask' = slave_mask
        /\ imr' = (imr \cap Slave) \cup master_mask'
    BY <1>2, <1>4 DEF enable_irq
  <2>2. imr' \cap Master = master_mask'
    <3>1. Slave \cap Master = {} /\ master_mask' \subseteq Master
      BY <1>2, <2>1 DEF MaskInv, Copies
    <3> QED BY <2>1, <3>1
  <2>3. booted' >= 3 => 12 \in imr'
    BY <1>1, <1>2, <1>4, <2>1 DEF MaskInv, Controllers
  <2>4. booted' < 8 => 0 \in master_mask'
    BY <1>1, <1>4, <2>1 DEF MaskInv, Copies
  <2> QED BY <1>1, <2>1, <2>2, <2>3, <2>4 DEF MaskInv, Copies, Controllers
<1> QED BY <1>3, <1>4

LEMMA BootMasks == ASSUME MaskInv, BootCall PROVE MaskInv'
<1>1. booted \in 0 .. 9 /\ IF_flag \in BOOLEAN
  BY DEF MaskInv, Progress
<1>2. booted >= 1 /\ booted < 9 /\ booted' = booted + 1
  <2>1. booted < Len(Boot) /\ ~Now("i8259_init") /\ booted' = booted + 1
    BY DEF BootCall
  <2>2. Len(Boot) = 9 /\ booted # 0
    BY <1>1, <2>1, BootOrder
  <2> QED BY <1>1, <2>1, <2>2
<1>3. IF_flag' = (IF_flag \/ booted = 1)
  BY <1>1, BootOrder DEF BootCall
<1>4. Progress'
  BY <1>1, <1>2, <1>3 DEF Progress
<1>5. CASE booted = 2
  <2>1. enable_irq(8)
    BY <1>1, <1>5, BootOrder DEF BootCall
  <2> QED BY <1>1, <1>2, <1>4, <1>5, <2>1, EnableMasks DEF MaskInv
<1>6. CASE booted = 3
  <2>1. enable_irq(1)
    BY <1>1, <1>6, BootOrder DEF BootCall
  <2> QED BY <1>1, <1>2, <1>4, <1>6, <2>1, EnableMasks DEF MaskInv
<1>7. CASE booted = 7
  <2>1. enable_irq(0)
    BY <1>1, <1>7, BootOrder DEF BootCall
  <2> QED BY <1>1, <1>2, <1>4, <1>7, <2>1, EnableMasks DEF MaskInv
<1>8. CASE booted \notin {2, 3, 7}
  <2>1. UNCHANGED <<master_mask, slave_mask, imr>>
    BY <1>1, <1>8, BootOrder DEF BootCall
  <2> QED BY <1>1, <1>2, <1>4, <1>8, <2>1 DEF MaskInv, Copies, Controllers
<1> QED BY <1>5, <1>6, <1>7, <1>8

(* Nothing else writes a mask; cli and sti come after boot.                *)
LEMMA StepMasks == MaskInv /\ [Next]_vars => MaskInv'
<1> SUFFICES ASSUME MaskInv, [Next]_vars PROVE MaskInv'
  OBVIOUS
<1>1. CASE i8259_init
  BY <1>1, SetUpMasks
<1>2. CASE BootCall
  BY <1>2, BootMasks
<1>3. CASE Cli \/ Sti
  <2>1. booted >= 2
    <3>1. Done("execute")
      BY <1>3 DEF Cli, Sti
    <3>2. PICK i \in 1 .. booted : Boot[i] = "execute"
      BY <3>1 DEF Done
    <3>3. i # 1
      BY <3>2 DEF Boot
    <3> QED BY <3>2, <3>3 DEF MaskInv, Progress
  <2>2. UNCHANGED <<master_mask, slave_mask, imr, booted>> /\ IF_flag' \in BOOLEAN
    BY <1>3 DEF Cli, Sti, pic
  <2> QED BY <2>1, <2>2 DEF MaskInv, Copies, Controllers, Progress
<1>4. CASE \/ TimerTicks \/ ClockTicks \/ OtherDevice
           \/ \E k \in Key : Press(k) \/ Repeat(k) \/ Release(k)
           \/ Handlers \/ NoHandler \/ UNCHANGED vars
  <2>1. UNCHANGED <<master_mask, slave_mask, imr, booted, IF_flag>>
    BY <1>4 DEF TimerTicks, ClockTicks, OtherDevice, Press, Repeat, Release,
         Send, Handlers, PIT_handler, RTC_handler, keyboard_handler, NoHandler,
         vars, pic
  <2> QED BY <2>1 DEF MaskInv, Copies, Controllers, Progress
<1> QED BY <1>1, <1>2, <1>3, <1>4 DEF Next

-----------------------------------------------------------------------------
(* A handler serves its line, and the slave's on the master, and is done.  *)
LEMMA StepService == ServiceInv /\ [Next]_vars => ServiceInv'
<1> SUFFICES ASSUME ServiceInv, [Next]_vars, hazards' = {} PROVE isr' = {}
  BY DEF ServiceInv
<1>1. CASE i8259_init
  BY <1>1 DEF i8259_init
<1>2. CASE PIT_handler \/ RTC_handler
  BY <1>2 DEF PIT_handler, RTC_handler, send_eoi, Serving, ServiceInv
<1>3. CASE keyboard_handler
  <2>1. hazards = {}
    BY <1>3 DEF keyboard_handler
  <2> QED BY <1>3, <2>1 DEF keyboard_handler, send_eoi, Serving, ServiceInv
<1>4. CASE NoHandler
  BY <1>4 DEF NoHandler
<1>5. CASE \E k \in Key : Press(k) \/ Repeat(k) \/ Release(k)
  <2>1. PICK k \in Key : Press(k) \/ Repeat(k) \/ Release(k)
    BY <1>5
  <2>2. isr' = isr /\ hazards \subseteq hazards'
    BY <2>1 DEF Press, Repeat, Release, Send
  <2> QED BY <2>2 DEF ServiceInv
<1>6. CASE BootCall \/ Cli \/ Sti \/ TimerTicks \/ ClockTicks \/ OtherDevice
           \/ UNCHANGED vars
  <2>1. isr' = isr /\ hazards' = hazards
    BY <1>6 DEF BootCall, Cli, Sti, TimerTicks, ClockTicks, OtherDevice, vars, pic
  <2> QED BY <2>1 DEF ServiceInv
<1> QED BY <1>1, <1>2, <1>3, <1>4, <1>5, <1>6 DEF Next, Handlers

-----------------------------------------------------------------------------
(* From the first sti on, whatever has been pressed or has ticked during   *)
(* boot, the timer interrupts only once the terminals exist, and a device  *)
(* without a handler is masked, except between inti_RTC's sti and its      *)
(* enable_irq (kernel.c:148-171, rtc.c:29-32).                             *)
THEOREM LinesAlwaysReady == Spec => []LinesReady
<1>1. MaskInv => LinesReady
  <2> SUFFICES ASSUME MaskInv, IF_flag PROVE LinesReady
    BY DEF LinesReady
  <2>1. 0 \notin imr => booted >= 7
    BY DEF MaskInv, Copies, Controllers, Progress, Master
  <2>2. 12 \notin imr => booted < 3
    BY DEF MaskInv, Controllers, Progress
  <2> QED BY <2>1, <2>2, BootDone DEF LinesReady, MaskInv, Progress
<1> QED BY InitMasks, StepMasks, <1>1, PTL DEF Spec

(* Outside a handler no line is in service, so none keeps another one      *)
(* waiting: every path through every handler ends with its send_eoi, on    *)
(* both controllers for the clock (i8259.c:85-101).                        *)
THEOREM NeverInService == Spec => []NoneInService
<1>1. ServiceInv => NoneInService
  BY DEF ServiceInv, NoneInService
<1> QED BY InitMasks, StepService, <1>1, PTL DEF Spec
-----------------------------------------------------------------------------
(* The keyboard.  While codes are on their way the kernel is behind the    *)
(* user: what it believes is what held before the first of them.  A        *)
(* history of the keys that were down and of caps lock, one entry for each *)
(* code and one for now, links the two: the first entry is what the kernel *)
(* believes, the last what the user holds, and each code leads from its    *)
(* entry to the next.                                                      *)
Code == [key : Key, make : BOOLEAN,
         means : [key : Key \cup {"none", "clear", "tab", "switch"},
                  upper : BOOLEAN]]

Believes(down, on) ==
    /\ shift = (down \cap Shifts # {})
    /\ ctrl = ("Ctrl" \in down)
    /\ alt = ("Alt" \in down)
    /\ cap = on
    /\ cap_ready = ("CapsLock" \notin down)

(* Code c was sent with `down` held and caps lock `on`, and led to the     *)
(* next ones.  No hazard: CapsLock does not repeat, no function key comes  *)
(* without Alt, and no shift key goes up while the other one is down.      *)
Sent(c, down, on, down2, on2) ==
    IF c.make
    THEN /\ down2 = down \cup {c.key}
         /\ on2 = (on # (c.key = "CapsLock"))
         /\ c.key = "CapsLock" => c.key \notin down
         /\ c.key = "F1" => "Alt" \in down
         /\ c.means = Meant(c.key, down, on)
    ELSE /\ c.key \in down /\ down2 = down \ {c.key}
         /\ on2 = on
         /\ ~(c.key \in Shifts /\ Shifts \subseteq down)
         /\ c.means = Nothing

History == [Nat -> SUBSET Key] \X [Nat -> BOOLEAN]

Follows(down, on) ==
    /\ Believes(down[1], on[1])
    /\ down[Len(codes) + 1] = held /\ on[Len(codes) + 1] = caps
    /\ \A i \in 1 .. Len(codes) :
          Sent(codes[i], down[i], on[i], down[i + 1], on[i + 1])

KeyInv ==
    /\ codes \in Seq(Code) /\ held \subseteq Key /\ caps \in BOOLEAN
    /\ 1 \in irr => codes # <<>>
    /\ hazards = {} => \E h \in History : Follows(h[1], h[2])

(* A key means a character or a command.                                   *)
LEMMA MeantType ==
    ASSUME NEW k \in Key, NEW down, NEW on \in BOOLEAN
    PROVE  Meant(k, down, on)
              \in [key : Key \cup {"none", "clear", "tab", "switch"},
                   upper : BOOLEAN]
  BY DEF Meant, Command, Nothing

(* The handler makes of a code what was meant by it, and then believes     *)
(* what held after it.                                                     *)
LEMMA Decoded ==
    ASSUME NEW c \in Code, NEW down \in SUBSET Key, NEW on \in BOOLEAN,
           NEW down2, NEW on2, Believes(down, on), Sent(c, down, on, down2, on2),
           IF c.make THEN Pressed(c.key, output')
           ELSE Released(c.key) /\ output' = Nothing
    PROVE  Believes(down2, on2)' /\ output' = c.means
<1> DEFINE k == c.key
<1>1. k \in Key
  BY DEF Code
<1>2. CASE c.make
  <2> DEFINE toggles == k = "CapsLock" /\ cap_ready
  <2>1. /\ shift' = (shift \/ k \in Shifts) /\ ctrl' = (ctrl \/ k = "Ctrl")
        /\ alt' = (alt \/ k = "Alt") /\ cap' = (cap # toggles)
        /\ cap_ready' = (cap_ready /\ ~toggles)
    BY <1>2 DEF Pressed
  <2>2. /\ down2 = down \cup {k} /\ on2 = (on # (k = "CapsLock"))
        /\ k = "CapsLock" => k \notin down
        /\ k = "F1" => "Alt" \in down
        /\ c.means = Meant(k, down, on)
    BY <1>2 DEF Sent
  <2>3. toggles <=> k = "CapsLock"
    BY <2>2 DEF Believes
  <2>4. Believes(down2, on2)'
    <3>1. (shift \/ k \in Shifts) <=> (down2 \cap Shifts # {})
      BY <2>2 DEF Believes
    <3>2. (ctrl \/ k = "Ctrl") <=> ("Ctrl" \in down2)
      BY <2>2 DEF Believes
    <3>3. (alt \/ k = "Alt") <=> ("Alt" \in down2)
      BY <2>2 DEF Believes
    <3>4. (cap # toggles) <=> on2
      BY <2>2, <2>3 DEF Believes
    <3>5. (cap_ready /\ ~toggles) <=> ("CapsLock" \notin down2)
      <4>1. ("CapsLock" \notin down2) <=> ("CapsLock" \notin down /\ k # "CapsLock")
        BY <2>2
      <4>2. cap_ready <=> ("CapsLock" \notin down)
        BY DEF Believes
      <4> HIDE DEF toggles
      <4> QED BY <2>3, <4>1, <4>2
    <3>6. on2 \in BOOLEAN
      BY <2>2
    <3>7. cap' = on2
      BY <2>1, <3>4, <3>6
    <3> HIDE DEF toggles
    <3>8. cap_ready' = ("CapsLock" \notin down2)
      BY <2>1, <3>5
    <3> QED BY <2>1, <3>1, <3>2, <3>3, <3>7, <3>8 DEF Believes
  <2>5. output' = Meant(k, down, on)
    <3>1. output' = CASE k = "l" /\ ctrl        -> Command("clear")
                      [] k = "Tab"              -> Command("tab")
                      [] k = "F1" /\ alt        -> Command("switch")
                      [] k \in Modifier /\ (k = "CapsLock" => toggles) -> Nothing
                      [] OTHER                  -> Character(k)
      BY <1>2 DEF Pressed
    <3>2. CASE k = "l" /\ ctrl
      BY <3>1, <3>2 DEF Believes, Meant, Modifier, Shifts
    <3>3. CASE k = "Tab"
      BY <3>1, <3>3 DEF Believes, Meant, Modifier, Shifts
    <3>4. CASE k = "F1"
      BY <2>2, <3>1, <3>4 DEF Believes, Meant, Modifier, Shifts
    <3>5. CASE k \in Modifier
      <4>1. k \notin LetterKey \cup OtherKey
        BY <3>5, KeyAssumption
      <4> QED BY <2>3, <3>1, <3>5, <4>1 DEF Believes, Meant, Modifier, Shifts
    <3>6. CASE /\ ~(k = "l" /\ ctrl)
               /\ k \in LetterKey \cup OtherKey
      <4>1. k \notin Modifier /\ k # "Tab" /\ k # "F1"
        BY <3>6, KeyAssumption
      <4>2. output' = Character(k)
        BY <3>1, <3>6, <4>1
      <4>3. (cap # shift) = (on # (down \cap Shifts # {}))
        BY DEF Believes
      <4> QED BY <3>6, <4>1, <4>2, <4>3 DEF Believes, Meant, Character
    <3> QED BY <1>1, <3>2, <3>3, <3>4, <3>5, <3>6 DEF Key
  <2> QED BY <2>2, <2>4, <2>5
<1>3. CASE ~c.make
  <2>1. /\ shift' = (shift /\ k \notin Shifts) /\ ctrl' = (ctrl /\ k # "Ctrl")
        /\ alt' = (alt /\ k # "Alt") /\ cap' = cap
        /\ cap_ready' = (cap_ready \/ k = "CapsLock")
        /\ output' = Nothing
    BY <1>3 DEF Released
  <2>2. /\ k \in down /\ down2 = down \ {k} /\ on2 = on
        /\ ~(k \in Shifts /\ Shifts \subseteq down) /\ c.means = Nothing
    BY <1>3 DEF Sent
  <2>3. (ctrl /\ k # "Ctrl") <=> ("Ctrl" \in down2)
    BY <2>2 DEF Believes
  <2>4. (alt /\ k # "Alt") <=> ("Alt" \in down2)
    BY <2>2 DEF Believes
  <2>5. (cap_ready \/ k = "CapsLock") <=> ("CapsLock" \notin down2)
    BY <2>2 DEF Believes
  <2>6. (shift /\ k \notin Shifts) <=> (down2 \cap Shifts # {})
    BY <2>2 DEF Believes, Shifts
  <2> QED BY <2>1, <2>2, <2>3, <2>4, <2>5, <2>6 DEF Believes
<1> QED BY <1>2, <1>3

LEMMA InitKey == Init => KeyInv
<1> SUFFICES ASSUME Init PROVE KeyInv
  OBVIOUS
<1> DEFINE down == [i \in Nat |-> {}]
           on == [i \in Nat |-> FALSE]
<1>1. /\ codes = <<>> /\ held = {} /\ caps = FALSE /\ irr = {} /\ InitFlags
  BY DEF Init
<1>2. Len(codes) = 0 /\ codes \in Seq(Code)
  BY <1>1
<1>3. <<down, on>> \in History
  BY DEF History
<1>4. Believes({}, FALSE)
  <2>1. /\ shift = FALSE /\ ctrl = FALSE /\ alt = FALSE
        /\ cap = FALSE /\ cap_ready = TRUE
    BY <1>1, Zenon DEF InitFlags
  <2>2. /\ ({} \cap Shifts # {}) = FALSE
        /\ ("Ctrl" \in {}) = FALSE /\ ("Alt" \in {}) = FALSE
        /\ ("CapsLock" \notin {}) = TRUE
    OBVIOUS
  <2> QED BY <2>1, <2>2, Zenon DEF Believes
<1>5. Follows(down, on)
  <2>1. down[1] = {} /\ on[1] = FALSE
    OBVIOUS
  <2>2. \A i \in 1 .. Len(codes) : FALSE
    BY <1>2
  <2>3. down[Len(codes) + 1] = held /\ on[Len(codes) + 1] = caps
    <3>1. Len(codes) + 1 = 1
      BY <1>2
    <3> HIDE DEF down, on
    <3> QED BY <1>1, <2>1, <3>1, Zenon
  <2>4. Believes(down[1], on[1])
    BY <1>4, <2>1
  <2> QED BY <2>2, <2>3, <2>4 DEF Follows
<1>6. \E h \in History : Follows(h[1], h[2])
  <2> HIDE DEF down, on
  <2> QED BY <1>3, <1>5
<1>7. caps \in BOOLEAN
  BY <1>1, Zenon
<1> QED BY <1>1, <1>2, <1>6, <1>7 DEF KeyInv

(* A code that is sent lengthens the history by what holds after it.       *)
LEMMA SendKey ==
    ASSUME KeyInv, NEW k \in Key, NEW make \in BOOLEAN, Send(k, make),
           held' \in SUBSET Key, caps' \in BOOLEAN, hazards \subseteq hazards',
           hazards' = {} =>
              Sent([key |-> k, make |-> make,
                    means |-> IF make THEN Meant(k, held, caps) ELSE Nothing],
                   held, caps, held', caps')
    PROVE  KeyInv'
<1> DEFINE c == [key |-> k, make |-> make,
                 means |-> IF make THEN Meant(k, held, caps) ELSE Nothing]
           n == Len(codes)
<1>1. /\ codes \in Seq(Code) /\ codes' = Append(codes, c) /\ n \in Nat
      /\ UNCHANGED flags
  BY DEF KeyInv, Send
<1>2. c \in Code
  <2>1. Meant(k, held, caps) \in [key : Key \cup {"none", "clear", "tab", "switch"},
                                  upper : BOOLEAN]
    BY MeantType DEF KeyInv
  <2> QED BY <2>1 DEF Code, Nothing
<1> HIDE DEF c
<1>3. /\ codes' \in Seq(Code) /\ Len(codes') = n + 1 /\ codes' # <<>>
      /\ codes'[n + 1] = c /\ \A i \in 1 .. n : codes'[i] = codes[i]
  BY <1>1, <1>2
<1>4. ASSUME hazards' = {} PROVE \E h \in History : Follows(h[1], h[2])'
  <2>1. PICK h \in History : Follows(h[1], h[2])
    BY <1>4 DEF KeyInv
  <2>2. h[1] \in [Nat -> SUBSET Key] /\ h[2] \in [Nat -> BOOLEAN]
    BY DEF History
  <2>3. PICK down \in [Nat -> SUBSET Key] :
           down[n + 2] = held' /\ \A i \in 1 .. n + 1 : down[i] = h[1][i]
    <3> DEFINE d == [h[1] EXCEPT ![n + 2] = held']
    <3>1. d \in [Nat -> SUBSET Key] /\ d[n + 2] = held'
      BY <1>1, <2>2
    <3>2. \A i \in 1 .. n + 1 : d[i] = h[1][i]
      BY <1>1, <2>2
    <3> HIDE DEF d
    <3> QED BY <3>1, <3>2
  <2>4. PICK on \in [Nat -> BOOLEAN] :
           on[n + 2] = caps' /\ \A i \in 1 .. n + 1 : on[i] = h[2][i]
    <3> DEFINE d == [h[2] EXCEPT ![n + 2] = caps']
    <3>1. d \in [Nat -> BOOLEAN] /\ d[n + 2] = caps'
      BY <1>1, <2>2
    <3>2. \A i \in 1 .. n + 1 : d[i] = h[2][i]
      BY <1>1, <2>2
    <3> HIDE DEF d
    <3> QED BY <3>1, <3>2
  <2>5. Believes(down[1], on[1])'
    <3>1. Believes(h[1][1], h[2][1]) /\ down[1] = h[1][1] /\ on[1] = h[2][1]
      BY <1>1, <2>1, <2>3, <2>4 DEF Follows
    <3> QED BY <1>1, <3>1 DEF Believes, flags
  <2>6. h[1][n + 1] = held /\ h[2][n + 1] = caps
    BY <2>1 DEF Follows
  <2>7. ASSUME NEW i \in 1 .. n + 1
        PROVE  Sent(codes'[i], down[i], on[i], down[i + 1], on[i + 1])
    <3>1. CASE i = n + 1
      <4>1. Sent(c, held, caps, held', caps')
        BY <1>4 DEF c
      <4>2. i + 1 = n + 2
        BY <1>1, <3>1
      <4>3. down[i] = held /\ on[i] = caps
        BY <1>1, <2>3, <2>4, <2>6, <3>1
      <4> QED BY <1>3, <2>3, <2>4, <3>1, <4>1, <4>2, <4>3
    <3>2. CASE i \in 1 .. n
      <4>1. i + 1 \in 1 .. n + 1
        BY <1>1, <3>2
      <4>2. Sent(codes[i], h[1][i], h[2][i], h[1][i + 1], h[2][i + 1])
        BY <2>1, <3>2 DEF Follows
      <4> QED BY <1>3, <2>3, <2>4, <3>2, <4>1, <4>2
    <3> QED BY <1>1, <3>1, <3>2
  <2>8. Follows(down, on)'
    <3>1. Len(codes') + 1 = n + 2
      BY <1>1, <1>3
    <3>2. down[Len(codes') + 1] = held' /\ on[Len(codes') + 1] = caps'
      BY <2>3, <2>4, <3>1
    <3>3. \A i \in 1 .. Len(codes') :
             Sent(codes'[i], down[i], on[i], down[i + 1], on[i + 1])
      BY <1>3, <2>7
    <3> QED BY <2>5, <3>2, <3>3 DEF Follows
  <2>9. <<down, on>> \in History
    BY <2>3, <2>4 DEF History
  <2> QED BY <2>8, <2>9
<1> QED BY <1>3, <1>4 DEF KeyInv

(* The handler takes the first code, and the history loses its first entry *)
(* as the kernel comes to believe in the second one.                       *)
LEMMA HandlerKey ==
    ASSUME KeyInv, keyboard_handler
    PROVE  /\ KeyInv' /\ codes # <<>>
           /\ hazards' = {} => output' = Head(codes).means
<1> DEFINE n == Len(codes)
           c == Head(codes)
<1>1. codes \in Seq(Code) /\ codes # <<>> /\ n \in Nat /\ n > 0
  <2>1. codes \in Seq(Code) /\ codes # <<>>
    BY DEF KeyInv, keyboard_handler, Interrupting
  <2> QED BY <2>1
<1>2. /\ codes' \in Seq(Code) /\ Len(codes') = n - 1
      /\ \A i \in 1 .. n - 1 : codes'[i] = codes[i + 1]
      /\ c \in Code /\ c = codes[1]
  BY <1>1 DEF keyboard_handler
<1>3. 1 \in irr' => codes' # <<>>
  <2>1. irr' = IF n = 1 THEN irr \ {1} ELSE irr
    BY DEF keyboard_handler
  <2>2. n # 1 => Len(codes') > 0
    BY <1>1, <1>2
  <2>3. codes' = <<>> => Len(codes') = 0
    OBVIOUS
  <2> QED BY <2>1, <2>2, <2>3
<1>4. held' \subseteq Key /\ caps' \in BOOLEAN /\ held' = held /\ caps' = caps
  BY DEF KeyInv, keyboard_handler
<1>5. ASSUME hazards' = {}
      PROVE  /\ \E h \in History : Follows(h[1], h[2])'
             /\ output' = c.means
  <2>1. hazards = {}
    BY <1>5 DEF keyboard_handler
  <2>2. PICK h \in History : Follows(h[1], h[2])
    BY <2>1 DEF KeyInv
  <2>3. h[1] \in [Nat -> SUBSET Key] /\ h[2] \in [Nat -> BOOLEAN]
    BY DEF History
  <2> DEFINE down == [i \in Nat |-> h[1][i + 1]]
             on == [i \in Nat |-> h[2][i + 1]]
  <2>4. <<down, on>> \in History
    <3>1. \A i \in Nat : i + 1 \in Nat
      OBVIOUS
    <3> QED BY <2>3, <3>1 DEF History
  <2>5. \A i \in Nat : down[i] = h[1][i + 1] /\ on[i] = h[2][i + 1]
    OBVIOUS
  <2> HIDE DEF down, on
  <2>6. /\ Believes(h[1][1], h[2][1])
        /\ Sent(c, h[1][1], h[2][1], h[1][2], h[2][2])
    BY <1>1, <1>2, <2>2 DEF Follows
  <2>7. Believes(h[1][2], h[2][2])' /\ output' = c.means
    <3>1. h[1][1] \in SUBSET Key /\ h[2][1] \in BOOLEAN
      BY <2>3
    <3>2. IF c.make THEN Pressed(c.key, output')
          ELSE Released(c.key) /\ output' = Nothing
      BY DEF keyboard_handler
    <3> HIDE DEF c
    <3> QED BY <1>2, <2>6, <3>1, <3>2, Decoded
  <2>8. Believes(down[1], on[1])'
    <3>1. down[1] = h[1][2] /\ on[1] = h[2][2]
      BY <2>5
    <3> QED BY <2>7, <3>1 DEF Believes
  <2>9. down[Len(codes') + 1] = held' /\ on[Len(codes') + 1] = caps'
    <3>1. h[1][n + 1] = held /\ h[2][n + 1] = caps
      BY <2>2 DEF Follows
    <3>2. down[n] = h[1][n + 1] /\ on[n] = h[2][n + 1]
      BY <1>1, <2>5
    <3>3. Len(codes') + 1 = n
      BY <1>1, <1>2
    <3> QED BY <1>4, <3>1, <3>2, <3>3
  <2>10. ASSUME NEW i \in 1 .. Len(codes')
         PROVE  Sent(codes'[i], down[i], on[i], down[i + 1], on[i + 1])
    <3>1. i \in Nat /\ i + 1 \in Nat /\ i + 1 \in 1 .. n /\ i \in 1 .. n - 1
      BY <1>1, <1>2
    <3>2. Sent(codes[i + 1], h[1][i + 1], h[2][i + 1],
               h[1][(i + 1) + 1], h[2][(i + 1) + 1])
      BY <2>2, <3>1 DEF Follows
    <3> QED BY <1>2, <2>5, <3>1, <3>2
  <2>11. Follows(down, on)'
    BY <2>8, <2>9, <2>10 DEF Follows
  <2> QED BY <2>4, <2>7, <2>11
<1> QED BY <1>1, <1>2, <1>3, <1>4, <1>5 DEF KeyInv

(* The user's actions send the code of what they do; the hazards they      *)
(* would cause are the ones that Sent excludes.                            *)
LEMMA UserKey ==
    ASSUME KeyInv, NEW k \in Key, Press(k) \/ Repeat(k) \/ Release(k)
    PROVE  KeyInv' /\ Len(codes') = Len(codes) + 1
<1> USE DEF KeyInv
<1>1. held \in SUBSET Key /\ caps \in BOOLEAN
  OBVIOUS
<1>2. Len(codes') = Len(codes) + 1
  BY DEF Press, Repeat, Release, Send
<1>3. CASE Press(k)
  <2>1. /\ Send(k, TRUE) /\ held' = held \cup {k} /\ k \notin held
        /\ caps' = (caps # (k = "CapsLock"))
        /\ hazards' = hazards \cup Cause("fkey", k = "F1" /\ "Alt" \notin held)
    BY <1>3 DEF Press
  <2>2. hazards' = {} => (k = "F1" => "Alt" \in held)
    BY <2>1 DEF Cause
  <2>3. hazards' = {} =>
           Sent([key |-> k, make |-> TRUE,
                 means |-> IF TRUE THEN Meant(k, held, caps) ELSE Nothing],
                held, caps, held', caps')
    BY <2>1, <2>2 DEF Sent
  <2>4. held' \in SUBSET Key /\ caps' \in BOOLEAN
    BY <1>1, <2>1
  <2> HIDE DEF KeyInv
  <2>5. KeyInv'
    BY <2>1, <2>3, <2>4, SendKey
  <2> QED BY <1>2, <2>5
<1>4. CASE Repeat(k)
  <2>1. /\ Send(k, TRUE) /\ held' = held /\ k \in held /\ caps' = caps
        /\ hazards' = hazards \cup Cause("fkey", k = "F1" /\ "Alt" \notin held)
                              \cup Cause("repeat", k = "CapsLock")
    BY <1>4 DEF Repeat
  <2>2. hazards' = {} => (k = "F1" => "Alt" \in held) /\ k # "CapsLock"
    BY <2>1 DEF Cause
  <2>3. hazards' = {} =>
           Sent([key |-> k, make |-> TRUE,
                 means |-> IF TRUE THEN Meant(k, held, caps) ELSE Nothing],
                held, caps, held', caps')
    <3>1. held' = held \cup {k}
      BY <2>1
    <3>2. hazards' = {} => caps' = (caps # (k = "CapsLock"))
      BY <1>1, <2>1, <2>2
    <3> QED BY <2>2, <3>1, <3>2 DEF Sent
  <2>4. held' \in SUBSET Key /\ caps' \in BOOLEAN
    BY <1>1, <2>1
  <2> HIDE DEF KeyInv
  <2>5. KeyInv'
    BY <2>1, <2>3, <2>4, SendKey
  <2> QED BY <1>2, <2>5
<1>5. CASE Release(k)
  <2>1. /\ Send(k, FALSE) /\ held' = held \ {k} /\ k \in held /\ caps' = caps
        /\ hazards' = hazards
                      \cup Cause("twin", k \in Shifts /\ Shifts \subseteq held)
    BY <1>5 DEF Release
  <2>2. hazards' = {} => ~(k \in Shifts /\ Shifts \subseteq held)
    BY <2>1 DEF Cause
  <2>3. hazards' = {} =>
           Sent([key |-> k, make |-> FALSE,
                 means |-> IF FALSE THEN Meant(k, held, caps) ELSE Nothing],
                held, caps, held', caps')
    BY <2>1, <2>2 DEF Sent
  <2>4. held' \in SUBSET Key /\ caps' \in BOOLEAN
    BY <1>1, <2>1
  <2> HIDE DEF KeyInv
  <2>5. KeyInv'
    BY <2>1, <2>3, <2>4, SendKey
  <2> QED BY <1>2, <2>5
<1> QED BY <1>3, <1>4, <1>5

(* Everything else leaves the keyboard and the handler's flags alone; the  *)
(* controllers may forget the keyboard's request but never make one up.    *)
LEMMA RestKey ==
    ASSUME KeyInv, [Next]_vars, ~keyboard_handler,
           ~\E k \in Key : Press(k) \/ Repeat(k) \/ Release(k)
    PROVE  KeyInv' /\ codes' = codes
<1>1. UNCHANGED <<codes, held, caps, flags>>
  BY DEF Next, Handlers, i8259_init, BootCall, Cli, Sti, TimerTicks, ClockTicks,
     OtherDevice, PIT_handler, RTC_handler, NoHandler, vars, keyboard
<1>2. (1 \in irr' => 1 \in irr) /\ hazards \subseteq hazards'
  BY DEF Next, Handlers, i8259_init, BootCall, Cli, Sti, TimerTicks, ClockTicks,
     OtherDevice, PIT_handler, RTC_handler, NoHandler, vars, pic
<1>3. ASSUME NEW h, Follows(h[1], h[2])
      PROVE  Follows(h[1], h[2])'
  BY <1>1, <1>3 DEF Follows, Believes, flags
<1> QED BY <1>1, <1>2, <1>3 DEF KeyInv

LEMMA StepKey == KeyInv /\ [Next]_vars => KeyInv'
  BY HandlerKey, UserKey, RestKey

-----------------------------------------------------------------------------
(* Once the kernel has seen every code, what it believes of the modifier   *)
(* keys is what the user holds down, and caps lock has been toggled once   *)
(* for each time it was pressed, whatever was pressed during boot and in   *)
(* whatever order (keyboard.c:74-128, 223-239).                            *)
THEOREM ModifiersRight == Spec => []ModifiersFollow
<1>1. KeyInv => ModifiersFollow
  <2> SUFFICES ASSUME KeyInv, hazards = {}, codes = <<>> PROVE ModifiersFollow
    BY DEF ModifiersFollow
  <2>1. PICK h \in History : Follows(h[1], h[2])
    BY DEF KeyInv
  <2>2. Len(codes) + 1 = 1
    OBVIOUS
  <2>3. Believes(held, caps)
    BY <2>1, <2>2 DEF Follows
  <2> QED BY <2>3 DEF Believes, ModifiersFollow
<1> QED BY InitKey, StepKey, <1>1, PTL DEF Spec

(* Every key amounts to what the user meant when pressing it, however many *)
(* modifiers have gone down or up before the kernel takes its code         *)
(* (keyboard.c:67-241).                                                    *)
THEOREM KeysAsMeant == Spec => KeyAsMeant
<1>1. KeyInv /\ [Next]_vars
         => [ (hazards' = {} /\ codes # <<>> /\ codes' = Tail(codes))
                 => output' = Head(codes).means ]_vars
  <2> SUFFICES ASSUME KeyInv, [Next]_vars, hazards' = {}, codes # <<>>,
                      codes' = Tail(codes)
               PROVE  output' = Head(codes).means
    OBVIOUS
  <2>1. codes \in Seq(Code) /\ Len(codes') = Len(codes) - 1 /\ Len(codes) \in Nat
    BY DEF KeyInv
  <2>2. ~\E k \in Key : Press(k) \/ Repeat(k) \/ Release(k)
    <3>1. ASSUME NEW k \in Key, Press(k) \/ Repeat(k) \/ Release(k) PROVE FALSE
      <4>1. Len(codes') = Len(codes) + 1
        BY <3>1, UserKey
      <4> QED BY <2>1, <4>1
    <3> QED BY <3>1
  <2>3. keyboard_handler
    <3>1. ASSUME ~keyboard_handler PROVE FALSE
      <4>1. codes' = codes
        BY <2>2, <3>1, RestKey
      <4>2. Len(codes') = Len(codes)
        BY <4>1
      <4> HIDE <4>1
      <4> QED BY <2>1, <4>2
    <3> QED BY <3>1
  <2> QED BY <2>3, HandlerKey
<1> QED BY InitKey, StepKey, <1>1, PTL DEF Spec, KeyAsMeant
=============================================================================
