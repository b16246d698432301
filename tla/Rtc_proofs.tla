----------------------------- MODULE Rtc_proofs -----------------------------
(* Proofs about Rtc, for any set of programs and of frequencies.           *)
EXTENDS Rtc, TLAPS

(* What keeps the handler and the other programs away from the ports: a    *)
(* program between two port accesses runs with interrupts disabled.        *)
Exclusive == \A p \in Program : pc[p] \in Access => masked = p

IInv ==
    /\ pc \in [Program -> Places]
    /\ seen \in [Program -> 0 .. MaxSeen]
    /\ Exclusive
    /\ PortsPaired
    /\ NoEarlyReturn

(* The places of a program in the driver, and what follows them.           *)
LEMMA AfterAccess ==
    ASSUME NEW place \in Access
    PROVE  /\ After(place) \in Places
           /\ After(place) \in Access \/ place = "outA"
           /\ place = "outA" => After(place) = "user"
           /\ place \in Selects =>
                /\ After(place) \in Access \ Selects
                /\ Register(After(place)) = Register(place)
           /\ place \notin Selects => After(place) \in Selects \cup {"user"}
           /\ After(place) # "wait"
  <1>1. CASE place = "selectB"
    BY <1>1 DEF After, Access, Selects, Places, Register
  <1>2. CASE place = "inB"
    BY <1>2 DEF After, Access, Selects, Places, Register
  <1>3. CASE place = "reselectB"
    BY <1>3 DEF After, Access, Selects, Places, Register
  <1>4. CASE place = "outB"
    BY <1>4 DEF After, Access, Selects, Places, Register
  <1>5. CASE place = "selectA"
    BY <1>5 DEF After, Access, Selects, Places, Register
  <1>6. CASE place = "inA"
    BY <1>6 DEF After, Access, Selects, Places, Register
  <1>7. CASE place = "reselectA"
    BY <1>7 DEF After, Access, Selects, Places, Register
  <1>8. CASE place = "outA"
    BY <1>8 DEF After, Access, Selects, Places, Register
  <1> QED BY <1>1, <1>2, <1>3, <1>4, <1>5, <1>6, <1>7, <1>8 DEF Access

LEMMA InitInv == Init => IInv
  BY RtcAssumption
  DEF Init, IInv, Exclusive, PortsPaired, NoEarlyReturn, Places, Access, Selects

(* Every step keeps the invariant, one case per action.                    *)
LEMMA StepInv == IInv /\ [Next]_vars => IInv'
  <1> SUFFICES ASSUME IInv, [Next]_vars PROVE IInv'
    OBVIOUS
  <1> USE RtcAssumption DEF IInv
  <1>1. CASE RTC_handler
    <2>1. /\ pc' = pc /\ masked' = masked /\ masked = NoProgram /\ fg' = 0
          /\ seen' \in [Program -> 0 .. MaxSeen]
          /\ \A p \in Program : seen'[p] # 0
      BY <1>1 DEF RTC_handler
    <2>2. Exclusive'
      BY <2>1 DEF Exclusive
    <2>3. \A p \in Program : pc[p] \notin Access
      BY <2>1 DEF Exclusive
    <2>4. PortsPaired' /\ NoEarlyReturn'
      BY <2>1, <2>3 DEF PortsPaired, NoEarlyReturn
    <2> QED BY <2>1, <2>2, <2>4
  <1>2. ASSUME NEW p \in Program,
               \/ RTC_open(p)
               \/ \E f \in Frequency, nbytes \in 0 .. 5 : RTC_write(p, f, nbytes)
        PROVE  IInv'
    <2>1. /\ \E place \in {"selectB", "selectA"} : pc' = [pc EXCEPT ![p] = place]
          /\ masked' = p /\ MayRun(p)
          /\ UNCHANGED <<fg, index, seen>>
      BY <1>2 DEF RTC_open, RTC_write, Goto, device
    <2>2. pc' \in [Program -> Places]
      BY <2>1 DEF Places, Access
    <2>3. \A q \in Program \ {p} : pc'[q] = pc[q] /\ pc[q] \notin Access
      BY <2>1 DEF MayRun, Exclusive
    <2>4. Exclusive' /\ PortsPaired'
      BY <2>1, <2>3 DEF Exclusive, PortsPaired, Selects, Access
    <2>5. NoEarlyReturn'
      BY <2>1, <2>3 DEF NoEarlyReturn
    <2> QED BY <2>1, <2>2, <2>4, <2>5
  <1>3. ASSUME NEW p \in Program, Select(p)
        PROVE  IInv'
    <2>1. /\ pc[p] \in Selects /\ pc[p] \in Access
          /\ pc' = [pc EXCEPT ![p] = After(pc[p])]
          /\ index' = Register(pc[p])
          /\ UNCHANGED <<fg, seen>>
      BY <1>3 DEF Select, Goto, Selects, Access
    <2>2. masked' = p /\ masked = p
      BY <2>1, <1>3 DEF Select, Exclusive
    <2>3. /\ After(pc[p]) \in Access \ Selects
          /\ Register(After(pc[p])) = Register(pc[p])
          /\ After(pc[p]) # "wait" /\ After(pc[p]) \in Places
      BY <2>1, AfterAccess
    <2>4. \A q \in Program \ {p} : pc'[q] = pc[q] /\ pc[q] \notin Access
      BY <2>1, <2>2 DEF Exclusive
    <2>5. pc' \in [Program -> Places] /\ pc'[p] = After(pc[p])
      BY <2>1, <2>3
    <2>6. Exclusive' /\ PortsPaired'
      BY <2>1, <2>2, <2>3, <2>4, <2>5 DEF Exclusive, PortsPaired
    <2>7. NoEarlyReturn'
      BY <2>1, <2>3, <2>4, <2>5 DEF NoEarlyReturn
    <2> QED BY <2>1, <2>5, <2>6, <2>7
  <1>4. ASSUME NEW p \in Program, Transfer(p)
        PROVE  IInv'
    <2>1. /\ pc[p] \in Access /\ pc[p] \notin Selects
          /\ pc' = [pc EXCEPT ![p] = After(pc[p])]
          /\ masked' = IF pc[p] = "outA" THEN NoProgram ELSE masked
          /\ UNCHANGED <<fg, index, seen>>
      BY <1>4 DEF Transfer, Goto
    <2>2. masked = p
      BY <2>1 DEF Exclusive
    <2>3. /\ After(pc[p]) \in Selects \cup {"user"}
          /\ After(pc[p]) \in Access \/ pc[p] = "outA"
          /\ pc[p] = "outA" => After(pc[p]) = "user"
          /\ After(pc[p]) # "wait" /\ After(pc[p]) \in Places
      BY <2>1, AfterAccess
    <2>4. \A q \in Program \ {p} : pc'[q] = pc[q] /\ pc[q] \notin Access
      BY <2>1, <2>2 DEF Exclusive
    <2>5. pc' \in [Program -> Places] /\ pc'[p] = After(pc[p])
      BY <2>1, <2>3
    <2>6. "user" \notin Access
      BY DEF Access
    <2>7. Exclusive'
      BY <2>1, <2>2, <2>3, <2>4, <2>5, <2>6 DEF Exclusive
    <2>8. PortsPaired'
      BY <2>1, <2>3, <2>4, <2>5, <2>6 DEF PortsPaired
    <2>9. NoEarlyReturn'
      BY <2>1, <2>3, <2>4, <2>5 DEF NoEarlyReturn
    <2> QED BY <2>1, <2>5, <2>7, <2>8, <2>9
  <1>5. ASSUME NEW p \in Program, RTC_read(p)
        PROVE  IInv'
    <2>1. /\ pc[p] = "user" /\ pc' = [pc EXCEPT ![p] = "wait"] /\ fg' = 1
          /\ seen' = [seen EXCEPT ![p] = 0]
          /\ UNCHANGED <<index, masked>>
      BY <1>5 DEF RTC_read, Goto, device
    <2>2. "wait" \notin Access
      BY DEF Access
    <2>3. pc' \in [Program -> Places] /\ seen' \in [Program -> 0 .. MaxSeen]
      BY <2>1 DEF Places
    <2>4. \A q \in Program : pc'[q] \in Access => pc'[q] = pc[q]
      BY <2>1, <2>2
    <2>5. Exclusive' /\ PortsPaired'
      BY <2>1, <2>4 DEF Exclusive, PortsPaired
    <2>6. NoEarlyReturn'
      BY <2>1 DEF NoEarlyReturn
    <2> QED BY <2>3, <2>5, <2>6
  <1>6. ASSUME NEW p \in Program, ReadReturn(p)
        PROVE  IInv'
    <2>1. /\ pc[p] = "wait" /\ pc' = [pc EXCEPT ![p] = "user"]
          /\ UNCHANGED <<fg, index, masked, seen>>
      BY <1>6 DEF ReadReturn, Goto, device
    <2>2. "user" \notin Access
      BY DEF Access
    <2>3. pc' \in [Program -> Places]
      BY <2>1 DEF Places
    <2>4. \A q \in Program : pc'[q] # "user" => pc'[q] = pc[q]
      BY <2>1
    <2>5. Exclusive' /\ PortsPaired' /\ NoEarlyReturn'
      BY <2>1, <2>2, <2>4 DEF Exclusive, PortsPaired, NoEarlyReturn
    <2> QED BY <2>1, <2>3, <2>5
  <1>7. CASE UNCHANGED vars
    BY <1>7 DEF vars, device, Exclusive, PortsPaired, NoEarlyReturn
  <1> QED
    BY <1>1, <1>2, <1>3, <1>4, <1>5, <1>6, <1>7 DEF Next, Step

LEMMA Invariance == Spec => []IInv
  BY InitInv, StepInv, PTL DEF Spec

(* The register that is selected when the driver transfers one is the one  *)
(* it selected, whatever the handler and other programs do in between.     *)
THEOREM PortsAlwaysPaired == Spec => []PortsPaired
  BY Invariance, PTL DEF IInv

(* No program returns from RTC_read before the clock has ticked.           *)
THEOREM NeverEarly == Spec => []NoEarlyReturn
  BY Invariance, PTL DEF IInv

-----------------------------------------------------------------------------
(* The rates.  Both functions are recursive: that they are what their      *)
(* definitions say is shown first, by naming the function each one is.     *)
Power == {2, 4, 8, 16, 32, 64, 128, 256, 512, 1024}

HertzIs(h) == h = [r \in 1 .. 15 |-> IF r = 1 THEN 32768 ELSE h[r - 1] \div 2]

LEMMA HertzDefined == HertzIs(Hertz)
<1> DEFINE Value(r) ==
             IF r = 1 THEN 32768 ELSE IF r = 2 THEN 16384
             ELSE IF r = 3 THEN 8192 ELSE IF r = 4 THEN 4096
             ELSE IF r = 5 THEN 2048 ELSE IF r = 6 THEN 1024
             ELSE IF r = 7 THEN 512 ELSE IF r = 8 THEN 256
             ELSE IF r = 9 THEN 128 ELSE IF r = 10 THEN 64
             ELSE IF r = 11 THEN 32 ELSE IF r = 12 THEN 16
             ELSE IF r = 13 THEN 8 ELSE IF r = 14 THEN 4 ELSE 2
           h == [r \in 1 .. 15 |-> Value(r)]
           Body(f, r) == IF r = 1 THEN 32768 ELSE f[r - 1] \div 2
<1>1. ASSUME NEW r \in 1 .. 15 PROVE Value(r) = Body(h, r)
  <2>1. r # 1 => r - 1 \in 1 .. 15
    OBVIOUS
  <2>2. r # 1 => h[r - 1] = Value(r - 1)
    BY <2>1
  <2>3. Value(r) = IF r = 1 THEN 32768 ELSE Value(r - 1) \div 2
    OBVIOUS
  <2> QED BY <2>2, <2>3
<1>2. h = [r \in 1 .. 15 |-> Body(h, r)]
  <2> HIDE DEF Value, Body
  <2> QED BY <1>1
<1>3. HertzIs(h)
  <2> HIDE DEF h
  <2> QED BY <1>2 DEF HertzIs
<1>4. Hertz = CHOOSE f : HertzIs(f)
  BY DEF Hertz, HertzIs
<1> QED BY <1>3, <1>4

(* The rates from 6 on give the powers of two that programs may ask for.   *)
LEMMA HertzOfRate ==
    /\ Hertz[15] = 2 /\ Hertz[14] = 4 /\ Hertz[13] = 8 /\ Hertz[12] = 16
    /\ Hertz[11] = 32 /\ Hertz[10] = 64 /\ Hertz[9] = 128 /\ Hertz[8] = 256
    /\ Hertz[7] = 512 /\ Hertz[6] = 1024
<1>1. \A r \in 1 .. 15 : Hertz[r] = IF r = 1 THEN 32768 ELSE Hertz[r - 1] \div 2
  BY HertzDefined DEF HertzIs
<1>2. Hertz[1] = 32768 /\ Hertz[2] = 16384 /\ Hertz[3] = 8192
  BY <1>1
<1>3. Hertz[4] = 4096 /\ Hertz[5] = 2048 /\ Hertz[6] = 1024
  BY <1>1, <1>2
<1>4. Hertz[7] = 512 /\ Hertz[8] = 256 /\ Hertz[9] = 128
  BY <1>1, <1>3
<1>5. Hertz[10] = 64 /\ Hertz[11] = 32 /\ Hertz[12] = 16
  BY <1>1, <1>4
<1>6. Hertz[13] = 8 /\ Hertz[14] = 4 /\ Hertz[15] = 2
  BY <1>1, <1>5
<1> QED BY <1>3, <1>4, <1>5, <1>6

Halved(h, store) ==
    IF store < 2 THEN 0
    ELSE IF store % 2 = 1 \/ h[store \div 2] = Rejected THEN Rejected
    ELSE h[store \div 2] + 1

(* What the loop is given; a name, for the provers would look at each.     *)
Stores == 0 .. 1024

HalvingsIs(h) == h = [store \in Stores |-> Halved(h, store)]

LEMMA HalvingsDefined == HalvingsIs(Halvings)
<1> DEFINE Log(s) ==
             IF s < 2 THEN 0 ELSE IF s = 2 THEN 1 ELSE IF s = 4 THEN 2
             ELSE IF s = 8 THEN 3 ELSE IF s = 16 THEN 4 ELSE IF s = 32 THEN 5
             ELSE IF s = 64 THEN 6 ELSE IF s = 128 THEN 7
             ELSE IF s = 256 THEN 8 ELSE IF s = 512 THEN 9
             ELSE IF s = 1024 THEN 10 ELSE Rejected
           h == [s \in Stores |-> Log(s)]
<1>1. ASSUME NEW s \in Stores PROVE Log(s) = Halved(h, s)
  <2>1. s \div 2 \in Stores
    BY DEF Stores
  <2>2. h[s \div 2] = Log(s \div 2)
    BY <2>1
  <2>3. Log(s) = IF s < 2 THEN 0
                 ELSE IF s % 2 = 1 \/ Log(s \div 2) = Rejected THEN Rejected
                 ELSE Log(s \div 2) + 1
    BY DEF Rejected, Stores
  <2> HIDE DEF Log, h
  <2> QED BY <2>2, <2>3, Zenon DEF Halved
<1>2. h = [s \in Stores |-> Halved(h, s)]
  <2>1. h = [s \in Stores |-> Log(s)] /\ \A s \in Stores : Log(s) = Halved(h, s)
    BY <1>1
  <2> HIDE DEF Log, h
  <2> QED BY <2>1, Zenon
<1>3. HalvingsIs(h)
  <2> HIDE DEF h
  <2> QED BY <1>2 DEF HalvingsIs
<1>4. Halvings = CHOOSE f : HalvingsIs(f)
  BY DEF Halvings, HalvingsIs, Halved, Stores
<1> QED BY <1>3, <1>4

LEMMA HalvingsAt ==
    ASSUME NEW s \in Stores PROVE Halvings[s] = Halved(Halvings, s)
<1>1. Halvings = [i \in Stores |-> Halved(Halvings, i)]
  BY HalvingsDefined, Zenon DEF HalvingsIs
<1>2. PICK g : g = [i \in Stores |-> Halved(Halvings, i)]
  OBVIOUS
<1>3. g[s] = Halved(Halvings, s)
  BY <1>2
<1>4. g = Halvings
  BY <1>1, <1>2, Zenon
<1> QED BY <1>3, <1>4, Zenon

(* Of the frequencies from n up to 2 * n only n is accepted, as the e-th   *)
(* power of two.                                                           *)
Only(n, e) ==
    \A s \in n .. 2 * n - 1 :
        s <= 1024 /\ Halvings[s] # Rejected => s = n /\ Halvings[s] = e

LEMMA Doubling ==
    ASSUME NEW n \in 1 .. 512, NEW e \in Nat, Only(n, e)
    PROVE  Only(2 * n, e + 1)
<1> SUFFICES ASSUME NEW s \in 2 * n .. 2 * (2 * n) - 1, s <= 1024,
                    Halvings[s] # Rejected
             PROVE  s = 2 * n /\ Halvings[s] = e + 1
  BY DEF Only
<1>1. PICK k \in Int : k = s \div 2
  OBVIOUS
<1>2. PICK m \in 0 .. 1 : m = s % 2 /\ s = 2 * k + m
  BY <1>1
<1>3. s \in Stores /\ s >= 2
  BY DEF Stores
<1>4. Halvings[s] = Halved(Halvings, s)
  BY <1>3, HalvingsAt
<1>5. m # 1 /\ Halvings[k] # Rejected /\ Halvings[s] = Halvings[k] + 1
  <2>1. ~ (s < 2)
    BY <1>3
  <2> QED BY <1>1, <1>2, <1>4, <2>1, Zenon DEF Halved
<1>6. m = 0 /\ k \in n .. 2 * n - 1 /\ k <= 1024
  BY <1>2, <1>5
<1>7. k = n /\ Halvings[k] = e
  BY <1>5, <1>6 DEF Only
<1>8. s = 2 * n
  BY <1>2, <1>6, <1>7
<1> QED BY <1>5, <1>7, <1>8, Zenon

(* The loop of RTC_write accepts powers of two only, and counts which.     *)
LEMMA RateOfRight ==
    ASSUME NEW f \in Int, f >= 2, f <= 1024, Halvings[f] # Rejected
    PROVE  RateOf(f) \in 6 .. 15 /\ Hertz[RateOf(f)] = f /\ f \in Power
<1>1. Only(1, 0)
  <2>1. Halvings[1] = Halved(Halvings, 1)
    <3>1. 1 \in Stores
      BY DEF Stores
    <3> QED BY <3>1, HalvingsAt
  <2>2. Halvings[1] = 0
    BY <2>1 DEF Halved
  <2> QED BY <2>2 DEF Only
<1>2. Only(2, 1)
  BY <1>1, Doubling
<1>3. Only(4, 2)
  BY <1>2, Doubling
<1>4. Only(8, 3)
  BY <1>3, Doubling
<1>5. Only(16, 4)
  BY <1>4, Doubling
<1>6. Only(32, 5)
  BY <1>5, Doubling
<1>7. Only(64, 6)
  BY <1>6, Doubling
<1>8. Only(128, 7)
  BY <1>7, Doubling
<1>9. Only(256, 8)
  BY <1>8, Doubling
<1>10. Only(512, 9)
  BY <1>9, Doubling
<1>11. Only(1024, 10)
  BY <1>10, Doubling
<1>12. <<f, Halvings[f]>> \in
          {<<2, 1>>, <<4, 2>>, <<8, 3>>, <<16, 4>>, <<32, 5>>, <<64, 6>>,
           <<128, 7>>, <<256, 8>>, <<512, 9>>, <<1024, 10>>}
  <2>1. f \in 2 .. 3 => f = 2 /\ Halvings[f] = 1
    BY <1>2 DEF Only
  <2>2. f \in 4 .. 7 => f = 4 /\ Halvings[f] = 2
    BY <1>3 DEF Only
  <2>3. f \in 8 .. 15 => f = 8 /\ Halvings[f] = 3
    BY <1>4 DEF Only
  <2>4. f \in 16 .. 31 => f = 16 /\ Halvings[f] = 4
    BY <1>5 DEF Only
  <2>5. f \in 32 .. 63 => f = 32 /\ Halvings[f] = 5
    BY <1>6 DEF Only
  <2>6. f \in 64 .. 127 => f = 64 /\ Halvings[f] = 6
    BY <1>7 DEF Only
  <2>7. f \in 128 .. 255 => f = 128 /\ Halvings[f] = 7
    BY <1>8 DEF Only
  <2>8. f \in 256 .. 511 => f = 256 /\ Halvings[f] = 8
    BY <1>9 DEF Only
  <2>9. f \in 512 .. 1023 => f = 512 /\ Halvings[f] = 9
    BY <1>10 DEF Only
  <2>10. f = 1024 => Halvings[f] = 10
    BY <1>11 DEF Only
  <2>11. \/ f \in 2 .. 3 \/ f \in 4 .. 7 \/ f \in 8 .. 15 \/ f \in 16 .. 31
         \/ f \in 32 .. 63 \/ f \in 64 .. 127 \/ f \in 128 .. 255
         \/ f \in 256 .. 511 \/ f \in 512 .. 1023 \/ f = 1024
    OBVIOUS
  <2> QED BY <2>1, <2>2, <2>3, <2>4, <2>5, <2>6, <2>7, <2>8, <2>9, <2>10, <2>11
<1> QED BY <1>12, HertzOfRate DEF RateOf, Power

(* What a program that writes register A will leave there: the rate of the *)
(* frequency its caller asked for.                                         *)
Asked == \A p \in Program : Hertz[input[p]] = asked[p] /\ asked[p] \in Power

RateInv ==
    /\ IInv
    /\ input \in [Program -> Int] /\ asked \in [Program -> Int]
    /\ Asked
    /\ RateRight

LEMMA InitRate == Init => RateInv
<1> SUFFICES ASSUME Init PROVE RateInv
  OBVIOUS
<1>1. /\ rate = 15 /\ hz = 2 /\ input = [p \in Program |-> 15]
      /\ asked = [p \in Program |-> 2]
  BY DEF Init
<1>2. Hertz[15] = 2
  BY HertzOfRate
<1> QED BY <1>1, <1>2, InitInv DEF RateInv, Asked, RateRight, Power

LEMMA StepRate == RateInv /\ [Next]_vars => RateInv'
<1> SUFFICES ASSUME RateInv, [Next]_vars PROVE RateInv'
  OBVIOUS
<1>1. IInv'
  BY StepInv DEF RateInv
<1>2. CASE UNCHANGED <<rate, hz, input, asked>>
  BY <1>1, <1>2 DEF RateInv, Asked, RateRight
<1>3. ASSUME NEW p \in Program, NEW r \in Int, NEW f \in Power, Hertz[r] = f,
             input' = [input EXCEPT ![p] = r], asked' = [asked EXCEPT ![p] = f],
             \/ UNCHANGED <<rate, hz>>
             \/ rate' = input[p] /\ hz' = asked[p]
      PROVE  RateInv'
  <2>1. input' \in [Program -> Int] /\ asked' \in [Program -> Int]
    BY <1>3 DEF RateInv, Power
  <2>2. Asked'
    BY <1>3 DEF RateInv, Asked
  <2>3. RateRight'
    BY <1>3 DEF RateInv, Asked, RateRight, Power
  <2> QED BY <1>1, <2>1, <2>2, <2>3 DEF RateInv
<1>4. ASSUME NEW p \in Program, RTC_open(p) PROVE RateInv'
  <2>1. /\ input' = [input EXCEPT ![p] = 15] /\ asked' = [asked EXCEPT ![p] = 2]
        /\ UNCHANGED <<rate, hz>>
    BY <1>4 DEF RTC_open, device
  <2>2. 15 \in Int /\ 2 \in Power /\ Hertz[15] = 2
    BY HertzOfRate DEF Power
  <2> QED BY <1>3, <2>1, <2>2
<1>5. ASSUME NEW p \in Program, NEW f \in Frequency, NEW nbytes \in 0 .. 5,
             RTC_write(p, f, nbytes)
      PROVE  RateInv'
  <2>1. f \in Int /\ f >= 2 /\ f <= 1024 /\ Halvings[f] # Rejected
    BY <1>5 DEF RTC_write
  <2>2. RateOf(f) \in 6 .. 15 /\ Hertz[RateOf(f)] = f /\ f \in Power
    BY <2>1, RateOfRight
  <2>3. /\ input' = [input EXCEPT ![p] = RateOf(f)]
        /\ asked' = [asked EXCEPT ![p] = f]
        /\ UNCHANGED <<rate, hz>>
    BY <1>5 DEF RTC_write, device
  <2>4. RateOf(f) \in Int
    BY <2>2
  <2> QED BY <1>3, <2>2, <2>3, <2>4
<1>6. ASSUME NEW p \in Program, Transfer(p), pc[p] = "outA" PROVE RateInv'
  <2>1. index = "A"
    <3>1. "outA" \in Access \ Selects /\ Register("outA") = "A"
      BY DEF Access, Selects, Register
    <3> QED BY <1>6, <3>1 DEF RateInv, IInv, PortsPaired
  <2>2. /\ rate' = input[p] /\ hz' = asked[p]
        /\ input' = [input EXCEPT ![p] = 15] /\ asked' = [asked EXCEPT ![p] = 2]
    BY <1>6, <2>1 DEF Transfer
  <2>3. 15 \in Int /\ 2 \in Power /\ Hertz[15] = 2
    BY HertzOfRate DEF Power
  <2> QED BY <1>3, <2>2, <2>3
<1>7. ASSUME NEW p \in Program,
             \/ Select(p) \/ ReadReturn(p) \/ RTC_read(p)
             \/ Transfer(p) /\ pc[p] # "outA"
      PROVE  RateInv'
  <2>1. UNCHANGED <<rate, hz, input, asked>>
    BY <1>7 DEF Select, ReadReturn, RTC_read, Transfer, device
  <2> QED BY <1>2, <2>1
<1>8. CASE RTC_handler \/ UNCHANGED vars
  <2>1. UNCHANGED <<rate, hz, input, asked>>
    BY <1>8 DEF RTC_handler, vars, device
  <2> QED BY <1>2, <2>1
<1> QED BY <1>4, <1>5, <1>6, <1>7, <1>8 DEF Next, Step

(* The device runs at the frequency that was asked for last, whichever     *)
(* programs open and write the clock at a time: the loop of RTC_write      *)
(* turns each power of two into its rate and rejects what is none, and no  *)
(* other program gets between a rate and register A (rtc.c:115-141).       *)
THEOREM RateAlwaysRight == Spec => []RateRight
  BY InitRate, StepRate, PTL DEF Spec, RateInv
=============================================================================
