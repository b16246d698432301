------------------------- MODULE Descriptors_proofs -------------------------
(***************************************************************************)
(* Proofs about Descriptors, for every number of processes, terminals and  *)
(* descriptors, all files and all requests.  Which table a call works on   *)
(* depends on who runs where, so the invariant has two halves: the stacks  *)
(* of programs that Sessions keeps, and what the tables and the reads in   *)
(* progress have to do with them.                                          *)
(***************************************************************************)
EXTENDS Descriptors, TLAPS

SessionType ==
    /\ caller \in [Pid -> Pid \cup {NoPid}]
    /\ root \in [Terminal -> Pid \cup {NoPid}]
    /\ top \in [Terminal -> Pid \cup {NoPid}]
    /\ turn \in Terminal /\ root[turn] # NoPid
    /\ intact = TRUE

(* Every program is at home at one terminal: its shell, the program on     *)
(* top, and with a program the one that waits for it.                      *)
AtHome(home) ==
    /\ \A t \in Terminal : root[t] # NoPid =>
          /\ caller[root[t]] = NoPid /\ home[root[t]] = t
          /\ top[t] \in process /\ home[top[t]] = t
    /\ \A p \in Pid : caller[p] # NoPid =>
          caller[p] \in process /\ home[caller[p]] = home[p]

(* A program waits for one other, and the one on top for none.             *)
Waiting ==
    /\ \A p, q \in Pid : caller[p] = caller[q] /\ caller[p] # NoPid => p = q
    /\ \A t \in Terminal, p \in Pid :
          root[t] # NoPid => caller[p] # top[t]

SessionInv ==
    /\ SessionType
    /\ \E home \in [Pid -> Terminal] : AtHome(home)
    /\ Waiting

Seat == [flag : {0, 1}, inode : File \cup {NoFile}, file_position : Int]

(* What a read in progress has in its locals.                              *)
InRead(r) ==
    /\ r.pc \in {"called", "found", "copied"} => r.fd \in Slot /\ r.nbytes \in Int
    /\ r.pc \in {"found", "copied"} => r.pcb \in Pid
    /\ r.pc = "copied" => r.bytes_read \in Int

TableType ==
    /\ fd \in [Pid -> [Slot -> Seat]]
    /\ got \in [Pid -> [Slot -> Int]]
    /\ at = [p \in Pid |-> at[p]] /\ \A p \in Pid : InRead(at[p])

(* A read has found the PCB of its own program.                            *)
OwnPcb == \A p \in Pid : at[p].pc \in {"found", "copied"} => at[p].pcb = p

IInv ==
    /\ SessionInv
    /\ TableType
    /\ FreshTable
    /\ hazards = {} => OwnPcb
    /\ ReadsSequential

-----------------------------------------------------------------------------
(* The pids, and which of them are in use.                                 *)
LEMMA Pids ==
    /\ NoPid \notin Pid
    /\ N - 1 \in Pid /\ \A q \in Pid : q # 0 => q - 1 \in Pid
    /\ CurrentPid \subseteq Pid
    /\ LowestFree \subseteq Pid \ process
<1>1. NoPid \notin Pid /\ N - 1 \in Pid /\ \A q \in Pid : q # 0 => q - 1 \in Pid
  BY DescriptorsAssumption DEF NoPid, Pid
<1>2. LowestFree \subseteq Pid \ process
  BY DEF LowestFree
<1>3. CurrentPid \subseteq Pid
  BY <1>1, <1>2 DEF CurrentPid
<1> QED BY <1>1, <1>2, <1>3

LEMMA BusyIs ==
    ASSUME SessionType
    PROVE  \A p \in Pid : p \in process <=>
              \/ \E t \in Terminal : root[t] = p
              \/ caller[p] # NoPid
  BY Pids DEF SessionType, process, Session!Busy, Session!Roots

LEMMA BusyPids == ASSUME SessionType PROVE process \subseteq Pid
  BY DEF SessionType, process, Session!Busy, Session!Roots

(* The program that runs is one of them, and on top of its terminal.       *)
LEMMA RunningBusy ==
    ASSUME SessionInv PROVE Running \in process /\ Running \in Pid
  BY BusyPids DEF SessionInv, SessionType, AtHome, Running

(* A fresh program on top.                                                 *)
LEMMA PushKeeps ==
    ASSUME SessionInv, NEW q \in Pid \ process, Session!Push(q)
    PROVE  SessionInv' /\ process' = process \cup {q}
<1>1. /\ caller' = [caller EXCEPT ![q] = Running]
      /\ top' = [top EXCEPT ![turn] = q]
      /\ UNCHANGED <<root, turn, intact>>
  BY DEF Session!Push, Running
<1>2. Running \in process /\ Running \in Pid /\ q # Running
  BY RunningBusy
<1>3. SessionType /\ SessionType'
  BY <1>1, <1>2 DEF SessionInv, SessionType
<1>4. caller[q] = NoPid /\ \A t \in Terminal : root[t] # q
  BY <1>3, BusyIs
<1>5. process' = process \cup {q}
  <2>1. \A p \in Pid : p \in process' <=>
              \/ \E t \in Terminal : root'[t] = p
              \/ caller'[p] # NoPid
    BY <1>3, Pids DEF SessionType, process, Session!Busy, Session!Roots
  <2>2. process \subseteq Pid /\ process' \subseteq Pid
    BY <1>3 DEF SessionType, process, Session!Busy, Session!Roots
  <2>3. \A p \in Pid : p \in process' <=> (p \in process \/ p = q)
    BY <1>1, <1>2, <1>3, <2>1, BusyIs, Pids DEF SessionType
  <2> QED BY <2>2, <2>3
<1>6. PICK home \in [Pid -> Terminal] : AtHome(home)
  BY DEF SessionInv
<1>7. PICK home2 \in [Pid -> Terminal] : home2 = [home EXCEPT ![q] = turn]
  BY <1>3 DEF SessionType
<1>8. AtHome(home2)'
  <2>1. ASSUME NEW t \in Terminal, root'[t] # NoPid
        PROVE  /\ caller'[root'[t]] = NoPid /\ home2[root'[t]] = t
               /\ top'[t] \in process' /\ home2[top'[t]] = t
    BY <1>1, <1>2, <1>3, <1>4, <1>5, <1>6, <1>7, <2>1, BusyPids
    DEF AtHome, SessionType
  <2>2. ASSUME NEW p \in Pid, caller'[p] # NoPid
        PROVE  caller'[p] \in process' /\ home2[caller'[p]] = home2[p]
    <3>1. CASE p = q
      <4>1. caller'[p] = Running /\ home2[q] = turn /\ home2[Running] = home[Running]
        BY <1>1, <1>2, <1>3, <1>7, <3>1 DEF SessionType
      <4>2. home[Running] = turn
        BY <1>3, <1>6 DEF AtHome, SessionType, Running
      <4> QED BY <1>2, <1>5, <3>1, <4>1, <4>2
    <3>2. CASE p # q
      <4>1. caller'[p] = caller[p] /\ home2[p] = home[p]
        BY <1>1, <1>3, <1>7, <3>2 DEF SessionType
      <4>2. caller[p] \in process /\ home[caller[p]] = home[p] /\ caller[p] # q
        BY <1>6, <2>2, <4>1 DEF AtHome
      <4>3. home2[caller[p]] = home[caller[p]]
        BY <1>3, <1>7, <4>2, BusyPids
      <4> QED BY <1>5, <4>1, <4>2, <4>3
    <3> QED BY <3>1, <3>2
  <2> QED BY <2>1, <2>2 DEF AtHome
<1>9. Waiting'
  <2>1. \A p \in Pid : caller[p] # q
    BY <1>3, <1>6, Pids DEF AtHome
  <2>2. \A p \in Pid : caller[p] # Running
    BY <1>3 DEF SessionInv, Waiting, SessionType, Running
  <2>3. \A t \in Terminal \ {turn} : root[t] # NoPid => top[t] # Running
    BY <1>3, <1>6 DEF AtHome, SessionType, Running
  <2>4. \A p \in Pid \ {q} : caller'[p] = caller[p]
    BY <1>1
  <2>5. caller'[q] = Running
    BY <1>1, <1>3 DEF SessionType
  <2>6. \A p1, p2 \in Pid :
           caller'[p1] = caller'[p2] /\ caller'[p1] # NoPid => p1 = p2
    BY <2>2, <2>4, <2>5 DEF SessionInv, Waiting
  <2>7. ASSUME NEW t \in Terminal, NEW p \in Pid, root'[t] # NoPid
        PROVE  caller'[p] # top'[t]
    <3>1. top'[t] = IF t = turn THEN q ELSE top[t]
      BY <1>1, <1>3 DEF SessionType
    <3> QED BY <1>1, <1>2, <2>1, <2>3, <2>4, <2>5, <2>7, <3>1 DEF SessionInv, Waiting
  <2> QED BY <2>6, <2>7 DEF Waiting
<1> QED BY <1>3, <1>5, <1>8, <1>9 DEF SessionInv

(* The program on top is gone, and the one that waited for it is back.     *)
LEMMA PopKeeps ==
    ASSUME SessionInv, Session!Pop
    PROVE  /\ SessionInv' /\ process' = process \ {Running}
           /\ caller[Running] \in process \ {Running}
<1> DEFINE r == Running
           c == caller[Running]
<1>1. /\ caller' = [caller EXCEPT ![r] = NoPid]
      /\ top' = [top EXCEPT ![turn] = c]
      /\ UNCHANGED <<root, turn, intact>>
      /\ r # root[turn]
  BY DEF Session!Pop, Running
<1>2. r \in process /\ r \in Pid
  BY RunningBusy
<1>3. SessionType
  BY DEF SessionInv
<1>4. PICK home \in [Pid -> Terminal] : AtHome(home)
  BY DEF SessionInv
<1>5. home[r] = turn
  BY <1>3, <1>4 DEF AtHome, SessionType, Running
<1>6. \A t \in Terminal : root[t] # r
  <2> SUFFICES ASSUME NEW t \in Terminal, root[t] = r PROVE FALSE
    OBVIOUS
  <2>1. home[r] = t
    BY <1>2, <1>4, Pids DEF AtHome
  <2> QED BY <1>1, <1>5, <2>1
<1>7. c # NoPid
  BY <1>2, <1>3, <1>6, BusyIs
<1>8. c \in process /\ home[c] = turn /\ c # r /\ c \in Pid
  <2>1. c \in process /\ home[c] = turn
    BY <1>2, <1>4, <1>5, <1>7 DEF AtHome
  <2>2. c # r
    BY <1>2, <1>3 DEF SessionInv, Waiting, SessionType, Running
  <2> QED BY <1>3, <2>1, <2>2, BusyPids
<1>9. SessionType'
  BY <1>1, <1>3, <1>8 DEF SessionType
<1> HIDE DEF r, c
<1>10. process' = process \ {r}
  <2>1. \A p \in Pid : p \in process' <=>
              \/ \E t \in Terminal : root'[t] = p
              \/ caller'[p] # NoPid
    BY <1>9, Pids DEF SessionType, process, Session!Busy, Session!Roots
  <2>2. process \subseteq Pid /\ process' \subseteq Pid
    BY <1>3, <1>9 DEF SessionType, process, Session!Busy, Session!Roots
  <2>3. \A p \in Pid : p \in process' <=> (p \in process /\ p # r)
    BY <1>1, <1>2, <1>3, <1>6, <2>1, BusyIs, Pids DEF SessionType
  <2> QED BY <2>2, <2>3
<1>11. AtHome(home)'
  <2>1. ASSUME NEW t \in Terminal, root'[t] # NoPid
        PROVE  /\ caller'[root'[t]] = NoPid /\ home[root'[t]] = t
               /\ top'[t] \in process' /\ home[top'[t]] = t
    <3>1. /\ caller[root[t]] = NoPid /\ home[root[t]] = t
          /\ top[t] \in process /\ home[top[t]] = t
      BY <1>1, <1>4, <2>1 DEF AtHome
    <3>2. caller'[root'[t]] = NoPid /\ home[root'[t]] = t
      BY <1>1, <1>3, <2>1, <3>1 DEF SessionType
    <3>3. CASE t = turn
      BY <1>1, <1>3, <1>8, <1>10, <3>2, <3>3 DEF SessionType
    <3>4. CASE t # turn
      BY <1>1, <1>3, <1>5, <1>10, <3>1, <3>2, <3>4 DEF SessionType
    <3> QED BY <3>3, <3>4
  <2>2. ASSUME NEW p \in Pid, caller'[p] # NoPid
        PROVE  caller'[p] \in process' /\ home[caller'[p]] = home[p]
    <3>1. p # r /\ caller'[p] = caller[p]
      BY <1>1, <1>3, <2>2 DEF SessionType
    <3>2. caller[p] \in process /\ home[caller[p]] = home[p]
      BY <1>4, <2>2, <3>1 DEF AtHome
    <3>3. caller[p] # r
      BY <1>3 DEF SessionInv, Waiting, SessionType, Running, r
    <3> QED BY <1>10, <3>1, <3>2, <3>3
  <2> QED BY <2>1, <2>2 DEF AtHome
<1>12. Waiting'
  <2>1. \A p \in Pid : caller'[p] = IF p = r THEN NoPid ELSE caller[p]
    BY <1>1, <1>3 DEF SessionType
  <2>2. ASSUME NEW p1 \in Pid, NEW p2 \in Pid, caller'[p1] = caller'[p2],
               caller'[p1] # NoPid
        PROVE  p1 = p2
    BY <2>1, <2>2 DEF SessionInv, Waiting
  <2>3. ASSUME NEW t \in Terminal, NEW p \in Pid, root'[t] # NoPid
        PROVE  caller'[p] # top'[t]
    <3>1. top'[t] = IF t = turn THEN c ELSE top[t]
      BY <1>1, <1>3 DEF SessionType
    <3>2. CASE t = turn
      <4>1. ASSUME caller'[p] = c PROVE FALSE
        <5>1. p # r /\ caller[p] = c
          BY <1>7, <2>1, <4>1
        <5> QED BY <1>2, <1>7, <5>1 DEF SessionInv, Waiting, c, r
      <4> QED BY <3>1, <3>2, <4>1
    <3>3. CASE t # turn
      <4>1. top[t] \in process /\ caller[p] # top[t]
        BY <1>1, <1>4, <2>3 DEF AtHome, SessionInv, Waiting
      <4>2. top[t] # NoPid
        BY <1>3, <4>1, BusyPids, Pids
      <4> QED BY <2>1, <3>1, <3>3, <4>1, <4>2
    <3> QED BY <3>2, <3>3
  <2> QED BY <2>2, <2>3 DEF Waiting
<1> QED BY <1>8, <1>9, <1>10, <1>11, <1>12 DEF SessionInv, r, c

(* A shell at a terminal that has none.                                    *)
LEMMA OpenShellKeeps ==
    ASSUME SessionInv, NEW t0 \in Terminal, NEW q \in Pid \ process,
           Session!OpenShell(t0, q)
    PROVE  SessionInv' /\ process' = process \cup {q}
<1>1. /\ root' = [root EXCEPT ![t0] = q]
      /\ top' = [top EXCEPT ![t0] = q]
      /\ turn' = t0 /\ caller' = caller /\ intact' = intact
      /\ root[t0] = NoPid
  BY DEF Session!OpenShell
<1>2. SessionType /\ SessionType'
  BY <1>1, Pids DEF SessionInv, SessionType
<1>3. caller[q] = NoPid /\ \A t \in Terminal : root[t] # q
  BY <1>2, BusyIs
<1>4. process' = process \cup {q}
  <2>1. \A p \in Pid : p \in process' <=>
              \/ \E t \in Terminal : root'[t] = p
              \/ caller'[p] # NoPid
    BY <1>2, Pids DEF SessionType, process, Session!Busy, Session!Roots
  <2>2. process \subseteq Pid /\ process' \subseteq Pid
    BY <1>2 DEF SessionType, process, Session!Busy, Session!Roots
  <2>3. \A t \in Terminal : root'[t] = IF t = t0 THEN q ELSE root[t]
    BY <1>1, <1>2 DEF SessionType
  <2>4. \A p \in Pid : p \in process' <=> (p \in process \/ p = q)
    BY <1>1, <1>2, <2>1, <2>3, BusyIs, Pids
  <2> QED BY <2>2, <2>4
<1>5. PICK home \in [Pid -> Terminal] : AtHome(home)
  BY DEF SessionInv
<1>6. PICK home2 \in [Pid -> Terminal] : home2 = [home EXCEPT ![q] = t0]
  OBVIOUS
<1>7. \A p \in Pid : caller[p] # q
  BY <1>2, <1>5, Pids DEF AtHome
<1>8. AtHome(home2)'
  <2>1. ASSUME NEW t \in Terminal, root'[t] # NoPid
        PROVE  /\ caller'[root'[t]] = NoPid /\ home2[root'[t]] = t
               /\ top'[t] \in process' /\ home2[top'[t]] = t
    <3>1. CASE t = t0
      BY <1>1, <1>2, <1>3, <1>4, <1>6, <3>1 DEF SessionType
    <3>2. CASE t # t0
      <4>1. root'[t] = root[t] /\ top'[t] = top[t]
        BY <1>1, <1>2, <3>2 DEF SessionType
      <4>2. /\ caller[root[t]] = NoPid /\ home[root[t]] = t
            /\ top[t] \in process /\ home[top[t]] = t
        BY <1>5, <2>1, <4>1 DEF AtHome
      <4>3. root[t] \in Pid \ {q} /\ top[t] \in Pid \ {q}
        BY <1>2, <1>3, <2>1, <4>1, <4>2, BusyPids DEF SessionType
      <4> QED BY <1>1, <1>4, <1>6, <4>1, <4>2, <4>3
    <3> QED BY <3>1, <3>2
  <2>2. ASSUME NEW p \in Pid, caller'[p] # NoPid
        PROVE  caller'[p] \in process' /\ home2[caller'[p]] = home2[p]
    <3>1. caller[p] \in process /\ home[caller[p]] = home[p] /\ p # q
      BY <1>1, <1>3, <1>5, <2>2 DEF AtHome
    <3>2. caller[p] \in Pid \ {q}
      BY <1>2, <3>1, BusyPids
    <3> QED BY <1>1, <1>4, <1>6, <3>1, <3>2
  <2> QED BY <2>1, <2>2 DEF AtHome
<1>9. Waiting'
  <2>1. \A t \in Terminal : /\ top'[t] = IF t = t0 THEN q ELSE top[t]
                            /\ root'[t] = IF t = t0 THEN q ELSE root[t]
    BY <1>1, <1>2 DEF SessionType
  <2> QED BY <1>1, <1>7, <2>1 DEF SessionInv, Waiting
<1> QED BY <1>2, <1>4, <1>8, <1>9 DEF SessionInv

(* The scheduler passes the turn to an open terminal.                      *)
LEMMA ScheduleKeeps ==
    ASSUME SessionInv, NEW t0 \in Terminal, Session!Schedule(t0)
    PROVE  SessionInv' /\ process' = process
<1>1. turn' = t0 /\ root[t0] # NoPid /\ UNCHANGED <<caller, root, top, intact>>
  BY DEF Session!Schedule, Session!Open
<1>2. process' = process
  BY <1>1 DEF process, Session!Busy, Session!Roots
<1> QED BY <1>1, <1>2 DEF SessionInv, SessionType, AtHome, Waiting

LEMMA NobodyMoves ==
    ASSUME SessionInv, UNCHANGED processes
    PROVE  SessionInv' /\ process' = process
<1>1. UNCHANGED <<caller, root, top, turn, intact>>
  BY DEF processes
<1>2. process' = process
  BY <1>1 DEF process, Session!Busy, Session!Roots
<1> QED BY <1>1, <1>2 DEF SessionInv, SessionType, AtHome, Waiting

-----------------------------------------------------------------------------
(* What Isolation says of a step.                                          *)
OthersKept == hazards' = {} => \A p \in Pid \ {Running} : fd'[p] = fd[p]

(* The position of descriptor i, once the read in progress has moved it on. *)
Position(p, i) ==
    LET r == at[p]
        ahead == IF r.pc = "copied" THEN
                    IF r.fd = i THEN r.bytes_read ELSE 0 ELSE 0 IN
    fd[p][i].file_position + ahead

LEMMA SequentialIs ==
    ReadsSequential <=>
        (hazards = {} =>
            \A p \in process : \A i \in Slot :
                fd[p][i].flag = 1 => Position(p, i) = got[p][i])
  BY DEF ReadsSequential, Position

LEMMA InitInv == Init => IInv
<1> SUFFICES ASSUME Init PROVE IInv
  OBVIOUS
<1>1. /\ caller = [p \in Pid |-> NoPid]
      /\ root = [t \in Terminal |-> IF t = 0 THEN 0 ELSE NoPid]
      /\ top = root /\ turn = 0 /\ intact = TRUE
      /\ fd = [p \in Pid |-> EmptyTable]
      /\ at = [p \in Pid |-> InUser]
      /\ got = [p \in Pid |-> [i \in Slot |-> 0]]
  BY DEF Init
<1>2. 0 \in Pid /\ 0 \in Terminal /\ NoPid \notin Pid /\ 0 # NoPid
  BY DescriptorsAssumption DEF Pid, Terminal, NoPid
<1>3. SessionType
  BY <1>1, <1>2 DEF SessionType
<1>4. 0 \in process
  BY <1>1, <1>2, <1>3, BusyIs
<1>5. AtHome([p \in Pid |-> 0])
  BY <1>1, <1>2, <1>4 DEF AtHome
<1>6. [p \in Pid |-> 0] \in [Pid -> Terminal]
  BY <1>2
<1>7. Waiting
  BY <1>1, <1>2 DEF Waiting
<1>8. SessionInv
  BY <1>3, <1>5, <1>6, <1>7 DEF SessionInv
<1>9. /\ Closed \in Seat /\ Closed.flag # 1
      /\ \A p \in Pid : at[p].pc = "user"
      /\ \A p \in Pid, i \in Slot : fd[p][i] = Closed
  BY <1>1 DEF Closed, Seat, EmptyTable, InUser
<1>10. TableType
  BY <1>1, <1>9 DEF TableType, EmptyTable, InRead
<1>11. FreshTable /\ OwnPcb
  BY <1>9 DEF FreshTable, OwnPcb, Closed
<1>12. ReadsSequential
  BY <1>3, <1>9, BusyPids, SequentialIs
<1> QED BY <1>8, <1>10, <1>11, <1>12 DEF IInv

(* Programs that start or that the scheduler or the keyboard moves about:  *)
(* a fresh one finds an empty table.                                       *)
LEMMA MovesKeep ==
    ASSUME IInv, SessionInv', process \subseteq process',
           UNCHANGED <<fd, at, got, hazards>>
    PROVE  IInv' /\ OthersKept
<1>1. process \subseteq Pid /\ process' \subseteq Pid
  BY BusyPids DEF IInv, SessionInv, SessionType, process, Session!Busy,
     Session!Roots
<1>2. TableType'
  BY DEF IInv, TableType, InRead
<1>3. FreshTable' /\ (hazards = {} => OwnPcb)'
  BY DEF IInv, FreshTable, OwnPcb
<1>4. \A p, i : Position(p, i)' = Position(p, i)
  BY DEF Position
<1>5. ASSUME hazards = {}, NEW p \in process', NEW i \in Slot, fd[p][i].flag = 1
      PROVE  Position(p, i) = got[p][i]
  <2>1. p \in process
    BY <1>1, <1>5 DEF IInv, FreshTable
  <2> QED BY <1>5, <2>1, SequentialIs DEF IInv
<1>6. ReadsSequential'
  <2>1. hazards' = {} =>
            \A p \in process' : \A i \in Slot :
                fd'[p][i].flag = 1 => Position(p, i)' = got'[p][i]
    BY <1>4, <1>5
  <2> QED BY <2>1 DEF ReadsSequential, Position
<1> QED BY <1>2, <1>3, <1>6 DEF IInv, OthersKept

LEMMA ExecuteKeeps == ASSUME IInv, Execute PROVE IInv' /\ OthersKept
<1>1. PICK q \in LowestFree : Session!Push(q)
  BY DEF Execute
<1>2. SessionInv' /\ process' = process \cup {q}
  BY <1>1, Pids, PushKeeps DEF IInv
<1> QED BY <1>2, MovesKeep DEF Execute

LEMMA PITKeeps == ASSUME IInv, PIT_handler PROVE IInv' /\ OthersKept
<1>1. PICK t \in Terminal : Session!Schedule(t)
  BY DEF PIT_handler
<1>2. SessionInv' /\ process' = process
  BY <1>1, ScheduleKeeps DEF IInv
<1> QED BY <1>2, MovesKeep DEF PIT_handler

LEMMA SwitchKeeps ==
    ASSUME IInv, NEW t \in Terminal, SwitchTo(t) PROVE IInv' /\ OthersKept
<1>1. CASE root[t] # NoPid
  <2>1. SessionInv' /\ process' = process
    BY <1>1, NobodyMoves DEF SwitchTo, IInv
  <2> QED BY <2>1, MovesKeep DEF SwitchTo
<1>2. CASE root[t] = NoPid
  <2>1. PICK q \in LowestFree : Session!OpenShell(t, q)
    BY <1>2 DEF SwitchTo
  <2>2. SessionInv' /\ process' = process \cup {q}
    BY <2>1, Pids, OpenShellKeeps DEF IInv
  <2> QED BY <2>2, MovesKeep DEF SwitchTo
<1> QED BY <1>1, <1>2

(* halt: the table of the program that is gone is empty; whatever `garbage` *)
(* closes in the parent is a hazard.                                       *)
LEMMA HaltKeeps == ASSUME IInv, Halt PROVE IInv' /\ OthersKept
<1> DEFINE r == Running
           parent == caller[Running]
<1>1. /\ SessionInv' /\ process' = process \ {r}
      /\ parent \in process /\ parent # r
  BY PopKeeps DEF Halt, IInv
<1>2. r \in process /\ r \in Pid /\ process \subseteq Pid
  BY RunningBusy, BusyPids DEF IInv, SessionInv
<1>3. PICK garbage \in Slot \cup {-1} :
         LET closes == garbage # -1 /\ fd[parent][garbage].flag = 1 IN
         /\ fd' = [p \in Pid |->
                     IF p = r THEN EmptyTable
                     ELSE IF p = parent /\ closes
                          THEN [fd[p] EXCEPT ![garbage] = Closed]
                     ELSE fd[p]]
         /\ hazards' = hazards \cup Cause("close", closes)
  BY DEF Halt
<1> DEFINE closes == garbage # -1 /\ fd[parent][garbage].flag = 1
<1>4. /\ got' = [got EXCEPT ![r] = [i \in Slot |-> 0]]
      /\ at' = at
  BY DEF Halt
<1> HIDE DEF r, parent
<1>5. Closed \in Seat /\ Closed.flag # 1 /\ Closed.flag = 0
  BY DEF Closed, Seat
<1>6. TableType'
  <2>1. \A p \in Pid : fd[p] \in [Slot -> Seat]
    BY DEF IInv, TableType
  <2>2. EmptyTable \in [Slot -> Seat]
    BY <1>5 DEF EmptyTable
  <2>3. \A p \in Pid : [fd[p] EXCEPT ![garbage] = Closed] \in [Slot -> Seat]
    BY <1>5, <2>1
  <2>4. fd' \in [Pid -> [Slot -> Seat]]
    BY <1>3, <2>1, <2>2, <2>3
  <2>5. got' \in [Pid -> [Slot -> Int]]
    BY <1>2, <1>4 DEF IInv, TableType
  <2> QED BY <1>4, <2>4, <2>5 DEF IInv, TableType, InRead
<1>7. ASSUME NEW p \in Pid, NEW i \in Slot
      PROVE  /\ fd'[p][i] = Closed \/ fd'[p][i] = fd[p][i]
             /\ p = r => fd'[p][i] = Closed
  <2>1. EmptyTable[i] = Closed
    BY DEF EmptyTable
  <2>2. \/ [fd[p] EXCEPT ![garbage] = Closed][i] = Closed
        \/ [fd[p] EXCEPT ![garbage] = Closed][i] = fd[p][i]
    BY DEF IInv, TableType
  <2> QED BY <1>3, <2>1, <2>2
<1>8. FreshTable'
  BY <1>1, <1>5, <1>7 DEF IInv, FreshTable
<1>9. ASSUME hazards' = {}
      PROVE  hazards = {} /\ \A p \in Pid \ {r} : fd'[p] = fd[p]
  BY <1>3, <1>9 DEF Cause
<1>10. (hazards = {} => OwnPcb)'
  BY <1>4, <1>9 DEF IInv, OwnPcb
<1>11. ReadsSequential'
  <2>1. ASSUME hazards' = {}, NEW p \in process', NEW i \in Slot,
               fd'[p][i].flag = 1
        PROVE  Position(p, i)' = got'[p][i]
    <3>1. p \in process /\ p # r /\ p \in Pid
      BY <1>1, <1>2, <2>1
    <3>2. fd'[p] = fd[p] /\ got'[p] = got[p] /\ at'[p] = at[p] /\ hazards = {}
      BY <1>4, <1>9, <2>1, <3>1 DEF IInv, TableType
    <3>3. Position(p, i) = got[p][i]
      BY <2>1, <3>1, <3>2, SequentialIs DEF IInv
    <3> QED BY <3>2, <3>3 DEF Position
  <2> QED BY <2>1 DEF ReadsSequential, Position
<1> QED BY <1>1, <1>6, <1>8, <1>9, <1>10, <1>11 DEF IInv, OthersKept, r

(* One descriptor of the program that runs is opened or closed.            *)
LEMMA SeatKeeps ==
    ASSUME IInv, AtUser, UNCHANGED <<processes, at, hazards>>,
           NEW i \in Slot, NEW s \in Seat, s.file_position = 0,
           fd' = [fd EXCEPT ![Running][i] = s],
           got' = [got EXCEPT ![Running][i] = 0]
    PROVE  IInv' /\ OthersKept
<1> DEFINE r == Running
<1>1. SessionInv' /\ process' = process
  BY NobodyMoves DEF IInv
<1>2. r \in process /\ r \in Pid /\ process \subseteq Pid
  BY RunningBusy, BusyPids DEF IInv, SessionInv
<1>3. /\ fd' = [fd EXCEPT ![r][i] = s] /\ got' = [got EXCEPT ![r][i] = 0]
      /\ at' = at /\ hazards' = hazards /\ at[r].pc = "user"
  BY DEF AtUser, InUser
<1> HIDE DEF r
<1>4. TableType'
  <2>1. [fd[r] EXCEPT ![i] = s] \in [Slot -> Seat]
    BY <1>2 DEF IInv, TableType
  <2>2. fd' \in [Pid -> [Slot -> Seat]]
    BY <1>2, <1>3, <2>1 DEF IInv, TableType
  <2>3. got' \in [Pid -> [Slot -> Int]]
    <3>1. [got[r] EXCEPT ![i] = 0] \in [Slot -> Int]
      BY <1>2 DEF IInv, TableType
    <3> QED BY <1>2, <1>3, <3>1 DEF IInv, TableType
  <2> QED BY <1>3, <2>2, <2>3 DEF IInv, TableType, InRead
<1>5. \A p \in Pid \ {r} : fd'[p] = fd[p] /\ got'[p] = got[p]
  BY <1>3 DEF IInv, TableType
<1>6. \A j \in Slot : /\ fd'[r][j] = IF j = i THEN s ELSE fd[r][j]
                      /\ got'[r][j] = IF j = i THEN 0 ELSE got[r][j]
  BY <1>2, <1>3 DEF IInv, TableType
<1>7. FreshTable'
  BY <1>1, <1>2, <1>5 DEF IInv, FreshTable
<1>8. (hazards = {} => OwnPcb)'
  BY <1>3 DEF IInv, OwnPcb
<1>9. ReadsSequential'
  <2>1. ASSUME hazards' = {}, NEW p \in process', NEW j \in Slot,
               fd'[p][j].flag = 1
        PROVE  Position(p, j)' = got'[p][j]
    <3>1. CASE p # r
      <4>1. fd'[p] = fd[p] /\ got'[p] = got[p] /\ p \in process
        BY <1>1, <1>2, <1>5, <3>1
      <4>2. Position(p, j) = got[p][j]
        BY <1>3, <2>1, <4>1, SequentialIs DEF IInv
      <4> QED BY <1>3, <4>1, <4>2 DEF Position
    <3>2. CASE p = r
      <4>1. Position(p, j)' = fd'[p][j].file_position + 0
        BY <1>3, <3>2 DEF Position
      <4>2. CASE j = i
        BY <1>6, <3>2, <4>1, <4>2
      <4>3. CASE j # i
        <5>1. fd'[p][j] = fd[p][j] /\ got'[p][j] = got[p][j]
          BY <1>6, <3>2, <4>3
        <5>2. Position(p, j) = got[p][j]
          BY <1>1, <1>3, <2>1, <5>1, SequentialIs DEF IInv
        <5> QED BY <1>3, <5>1, <5>2 DEF Position
      <4> QED BY <4>2, <4>3
    <3> QED BY <3>1, <3>2
  <2> QED BY <2>1 DEF ReadsSequential, Position
<1> QED BY <1>1, <1>4, <1>5, <1>7, <1>8, <1>9 DEF IInv, OthersKept, r

LEMMA OpenKeeps ==
    ASSUME IInv, NEW f \in File, Open(f) PROVE IInv' /\ OthersKept
<1>1. PICK i \in Slot : /\ fd' = [fd EXCEPT ![Running][i] = Opened(f)]
                        /\ got' = [got EXCEPT ![Running][i] = 0]
  BY DEF Open, Free
<1>2. Opened(f) \in Seat /\ Opened(f).file_position = 0
  BY DEF Opened, Seat
<1>3. AtUser /\ UNCHANGED <<processes, at, hazards>>
  BY DEF Open
<1> QED BY <1>1, <1>2, <1>3, SeatKeeps

LEMMA CloseKeeps ==
    ASSUME IInv, NEW i \in Slot, Close(i) PROVE IInv' /\ OthersKept
<1>1. /\ fd' = [fd EXCEPT ![Running][i] = Closed]
      /\ got' = [got EXCEPT ![Running][i] = 0]
      /\ AtUser /\ UNCHANGED <<processes, at, hazards>>
  BY DEF Close
<1>2. Closed \in Seat /\ Closed.file_position = 0
  BY DEF Closed, Seat
<1> QED BY <1>1, <1>2, SeatKeeps

(* read and its two first steps move the program that runs on, and leave   *)
(* the tables alone.                                                       *)
LEMMA LocalsKeep ==
    ASSUME IInv, UNCHANGED <<processes, fd, got>>, hazards \subseteq hazards',
           NEW a, InRead(a), at' = [p \in Pid |-> at'[p]],
           \A p \in Pid : at'[p] = IF p = Running THEN a ELSE at[p],
           at[Running].pc # "copied", a.pc # "copied",
           hazards' = {} => (a.pc = "found" => a.pcb = Running)
    PROVE  IInv' /\ OthersKept
<1> DEFINE r == Running
<1>1. SessionInv' /\ process' = process
  BY NobodyMoves DEF IInv
<1>2. r \in process /\ r \in Pid /\ process \subseteq Pid
  BY RunningBusy, BusyPids DEF IInv, SessionInv
<1>3. \A p \in Pid : at'[p] = IF p = r THEN a ELSE at[p]
  BY DEF IInv, TableType
<1>4. TableType'
  <2>1. at' = [p \in Pid |-> at'[p]]
    BY DEF IInv, TableType
  <2> QED BY <1>3, <2>1 DEF IInv, TableType, InRead
<1>5. FreshTable'
  BY <1>1 DEF IInv, FreshTable
<1>6. (hazards = {} => OwnPcb)'
  BY <1>3 DEF IInv, OwnPcb
<1>7. ReadsSequential'
  <2>1. ASSUME hazards' = {}, NEW p \in process', NEW i \in Slot,
               fd'[p][i].flag = 1
        PROVE  Position(p, i)' = got'[p][i]
    <3>1. Position(p, i) = got[p][i]
      BY <1>1, <2>1, SequentialIs DEF IInv
    <3>2. Position(p, i)' = Position(p, i)
      BY <1>1, <1>2, <1>3, <2>1 DEF Position
    <3> QED BY <3>1, <3>2
  <2> QED BY <2>1 DEF ReadsSequential, Position
<1> QED BY <1>1, <1>4, <1>5, <1>6, <1>7 DEF IInv, OthersKept

LEMMA ReadKeeps ==
    ASSUME IInv, NEW i \in Slot, NEW n \in Request, Read(i, n)
    PROVE  IInv' /\ OthersKept
<1> DEFINE a == IF fd[top[visible]][i].flag = 1
                THEN [pc |-> "called", fd |-> i, nbytes |-> n] ELSE InUser
<1>1. n \in Int
  BY DescriptorsAssumption
<1>2. InRead(a) /\ a.pc # "copied" /\ a.pc # "found"
  BY <1>1 DEF InRead, InUser
<1>3. at = [p \in Pid |-> at[p]] /\ at[Running] = InUser
      /\ at[Running].pc = "user"
  BY DEF Read, AtUser, IInv, TableType, InUser
<1>4. /\ at' = [p \in Pid |-> at'[p]]
      /\ \A p \in Pid : at'[p] = IF p = Running THEN a ELSE at[p]
  BY <1>3 DEF Read
<1>5. UNCHANGED <<processes, fd, got>> /\ hazards \subseteq hazards'
  BY DEF Read
<1> HIDE DEF a
<1> QED BY <1>2, <1>3, <1>4, <1>5, LocalsKeep

LEMMA FindPcbKeeps == ASSUME IInv, FindPcb PROVE IInv' /\ OthersKept
<1>1. PICK c \in CurrentPid :
         /\ at' = [at EXCEPT ![Running] =
                     [pc |-> "found", fd |-> at[Running].fd,
                      nbytes |-> at[Running].nbytes, pcb |-> c]]
         /\ hazards' = hazards \cup Cause("current", c # Running)
  <2>1. Running \in Pid
    BY RunningBusy DEF IInv
  <2> QED BY <2>1 DEF FindPcb, IInv, TableType
<1> DEFINE a == [pc |-> "found", fd |-> at[Running].fd,
                 nbytes |-> at[Running].nbytes, pcb |-> c]
<1>2. InRead(at[Running]) /\ at[Running].pc = "called"
  BY RunningBusy DEF IInv, TableType, FindPcb
<1>3. InRead(a) /\ a.pc = "found" /\ a.pcb = c
  BY <1>2, Pids DEF InRead
<1>4. hazards' = {} => c = Running
  BY <1>1 DEF Cause
<1>5. /\ at' = [p \in Pid |-> at'[p]]
      /\ \A p \in Pid : at'[p] = IF p = Running THEN a ELSE at[p]
      /\ hazards \subseteq hazards' /\ UNCHANGED <<processes, fd, got>>
  BY <1>1 DEF FindPcb, IInv, TableType
<1> HIDE DEF a
<1> QED BY <1>2, <1>3, <1>4, <1>5, LocalsKeep

(* What is given to the program, and then added to the position.           *)
LEMMA ReadDataKeeps == ASSUME IInv, ReadData PROVE IInv' /\ OthersKept
<1> DEFINE r == Running
           n == BytesRead(fd[at[r].pcb][at[r].fd].file_position, at[r].nbytes)
           a == [pc |-> "copied", fd |-> at[r].fd, nbytes |-> at[r].nbytes,
                 pcb |-> at[r].pcb, bytes_read |-> n]
<1>1. /\ at' = [at EXCEPT ![r] = a]
      /\ got' = [got EXCEPT ![r][at[r].fd] = @ + n]
      /\ UNCHANGED <<processes, visible, fd, hazards>>
      /\ at[r].pc = "found"
  BY DEF ReadData
<1>2. SessionInv' /\ process' = process
  BY <1>1, NobodyMoves DEF IInv
<1>3. r \in process /\ r \in Pid /\ process \subseteq Pid
  BY RunningBusy, BusyPids DEF IInv, SessionInv
<1>4. at[r].fd \in Slot /\ at[r].nbytes \in Int /\ at[r].pcb \in Pid
  BY <1>1, <1>3 DEF IInv, TableType, InRead
<1>5. n \in Int
  <2>1. fd[at[r].pcb][at[r].fd].file_position \in Int
    BY <1>4 DEF IInv, TableType, Seat
  <2> QED BY <1>4, <2>1, DescriptorsAssumption DEF BytesRead
<1> HIDE DEF n, r
<1>6. /\ InRead(a) /\ a.pc = "copied" /\ a.pcb = at[r].pcb
      /\ a.bytes_read = n /\ a.fd = at[r].fd
  BY <1>4, <1>5 DEF InRead
<1> HIDE DEF a
<1>7. \A p \in Pid : at'[p] = IF p = r THEN a ELSE at[p]
  BY <1>1 DEF IInv, TableType
<1>8. \A p \in Pid, i \in Slot :
         got'[p][i] = IF p = r /\ i = a.fd THEN got[p][i] + n ELSE got[p][i]
  BY <1>1, <1>3, <1>4, <1>6 DEF IInv, TableType
<1>9. TableType'
  <2>1. at' = [p \in Pid |-> at'[p]]
    BY <1>1 DEF IInv, TableType
  <2>2. got' \in [Pid -> [Slot -> Int]]
    <3>1. got[r][at[r].fd] + n \in Int
      BY <1>3, <1>4, <1>5 DEF IInv, TableType
    <3> QED BY <1>1, <1>3, <1>4, <3>1 DEF IInv, TableType
  <2> QED BY <1>1, <1>6, <1>7, <2>1, <2>2 DEF IInv, TableType, InRead
<1>10. FreshTable'
  BY <1>1, <1>2 DEF IInv, FreshTable
<1>11. (hazards = {} => OwnPcb)'
  BY <1>1, <1>3, <1>6, <1>7 DEF IInv, OwnPcb
<1>12. ReadsSequential'
  <2>1. ASSUME hazards' = {}, NEW p \in process', NEW i \in Slot,
               fd'[p][i].flag = 1
        PROVE  Position(p, i)' = got'[p][i]
    <3>1. Position(p, i) = got[p][i] /\ p \in Pid
      BY <1>1, <1>2, <1>3, <2>1, SequentialIs DEF IInv
    <3>2. fd[p][i].file_position \in Int
      BY <3>1 DEF IInv, TableType, Seat
    <3>3. CASE p # r
      BY <1>1, <1>7, <1>8, <3>1, <3>3 DEF Position
    <3>4. CASE p = r
      <4>1. fd[p][i].file_position = got[p][i]
        BY <1>1, <3>1, <3>2, <3>4 DEF Position
      <4>2. Position(p, i)' =
               fd[p][i].file_position + (IF a.fd = i THEN n ELSE 0)
        BY <1>1, <1>6, <1>7, <3>1, <3>4 DEF Position
      <4> QED BY <1>5, <1>8, <3>1, <3>2, <3>4, <4>1, <4>2
    <3> QED BY <3>3, <3>4
  <2> QED BY <2>1 DEF ReadsSequential, Position
<1> QED BY <1>1, <1>2, <1>9, <1>10, <1>11, <1>12 DEF IInv, OthersKept

(* The position moves on in the PCB that was found, which is the reader's. *)
LEMMA AdvanceKeeps == ASSUME IInv, Advance PROVE IInv' /\ OthersKept
<1> DEFINE r == Running
           a == at[Running]
<1>1. /\ fd' = [fd EXCEPT ![a.pcb][a.fd].file_position = @ + a.bytes_read]
      /\ at' = [at EXCEPT ![r] = InUser]
      /\ UNCHANGED <<processes, visible, got, hazards>>
      /\ a.pc = "copied"
  BY DEF Advance
<1>2. SessionInv' /\ process' = process
  BY <1>1, NobodyMoves DEF IInv
<1>3. r \in process /\ r \in Pid /\ process \subseteq Pid
  BY RunningBusy, BusyPids DEF IInv, SessionInv
<1>4. /\ a = at[r] /\ a.fd \in Slot /\ a.pcb \in Pid /\ a.bytes_read \in Int
      /\ hazards = {} => a.pcb = r
  BY <1>1, <1>3 DEF IInv, TableType, InRead, OwnPcb
<1> HIDE DEF r, a
<1>5. \A p \in Pid, i \in Slot :
         fd'[p][i] = IF p = a.pcb /\ i = a.fd
                     THEN [fd[p][i] EXCEPT !.file_position = @ + a.bytes_read]
                     ELSE fd[p][i]
  BY <1>1, <1>4 DEF IInv, TableType
<1>6. \A p \in Pid, i \in Slot :
         /\ fd'[p][i].flag = fd[p][i].flag
         /\ fd'[p][i].file_position =
               IF p = a.pcb /\ i = a.fd
               THEN fd[p][i].file_position + a.bytes_read
               ELSE fd[p][i].file_position
  <2> SUFFICES ASSUME NEW p \in Pid, NEW i \in Slot
               PROVE  /\ fd'[p][i].flag = fd[p][i].flag
                      /\ fd'[p][i].file_position =
                            IF p = a.pcb /\ i = a.fd
                            THEN fd[p][i].file_position + a.bytes_read
                            ELSE fd[p][i].file_position
    OBVIOUS
  <2>1. fd[p][i] \in Seat
    BY DEF IInv, TableType
  <2>2. /\ [fd[p][i] EXCEPT !.file_position = @ + a.bytes_read].flag
              = fd[p][i].flag
        /\ [fd[p][i] EXCEPT !.file_position = @ + a.bytes_read].file_position
              = fd[p][i].file_position + a.bytes_read
    BY <2>1 DEF Seat
  <2> QED BY <1>5, <2>2
<1>7. \A p \in Pid : at'[p] = IF p = r THEN InUser ELSE at[p]
  BY <1>1 DEF IInv, TableType
<1>8. TableType'
  <2>1. at' = [p \in Pid |-> at'[p]]
    BY <1>1 DEF IInv, TableType
  <2>2. InRead(InUser)
    BY DEF InRead, InUser
  <2>3. fd' \in [Pid -> [Slot -> Seat]]
    <3>1. fd[a.pcb][a.fd] \in Seat
      BY <1>4 DEF IInv, TableType
    <3>2. [fd[a.pcb][a.fd] EXCEPT !.file_position = @ + a.bytes_read] \in Seat
      BY <1>4, <3>1 DEF Seat
    <3> QED BY <1>1, <1>4, <3>2 DEF IInv, TableType
  <2> QED BY <1>1, <1>7, <2>1, <2>2, <2>3 DEF IInv, TableType, InRead
<1>9. FreshTable'
  BY <1>2, <1>6 DEF IInv, FreshTable
<1>10. (hazards = {} => OwnPcb)'
  BY <1>1, <1>7 DEF IInv, OwnPcb, InUser
<1>11. ReadsSequential'
  <2>1. ASSUME hazards' = {}, NEW p \in process', NEW i \in Slot,
               fd'[p][i].flag = 1
        PROVE  Position(p, i)' = got'[p][i]
    <3>1. p \in Pid /\ p \in process /\ fd[p][i].flag = 1 /\ hazards = {}
      BY <1>1, <1>2, <1>3, <1>6, <2>1
    <3>2. Position(p, i) = got[p][i] /\ fd[p][i].file_position \in Int
      BY <3>1, SequentialIs DEF IInv, TableType, Seat
    <3>3. CASE p # r
      <4>1. at'[p] = at[p] /\ fd'[p][i].file_position = fd[p][i].file_position
        BY <1>4, <1>6, <1>7, <3>1, <3>3
      <4> QED BY <1>1, <3>2, <4>1 DEF Position
    <3>4. CASE p = r
      <4>1. at'[p].pc = "user"
        BY <1>7, <3>1, <3>4 DEF InUser
      <4>2. Position(p, i)' = fd'[p][i].file_position + 0
        BY <4>1 DEF Position
      <4>3. Position(p, i) =
               fd[p][i].file_position + (IF a.fd = i THEN a.bytes_read ELSE 0)
        BY <1>1, <1>4, <3>4 DEF Position
      <4>4. a.pcb = p /\ got'[p][i] = got[p][i]
        BY <1>1, <1>4, <3>1, <3>4
      <4>5. fd'[p][i].file_position = IF a.fd = i
               THEN fd[p][i].file_position + a.bytes_read
               ELSE fd[p][i].file_position
        BY <1>6, <3>1, <4>4
      <4>6. a.bytes_read \in Int /\ fd[p][i].file_position \in Int
        BY <1>4, <3>2
      <4> HIDE DEF Position
      <4>7. CASE a.fd = i
        <5>1. Position(p, i)' = fd[p][i].file_position + a.bytes_read
          BY <4>2, <4>5, <4>6, <4>7
        <5> QED BY <3>2, <4>3, <4>4, <4>7, <5>1
      <4>8. CASE a.fd # i
        <5>1. Position(p, i)' = fd[p][i].file_position
          BY <4>2, <4>5, <4>6, <4>8
        <5>2. Position(p, i) = fd[p][i].file_position
          BY <4>3, <4>6, <4>8
        <5> QED BY <3>2, <4>4, <5>1, <5>2
      <4> QED BY <4>7, <4>8
    <3> QED BY <3>3, <3>4
  <2> QED BY <2>1 DEF ReadsSequential, Position
<1>12. OthersKept
  <2> SUFFICES ASSUME hazards' = {}, NEW p \in Pid \ {r} PROVE fd'[p] = fd[p]
    BY DEF OthersKept, r
  <2>1. a.pcb = r
    BY <1>1, <1>4
  <2> QED BY <1>1, <2>1 DEF IInv, TableType
<1> QED BY <1>2, <1>8, <1>9, <1>10, <1>11, <1>12 DEF IInv

LEMMA StepInv == IInv /\ [Next]_vars => IInv' /\ [OthersKept]_vars
<1> SUFFICES ASSUME IInv, [Next]_vars PROVE IInv' /\ [OthersKept]_vars
  OBVIOUS
<1>1. CASE UNCHANGED vars
  <2>1. UNCHANGED <<processes, fd, at, got, hazards>>
    BY <1>1 DEF vars
  <2>2. SessionInv' /\ process' = process
    BY <2>1, NobodyMoves DEF IInv
  <2> QED BY <1>1, <2>1, <2>2, MovesKeep
<1>2. CASE Next
  BY <1>2, ExecuteKeeps, HaltKeeps, OpenKeeps, CloseKeeps, ReadKeeps,
     FindPcbKeeps, ReadDataKeeps, AdvanceKeeps, PITKeeps, SwitchKeeps DEF Next
<1> QED BY <1>1, <1>2

(* The inductive invariant: what is said of the tables, and of the program *)
(* and PCB each step of a call works for (system_call.c:445-490).          *)
THEOREM Invariance == Spec => []IInv
  BY InitInv, StepInv, PTL DEF Spec

(* A process starts with no open descriptor, whatever programs that had    *)
(* its pid have left open, and whatever halt closes in their callers       *)
(* (system_call.c:80-88, 285-294).                                         *)
THEOREM AlwaysFresh == Spec => []FreshTable
  BY Invariance, PTL DEF IInv

(* No byte of a file is skipped or given twice to a program, whatever the  *)
(* others read between two steps of its read, as long as every read finds  *)
(* its own program's PCB (file_system.c:197-205).                          *)
THEOREM AlwaysSequential == Spec => []ReadsSequential
  BY Invariance, PTL DEF IInv

(* No step changes the table of another process than the one that runs     *)
(* (system_call.c:74-88, 445-490, 533-552).                                *)
THEOREM TablesIsolated == Spec => Isolation
<1>1. [OthersKept]_vars
         => [ hazards' = {} =>
                \A p \in Pid \ {Running} : fd'[p] = fd[p] ]_vars
  BY DEF OthersKept
<1> QED BY InitInv, StepInv, <1>1, PTL DEF Spec, Isolation
=============================================================================
