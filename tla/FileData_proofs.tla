-------------------------- MODULE FileData_proofs --------------------------
(***************************************************************************)
(* Theorems about FileData, for every block size, inode and image.         *)
(***************************************************************************)
EXTENDS FileData, TLAPS

(* Division by a block size.                                               *)
LEMMA Division ==
    ASSUME NEW a \in Nat, NEW b \in Nat \ {0}
    PROVE  /\ a \div b \in Nat /\ a % b \in 0 .. b - 1
           /\ a = b * (a \div b) + (a % b)
  BY SMT

(* Multiples of the block size are in the order of their factors.          *)
LEMMA Multiples ==
    ASSUME NEW n \in Int, NEW m \in Int, NEW b \in Nat \ {0}
    PROVE  /\ n * b < m * b => n < m
           /\ n < m => n * b + b <= m * b
           /\ n * b + b = (n + 1) * b
  BY SMT

(* A place in a file determines its block and the index in it.             *)
LEMMA PlaceUnique ==
    ASSUME NEW n \in Nat, NEW i \in Nat, NEW b \in Nat \ {0}, i < b
    PROVE  (n * b + i) \div b = n /\ (n * b + i) % b = i
<1> DEFINE a == n * b + i
           q == a \div b
<1>1. a \in Nat
  BY SMT
<1>2. q \in Nat /\ a % b \in 0 .. b - 1 /\ a = b * q + (a % b)
  BY <1>1, Division
<1> HIDE DEF q
<1>3. ~(q < n)
  <2> SUFFICES ASSUME q < n PROVE FALSE
    OBVIOUS
  <2>1. q * b + b <= n * b
    BY <1>2, Multiples
  <2> QED BY <1>2, <2>1, SMT
<1>4. ~(n < q)
  <2> SUFFICES ASSUME n < q PROVE FALSE
    OBVIOUS
  <2>1. n * b + b <= q * b
    BY <1>2, Multiples
  <2> QED BY <1>2, <2>1, SMT
<1>5. q = n
  BY <1>2, <1>3, <1>4
<1> QED BY <1>2, <1>5 DEF q

-----------------------------------------------------------------------------
(* The place of the next byte, counted from the start of the file.         *)
Next_byte == file_position + Len(buf)

(* The inductive invariant: in the loop the block and the index are those  *)
(* of the next byte - or one past the end of the block before - and the    *)
(* bytes placed so far are the right ones.                                 *)
LoopRight ==
    pc = "loop" =>
        /\ Len(buf) <= nbytes
        /\ Next_byte <= length
        /\ block_num * BLOCK_SIZE + block_index = Next_byte
        /\ block_num >= file_position \div BLOCK_SIZE
        /\ \A k \in 0 .. Len(buf) - 1 :
              /\ buf[k + 1] = Byte(file_position + k)
              /\ buf[k + 1].block < data_count

UnusedZero ==
    \A n \in 0 .. Blocks - 1 : n \notin Occupied => data_block_num[n] = 0

IInv == TypeOK /\ GivesFile /\ LoopRight /\ UnusedZero /\ FailsOnBad

-----------------------------------------------------------------------------
LEMMA Numbers ==
    ASSUME TypeOK
    PROVE  /\ length \in Nat /\ file_position \in Nat /\ nbytes \in Nat
           /\ Len(buf) \in Nat /\ Len(got) \in Nat
<1>1. Blocks * BLOCK_SIZE \in Nat
  BY FileAssumption, SMT
<1> QED BY <1>1 DEF TypeOK

(* The place a turn of the loop works on is that of the next byte.         *)
LEMMA HereIsNext ==
    ASSUME IInv, pc = "loop"
    PROVE  /\ Here.num \in Index /\ Here.index \in 0 .. BLOCK_SIZE - 1
           /\ Here.num * BLOCK_SIZE + Here.index = Next_byte
           /\ Next_byte \in Nat
           /\ Here.num >= file_position \div BLOCK_SIZE
<1> USE FileAssumption DEF IInv, TypeOK, LoopRight
<1>1. Len(buf) \in Nat /\ file_position \in Nat /\ Next_byte \in Nat
  BY DEF Next_byte
<1>2. block_num \in 0 .. Blocks /\ block_index \in 0 .. BLOCK_SIZE
  BY DEF Index
<1>3. file_position \div BLOCK_SIZE \in Nat
  BY <1>1, Division
<1>4. CASE block_index = BLOCK_SIZE
  <2>1. Here = [num |-> block_num + 1, index |-> 0]
    BY <1>4 DEF Here
  <2>2. (block_num + 1) * BLOCK_SIZE = Next_byte
    BY <1>2, <1>4, Multiples
  <2>3. (block_num + 1) * BLOCK_SIZE < (Blocks + 1) * BLOCK_SIZE
    <3>1. Next_byte <= Blocks * BLOCK_SIZE /\ Blocks * BLOCK_SIZE \in Nat
      BY <1>1, SMT
    <3>2. Blocks * BLOCK_SIZE + BLOCK_SIZE = (Blocks + 1) * BLOCK_SIZE
      BY Multiples
    <3> QED BY <1>1, <2>2, <3>1, <3>2
  <2>4. block_num + 1 < Blocks + 1
    BY <1>2, <2>3, Multiples
  <2> QED BY <1>1, <1>2, <1>3, <2>1, <2>2, <2>4 DEF Index
<1>5. CASE block_index # BLOCK_SIZE
  <2>1. Here = [num |-> block_num, index |-> block_index]
    BY <1>5 DEF Here
  <2> QED BY <1>1, <1>2, <1>5, <2>1 DEF Index
<1> QED BY <1>4, <1>5

(* A bad entry of the inode at which the file may at most end is one of    *)
(* the file's own.                                                         *)
LEMMA BadOccupied ==
    ASSUME IInv, NEW n \in Index, n * BLOCK_SIZE <= length, Bad(n),
           length < Blocks * BLOCK_SIZE
    PROVE  n \in Occupied
<1> USE FileAssumption DEF IInv, TypeOK, Index
<1>1. n * BLOCK_SIZE < Blocks * BLOCK_SIZE
  BY SMT
<1>2. n \in 0 .. Blocks - 1
  BY <1>1, Multiples
<1>3. data_block_num[n] # 0
  BY DEF Bad
<1> QED BY <1>2, <1>3 DEF UnusedZero

-----------------------------------------------------------------------------
LEMMA InitInv == Init => IInv
<1> SUFFICES ASSUME Init PROVE IInv
  OBVIOUS
<1> USE FileAssumption DEF Init
<1>1. Blocks * BLOCK_SIZE \in Nat
  BY SMT
<1>2. TypeOK
  BY <1>1 DEF TypeOK, Index, Failed
<1>3. GivesFile /\ LoopRight /\ UnusedZero /\ FailsOnBad
  BY DEF GivesFile, LoopRight, UnusedZero, FailsOnBad, Failed
<1> QED BY <1>2, <1>3 DEF IInv

(* A step that leaves the file alone keeps UnusedZero.                     *)
LEMMA SameFile ==
    ASSUME IInv, UNCHANGED inode
    PROVE  /\ UnusedZero' /\ Occupied' = Occupied
           /\ length' = length /\ data_block_num' = data_block_num
  BY DEF IInv, inode, UnusedZero, Occupied

LEMMA StepRead ==
    ASSUME IInv, NEW n \in Request, file_read(n)
    PROVE  IInv'
<1> USE FileAssumption DEF IInv, file_read
<1> DEFINE first == file_position \div BLOCK_SIZE
<1>1. file_position \in Nat /\ length \in Nat /\ file_position <= length
  BY DEF TypeOK
<1>2. /\ first \in Nat /\ file_position % BLOCK_SIZE \in 0 .. BLOCK_SIZE - 1
      /\ file_position = BLOCK_SIZE * first + (file_position % BLOCK_SIZE)
  BY <1>1, Division
<1>3. first * BLOCK_SIZE <= file_position
  BY <1>2, SMT
<1>4. first \in Index
  <2>1. length <= Blocks * BLOCK_SIZE /\ Blocks * BLOCK_SIZE \in Nat
    BY SMT DEF TypeOK
  <2>2. Blocks * BLOCK_SIZE + BLOCK_SIZE = (Blocks + 1) * BLOCK_SIZE
    BY Multiples
  <2>3. first * BLOCK_SIZE < (Blocks + 1) * BLOCK_SIZE
    BY <1>1, <1>2, <1>3, <2>1, <2>2, SMT
  <2>4. first < Blocks + 1
    BY <1>2, <2>3, Multiples
  <2> QED BY <1>2, <2>4 DEF Index
<1>5. UNCHANGED <<inode, file_position, got>> /\ nbytes' = n /\ buf' = <<>>
  OBVIOUS
<1>6. TypeOK'
  BY <1>2, <1>4, <1>5 DEF TypeOK, inode, Failed
<1>7. GivesFile' /\ UnusedZero'
  BY <1>1, <1>5, SameFile DEF GivesFile, Byte
<1>8. LoopRight'
  <2>1. first * BLOCK_SIZE + (file_position % BLOCK_SIZE) = file_position
    BY <1>2, SMT
  <2>2. block_num' = first /\ block_index' = file_position % BLOCK_SIZE
    OBVIOUS
  <2>3. file_position' = file_position /\ length' = length
    BY <1>5 DEF inode
  <2>4. Len(buf') = 0 /\ n \in Nat
    BY <1>5
  <2>5. Next_byte' = file_position
    BY <1>1, <2>3, <2>4 DEF Next_byte
  <2>6. block_num' >= file_position' \div BLOCK_SIZE
    BY <1>2, <2>2, <2>3
  <2>7. block_num' * BLOCK_SIZE + block_index' = Next_byte'
    BY <2>1, <2>2, <2>5
  <2> HIDE FileAssumption DEF IInv, file_read, first
  <2>8. Len(buf') <= nbytes' /\ Next_byte' <= length'
    BY <1>1, <1>5, <2>3, <2>4, <2>5
  <2> QED BY <2>4, <2>6, <2>7, <2>8 DEF LoopRight
<1>9. FailsOnBad'
  <2> SUFFICES ASSUME (length < Blocks * BLOCK_SIZE)', pc' = "user"
               PROVE  BadWithin'
    BY DEF FailsOnBad
  <2>1. Bad(first) /\ length < Blocks * BLOCK_SIZE
    BY <1>5 DEF inode
  <2>2. first * BLOCK_SIZE <= length
    BY <1>1, <1>2, <1>3, SMT
  <2>3. first \in Occupied
    BY <1>4, <2>1, <2>2, BadOccupied
  <2>4. /\ first \in Occupied' /\ data_block_num'[first] >= data_count
        /\ first = file_position' \div BLOCK_SIZE
    BY <1>5, <2>1, <2>3, SameFile DEF Bad
  <2>5. first >= file_position' \div BLOCK_SIZE
    BY <1>2, <2>4
  <2> HIDE DEF first
  <2> QED BY <2>4, <2>5 DEF BadWithin
<1> QED BY <1>6, <1>7, <1>8, <1>9

LEMMA StepPlace == IInv /\ Place => IInv'
<1> SUFFICES ASSUME IInv, Place PROVE IInv'
  OBVIOUS
<1> USE FileAssumption DEF IInv, Place, Turn
<1> DEFINE byte == [block |-> data_block_num[Here.num], index |-> Here.index]
<1>1. /\ Here.num \in Index /\ Here.index \in 0 .. BLOCK_SIZE - 1
      /\ Here.num * BLOCK_SIZE + Here.index = Next_byte
      /\ Next_byte \in Nat
      /\ Here.num >= file_position \div BLOCK_SIZE
  BY HereIsNext
<1>2. /\ UNCHANGED <<inode, file_position, pc, nbytes, returned, got>>
      /\ buf' = Append(buf, byte)
      /\ block_num' = Here.num /\ block_index' = Here.index + 1
  OBVIOUS
<1>3. byte \in Stored /\ byte.block < data_count
  BY <1>1 DEF TypeOK, Stored, Bad
<1>4. Next_byte < length /\ Next_byte = file_position + Len(buf)
  BY Numbers DEF AtEnd, Next_byte, LoopRight
<1>5. byte = Byte(file_position + Len(buf))
  <2>1. Here.num \in Nat /\ Here.index \in Nat /\ Here.index < BLOCK_SIZE
    BY <1>1 DEF Index
  <2>2. Next_byte \div BLOCK_SIZE = Here.num /\ Next_byte % BLOCK_SIZE = Here.index
    BY <1>1, <2>1, PlaceUnique
  <2> QED BY <1>4, <2>2 DEF Byte
<1> HIDE DEF byte
<1>6. TypeOK'
  <2>1. buf \in Seq(Stored) /\ got \in Seq(Stored)
    BY DEF TypeOK
  <2>2. buf' \in Seq(Stored) /\ got' \in Seq(Stored)
    BY <1>2, <1>3, <2>1
  <2>3. block_num' \in Index /\ block_index' \in 0 .. BLOCK_SIZE
    BY <1>1, <1>2
  <2> QED BY <1>2, <2>2, <2>3 DEF TypeOK, inode
<1>7. GivesFile' /\ UnusedZero' /\ FailsOnBad'
  BY <1>2, SameFile DEF GivesFile, Byte, FailsOnBad
<1>8. LoopRight'
  <2>1. Len(buf) \in Nat /\ Len(buf') = Len(buf) + 1 /\ nbytes \in Nat
        /\ file_position \in Nat /\ length \in Nat
    BY <1>2 DEF TypeOK
  <2>2. Len(buf') <= nbytes' /\ Next_byte' <= length' /\ Next_byte' = Next_byte + 1
    BY <1>2, <1>4, <2>1 DEF Next_byte, inode
  <2>3. block_num' * BLOCK_SIZE + block_index' = Next_byte'
    <3>1. Here.num * BLOCK_SIZE \in Nat /\ Here.index \in Nat
      BY <1>1, SMT DEF Index
    <3> QED BY <1>1, <1>2, <2>2, <3>1
  <2>4. block_num' >= file_position' \div BLOCK_SIZE
    BY <1>1, <1>2
  <2>5. ASSUME NEW k \in 0 .. Len(buf') - 1
        PROVE  buf'[k + 1] = Byte(file_position + k) /\ buf'[k + 1].block < data_count
    <3>1. CASE k < Len(buf)
      <4>1. buf'[k + 1] = buf[k + 1] /\ k \in 0 .. Len(buf) - 1
        BY <1>2, <2>1, <3>1 DEF TypeOK
      <4> QED BY <4>1 DEF LoopRight
    <3>2. CASE k = Len(buf)
      <4>1. buf'[k + 1] = byte
        BY <1>2, <2>1, <3>2 DEF TypeOK
      <4> QED BY <1>3, <1>5, <3>2, <4>1
    <3> QED BY <2>1, <3>1, <3>2
  <2>6. \A k \in 0 .. Len(buf') - 1 :
           /\ buf'[k + 1] = Byte(file_position + k)'
           /\ buf'[k + 1].block < data_count
    BY <1>2, <2>5 DEF Byte, inode
  <2> QED BY <2>2, <2>3, <2>4, <2>6 DEF LoopRight
<1> QED BY <1>6, <1>7, <1>8

LEMMA StepFail == IInv /\ Fail => IInv'
<1> SUFFICES ASSUME IInv, Fail PROVE IInv'
  OBVIOUS
<1> USE FileAssumption DEF IInv, Fail, Turn
<1>1. /\ UNCHANGED <<inode, file_position, nbytes, loop, got>>
      /\ returned' = Failed /\ pc' = "user"
  OBVIOUS
<1>2. TypeOK' /\ GivesFile' /\ UnusedZero' /\ LoopRight'
  BY <1>1, SameFile DEF TypeOK, GivesFile, LoopRight, Byte, inode, loop
<1>3. FailsOnBad'
  <2> SUFFICES ASSUME (length < Blocks * BLOCK_SIZE)' PROVE BadWithin'
    BY DEF FailsOnBad
  <2>1. /\ Here.num \in Index /\ Here.index \in 0 .. BLOCK_SIZE - 1
        /\ Here.num * BLOCK_SIZE + Here.index = Next_byte
        /\ Here.num >= file_position \div BLOCK_SIZE
    BY HereIsNext
  <2>2. Here.num * BLOCK_SIZE \in Nat /\ Here.num * BLOCK_SIZE <= Next_byte
    <3>1. Here.num \in Nat /\ Here.index \in Nat
      BY <2>1 DEF Index
    <3>2. Here.num * BLOCK_SIZE \in Nat
      BY <3>1, SMT
    <3> QED BY <2>1, <3>1, <3>2
  <2>3. Next_byte <= length /\ Next_byte < file_position + nbytes
    BY DEF LoopRight, Next_byte, TypeOK
  <2>4. Here.num \in Occupied
    <3>1. Here.num * BLOCK_SIZE <= length /\ length < Blocks * BLOCK_SIZE
      BY <1>1, <2>2, <2>3 DEF TypeOK, Next_byte, inode
    <3> QED BY <2>1, <3>1, BadOccupied
  <2>5. Here.num * BLOCK_SIZE < file_position + nbytes
    BY <2>2, <2>3 DEF TypeOK, Next_byte
  <2>6. Here.num \in Occupied' /\ data_block_num'[Here.num] >= data_count
    BY <1>1, <2>4, SameFile DEF Bad
  <2>7. PICK n \in Occupied' : n = Here.num
    BY <2>6
  <2> HIDE DEF Here
  <2> QED BY <1>1, <2>1, <2>5, <2>6, <2>7 DEF BadWithin
<1> QED BY <1>2, <1>3

LEMMA StepReturn == IInv /\ Return => IInv'
<1> SUFFICES ASSUME IInv, Return PROVE IInv'
  OBVIOUS
<1> USE FileAssumption DEF IInv, Return
<1>1. /\ UNCHANGED <<inode, nbytes, loop>> /\ pc' = "user"
      /\ returned' = Len(buf) /\ file_position' = file_position + Len(buf)
      /\ got' = got \o buf
  OBVIOUS
<1>2. /\ Len(buf) \in Nat /\ file_position + Len(buf) <= length
      /\ file_position \in Nat /\ Len(got) = file_position
      /\ Len(got') = file_position'
  <2>1. /\ Len(got) = file_position /\ file_position + Len(buf) <= length
    BY DEF LoopRight, Next_byte, GivesFile
  <2>2. Len(got') = Len(got) + Len(buf)
    BY <1>1 DEF TypeOK
  <2> QED BY <1>1, <2>1, <2>2, Numbers
<1>3. TypeOK'
  BY <1>1, <1>2 DEF TypeOK, inode, loop
<1>4. UnusedZero' /\ LoopRight' /\ FailsOnBad'
  BY <1>1, <1>2, SameFile DEF LoopRight, FailsOnBad, Failed
<1>5. ASSUME NEW k \in 0 .. file_position' - 1
      PROVE  got'[k + 1] = Byte(k) /\ got'[k + 1].block < data_count
  <2>1. CASE k < file_position
    <3>1. got'[k + 1] = got[k + 1]
      BY <1>1, <1>2, <2>1 DEF TypeOK
    <3> QED BY <1>2, <2>1, <3>1 DEF GivesFile
  <2>2. CASE k >= file_position
    <3> DEFINE j == k - file_position
    <3>1. j \in 0 .. Len(buf) - 1 /\ k = file_position + j
      BY <1>1, <1>2, <2>2
    <3>2. got'[k + 1] = buf[j + 1]
      BY <1>1, <1>2, <3>1 DEF TypeOK
    <3> QED BY <3>1, <3>2 DEF LoopRight
  <2> QED BY <1>2, <2>1, <2>2
<1>6. GivesFile'
  BY <1>1, <1>2, <1>5 DEF GivesFile, Byte, inode
<1> QED BY <1>3, <1>4, <1>6

LEMMA StepInv == IInv /\ [Next]_vars => IInv'
<1> SUFFICES ASSUME IInv, [Next]_vars PROVE IInv'
  OBVIOUS
<1>1. CASE \E n \in Request : file_read(n)
  BY <1>1, StepRead
<1>2. CASE Place
  BY <1>2, StepPlace
<1>3. CASE Fail
  BY <1>3, StepFail
<1>4. CASE Return
  BY <1>4, StepReturn
<1>5. CASE UNCHANGED vars
  BY <1>5 DEF vars, inode, loop, IInv, TypeOK, GivesFile, Byte, LoopRight, Next_byte,
              UnusedZero, Occupied, FailsOnBad, BadWithin
<1> QED BY <1>1, <1>2, <1>3, <1>4, <1>5 DEF Next

(* The invariant holds in every reachable state.                           *)
THEOREM Invariance == Spec => []IInv
  BY InitInv, StepInv, PTL DEF Spec

-----------------------------------------------------------------------------
(* Every block number read_data looks at is one of the inode's or the word *)
(* after them, and the position stays within the file.                     *)
THEOREM TypeCorrect == Spec => []TypeOK
<1>1. IInv => TypeOK
  BY DEF IInv
<1> QED BY <1>1, Invariance, PTL

(* Whatever sequence of reads a program makes, it is given the file.       *)
THEOREM FileGiven == Spec => []GivesFile
<1>1. IInv => GivesFile
  BY DEF IInv
<1> QED BY <1>1, Invariance, PTL

(* In a file that does not fill its inode a read fails only for a bad      *)
(* block it would have read from.                                          *)
THEOREM FailureMeansBad == Spec => []FailsOnBad
<1>1. IInv => FailsOnBad
  BY DEF IInv
<1> QED BY <1>1, Invariance, PTL

(* No read comes back short before the end of the file.                    *)
THEOREM NeverShort == Spec => GivesAll
<1>1. ASSUME IInv, [Next]_vars, pc = "loop", pc' = "user", returned' # Failed
      PROVE  returned' = IF nbytes <= length - file_position
                         THEN nbytes ELSE length - file_position
  <2> USE DEF IInv, TypeOK
  <2>1. Return
    BY <1>1 DEF Next, file_read, Place, Fail, vars
  <2>2. /\ Len(buf) \in Nat /\ nbytes \in Nat /\ length \in Int /\ file_position \in Int
        /\ Len(buf) <= nbytes /\ file_position + Len(buf) <= length
    BY <1>1, FileAssumption DEF LoopRight, Next_byte
  <2>3. returned' = Len(buf) /\ (Len(buf) < nbytes => file_position + Len(buf) = length)
    BY <2>1 DEF Return, AtEnd
  <2> QED BY <2>2, <2>3
<1>2. IInv /\ [Next]_vars =>
        [ (pc = "loop" /\ pc' = "user" /\ returned' # Failed) =>
            returned' = IF nbytes <= length - file_position
                        THEN nbytes ELSE length - file_position ]_vars
  BY <1>1
<1> QED BY <1>2, Invariance, PTL DEF Spec, GivesAll
=============================================================================
