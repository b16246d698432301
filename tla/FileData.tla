------------------------------ MODULE FileData ------------------------------
(***************************************************************************)
(* Reading a regular file: file_read and the loop of read_data             *)
(* (file_system.c), which walks the data blocks of an inode one byte at a  *)
(* time.                                                                   *)
(*                                                                         *)
(* The file system never changes.  One file and one of its descriptors are *)
(* modelled; that each reader has its own position is the subject of       *)
(* Descriptors.  A byte is its place in the file system: the number of its *)
(* data block and the index in it.                                         *)
(***************************************************************************)
EXTENDS Integers, Sequences

CONSTANTS
    BLOCK_SIZE,
    Blocks,         \* data block numbers of an inode, 1023 in the kernel
    data_count,     \* boot_block->data_count
    Lengths,        \* bound: the lengths of files looked at
    Request         \* the nbytes of reads

ASSUME FileAssumption ==
    /\ BLOCK_SIZE \in Nat \ {0}
    /\ Blocks \in Nat /\ data_count \in Nat \ {0}
    /\ Lengths \subseteq 0 .. Blocks * BLOCK_SIZE
    /\ Request \subseteq Nat

VARIABLES
    length,         \* inode->length
    data_block_num, \* inode->data_block_num
    file_position,  \* of the descriptor
    pc,             \* in the program or in read_data
    nbytes,         \* the bytes asked for
    block_num,      \* read_start_data_block_num
    block_index,    \* read_start_data_block_index
    buf,            \* the bytes placed by this call
    returned,       \* what the last read returned
    got             \* history: the bytes all reads have given

inode == <<length, data_block_num>>
loop  == <<block_num, block_index, buf>>
vars  == <<inode, file_position, pc, nbytes, loop, returned, got>>

(* data_block_num[Blocks] is what follows the array in memory: the length  *)
(* of the next inode.                                                      *)
Index == 0 .. Blocks

(* Block numbers from data_count on are bad.                               *)
Bad(n) == data_block_num[n] >= data_count

(* The blocks the file occupies.                                           *)
Occupied == {n \in Index : n * BLOCK_SIZE < length}

(* The bytes of the file.                                                  *)
Byte(k) == [block |-> data_block_num[k \div BLOCK_SIZE],
            index |-> k % BLOCK_SIZE]

Failed == -1

-----------------------------------------------------------------------------
(* An image as createfs writes it: the entries that are not used are 0.    *)
Init ==
    /\ length \in Lengths
    /\ data_block_num \in [Index -> 0 .. data_count]
    /\ \A n \in 0 .. Blocks - 1 : n \notin Occupied => data_block_num[n] = 0
    /\ file_position = 0
    /\ pc = "user" /\ nbytes = 0
    /\ block_num = 0 /\ block_index = 0 /\ buf = <<>>
    /\ returned = 0 /\ got = <<>>

(* file_read calls read_data, which looks at the first block right away.   *)
file_read(n) ==
    /\ pc = "user"
    /\ nbytes' = n
    /\ block_num' = file_position \div BLOCK_SIZE
    /\ block_index' = file_position % BLOCK_SIZE
    /\ buf' = <<>>
    /\ IF Bad(file_position \div BLOCK_SIZE)
       THEN /\ returned' = Failed /\ pc' = "user"
       ELSE /\ pc' = "loop" /\ UNCHANGED returned
    /\ UNCHANGED <<inode, file_position, got>>

(* Mutant: the next block begins a byte early.                             *)
Here_Early == IF block_index >= BLOCK_SIZE - 1
              THEN [num |-> block_num + 1, index |-> 0]
              ELSE [num |-> block_num, index |-> block_index]

(* The block and index a turn of the loop works on.                        *)
Here == IF block_index = BLOCK_SIZE
        THEN [num |-> block_num + 1, index |-> 0]
        ELSE [num |-> block_num, index |-> block_index]

Turn == pc = "loop" /\ Len(buf) < nbytes

(* Mutant: the offset is forgotten.                                        *)
AtEnd_NoOffset == Len(buf) = length

AtEnd == file_position + Len(buf) = length

(* Mutant: the block is not looked at before each byte.                    *)
Place_NotChecked ==
    /\ Turn /\ ~AtEnd
    /\ buf' = Append(buf, [block |-> data_block_num[Here.num],
                           index |-> Here.index])
    /\ block_num' = Here.num
    /\ block_index' = Here.index + 1
    /\ UNCHANGED <<inode, file_position, pc, nbytes, returned, got>>

(* A turn that places a byte ...                                           *)
Place ==
    /\ Turn /\ ~Bad(Here.num) /\ ~AtEnd
    /\ buf' = Append(buf, [block |-> data_block_num[Here.num],
                           index |-> Here.index])
    /\ block_num' = Here.num
    /\ block_index' = Here.index + 1
    /\ UNCHANGED <<inode, file_position, pc, nbytes, returned, got>>

(* ... one that finds a bad block ...                                      *)
Fail ==
    /\ Turn /\ Bad(Here.num)
    /\ returned' = Failed /\ pc' = "user"
    /\ UNCHANGED <<inode, file_position, nbytes, loop, got>>

(* ... and the end of the loop: the position moves on.                     *)
Return ==
    /\ pc = "loop"
    /\ Len(buf) < nbytes => AtEnd /\ ~Bad(Here.num)
    /\ returned' = Len(buf) /\ pc' = "user"
    /\ file_position' = file_position + Len(buf)
    /\ got' = got \o buf
    /\ UNCHANGED <<inode, nbytes, loop>>

Next == (\E n \in Request : file_read(n)) \/ Place \/ Fail \/ Return

Spec == Init /\ [][Next]_vars

-----------------------------------------------------------------------------
Stored == [block : 0 .. data_count, index : 0 .. BLOCK_SIZE - 1]

TypeOK ==
    /\ length \in 0 .. Blocks * BLOCK_SIZE
    /\ data_block_num \in [Index -> 0 .. data_count]
    /\ file_position \in 0 .. length
    /\ pc \in {"user", "loop"}
    /\ nbytes \in Nat
    /\ block_num \in Index
    /\ block_index \in 0 .. BLOCK_SIZE
    /\ buf \in Seq(Stored)
    /\ returned \in Nat \cup {Failed}
    /\ got \in Seq(Stored)

(* However a file is cut into reads, at whatever places they cross data    *)
(* blocks, and although some of them fail half-way and are tried again,    *)
(* they give its bytes, each one once and in order, and none that is in a  *)
(* bad block (file_system.c:70-129, 201-205).                              *)
GivesFile ==
    /\ Len(got) = file_position
    /\ \A k \in 0 .. file_position - 1 :
          /\ got[k + 1] = Byte(k)
          /\ got[k + 1].block < data_count

(* A read that does not fail gives all it was asked for, or all that is    *)
(* left of the file (file_system.c:92-109).                                *)
GivesAll ==
    [][ (pc = "loop" /\ pc' = "user" /\ returned' # Failed) =>
          returned' = IF nbytes <= length - file_position
                      THEN nbytes ELSE length - file_position ]_vars

(* A read fails only if there is a bad data block among those of the file  *)
(* it would have read from, provided the file leaves a block number of its *)
(* inode unused (file_system.c:85-103).                                    *)
BadWithin ==
    \E n \in Occupied :
        /\ data_block_num[n] >= data_count
        /\ n >= file_position \div BLOCK_SIZE
        /\ \/ n = file_position \div BLOCK_SIZE
           \/ n * BLOCK_SIZE < file_position + nbytes

FailsOnBad ==
    (length < Blocks * BLOCK_SIZE /\ pc = "user" /\ returned = Failed)
        => BadWithin
=============================================================================
