----------------------------- MODULE MCFileData -----------------------------
(* Instances of FileData for TLC.                                          *)
EXTENDS FileData

(* Bounds: the lengths of all files, and of those that fill their inode.   *)
AllLengths  == 0 .. Blocks * BLOCK_SIZE
FullLengths == {Blocks * BLOCK_SIZE}

-----------------------------------------------------------------------------
(* What the comment says and the code does not do.                         *)

(* read_data fails if "a bad data block number is found within the file    *)
(* bounds of the given inode" (file_system.c:85, 99).                      *)
FailsWithinBounds == (pc = "user" /\ returned = Failed) => BadWithin
=============================================================================
