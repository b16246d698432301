----------------------------- MODULE Directory -----------------------------
(***************************************************************************)
(* The directory: read_dentry_by_name, read_dentry_by_index and            *)
(* directory_read (file_system.c), as a program uses them that lists the   *)
(* directory through a descriptor and opens what it finds.                 *)
(*                                                                         *)
(* A name is a sequence of letters.  On disk it has FILENAME_LEN bytes, of *)
(* which those not used are NUL; a name that uses them all has no NUL, and *)
(* the bytes of the file type follow it.                                   *)
(***************************************************************************)
EXTENDS Integers, Sequences

CONSTANTS
    FILENAME_LEN,   \* 32 in the kernel
    Letter,
    MaxEntries      \* bound: dir_count, at most 63 in the kernel

ASSUME DirectoryAssumption ==
    FILENAME_LEN \in Nat \ {0} /\ MaxEntries \in Nat

VARIABLES
    direntries,     \* boot_block->direntries, the first dir_count of them
    file_position,  \* of the descriptor
    listed          \* history: the names directory_read has returned

vars == <<direntries, file_position, listed>>

Strings(lengths) == UNION {[1 .. n -> Letter] : n \in lengths}

FileType   == {0, 1, 2}         \* the clock, the directory, a regular file
Entry      == [filename : Strings(1 .. FILENAME_LEN), filetype : FileType]
dir_count  == Len(direntries)

Upto(s, n) == SubSeq(s, 1, IF Len(s) < n THEN Len(s) ELSE n)

None == 0

-----------------------------------------------------------------------------
(* Mutant: names that are too long are not turned away.                    *)
Matches_Prefix(fname, i) ==
    Upto(fname, FILENAME_LEN) = Upto(direntries[i].filename, FILENAME_LEN)

(* strncmp looks at FILENAME_LEN characters, of longer names too.          *)
Matches(fname, i) ==
    /\ Upto(fname, FILENAME_LEN) = Upto(direntries[i].filename, FILENAME_LEN)
    /\ Len(fname) <= FILENAME_LEN

(* The entry read_dentry_by_name copies.                                   *)
read_dentry_by_name(fname) ==
    LET found == {i \in 1 .. dir_count : Matches(fname, i)} IN
    IF found = {} THEN None ELSE CHOOSE i \in found : \A j \in found : i <= j

(* What strlen counts in the copy of an entry: an unterminated name goes   *)
(* on into the file type, whose second byte is 0.  The byte read as part   *)
(* of the name is the type.                                                *)
InMemory(e) ==
    IF Len(e.filename) < FILENAME_LEN \/ e.filetype = 0 THEN e.filename
    ELSE Append(e.filename, e.filetype)

(* Mutant: what strlen counts is not cut to FILENAME_LEN.                  *)
NameRead_NotCut(e) == InMemory(e)

NameRead(e) == Upto(InMemory(e), FILENAME_LEN)

-----------------------------------------------------------------------------
(* No two files have one name.                                             *)
Init ==
    /\ \E n \in 0 .. MaxEntries : direntries \in [1 .. n -> Entry]
    /\ \A i, j \in 1 .. dir_count :
          i # j => direntries[i].filename # direntries[j].filename
    /\ file_position = 0
    /\ listed = <<>>

(* The next name, or 0 bytes at the end.                                   *)
directory_read ==
    /\ file_position < dir_count
    /\ listed' = Append(listed, NameRead(direntries[file_position + 1]))
    /\ file_position' = file_position + 1
    /\ UNCHANGED direntries

(* The descriptor is closed and the directory opened again.                *)
Reopen ==
    /\ file_position' = 0 /\ listed' = <<>>
    /\ UNCHANGED direntries

Next == directory_read \/ Reopen

Spec == Init /\ [][Next]_vars

-----------------------------------------------------------------------------
(* A listing is the names of the directory in order, those of FILENAME_LEN *)
(* characters, which are not terminated, included: no character is lost or *)
(* made up, and each name, given to open, finds the entry it was listed    *)
(* for (file_system.c:22-59, 276-289).                                     *)
ListedOpens ==
    /\ Len(listed) = file_position
    /\ \A i \in DOMAIN listed :
          /\ listed[i] = direntries[i].filename
          /\ read_dentry_by_name(listed[i]) = i

(* A name is found if and only if it is the whole name of an entry: not if *)
(* it is only the beginning of one, nor if it begins with one.             *)
FoundByName ==
    \A fname \in Strings(0 .. FILENAME_LEN + 1) :
        read_dentry_by_name(fname) # None
            <=> \E i \in 1 .. dir_count : direntries[i].filename = fname
=============================================================================
