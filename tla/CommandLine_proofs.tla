------------------------- MODULE CommandLine_proofs -------------------------
(***************************************************************************)
(* Proofs about CommandLine and Directory, for names, commands and         *)
(* directories of any length.  A name is looked up exactly (MatchesIs),    *)
(* the parser cuts a command into blanks, a word, blanks and the rest      *)
(* (Parsed), and what the shell of a terminal started stays as it was      *)
(* until it halts.                                                         *)
(***************************************************************************)
EXTENDS CommandLine, SequenceTheorems, WellFoundedInduction, TLAPS

LEMMA MinExists ==
    ASSUME NEW S, S \subseteq Nat, S # {}
    PROVE  \E m \in S : \A k \in S : m <= k
  <1> DEFINE R == {ss \in Nat \X Nat : ss[1] < ss[2]}
  <1>1. IsWellFoundedOn(R, Nat)
    BY NatLessThanWellFounded DEF OpToRel
  <1>2. PICK m \in S : \A k \in S : ~ (<<k, m>> \in R)
    <2> HIDE DEF R
    <2> QED BY <1>1, WFMin
  <1>3. ASSUME NEW k \in S PROVE m <= k
    <2>1. k \in Nat /\ m \in Nat
      OBVIOUS
    <2>2. <<k, m>> \in Nat \X Nat /\ ~ (<<k, m>> \in R)
      BY <1>2, <2>1
    <2>3. ~ (k < m)
      BY <2>2
    <2> QED BY <2>1, <2>3
  <1> QED BY <1>3

-----------------------------------------------------------------------------
(* The directory: entries with names, no two the same.                     *)
DirectoryOK ==
    /\ direntries \in Seq(Entry)
    /\ \A i, j \in 1 .. dir_count :
          i # j => direntries[i].filename # direntries[j].filename

LEMMA EntryType ==
    ASSUME DirectoryOK, NEW i \in 1 .. dir_count
    PROVE  /\ direntries[i].filename \in Seq(Letter)
           /\ Len(direntries[i].filename) \in 1 .. FILENAME_LEN
           /\ direntries[i] \in Entry
  <1>1. direntries[i] \in Entry
    BY DEF DirectoryOK, dir_count
  <1>2. direntries[i].filename \in Strings(1 .. FILENAME_LEN)
    BY <1>1 DEF Entry
  <1>3. PICK n \in 1 .. FILENAME_LEN : direntries[i].filename \in [1 .. n -> Letter]
    BY <1>2 DEF Strings
  <1> QED BY <1>1, <1>3

(* The first n characters of a sequence, all of it if it has no more.      *)
LEMMA UptoIs ==
    ASSUME NEW S, NEW s \in Seq(S), NEW n \in Nat
    PROVE  /\ Len(s) <= n => Upto(s, n) = s
           /\ Len(s) > n => Len(Upto(s, n)) = n
           /\ Len(s) > n => Upto(s, n) = SubSeq(s, 1, n)
  <1>1. CASE Len(s) < n
    BY <1>1, SubSeqFull DEF Upto
  <1>2. CASE Len(s) = n
    BY <1>2, SubSeqFull DEF Upto
  <1>3. CASE Len(s) > n
    BY <1>3 DEF Upto
  <1> QED BY <1>1, <1>2, <1>3

(* strncmp and the check of the length find the whole name and no other.   *)
LEMMA MatchesIs ==
    ASSUME DirectoryOK, NEW S, NEW fname \in Seq(S), NEW i \in 1 .. dir_count
    PROVE  Matches(fname, i) <=> direntries[i].filename = fname
  <1>1. Upto(direntries[i].filename, FILENAME_LEN) = direntries[i].filename
    BY EntryType, UptoIs, DirectoryAssumption
  <1>2. Len(fname) <= FILENAME_LEN => Upto(fname, FILENAME_LEN) = fname
    BY UptoIs, DirectoryAssumption
  <1>3. direntries[i].filename = fname => Len(fname) <= FILENAME_LEN
    BY EntryType
  <1> QED BY <1>1, <1>2, <1>3 DEF Matches

LEMMA LookupIs ==
    ASSUME DirectoryOK, NEW S, NEW fname \in Seq(S)
    PROVE  /\ read_dentry_by_name(fname) \in 0 .. dir_count
           /\ read_dentry_by_name(fname) # None =>
                direntries[read_dentry_by_name(fname)].filename = fname
           /\ \A i \in 1 .. dir_count :
                direntries[i].filename = fname => read_dentry_by_name(fname) = i
  <1> DEFINE found == {i \in 1 .. dir_count : Matches(fname, i)}
  <1>1. dir_count \in Nat
    BY DEF DirectoryOK, dir_count
  <1>2. found = {i \in 1 .. dir_count : direntries[i].filename = fname}
    BY MatchesIs
  <1>3. read_dentry_by_name(fname) =
           IF found = {} THEN None ELSE CHOOSE i \in found : \A j \in found : i <= j
    BY DEF read_dentry_by_name
  <1> HIDE DEF found
  <1>4. CASE found = {}
    BY <1>1, <1>2, <1>3, <1>4 DEF None
  <1>5. CASE found # {}
    <2>1. found \subseteq Nat
      BY <1>2
    <2>2. \E i \in found : \A j \in found : i <= j
      BY <1>5, <2>1, MinExists
    <2>3. read_dentry_by_name(fname) \in found
      BY <1>3, <1>5, <2>2
    <2>4. \A i \in found : i \in 1 .. dir_count /\ direntries[i].filename = fname
      BY <1>2
    <2>5. \A i \in found : i = read_dentry_by_name(fname)
      BY <2>3, <2>4 DEF DirectoryOK
    <2> QED BY <1>1, <1>2, <2>3, <2>4, <2>5 DEF None
  <1> QED BY <1>4, <1>5

(* directory_read returns the whole name, whether it is terminated or not. *)
LEMMA NameReadIs ==
    ASSUME DirectoryOK, NEW i \in 1 .. dir_count
    PROVE  NameRead(direntries[i]) = direntries[i].filename
  <1> DEFINE e == direntries[i]
             name == e.filename
  <1>1. name \in Seq(Letter) /\ Len(name) \in 1 .. FILENAME_LEN
    BY EntryType
  <1>2. CASE Len(name) < FILENAME_LEN \/ e.filetype = 0
    BY <1>1, <1>2, UptoIs, DirectoryAssumption DEF NameRead, InMemory
  <1>3. CASE ~(Len(name) < FILENAME_LEN \/ e.filetype = 0)
    <2> DEFINE long == Append(name, e.filetype)
               S == Letter \cup {e.filetype}
    <2>1. InMemory(e) = long
      BY <1>3 DEF InMemory
    <2>2. Len(name) = FILENAME_LEN
      BY <1>1, <1>3, DirectoryAssumption
    <2>3. name \in Seq(S)
      BY <1>1
    <2>4. /\ long \in Seq(S) /\ Len(long) = FILENAME_LEN + 1
          /\ \A k \in 1 .. FILENAME_LEN : long[k] = name[k]
      BY <2>2, <2>3, DirectoryAssumption
    <2> HIDE DEF long, S
    <2>5. NameRead(e) = SubSeq(long, 1, FILENAME_LEN)
      BY <2>1, <2>4, UptoIs, DirectoryAssumption DEF NameRead
    <2>6. /\ SubSeq(long, 1, FILENAME_LEN) \in Seq(S)
          /\ Len(SubSeq(long, 1, FILENAME_LEN)) = FILENAME_LEN
          /\ \A k \in 1 .. FILENAME_LEN : SubSeq(long, 1, FILENAME_LEN)[k] = long[k]
      BY <2>4, DirectoryAssumption
    <2>7. SubSeq(long, 1, FILENAME_LEN) = name
      BY <1>1, <2>2, <2>4, <2>6
    <2> QED BY <2>5, <2>7
  <1> QED BY <1>2, <1>3

(* FoundByName holds of any such directory (file_system.c:22-59).          *)
LEMMA DirectoryFinds == DirectoryOK => FoundByName
  <1> SUFFICES ASSUME DirectoryOK, NEW fname \in Strings(0 .. FILENAME_LEN + 1)
               PROVE  read_dentry_by_name(fname) # None
                        <=> \E i \in 1 .. dir_count : direntries[i].filename = fname
    BY DEF FoundByName
  <1>1. PICK n \in 0 .. FILENAME_LEN + 1 : fname \in [1 .. n -> Letter]
    BY DEF Strings
  <1>2. fname \in Seq(Letter)
    BY <1>1, DirectoryAssumption
  <1>3. dir_count \in Nat
    BY DEF DirectoryOK, dir_count
  <1> QED BY <1>2, <1>3, LookupIs DEF None

ListingOK ==
    /\ file_position \in 0 .. dir_count
    /\ listed \in Seq(Seq(Letter))
    /\ Len(listed) = file_position
    /\ \A i \in 1 .. file_position : listed[i] = direntries[i].filename

LEMMA InitDirectory == Init => DirectoryOK /\ ListingOK
  <1> SUFFICES ASSUME Init PROVE DirectoryOK /\ ListingOK
    OBVIOUS
  <1>1. direntries \in Seq(Entry)
    <2>1. PICK n \in 0 .. MaxEntries : direntries \in [1 .. n -> Entry]
      BY DEF Init
    <2> QED BY <2>1, DirectoryAssumption
  <1>2. dir_count \in Nat
    BY <1>1 DEF dir_count
  <1>3. listed = <<>> /\ file_position = 0
    BY DEF Init
  <1> QED BY <1>1, <1>2, <1>3 DEF Init, DirectoryOK, ListingOK

LEMMA ReadListing ==
    ASSUME DirectoryOK, ListingOK, directory_read
    PROVE  DirectoryOK' /\ ListingOK'
  <1> DEFINE i == file_position + 1
  <1>1. /\ i \in 1 .. dir_count /\ dir_count \in Nat
        /\ file_position \in Nat /\ file_position' = i
        /\ direntries' = direntries /\ dir_count' = dir_count
        /\ listed' = Append(listed, NameRead(direntries[i]))
    BY DEF directory_read, DirectoryOK, ListingOK, dir_count
  <1>2. NameRead(direntries[i]) = direntries[i].filename
    BY <1>1, NameReadIs
  <1>3. direntries[i].filename \in Seq(Letter)
    BY <1>1, EntryType
  <1> HIDE DEF i
  <1>4. /\ listed' \in Seq(Seq(Letter)) /\ Len(listed') = Len(listed) + 1
        /\ listed'[Len(listed) + 1] = direntries[i].filename
        /\ \A k \in 1 .. Len(listed) : listed'[k] = listed[k]
    BY <1>1, <1>2, <1>3 DEF ListingOK
  <1>5. DirectoryOK'
    BY <1>1 DEF DirectoryOK, dir_count
  <1>6. \A k \in 1 .. i : k = i \/ k \in 1 .. file_position
    BY <1>1 DEF i
  <1>7. ListingOK'
    BY <1>1, <1>4, <1>6 DEF ListingOK, i
  <1> QED BY <1>5, <1>7

LEMMA ReopenListing ==
    ASSUME DirectoryOK, ListingOK, Reopen
    PROVE  DirectoryOK' /\ ListingOK'
  <1>1. direntries' = direntries /\ dir_count' = dir_count /\ dir_count \in Nat
    BY DEF Reopen, dir_count, DirectoryOK
  <1>2. listed' = <<>> /\ file_position' = 0
    BY DEF Reopen
  <1> QED BY <1>1, <1>2 DEF DirectoryOK, ListingOK, dir_count

(* ListedOpens holds of what has been listed (file_system.c:276-289).      *)
LEMMA ListingOpens == DirectoryOK /\ ListingOK => ListedOpens
  <1> SUFFICES ASSUME DirectoryOK, ListingOK, NEW i \in 1 .. file_position
               PROVE  /\ listed[i] = direntries[i].filename
                      /\ read_dentry_by_name(listed[i]) = i
    BY DEF ListedOpens, ListingOK
  <1>1. i \in 1 .. dir_count /\ listed[i] = direntries[i].filename
    BY DEF ListingOK, DirectoryOK, dir_count
  <1>2. direntries[i].filename \in Seq(Letter)
    BY <1>1, EntryType
  <1> QED BY <1>1, <1>2, LookupIs

-----------------------------------------------------------------------------
(* The parser.                                                             *)
Commands == Seq(Letter \cup {Blank})

(* The first place of a stop, or the end of the command.                   *)
LEMMA FirstNotBlank ==
    ASSUME NEW command \in Commands, NEW i \in 1 .. Len(command) + 1
    PROVE  LET j == FirstPlace(command, i, NotBlank) IN
           /\ j \in i .. Len(command) + 1
           /\ j = Len(command) + 1 \/ command[j] # Blank
           /\ \A k \in i .. j - 1 : command[k] = Blank
  <1> DEFINE S == {j \in i .. Len(command) + 1 :
                      j = Len(command) + 1 \/ command[j] # Blank}
  <1>1. Len(command) \in Nat
    BY DEF Commands
  <1>2. S \subseteq Nat /\ Len(command) + 1 \in S
    BY <1>1
  <1>3. PICK m \in S : \A k \in S : m <= k
    BY <1>2, MinExists
  <1>4. \A k \in i .. m - 1 : command[k] = Blank
    BY <1>1, <1>3
  <1>5. m \in i .. Len(command) + 1 /\ (m = Len(command) + 1 \/ command[m] # Blank)
    BY <1>3
  <1>6. FirstPlace(command, i, NotBlank) =
           CHOOSE j \in i .. Len(command) + 1 :
              /\ j = Len(command) + 1 \/ command[j] # Blank
              /\ \A k \in i .. j - 1 : command[k] = Blank
    BY DEF FirstPlace, NotBlank
  <1> HIDE DEF S
  <1> QED BY <1>4, <1>5, <1>6

LEMMA FirstBlank ==
    ASSUME NEW command \in Commands, NEW i \in 1 .. Len(command) + 1
    PROVE  LET j == FirstPlace(command, i, IsBlank) IN
           /\ j \in i .. Len(command) + 1
           /\ j = Len(command) + 1 \/ command[j] = Blank
           /\ \A k \in i .. j - 1 : command[k] # Blank
  <1> DEFINE S == {j \in i .. Len(command) + 1 :
                      j = Len(command) + 1 \/ command[j] = Blank}
  <1>1. Len(command) \in Nat
    BY DEF Commands
  <1>2. S \subseteq Nat /\ Len(command) + 1 \in S
    BY <1>1
  <1>3. PICK m \in S : \A k \in S : m <= k
    BY <1>2, MinExists
  <1>4. \A k \in i .. m - 1 : command[k] # Blank
    BY <1>1, <1>3
  <1>5. m \in i .. Len(command) + 1 /\ (m = Len(command) + 1 \/ command[m] = Blank)
    BY <1>3
  <1>6. FirstPlace(command, i, IsBlank) =
           CHOOSE j \in i .. Len(command) + 1 :
              /\ j = Len(command) + 1 \/ command[j] = Blank
              /\ \A k \in i .. j - 1 : command[k] # Blank
    BY DEF FirstPlace, IsBlank
  <1> HIDE DEF S
  <1> QED BY <1>4, <1>5, <1>6

LEMMA PlacesAre ==
    ASSUME NEW command \in Commands
    PROVE  LET p == cmd_start(command)
               q == cmd_end(command)
               r == arg_start(command)
               n == Len(command)
           IN  /\ n \in Nat /\ p \in 1 .. n + 1 /\ q \in p .. n + 1 /\ r \in q .. n + 1
               /\ \A k \in 1 .. p - 1 : command[k] = Blank
               /\ \A k \in p .. q - 1 : command[k] # Blank
               /\ \A k \in q .. r - 1 : command[k] = Blank
               /\ r <= n => command[r] # Blank
               /\ q <= n => command[q] = Blank
  <1>1. Len(command) \in Nat
    BY DEF Commands
  <1>2. PICK p : p = cmd_start(command)
    OBVIOUS
  <1>3. /\ p \in 1 .. Len(command) + 1
        /\ \A k \in 1 .. p - 1 : command[k] = Blank
    BY <1>1, <1>2, FirstNotBlank DEF cmd_start
  <1>4. PICK q : q = cmd_end(command)
    OBVIOUS
  <1>5. /\ q \in p .. Len(command) + 1
        /\ q = Len(command) + 1 \/ command[q] = Blank
        /\ \A k \in p .. q - 1 : command[k] # Blank
    BY <1>2, <1>3, <1>4, FirstBlank DEF cmd_end
  <1>6. q \in 1 .. Len(command) + 1
    BY <1>1, <1>3, <1>5
  <1>7. PICK r : r = arg_start(command)
    OBVIOUS
  <1>8. /\ r \in q .. Len(command) + 1
        /\ r = Len(command) + 1 \/ command[r] # Blank
        /\ \A k \in q .. r - 1 : command[k] = Blank
    BY <1>4, <1>6, <1>7, FirstNotBlank DEF arg_start
  <1>9. (r <= Len(command) => command[r] # Blank) /\ (q <= Len(command) => command[q] = Blank)
    BY <1>1, <1>5, <1>6, <1>8
  <1> QED BY <1>1, <1>2, <1>3, <1>4, <1>5, <1>7, <1>8, <1>9, Zenon

LEMMA BlanksAre ==
    ASSUME NEW command \in Commands, NEW m \in 1 .. Len(command) + 1,
           NEW n \in m - 1 .. Len(command), \A k \in m .. n : command[k] = Blank
    PROVE  SubSeq(command, m, n) = [k \in 1 .. (n + 1) - m |-> Blank]
  <1> DEFINE C == Letter \cup {Blank}
             s == SubSeq(command, m, n)
             b == [k \in 1 .. (n + 1) - m |-> Blank]
  <1>1. Len(command) \in Nat /\ m \in Int /\ n \in Int /\ (n + 1) - m \in Nat
    BY DEF Commands
  <1>2. \A k \in m .. n : command[k] \in C
    BY DEF Commands
  <1> HIDE DEF C
  <1>3. /\ s \in Seq(C) /\ Len(s) = (n + 1) - m
        /\ \A k \in 1 .. (n - m) + 1 : s[k] = command[m + k - 1]
    BY <1>1, <1>2, SubSeqProperties
  <1>4. b \in Seq(C) /\ Len(b) = (n + 1) - m
    BY <1>1 DEF C
  <1>5. ASSUME NEW k \in 1 .. Len(s) PROVE s[k] = b[k]
    BY <1>1, <1>3, <1>5
  <1> HIDE DEF s, b
  <1>6. s = b
    BY <1>3, <1>4, <1>5, SeqEqual
  <1> QED BY <1>6 DEF s, b

(* What the parser cuts out means the command.                             *)
LEMMA Parsed ==
    ASSUME NEW command \in Commands
    PROVE  /\ Means(command, Cmd(command), Arg(command))
           /\ Cmd(command) \in Commands /\ Arg(command) \in Commands
           /\ Len(Arg(command)) + Len(Cmd(command)) <= Len(command)
  <1> DEFINE p == cmd_start(command)
             q == cmd_end(command)
             r == arg_start(command)
             n == Len(command)
             C == Letter \cup {Blank}
             blanks(k) == [x \in 1 .. k |-> Blank]
  <1> HIDE DEF p, q, r, C
  <1>1. /\ n \in Nat /\ p \in 1 .. n + 1 /\ q \in p .. n + 1 /\ r \in q .. n + 1
        /\ \A k \in 1 .. p - 1 : command[k] = Blank
        /\ \A k \in p .. q - 1 : command[k] # Blank
        /\ \A k \in q .. r - 1 : command[k] = Blank
        /\ r <= n => command[r] # Blank
        /\ q <= n => command[q] = Blank
    BY PlacesAre DEF p, q, r
  <1>2. command \in Seq(C) /\ \A k \in 1 .. n : command[k] \in C
    BY DEF Commands, C
  <1>3. Cmd(command) = SubSeq(command, p, q - 1) /\ Arg(command) = SubSeq(command, r, n)
    BY DEF Cmd, Arg, p, q, r
  <1>4. /\ SubSeq(command, 1, p - 1) = blanks(p - 1)
        /\ SubSeq(command, q, r - 1) = blanks(r - q)
    <2>1. SubSeq(command, 1, p - 1) = blanks((p - 1 + 1) - 1)
      BY <1>1, BlanksAre
    <2>2. SubSeq(command, q, r - 1) = blanks((r - 1 + 1) - q)
      BY <1>1, BlanksAre
    <2> QED BY <1>1, <2>1, <2>2
  <1>5. command = SubSeq(command, 1, p - 1) \o SubSeq(command, p, q - 1)
                    \o SubSeq(command, q, r - 1) \o SubSeq(command, r, n)
    <2>1. SubSeq(command, 1, p - 1) \o SubSeq(command, (p - 1) + 1, q - 1)
             = SubSeq(command, 1, q - 1)
      BY <1>1, <1>2, ConcatAdjacentSubSeq
    <2>2. SubSeq(command, 1, q - 1) \o SubSeq(command, (q - 1) + 1, r - 1)
             = SubSeq(command, 1, r - 1)
      BY <1>1, <1>2, ConcatAdjacentSubSeq
    <2>3. SubSeq(command, 1, r - 1) \o SubSeq(command, (r - 1) + 1, n)
             = SubSeq(command, 1, n)
      <3>1. /\ 1 \in 1 .. Len(command) + 1 /\ r - 1 \in 1 - 1 .. Len(command)
            /\ n \in r - 1 .. Len(command)
        BY <1>1
      <3> QED BY <1>2, <3>1, ConcatAdjacentSubSeq
    <2>4. SubSeq(command, 1, n) = command
      BY <1>2, SubSeqFull
    <2>5. (p - 1) + 1 = p /\ (q - 1) + 1 = q /\ (r - 1) + 1 = r
      BY <1>1
    <2> QED BY <2>1, <2>2, <2>3, <2>4, <2>5
  <1>6. /\ Cmd(command) \in Seq(C) /\ Len(Cmd(command)) = q - p
        /\ \A k \in 1 .. q - p : Cmd(command)[k] = command[p + k - 1]
    <2>1. \A k \in p .. q - 1 : command[k] \in C
      BY <1>1, <1>2
    <2>2. /\ SubSeq(command, p, q - 1) \in Seq(C)
          /\ Len(SubSeq(command, p, q - 1))
                = IF p <= q - 1 THEN (q - 1) - p + 1 ELSE 0
          /\ \A k \in 1 .. (q - 1) - p + 1 :
                SubSeq(command, p, q - 1)[k] = command[p + k - 1]
      BY <1>1, <2>1, SubSeqProperties
    <2> QED BY <1>1, <1>3, <2>2
  <1>7. /\ Arg(command) \in Seq(C) /\ Len(Arg(command)) = (n + 1) - r
        /\ Len(Arg(command)) > 0 => Arg(command)[1] = command[r]
    <2>1. \A k \in r .. n : command[k] \in C
      BY <1>1, <1>2
    <2>2. /\ SubSeq(command, r, n) \in Seq(C)
          /\ Len(SubSeq(command, r, n)) = IF r <= n THEN n - r + 1 ELSE 0
          /\ \A k \in 1 .. n - r + 1 : SubSeq(command, r, n)[k] = command[r + k - 1]
      BY <1>1, <2>1, SubSeqProperties
    <2> QED BY <1>1, <1>3, <2>2
  <1>8. Arg(command) # <<>> => Len(Arg(command)) > 0
    BY <1>7
  <1>9. Arg(command) # <<>> => r - q > 0 /\ Arg(command)[1] # Blank
    BY <1>1, <1>7, <1>8
  <1>10. \A k \in DOMAIN Cmd(command) : Cmd(command)[k] # Blank
    <2>1. ASSUME NEW k \in 1 .. q - p PROVE Cmd(command)[k] # Blank
      <3>1. p + k - 1 \in p .. q - 1
        BY <1>1, <2>1
      <3> QED BY <1>1, <1>6, <3>1
    <2>2. DOMAIN Cmd(command) = 1 .. q - p
      BY <1>6
    <2> QED BY <2>1, <2>2
  <1>11. Means(command, Cmd(command), Arg(command))
    <2>1. p - 1 \in 0 .. Len(command) /\ r - q \in 0 .. Len(command)
      BY <1>1
    <2>2. command = blanks(p - 1) \o Cmd(command) \o blanks(r - q) \o Arg(command)
      BY <1>3, <1>4, <1>5
    <2> QED BY <1>9, <1>10, <2>1, <2>2, Zenon DEF Means
  <1> QED BY <1>1, <1>6, <1>7, <1>11 DEF Commands, C

-----------------------------------------------------------------------------
LEMMA Sizes ==
    /\ T \in Nat \ {0} /\ MAX_CMD_LENGTH \in Nat \ {0} /\ MAX_LINE \in Nat
    /\ "not asked" \notin Letter /\ "-1" \notin Letter
  BY CommandLineAssumption, Zenon

LEMMA Bounds == T \in Nat /\ T > 0 /\ MAX_LINE \in Nat
  <1>1. T \in Nat \ {0} /\ MAX_LINE \in Nat
    BY Sizes, Zenon
  <1> QED BY <1>1

(* What the shells' programs are, while nothing hazardous has happened.    *)
Typed ==
    /\ curr_terminal_visible \in Terminal
    /\ curr_terminal_executing \in Terminal
    /\ program \in [Terminal -> 0 .. dir_count]
    /\ arg \in [Terminal -> Commands]
    /\ line \in [Terminal -> Commands]
    /\ DOMAIN given = Terminal

Started(t) ==
    /\ header[program[t]] = "exe"
    /\ Means(line[t], direntries[program[t]].filename, arg[t])
    /\ Len(arg[t]) < MAX_LINE

Own(t) == program[t] # None /\ given[t] = Given(t)

ProgramInv ==
    hazards = {} => \A t \in Terminal :
        /\ program[t] # None => Started(t)
        /\ given[t] # NotAsked => Own(t)

CommandInv == DirectoryOK /\ ListingOK /\ Typed /\ ProgramInv

LEMMA InitCommand == CommandInit => CommandInv
  <1> SUFFICES ASSUME CommandInit PROVE CommandInv
    OBVIOUS
  <1>1. DirectoryOK /\ ListingOK
    BY InitDirectory DEF CommandInit
  <1>2. dir_count \in Nat
    BY <1>1 DEF DirectoryOK, dir_count
  <1>3. 0 \in Terminal
    BY Bounds DEF Terminal
  <1>4. <<>> \in Commands
    BY DEF Commands
  <1>5. Typed
    BY <1>2, <1>3, <1>4 DEF CommandInit, Typed, None
  <1>6. ProgramInv
    BY DEF CommandInit, ProgramInv
  <1> QED BY <1>1, <1>5, <1>6 DEF CommandInv

(* Each action leaves to the terminals it is not about what they had.      *)
LEMMA KeptIsKept ==
    ASSUME NEW t, NEW u,
           program'[t] = program[t], arg'[t] = arg[t], line'[t] = line[t],
           header' = header, direntries' = direntries
    PROVE  /\ (program[t] # None => Started(t)) => (program[t] # None => Started(t))'
           /\ given'[t] = given[t] /\ (given[t] # NotAsked => Own(t))
                => (given[t] # NotAsked => Own(t))'
  <1>1. Started(t) = Started(t)'
    BY DEF Started
  <1>2. (Given(t))' = Given(t)
    BY DEF Given
  <1> QED BY <1>1, <1>2 DEF Own, NotAsked

LEMMA ExecuteStep ==
    ASSUME CommandInv, NEW command \in Text(MAX_LINE + 1), execute(command)
    PROVE  CommandInv'
  <1> DEFINE Me0 == curr_terminal_executing
             i == read_dentry_by_name(Cmd(command))
  <1>1. command \in Commands
    BY Bounds DEF Text, Commands
  <1>2. /\ direntries' = direntries /\ file_position' = file_position
        /\ listed' = listed /\ dir_count' = dir_count /\ header' = header
        /\ curr_terminal_visible' = curr_terminal_visible
        /\ curr_terminal_executing' = curr_terminal_executing
    BY DEF execute, vars, dir_count
  <1>3. DirectoryOK' /\ ListingOK'
    BY <1>2 DEF CommandInv, DirectoryOK, ListingOK
  <1>4. /\ Means(command, Cmd(command), Arg(command))
        /\ Cmd(command) \in Commands /\ Arg(command) \in Commands
        /\ Len(Arg(command)) + Len(Cmd(command)) <= Len(command)
    BY <1>1, Parsed
  <1>5. CASE /\ hazards' = hazards \cup {"word"}
             /\ UNCHANGED programs
    <2>1. Typed'
      BY <1>2, <1>5 DEF CommandInv, Typed, programs
    <2>2. hazards' # {}
      BY <1>5
    <2> QED BY <1>3, <2>1, <2>2 DEF CommandInv, ProgramInv
  <1>6. CASE /\ i # None
             /\ IsExe(i) \/ header[i] = "short"
             /\ hazards' = IF IsExe(i) THEN hazards ELSE hazards \cup {"short"}
             /\ program' = [program EXCEPT ![Me] = i]
             /\ arg' = [arg EXCEPT ![Me] = Arg(command)]
             /\ line' = [line EXCEPT ![Me] = command]
             /\ given' = [given EXCEPT ![Me] = NotAsked]
    <2>1. /\ i \in 0 .. dir_count
          /\ direntries[i].filename = Cmd(command)
      BY <1>4, <1>6, LookupIs DEF CommandInv, Commands
    <2>2. Typed'
      BY <1>1, <1>2, <1>4, <1>6, <2>1 DEF CommandInv, Typed, Me
    <2>3. ASSUME hazards' = {}, NEW t \in Terminal
          PROVE  /\ (program[t] # None => Started(t))'
                 /\ (given[t] # NotAsked => Own(t))'
      <3>1. hazards = {} /\ IsExe(i)
        BY <1>6, <2>3
      <3>2. CASE t = Me
        <4>1. /\ program'[t] = i /\ arg'[t] = Arg(command)
              /\ line'[t] = command /\ given'[t] = NotAsked
          BY <1>6, <2>3, <3>2 DEF CommandInv, Typed
        <4>2. Len(Cmd(command)) \in Nat \ {0}
          <5>1. i \in 1 .. dir_count
            BY <1>6, <2>1 DEF None, CommandInv, DirectoryOK, dir_count
          <5> QED BY <2>1, <5>1, EntryType DEF CommandInv
        <4>3. Len(command) \in Nat /\ Len(Arg(command)) \in Nat
          BY <1>1, <1>4 DEF Commands
        <4>4. Len(Arg(command)) < MAX_LINE
          BY <1>4, <4>2, <4>3, Bounds DEF execute
        <4>5. Started(t)'
          BY <1>2, <1>4, <2>1, <3>1, <4>1, <4>4 DEF Started, IsExe
        <4>6. ~ (given[t] # NotAsked)'
          BY <4>1 DEF NotAsked
        <4> QED BY <4>5, <4>6
      <3>3. CASE t # Me
        <4>1. /\ program'[t] = program[t] /\ arg'[t] = arg[t]
              /\ line'[t] = line[t] /\ given'[t] = given[t]
          BY <1>6, <2>3, <3>3 DEF CommandInv, Typed
        <4>2. /\ program[t] # None => Started(t)
              /\ given[t] # NotAsked => Own(t)
          BY <2>3, <3>1 DEF CommandInv, ProgramInv
        <4> QED BY <1>2, <4>1, <4>2, KeptIsKept
      <3> QED BY <3>2, <3>3
    <2>4. ProgramInv'
      BY <2>3, Zenon DEF ProgramInv, Terminal
    <2> QED BY <1>3, <2>2, <2>4 DEF CommandInv
  <1> QED BY <1>5, <1>6 DEF execute

LEMMA GetargsStep ==
    ASSUME CommandInv, getargs
    PROVE  CommandInv'
  <1>1. /\ direntries' = direntries /\ file_position' = file_position
        /\ listed' = listed /\ dir_count' = dir_count /\ header' = header
        /\ curr_terminal_visible' = curr_terminal_visible
        /\ curr_terminal_executing' = curr_terminal_executing
        /\ program' = program /\ arg' = arg /\ line' = line
        /\ given' = [given EXCEPT ![Me] = Given(curr_terminal_visible)]
        /\ program[Me] # None
    BY DEF getargs, vars, dir_count
  <1>2. DirectoryOK' /\ ListingOK'
    BY <1>1 DEF CommandInv, DirectoryOK, ListingOK
  <1>3. Typed'
    BY <1>1 DEF CommandInv, Typed
  <1>4. ASSUME hazards' = {}, NEW t \in Terminal
        PROVE  /\ (program[t] # None => Started(t))'
               /\ (given[t] # NotAsked => Own(t))'
    <2>1. hazards = {} /\ curr_terminal_visible = Me
      BY <1>4 DEF getargs
    <2>2. /\ program[t] # None => Started(t)
          /\ given[t] # NotAsked => Own(t)
      BY <1>4, <2>1 DEF CommandInv, ProgramInv
    <2>3. CASE t = Me
      <3>1. given'[t] = Given(t)
        BY <1>1, <1>4, <2>1, <2>3 DEF CommandInv, Typed
      <3>2. (Given(t))' = Given(t)
        BY <1>1 DEF Given
      <3>3. program'[t] # None
        BY <1>1, <2>3
      <3>4. Own(t)'
        BY <3>1, <3>2, <3>3 DEF Own
      <3> QED BY <1>1, <2>2, <3>4, KeptIsKept
    <2>4. CASE t # Me
      <3>1. given'[t] = given[t]
        BY <1>1, <1>4, <2>4 DEF CommandInv, Typed
      <3> QED BY <1>1, <2>2, <3>1, KeptIsKept
    <2> QED BY <2>3, <2>4
  <1>5. ProgramInv'
    BY <1>4, Zenon DEF ProgramInv, Terminal
  <1> QED BY <1>2, <1>3, <1>5 DEF CommandInv

LEMMA HaltStep ==
    ASSUME CommandInv, halt
    PROVE  CommandInv'
  <1>1. /\ direntries' = direntries /\ file_position' = file_position
        /\ listed' = listed /\ dir_count' = dir_count /\ header' = header
        /\ curr_terminal_visible' = curr_terminal_visible
        /\ curr_terminal_executing' = curr_terminal_executing
        /\ hazards' = hazards
        /\ program' = [program EXCEPT ![Me] = None]
        /\ arg' = [arg EXCEPT ![Me] = <<>>]
        /\ line' = [line EXCEPT ![Me] = <<>>]
        /\ given' = [given EXCEPT ![Me] = NotAsked]
    BY DEF halt, vars, dir_count
  <1>2. DirectoryOK' /\ ListingOK'
    BY <1>1 DEF CommandInv, DirectoryOK, ListingOK
  <1>3. Typed'
    <2>1. <<>> \in Commands /\ None \in 0 .. dir_count
      BY DEF Commands, None, CommandInv, DirectoryOK, dir_count
    <2> QED BY <1>1, <2>1 DEF CommandInv, Typed
  <1>4. ASSUME hazards' = {}, NEW t \in Terminal
        PROVE  /\ (program[t] # None => Started(t))'
               /\ (given[t] # NotAsked => Own(t))'
    <2>1. CASE t = Me
      <3>1. program'[t] = None /\ given'[t] = NotAsked
        BY <1>1, <1>4, <2>1 DEF CommandInv, Typed
      <3> QED BY <3>1 DEF None, NotAsked
    <2>2. CASE t # Me
      <3>1. /\ program'[t] = program[t] /\ arg'[t] = arg[t]
            /\ line'[t] = line[t] /\ given'[t] = given[t]
        BY <1>1, <1>4, <2>2 DEF CommandInv, Typed
      <3>2. /\ program[t] # None => Started(t)
            /\ given[t] # NotAsked => Own(t)
        BY <1>1, <1>4 DEF CommandInv, ProgramInv
      <3> QED BY <1>1, <3>1, <3>2, KeptIsKept
    <2> QED BY <2>1, <2>2
  <1>5. ProgramInv'
    BY <1>4, Zenon DEF ProgramInv, Terminal
  <1> QED BY <1>2, <1>3, <1>5 DEF CommandInv

(* What only switches terminals or reads the directory disturbs neither.   *)
LEMMA OtherSteps ==
    ASSUME CommandInv, PIT_handler \/ switch_terminal \/ ListDirectory
                       \/ UNCHANGED commandVars
    PROVE  CommandInv'
  <1>1. /\ direntries' = direntries /\ dir_count' = dir_count /\ header' = header
        /\ hazards' = hazards /\ program' = program /\ arg' = arg
        /\ line' = line /\ given' = given
    BY DEF PIT_handler, switch_terminal, ListDirectory, directory_read, Reopen,
           commandVars, programs, vars, dir_count
  <1>2. curr_terminal_visible' \in Terminal /\ curr_terminal_executing' \in Terminal
    BY DEF PIT_handler, switch_terminal, ListDirectory, commandVars, CommandInv, Typed
  <1>3. Typed'
    BY <1>1, <1>2 DEF CommandInv, Typed
  <1>4. DirectoryOK' /\ ListingOK'
    <2>1. CASE directory_read
      BY <2>1, ReadListing DEF CommandInv
    <2>2. CASE Reopen
      BY <2>2, ReopenListing DEF CommandInv
    <2>3. CASE UNCHANGED vars
      BY <2>3 DEF CommandInv, DirectoryOK, ListingOK, vars, dir_count
    <2> QED BY <2>1, <2>2, <2>3
            DEF PIT_handler, switch_terminal, ListDirectory, commandVars
  <1>5. ASSUME hazards' = {}, NEW t \in Terminal
        PROVE  /\ (program[t] # None => Started(t))'
               /\ (given[t] # NotAsked => Own(t))'
    <2>1. /\ program[t] # None => Started(t)
          /\ given[t] # NotAsked => Own(t)
      BY <1>1, <1>5 DEF CommandInv, ProgramInv
    <2> QED BY <1>1, <2>1, KeptIsKept
  <1>6. ProgramInv'
    BY <1>5, Zenon DEF ProgramInv, Terminal
  <1> QED BY <1>3, <1>4, <1>6 DEF CommandInv

(* No two entries of the directory come to have one name, a listing is the *)
(* names before the position, and what each shell started stays what its   *)
(* line means (system_call.c:149-233, 279, 577-588).                       *)
THEOREM Invariance == CommandSpec => []CommandInv
  <1>1. CommandInv /\ [CommandNext]_commandVars => CommandInv'
    BY ExecuteStep, GetargsStep, HaltStep, OtherSteps DEF CommandNext
  <1> QED BY <1>1, InitCommand, PTL DEF CommandSpec

(* However long a name is, listing the directory shows it whole, and open  *)
(* finds under it the entry it was listed for (file_system.c:22-59,        *)
(* 276-289).                                                               *)
THEOREM ListingOpensAlways == CommandSpec => []ListedOpens
  <1>1. CommandInv => ListedOpens
    BY ListingOpens DEF CommandInv
  <1> QED BY <1>1, Invariance, PTL

(* A name finds an entry if and only if it is all of that entry's name     *)
(* (file_system.c:22-59).                                                  *)
THEOREM NamesAreWhole == CommandSpec => []FoundByName
  <1>1. CommandInv => FoundByName
    BY DirectoryFinds DEF CommandInv
  <1> QED BY <1>1, Invariance, PTL

(* The program that runs is the executable the line's first word names and *)
(* its argument, what follows, fits (system_call.c:149, 160-214, 221-233). *)
THEOREM ProgramsAsTyped == CommandSpec => []ProgramAsTyped
  <1>1. CommandInv => ProgramAsTyped
    BY Zenon DEF CommandInv, ProgramInv, Started, ProgramAsTyped
  <1> QED BY <1>1, Invariance, PTL

LEMMA ArgumentIsAnswer ==
    ASSUME NEW command \in Commands
    PROVE  command # NotAsked /\ command # Failed
  <1>1. "not asked" \notin Letter \cup {Blank} /\ "-1" \notin Letter \cup {Blank}
    BY Sizes DEF Blank
  <1>2. Len(NotAsked) = 1 /\ NotAsked[1] = "not asked"
    BY DEF NotAsked
  <1>3. Len(Failed) = 1 /\ Failed[1] = "-1"
    BY DEF Failed
  <1>4. Len(command) = 1 => command[1] \in Letter \cup {Blank}
    BY DEF Commands
  <1> QED BY <1>1, <1>2, <1>3, <1>4, Zenon

(* A program that asks while its terminal is visible is given the rest of  *)
(* its own line, or -1 if and only if there is none (system_call.c:279,    *)
(* 577-588).                                                               *)
THEOREM GivenOwn == CommandSpec => []GivenOwnArgument
  <1>1. ASSUME CommandInv, hazards = {}, NEW t \in Terminal, given[t] # NotAsked
        PROVE  /\ given[t] # <<>>
               /\ Means(line[t], direntries[program[t]].filename,
                        IF given[t] = Failed THEN <<>> ELSE given[t])
    <2>1. Started(t) /\ given[t] = Given(t)
      BY <1>1 DEF CommandInv, ProgramInv, Own
    <2>2. arg[t] \in Commands
      BY <1>1 DEF CommandInv, Typed
    <2>3. arg[t] # Failed
      BY <2>2, ArgumentIsAnswer
    <2>4. CASE arg[t] = <<>>
      <3>1. given[t] = Failed
        BY <2>1, <2>4 DEF Given
      <3>2. Failed # <<>>
        BY DEF Failed
      <3> QED BY <2>1, <2>4, <3>1, <3>2 DEF Started
    <2>5. CASE arg[t] # <<>>
      <3>1. given[t] = arg[t]
        BY <2>1, <2>5 DEF Given
      <3> QED BY <2>1, <2>3, <2>5, <3>1 DEF Started
    <2> QED BY <2>4, <2>5
  <1>2. CommandInv => GivenOwnArgument
    BY <1>1, Zenon DEF GivenOwnArgument
  <1> QED BY <1>2, Invariance, PTL

=============================================================================
