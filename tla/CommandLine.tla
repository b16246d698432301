---------------------------- MODULE CommandLine ----------------------------
(***************************************************************************)
(* Command lines: the parser and the program check of execute, and getargs *)
(* (system_call.c), over the directory.  Each terminal has a shell that    *)
(* executes what is typed; the program started asks for its arguments,     *)
(* while the timer changes the executing and a key the visible terminal.   *)
(***************************************************************************)
EXTENDS Directory

CONSTANTS
    T,              \* TERMINAL_NUM
    MAX_CMD_LENGTH, \* 32 in the kernel
    MAX_LINE        \* the longest command execute takes, 128; MAX_ARG_LENGTH

ASSUME CommandLineAssumption ==
    /\ T \in Nat \ {0} /\ MAX_CMD_LENGTH \in Nat \ {0} /\ MAX_LINE \in Nat
    /\ Letter \cap {"not asked", "-1"} = {}     \* see NotAsked, Failed

Terminal == 0 .. T - 1
Blank    == " "         \* or a tab
Text(n)  == UNION {[1 .. k -> Letter \cup {Blank}] : k \in 0 .. n}

VARIABLES
    header,     \* of each entry, its first four bytes: see Headers
    curr_terminal_visible,
    curr_terminal_executing,
    program,    \* the entry the program of t was started from, None: the shell
    arg,        \* PCB of the program of t: arg
    line,       \* history: the command t's program was started with
    given,      \* history: what getargs has given it
    hazards     \* history: the hazardous things that have happened

(* An executable, some other file, or one of fewer than four bytes: so is  *)
(* inode 0, empty on the disk, which the clock and the directory name.     *)
Headers == {"exe", "other", "short"}

programs    == <<program, arg, line, given>>
commandVars == <<vars, header, curr_terminal_visible, curr_terminal_executing,
                 programs, hazards>>

(* No sequences of letters, and sequences all the same: TLC compares them. *)
NotAsked == <<"not asked">>
Failed   == <<"-1">>

-----------------------------------------------------------------------------
(* The loops of the parser: the first place from i on that holds something *)
(* else than a blank, or a blank, or the NUL behind the command.           *)
FirstPlace(command, i, Stops(_)) ==
    CHOOSE j \in i .. Len(command) + 1 :
        /\ j = Len(command) + 1 \/ Stops(command[j])
        /\ \A k \in i .. j - 1 : ~Stops(command[k])

IsBlank(c)  == c = Blank
NotBlank(c) == c # Blank

cmd_start(command) == FirstPlace(command, 1, NotBlank)
cmd_end(command)   == FirstPlace(command, cmd_start(command), IsBlank)
arg_start(command) == FirstPlace(command, cmd_end(command), NotBlank)

Cmd(command) == SubSeq(command, cmd_start(command), cmd_end(command) - 1)

(* Mutant: the blanks before the argument are part of it.                  *)
Arg_Unskipped(command) == SubSeq(command, cmd_end(command), Len(command))

(* The blanks behind the argument are part of it.                          *)
Arg(command) == SubSeq(command, arg_start(command), Len(command))

-----------------------------------------------------------------------------
CommandInit ==
    /\ Init
    /\ header \in [1 .. dir_count -> Headers]
    /\ \A i \in 1 .. dir_count : direntries[i].filetype # 2 => header[i] = "short"
    /\ curr_terminal_visible = 0
    /\ curr_terminal_executing = 0
    /\ program = [t \in Terminal |-> None]
    /\ arg = [t \in Terminal |-> <<>>]
    /\ line = [t \in Terminal |-> <<>>]
    /\ given = [t \in Terminal |-> NotAsked]
    /\ hazards = {}

Me == curr_terminal_executing

(* What check_exe holds: of a file of fewer than four bytes nothing is     *)
(* read into it, and it may hold what an earlier execute has left there.   *)
IsExe(i) == header[i] = "exe"

(* The shell of the executing terminal executes a command.  A word that    *)
(* does not fit in cmd with its NUL runs over into what lies behind it:    *)
(* what happens then is not followed.                                      *)
execute(command) ==
    LET i == read_dentry_by_name(Cmd(command)) IN
    /\ program[Me] = None
    /\ Len(command) <= MAX_LINE
    /\ \/ /\ Len(Cmd(command)) >= MAX_CMD_LENGTH
          /\ hazards' = hazards \cup {"word"}
          /\ UNCHANGED programs
       \/ /\ Len(Cmd(command)) < MAX_CMD_LENGTH
          /\ i # None
          /\ IsExe(i) \/ header[i] = "short"
          /\ hazards' = IF IsExe(i) THEN hazards ELSE hazards \cup {"short"}
          /\ program' = [program EXCEPT ![Me] = i]
          /\ arg' = [arg EXCEPT ![Me] = Arg(command)]
          /\ line' = [line EXCEPT ![Me] = command]
          /\ given' = [given EXCEPT ![Me] = NotAsked]
    /\ UNCHANGED <<vars, header, curr_terminal_visible, curr_terminal_executing>>

(* Mutant: an argument that is empty is given.                             *)
Given_Empty(t) == arg[t]

Given(t) == IF arg[t] = <<>> THEN Failed ELSE arg[t]

(* The program asks: it is given the argument of the visible terminal's.   *)
getargs ==
    /\ program[Me] # None
    /\ given' = [given EXCEPT ![Me] = Given(curr_terminal_visible)]
    /\ hazards' = IF curr_terminal_visible = Me THEN hazards
                  ELSE hazards \cup {"visible"}
    /\ UNCHANGED <<vars, header, curr_terminal_visible, curr_terminal_executing,
                   program, arg, line>>

(* halt: the terminal is its shell's again, which was started without one. *)
halt ==
    /\ program[Me] # None
    /\ program' = [program EXCEPT ![Me] = None]
    /\ arg' = [arg EXCEPT ![Me] = <<>>]
    /\ line' = [line EXCEPT ![Me] = <<>>]
    /\ given' = [given EXCEPT ![Me] = NotAsked]
    /\ UNCHANGED <<vars, header, curr_terminal_visible, curr_terminal_executing,
                   hazards>>

PIT_handler ==
    /\ curr_terminal_executing' \in Terminal
    /\ UNCHANGED <<vars, header, curr_terminal_visible, programs, hazards>>

switch_terminal ==
    /\ curr_terminal_visible' \in Terminal
    /\ UNCHANGED <<vars, header, curr_terminal_executing, programs, hazards>>

(* A program lists the directory.                                          *)
ListDirectory ==
    /\ program[Me] # None
    /\ directory_read \/ Reopen
    /\ UNCHANGED <<header, curr_terminal_visible, curr_terminal_executing,
                   programs, hazards>>

CommandNext ==
    \/ \E command \in Text(MAX_LINE + 1) : execute(command)
    \/ getargs \/ halt
    \/ PIT_handler \/ switch_terminal
    \/ ListDirectory

CommandSpec == CommandInit /\ [][CommandNext]_commandVars

-----------------------------------------------------------------------------
(* What a command line means: a word, and what follows it, with blanks     *)
(* before and between.                                                     *)
Means(command, word, rest) ==
    \E a, b \in 0 .. Len(command) :
        LET blanks(n) == [k \in 1 .. n |-> Blank] IN
        /\ command = blanks(a) \o word \o blanks(b) \o rest
        /\ \A k \in DOMAIN word : word[k] # Blank
        /\ rest # <<>> => b > 0 /\ rest[1] # Blank

(* The program that runs is the executable file the first word of the line *)
(* names, in full, and its argument is the rest of the line, which fits in *)
(* PCB's array with its NUL although the line need not (the check of 128   *)
(* characters and both arrays are one size: system_call.c:149, 160-214,    *)
(* 221-233, 279).                                                          *)
ProgramAsTyped ==
    hazards = {} => \A t \in Terminal : program[t] # None =>
        /\ header[program[t]] = "exe"
        /\ Means(line[t], direntries[program[t]].filename, arg[t])
        /\ Len(arg[t]) < MAX_LINE

(* A program that asks while its terminal is the visible one is given the  *)
(* rest of its own line or, exactly if there is none, -1: never that of    *)
(* another terminal's program or of an earlier one (system_call.c:279,     *)
(* 577-588).                                                               *)
GivenOwnArgument ==
    hazards = {} => \A t \in Terminal : given[t] # NotAsked =>
        /\ given[t] # <<>>
        /\ Means(line[t], direntries[program[t]].filename,
                 IF given[t] = Failed THEN <<>> ELSE given[t])
=============================================================================
