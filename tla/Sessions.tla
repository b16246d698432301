------------------------------ MODULE Sessions ------------------------------
(***************************************************************************)
(* What the terminals promise their users.  Each open terminal has a shell *)
(* (its root) and a program on top of it; execute puts a fresh program on  *)
(* top of the terminal that has the turn, halt goes back to the one that   *)
(* called it; the root never halts; the keyboard opens terminals, and the  *)
(* scheduler passes the turn on.  A machine that is not `intact` any more  *)
(* promises nothing.                                                       *)
(***************************************************************************)
CONSTANTS
    Program,    \* program slots
    Term,       \* terminals
    First,      \* the terminal that is open after boot
    None

VARIABLES
    caller,     \* of each running program, the one that waits for it, or None
    root,       \* the shell of each open terminal, None for the others
    top,        \* the program of each open terminal that runs
    turn,       \* the terminal that has the CPU
    intact

vars == <<caller, root, top, turn, intact>>

Roots == {root[t] : t \in Term} \ {None}
Busy  == Roots \cup {p \in Program : caller[p] # None}
Open  == {t \in Term : root[t] # None}

Nothing(S) == [x \in S |-> None]

Init ==
    /\ \E p \in Program : /\ root = [Nothing(Term) EXCEPT ![First] = p]
                          /\ top = root
    /\ caller = Nothing(Program)
    /\ turn = First
    /\ intact = TRUE

Push(p) ==
    /\ intact /\ p \notin Busy
    /\ caller' = [caller EXCEPT ![p] = top[turn]]
    /\ top' = [top EXCEPT ![turn] = p]
    /\ UNCHANGED <<root, turn, intact>>

Pop ==
    /\ intact /\ top[turn] # root[turn]
    /\ top' = [top EXCEPT ![turn] = caller[@]]
    /\ caller' = [caller EXCEPT ![top[turn]] = None]
    /\ UNCHANGED <<root, turn, intact>>

OpenShell(t, p) ==
    /\ intact /\ root[t] = None /\ p \notin Busy
    /\ root' = [root EXCEPT ![t] = p]
    /\ top' = [top EXCEPT ![t] = p]
    /\ turn' = t
    /\ UNCHANGED <<caller, intact>>

Schedule(t) ==
    /\ intact /\ t \in Open
    /\ turn' = t
    /\ UNCHANGED <<caller, root, top, intact>>

Break ==
    /\ intact' = FALSE
    /\ caller' = Nothing(Program)
    /\ root' = Nothing(Term)
    /\ top' = Nothing(Term)
    /\ turn' = First

Next == \/ \E p \in Program : Push(p) \/ \E t \in Term : OpenShell(t, p)
        \/ Pop
        \/ \E t \in Term : Schedule(t)
        \/ Break

Spec == Init /\ [][Next]_vars
=============================================================================
