----------------------------- MODULE MCConsole -----------------------------
(* Instances of Console for TLC.                                           *)
EXTENDS Console

(* Bound: what follows a hazard is not explored.                           *)
StopAtHazard == Clean

(* The page of the visible terminal is overwritten before it is read.      *)
WithoutStalePage ==
    <<lineVars, curr_terminal_visible, curr_terminal_executing, screen,
      screen_x, screen_y, cursor, jammer, screenHazards, mixed,
      [t \in Terminal \ {curr_terminal_visible} |-> terminal_vid_mem[t]]>>

=============================================================================
