------------------------------ MODULE MCScreen ------------------------------
(* Instances of Screen for TLC.                                            *)
EXTENDS Screen

(* Bound: what follows a hazard is not explored.                           *)
StopAtHazard == hazards = {}

(* Bound: nor what follows when a program has the screen mapped while the  *)
(* next write is due to print nothing.                                     *)
OneAtATime == using # {} => ~jammer /\ ~hotjam

(* The page of the visible terminal is overwritten before it is read, so   *)
(* states that differ only in it are one.                                  *)
WithoutStalePage ==
    <<screen, screen_x, screen_y, cursor, turns, locks, video, astray, hazards,
      [t \in Terminal \ {curr_terminal_visible} |-> terminal_vid_mem[t]]>>

=============================================================================
