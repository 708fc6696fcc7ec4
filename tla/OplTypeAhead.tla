---------------------------- MODULE OplTypeAhead ----------------------------
(***************************************************************************)
(* What the event queue of the OPL runtime promises a program that is      *)
(* typed at: the type-ahead of a terminal.  Keys are numbered as the       *)
(* window server sends them; the program takes them one at a time, each of *)
(* them once, in that order, and only after it has been typed.  Which of   *)
(* GET, GETEVENT, KEY and KEYA takes a key, where it is kept meanwhile and *)
(* how often the program is suspended in between makes no difference.      *)
(*                                                                         *)
(* There is one exception: each time an Execute that ran inside another    *)
(* one ends, it may soak up the oldest key that is waiting.                *)
(***************************************************************************)
EXTENDS Naturals

VARIABLES
  typed,  \* number of keys the window server has sent
  taken,  \* number of keys that the program has been given or that were soaked up
  ending  \* is an Execute about to end?

Init == typed = 0 /\ taken = 0 /\ ending = FALSE

Type == typed' = typed + 1 /\ UNCHANGED <<taken, ending>>

Take == taken < typed /\ taken' = taken + 1 /\ UNCHANGED <<typed, ending>>

StartEnding == ~ending /\ ending' = TRUE /\ UNCHANGED <<typed, taken>>

SoakUp == ending /\ taken < typed /\ taken' = taken + 1 /\ ending' = FALSE /\ UNCHANGED typed

FindNothing == ending /\ ending' = FALSE /\ UNCHANGED <<typed, taken>>

Next == Type \/ Take \/ StartEnding \/ SoakUp \/ FindNothing

Spec == Init /\ [][Next]_<<typed, taken, ending>>
=============================================================================
