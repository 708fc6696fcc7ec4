-------------------------- MODULE OplLogicalNames --------------------------
(***************************************************************************)
(* What the logical names of OPL databases promise a program: OPEN and     *)
(* CREATE give a closed name a database and make it current, USE makes an  *)
(* open name current, CLOSE closes the current one and another that is     *)
(* still open, if there is one, becomes current; a database file is open   *)
(* exactly while some name is open on it.  OplDatabase implements this.    *)
(***************************************************************************)
CONSTANTS Names, Dbs, None

VARIABLES open,      \* logical name -> its database, None when closed
          current,   \* the current logical name, None when none is open
          files      \* the database files that are open

vars == <<open, current, files>>

InUse == {open[n] : n \in Names} \ {None}

Init ==
  /\ open = [n \in Names |-> None]
  /\ current = None
  /\ files = {}

OpenName(n, d) ==
  /\ open[n] = None
  /\ open' = [open EXCEPT ![n] = d]
  /\ current' = n
  /\ files' = files \cup {d}

UseName(n) ==
  /\ open[n] # None
  /\ current' = n
  /\ UNCHANGED <<open, files>>

CloseName ==
  /\ current # None
  /\ open' = [open EXCEPT ![current] = None]
  /\ files' = InUse'
  /\ \/ current' \in Names /\ open'[current'] # None
     \/ current' = None /\ \A n \in Names : open'[n] = None

Next ==
  \/ \E n \in Names, d \in Dbs : OpenName(n, d)
  \/ \E n \in Names : UseName(n)
  \/ CloseName

Spec == Init /\ [][Next]_vars
=============================================================================
