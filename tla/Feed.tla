-------------------------------- MODULE Feed --------------------------------
(* What the live stream promises each browser: on every connection it sees  *)
(* snapshots that were really gathered, never an older one after a newer    *)
(* one.  Snapshots are numbered from 1 in the order they are gathered.      *)
EXTENDS Naturals

CONSTANT Client

VARIABLES
  made,   \* the number of the newest snapshot
  here,   \* the clients that are connected
  seen    \* seen[c]: the last snapshot this connection showed, 0 if none

Init == made = 0 /\ here = {} /\ seen = [c \in Client |-> 0]

Make == made' = made + 1 /\ UNCHANGED <<here, seen>>

Join(c) == /\ c \notin here
           /\ here' = here \cup {c}
           /\ UNCHANGED <<made, seen>>

Leave(c) == /\ c \in here
            /\ here' = here \ {c} /\ seen' = [seen EXCEPT ![c] = 0]
            /\ UNCHANGED made

Show(c) == /\ c \in here
           /\ \E n \in 1..made : n >= seen[c] /\ seen' = [seen EXCEPT ![c] = n]
           /\ UNCHANGED <<made, here>>

Next == Make \/ \E c \in Client : Join(c) \/ Leave(c) \/ Show(c)

Spec == Init /\ [][Next]_<<made, here, seen>>
=============================================================================
