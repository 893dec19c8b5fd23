----------------------------- MODULE Inventory ------------------------------
(***************************************************************************)
(* What the commands promise about the containers of each ref, without     *)
(* labels, names, lookups or interleavings: a ref holds one container at a *)
(* time, it is created stopped, and a container that was removed does not  *)
(* come back.                                                              *)
(***************************************************************************)
CONSTANTS
  Refs,     \* what a container can be of
  Ids,      \* identities of containers
  None      \* holds nothing

VARIABLES
  holder,   \* the container each ref holds
  up,       \* the refs whose container runs
  used      \* identities already given to a container

vars == <<holder, up, used>>

Init ==
  /\ holder = [r \in Refs |-> None]
  /\ up = {}
  /\ used = {}

Create(r, c) ==
  /\ holder[r] = None
  /\ c \notin used
  /\ holder' = [holder EXCEPT ![r] = c]
  /\ used' = used \cup {c}
  /\ UNCHANGED up

Start(r) ==
  /\ holder[r] # None
  /\ up' = up \cup {r}
  /\ UNCHANGED <<holder, used>>

Stop(r) ==
  /\ up' = up \ {r}
  /\ UNCHANGED <<holder, used>>

Remove(r) ==
  /\ holder[r] # None
  /\ holder' = [holder EXCEPT ![r] = None]
  /\ up' = up \ {r}
  /\ UNCHANGED used

\* Identities are also given to containers that are none of Contaigen's.
Elsewhere(c) ==
  /\ c \notin used
  /\ used' = used \cup {c}
  /\ UNCHANGED <<holder, up>>

Next ==
  \/ \E r \in Refs : Start(r) \/ Stop(r) \/ Remove(r)
  \/ \E r \in Refs, c \in Ids : Create(r, c)
  \/ \E c \in Ids : Elsewhere(c)

Spec == Init /\ [][Next]_vars

=============================================================================
