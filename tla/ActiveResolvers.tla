--------------------------- MODULE ActiveResolvers ---------------------------
(***************************************************************************)
(* What the service promises about the resolvers it has the computer use,  *)
(* on either operating system: they are different ones, of a pool that is  *)
(* loaded in two halves, the second after the first; when the pool is      *)
(* complete it stays what it is until the process ends, and only what is   *)
(* selected from it changes.  Calls nested in one another, lists that are  *)
(* applied one by one and boots that fail are in OpenNICServer and         *)
(* OpenNICServerWin, which both implement this.                            *)
(***************************************************************************)
CONSTANTS T1, T2        \* the resolvers of the bootstrap list, and of dig

VARIABLES complete,     \* is the pool?
          pool,         \* the resolvers to select from
          active        \* the list of those selected

vars == <<complete, pool, active>>

Selection(list, from) ==
    \A i, j \in DOMAIN list : list[i] \in from /\ (i # j => list[i] # list[j])

Init == complete = FALSE /\ pool = {} /\ active = <<>>

(* A boot that failed begins again here. *)
LoadT1 == /\ ~ complete /\ complete' = FALSE
          /\ pool' = T1
          /\ Selection(active', pool')

LoadT2 == /\ ~ complete /\ complete' \in BOOLEAN
          /\ T1 \subseteq pool
          /\ \E list \in SUBSET T2 : pool' = pool \cup list
          /\ Selection(active', pool')

Select == /\ Selection(active', pool)
          /\ UNCHANGED <<complete, pool>>

Quit == Init'

Next == LoadT1 \/ LoadT2 \/ Select \/ Quit

Spec == Init /\ [][Next]_vars
=============================================================================
