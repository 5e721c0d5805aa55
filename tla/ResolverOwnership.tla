------------------------- MODULE ResolverOwnership -------------------------
(***************************************************************************)
(* What shared ownership of the resolver objects promises: the pools of    *)
(* the server hold pointers to resolvers allocated on the heap, the same   *)
(* resolver may be in several pools, and the memory of a resolver is given *)
(* back only when no pool points to it any more.  How the code keeps the   *)
(* promise (a reference count in each resolver) is module ResolverPool.    *)
(***************************************************************************)
CONSTANTS Resolver,     \* cells of the heap a resolver object can occupy
          Pool          \* the OpenNICResolverPool objects

VARIABLES allocated,    \* the cells that hold an object
          members       \* the cells each pool points to

vars == <<allocated, members>>

Held == UNION {members[p] : p \in Pool}

Init == /\ allocated = {}
        /\ members = [p \in Pool |-> {}]

Allocate(r) == /\ r \notin allocated
               /\ allocated' = allocated \cup {r}
               /\ \/ members' = members
                  \/ \E p \in Pool : members' = [members EXCEPT ![p] = @ \cup {r}]

Share(p, r) == /\ r \in Held
               /\ members' = [members EXCEPT ![p] = @ \cup {r}]
               /\ UNCHANGED allocated

Drop(p) == /\ members' = [members EXCEPT ![p] = {}]
           /\ UNCHANGED allocated

Free(r) == /\ r \in allocated \ Held
           /\ allocated' = allocated \ {r}
           /\ UNCHANGED members

Next == \/ \E r \in Resolver : Allocate(r) \/ Free(r)
        \/ \E p \in Pool : Drop(p) \/ \E r \in Resolver : Share(p, r)

Spec == Init /\ [][Next]_vars
=============================================================================
