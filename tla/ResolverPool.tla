---------------------------- MODULE ResolverPool ----------------------------
(***************************************************************************)
(* The resolver objects and the pools that point to them                   *)
(* (opennicresolverpool.cpp, the reference count of opennicresolver.cpp).  *)
(* A resolver is created on the heap by fromIPList(), is referred to by    *)
(* mResolverPool, by mResolverCache and by the pool "proposed" local to    *)
(* bootstrapResolvers() and updateDNS(), and is deleted by the event loop  *)
(* some time after its reference count has dropped to zero (deleteLater).  *)
(*                                                                         *)
(* Scores are left out: ownership does not depend on the order of a pool,  *)
(* so sort() and randomize() are any rearrangement.                        *)
(***************************************************************************)
EXTENDS Integers, Sequences, FiniteSets

CONSTANTS Resolver,    \* cells of the heap a resolver object can occupy
          Host,        \* IP addresses
          Pool,        \* the OpenNICResolverPool objects
          Local,       \* those that are local variables: destroyed at return
          MaxRef       \* bound of a reference count (it can grow for ever)

ASSUME PoolAssumption == /\ IsFiniteSet(Pool)
                         /\ Local \subseteq Pool
                         /\ MaxRef \in Nat

VARIABLES life,        \* "free", "live", or "doomed" by deleteLater()
          hostAddress, \* mHostAddress of the object in each cell
          refCount,    \* mRefCount of the object in each cell
          mResolvers   \* the list of each pool

vars == <<life, hostAddress, refCount, mResolvers>>

TypeOK == /\ life \in [Resolver -> {"free", "live", "doomed"}]
          /\ hostAddress \in [Resolver -> Host]
          /\ refCount \in [Resolver -> Int]
          /\ mResolvers \in [Pool -> Seq(Resolver)]

(* The resolvers a list points to, and how often it points to one. *)
Elements(s) == {s[i] : i \in 1 .. Len(s)}
Occurrences(s, r) == Cardinality({i \in 1 .. Len(s) : s[i] = r})

(* The pools that point to a resolver. *)
Holders(r) == {p \in Pool : r \in Elements(mResolvers[p])}

(* What sort() and randomize() may leave: both only swap positions. *)
Bijections(S) == {f \in [S -> S] : /\ \A i, j \in S : i # j => f[i] # f[j]
                                   /\ \A j \in S : \E i \in S : f[i] = j}
Rearrangements(s) ==
    {[i \in 1 .. Len(s) |-> s[f[i]]] : f \in Bijections(1 .. Len(s))}

contains(p, h) == \E r \in Elements(mResolvers[p]) : hostAddress[r] = h

Init == /\ life = [r \in Resolver |-> "free"]
        /\ hostAddress \in [Resolver -> Host]
        /\ refCount = [r \in Resolver |-> 0]
        /\ mResolvers = [p \in Pool |-> <<>>]

(* One address of fromIPList(): the new object is inserted and the pool    *)
(* sorted, or, when the address is in the pool, its count goes to one and  *)
(* back to zero and the object is left to the event loop to delete.        *)
InsortNew(p, h, r) ==
    /\ life[r] = "free"
    /\ MaxRef > 0
    /\ hostAddress' = [hostAddress EXCEPT ![r] = h]
    /\ IF contains(p, h)
       THEN /\ life' = [life EXCEPT ![r] = "doomed"]
            /\ refCount' = [refCount EXCEPT ![r] = 0]
            /\ UNCHANGED mResolvers
       ELSE /\ life' = [life EXCEPT ![r] = "live"]
            /\ refCount' = [refCount EXCEPT ![r] = 1]
            /\ \E s \in Rearrangements(Append(mResolvers[p], r)) :
                   mResolvers' = [mResolvers EXCEPT ![p] = s]

(* Mutant: the address is not looked up. *)
AppendShared_unchecked(p, r) ==
    /\ Holders(r) # {}
    /\ refCount[r] < MaxRef
    /\ refCount' = [refCount EXCEPT ![r] = @ + 1]
    /\ mResolvers' = [mResolvers EXCEPT ![p] = Append(@, r)]
    /\ UNCHANGED <<life, hostAddress>>

(* Mutant: the count is not taken. *)
AppendShared_uncounted(p, r) ==
    /\ Holders(r) # {}
    /\ ~ contains(p, hostAddress[r])
    /\ mResolvers' = [mResolvers EXCEPT ![p] = Append(@, r)]
    /\ UNCHANGED <<life, refCount, hostAddress>>

(* append(resolver) of a resolver found in a pool. The count is taken      *)
(* before the address is looked up and given back, with decRef(), when the *)
(* address is already in this pool.                                        *)
AppendShared(p, r) ==
    /\ Holders(r) # {}
    /\ refCount[r] < MaxRef
    /\ IF contains(p, hostAddress[r])
       THEN /\ life' = [life EXCEPT ![r] = IF refCount[r] <= 0 THEN "doomed" ELSE @]
            /\ UNCHANGED <<refCount, mResolvers>>
       ELSE /\ refCount' = [refCount EXCEPT ![r] = @ + 1]
            /\ mResolvers' = [mResolvers EXCEPT ![p] = Append(@, r)]
            /\ UNCHANGED life
    /\ UNCHANGED hostAddress

(* clear() empties the list and leaves the counts as they are. *)
Clear(p) ==
    /\ mResolvers' = [mResolvers EXCEPT ![p] = <<>>]
    /\ UNCHANGED <<life, hostAddress, refCount>>

(* Mutant: the destructor deletes its resolvers whatever their counts. *)
Destroy_deletesAll(p) ==
    /\ p \in Local
    /\ life' = [r \in Resolver |->
                  IF r \in Elements(mResolvers[p]) THEN "doomed" ELSE life[r]]
    /\ mResolvers' = [mResolvers EXCEPT ![p] = <<>>]
    /\ UNCHANGED <<refCount, hostAddress>>

(* The destructor, at the return of the function that owns a local pool:   *)
(* decRef() of every entry; a count that reaches zero dooms the resolver.  *)
Destroy(p) ==
    /\ p \in Local
    /\ refCount' = [r \in Resolver |-> refCount[r] - Occurrences(mResolvers[p], r)]
    /\ life' = [r \in Resolver |->
                  IF r \in Elements(mResolvers[p]) /\ refCount'[r] <= 0
                  THEN "doomed" ELSE life[r]]
    /\ mResolvers' = [mResolvers EXCEPT ![p] = <<>>]
    /\ UNCHANGED hostAddress

(* sort() or randomize() of a pool. *)
Reorder(p) ==
    /\ \E s \in Rearrangements(mResolvers[p]) :
           mResolvers' = [mResolvers EXCEPT ![p] = s]
    /\ UNCHANGED <<life, hostAddress, refCount>>

(* The event loop runs the deferred delete: the cell can be used again. *)
DeferredDelete(r) ==
    /\ life[r] = "doomed"
    /\ life' = [life EXCEPT ![r] = "free"]
    /\ UNCHANGED <<hostAddress, refCount, mResolvers>>

Next == \/ \E p \in Pool : Clear(p) \/ Destroy(p) \/ Reorder(p)
        \/ \E p \in Pool, r \in Resolver : AppendShared(p, r)
        \/ \E p \in Pool, r \in Resolver, h \in Host : InsortNew(p, h, r)
        \/ \E r \in Resolver : DeferredDelete(r)

Spec == Init /\ [][Next]_vars

-----------------------------------------------------------------------------
(* No pool ever points to a resolver that deleteLater() has marked or the  *)
(* event loop has deleted: at(), contains() and sort() dereference every   *)
(* entry of the list without a check.                                      *)
NoDanglingPointer ==
    \A p \in Pool : \A r \in Elements(mResolvers[p]) : life[r] = "live"

(* The count of a resolver is never below the number of pools that point   *)
(* to it, whatever sequence of append(), clear() and destruction led here. *)
RefCountCoversHolders ==
    \A r \in Resolver : refCount[r] >= Cardinality(Holders(r))

(* A pool never holds two entries of the same address, even after lists of *)
(* addresses that repeat one and appends of resolvers of other pools: the  *)
(* candidates proposed to the O/S are distinct servers.                    *)
DistinctHosts ==
    \A p \in Pool : \A i, j \in 1 .. Len(mResolvers[p]) :
        i # j => hostAddress[mResolvers[p][i]] # hostAddress[mResolvers[p][j]]

(* The reference counts implement shared ownership: memory is given back   *)
(* only for a resolver no pool points to.                                  *)
Ownership == INSTANCE ResolverOwnership WITH
                 allocated <- {r \in Resolver : life[r] # "free"},
                 members <- [p \in Pool |-> Elements(mResolvers[p])]
ImplementsOwnership == Ownership!Spec
=============================================================================
