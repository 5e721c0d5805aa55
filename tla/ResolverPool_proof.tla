------------------------- MODULE ResolverPool_proof -------------------------
(***************************************************************************)
(* Theorems about ResolverPool for every heap, every set of pools and      *)
(* every bound of the counts.  The inductive invariant Inv joins the four  *)
(* facts: the type, the distinct addresses (so a destructor takes at most  *)
(* one reference from a resolver), the counts (so a resolver that a        *)
(* destructor dooms is in no other pool) and the absence of dangling       *)
(* pointers (so the deferred delete touches no pool).                      *)
(***************************************************************************)
EXTENDS ResolverPool, FiniteSetTheorems, SequenceTheorems, TLAPS

Inv == TypeOK /\ DistinctHosts /\ NoDanglingPointer /\ RefCountCoversHolders

(* A rearrangement is a list of the same resolvers, each as often.         *)
LEMMA RearrangementFacts ==
    ASSUME NEW s \in Seq(Resolver), NEW t \in Rearrangements(s)
    PROVE  /\ t \in Seq(Resolver)
           /\ Len(t) = Len(s)
           /\ Elements(t) = Elements(s)
           /\ \E f \in Bijections(1 .. Len(s)) :
                 \A i \in 1 .. Len(s) : t[i] = s[f[i]]
<1>1. PICK f \in Bijections(1 .. Len(s)) : t = [i \in 1 .. Len(s) |-> s[f[i]]]
      BY DEF Rearrangements
<1>2. Len(s) \in Nat /\ f \in [1 .. Len(s) -> 1 .. Len(s)]
      BY DEF Bijections
<1>3. t \in Seq(Resolver) /\ Len(t) = Len(s)
      BY <1>1, <1>2
<1>4. \A i \in 1 .. Len(s) : t[i] = s[f[i]]
      BY <1>1
<1>5. \A j \in 1 .. Len(s) : \E i \in 1 .. Len(s) : f[i] = j
      BY DEF Bijections
<1>6. Elements(t) \subseteq Elements(s)
  <2>. SUFFICES ASSUME NEW i \in 1 .. Len(s) PROVE t[i] \in Elements(s)
       BY <1>3 DEF Elements
  <2>1. f[i] \in 1 .. Len(s)
        BY <1>2
  <2>2. t[i] = s[f[i]]
        BY <1>4
  <2>. QED  BY <2>1, <2>2 DEF Elements
<1>7. Elements(s) \subseteq Elements(t)
  <2>. SUFFICES ASSUME NEW j \in 1 .. Len(s) PROVE s[j] \in Elements(t)
       BY DEF Elements
  <2>1. PICK i \in 1 .. Len(s) : f[i] = j
        BY <1>5
  <2>2. t[i] = s[j]
        BY <1>4, <2>1
  <2>. QED  BY <1>3, <2>2 DEF Elements
<1>. QED  BY <1>3, <1>4, <1>6, <1>7

(* Appending adds one element, at the end. *)
LEMMA AppendFacts ==
    ASSUME NEW s \in Seq(Resolver), NEW r \in Resolver
    PROVE  /\ Append(s, r) \in Seq(Resolver)
           /\ Len(Append(s, r)) = Len(s) + 1
           /\ \A i \in 1 .. Len(s) : Append(s, r)[i] = s[i]
           /\ Append(s, r)[Len(s) + 1] = r
           /\ Elements(Append(s, r)) = Elements(s) \cup {r}
<1>1. /\ Append(s, r) \in Seq(Resolver)
      /\ Len(Append(s, r)) = Len(s) + 1
      /\ \A i \in 1 .. Len(s) : Append(s, r)[i] = s[i]
      /\ Append(s, r)[Len(s) + 1] = r
      BY AppendProperties
<1>2. ASSUME NEW x \in Elements(Append(s, r)) PROVE x \in Elements(s) \cup {r}
  <2>1. PICK i \in 1 .. Len(s) + 1 : x = Append(s, r)[i]
        BY <1>1 DEF Elements
  <2>2. CASE i \in 1 .. Len(s)
        BY <1>1, <2>1, <2>2 DEF Elements
  <2>3. CASE i = Len(s) + 1
        BY <1>1, <2>1, <2>3
  <2>. QED  BY <2>2, <2>3, LenProperties
<1>3. Elements(s) \subseteq Elements(Append(s, r))
  <2>. SUFFICES ASSUME NEW i \in 1 .. Len(s)
                PROVE  s[i] \in Elements(Append(s, r))
       BY DEF Elements
  <2>1. i \in 1 .. Len(s) + 1
        BY LenProperties
  <2>. QED  BY <1>1, <2>1 DEF Elements
<1>4. r \in Elements(Append(s, r))
  <2>1. Len(s) + 1 \in 1 .. Len(s) + 1
        BY LenProperties
  <2>. QED  BY <1>1, <2>1 DEF Elements
<1>. QED  BY <1>1, <1>2, <1>3, <1>4

(* In a list of distinct addresses a resolver occurs once or not at all.   *)
LEMMA OccurrencesFacts ==
    ASSUME Inv, NEW p \in Pool, NEW r \in Resolver
    PROVE  Occurrences(mResolvers[p], r) =
               IF r \in Elements(mResolvers[p]) THEN 1 ELSE 0
<1>. DEFINE s == mResolvers[p]
            I == {i \in 1 .. Len(s) : s[i] = r}
<1>1. CASE r \in Elements(s)
  <2>1. PICK i \in 1 .. Len(s) : s[i] = r
        BY <1>1 DEF Elements
  <2>2. I = {i}
        BY <2>1 DEF Inv, DistinctHosts
  <2>. QED  BY <1>1, <2>2, FS_Singleton DEF Occurrences
<1>2. CASE r \notin Elements(s)
  <2>1. I = {}
        BY <1>2 DEF Elements
  <2>. QED  BY <1>2, <2>1, FS_EmptySet DEF Occurrences
<1>. QED  BY <1>1, <1>2

(* The pools that hold a resolver are counted by a number. *)
LEMMA HoldersFinite ==
    ASSUME NEW r \in Resolver
    PROVE  IsFiniteSet(Holders(r)) /\ Cardinality(Holders(r)) \in Nat
BY PoolAssumption, FS_Subset, FS_CardinalityType DEF Holders

(* A step that gives pools nothing new and no count a lower value keeps    *)
(* the counts above the number of holders.                                 *)
LEMMA FewerHolders ==
    ASSUME Inv, NEW r \in Resolver,
           Holders(r)' \subseteq Holders(r),
           refCount'[r] = refCount[r]
    PROVE  refCount'[r] >= Cardinality(Holders(r)')
<1>1. Cardinality(Holders(r)') <= Cardinality(Holders(r))
      BY HoldersFinite, FS_Subset
<1>2. IsFiniteSet(Holders(r)') /\ Cardinality(Holders(r)') \in Nat
      BY HoldersFinite, FS_Subset, FS_CardinalityType
<1>. QED  BY <1>1, <1>2, HoldersFinite DEF Inv, RefCountCoversHolders, TypeOK

(* The initial state: nothing is allocated, nothing is held. *)
LEMMA InitInv == Init => Inv
<1>. SUFFICES ASSUME Init PROVE Inv
     OBVIOUS
<1>1. TypeOK
      BY EmptySeq DEF Init, TypeOK
<1>2. \A p \in Pool : Len(mResolvers[p]) = 0 /\ Elements(mResolvers[p]) = {}
      BY EmptySeq DEF Init, Elements
<1>3. \A r \in Resolver : Holders(r) = {}
      BY <1>2 DEF Holders
<1>4. \A r \in Resolver : Cardinality(Holders(r)) = 0
      BY <1>3, FS_EmptySet
<1>5. RefCountCoversHolders
      BY <1>4 DEF RefCountCoversHolders, Init
<1>. QED  BY <1>1, <1>2, <1>5 DEF Inv, DistinctHosts, NoDanglingPointer

(* Emptying a list takes it out of the holders and disturbs no address. *)
LEMMA ClearInv ==
    ASSUME Inv, NEW p \in Pool, Clear(p)
    PROVE  Inv'
<1>. USE DEF Inv, Clear
<1>1. TypeOK'
      BY EmptySeq DEF TypeOK
<1>2. \A q \in Pool : \/ q = p /\ mResolvers'[q] = <<>>
                      \/ mResolvers'[q] = mResolvers[q]
      BY DEF TypeOK
<1>3. Len(mResolvers'[p]) = 0 /\ Elements(mResolvers[p])' = {}
      BY <1>1, EmptySeq DEF TypeOK, Elements
<1>4. DistinctHosts'
      BY <1>2, <1>3 DEF DistinctHosts
<1>5. NoDanglingPointer'
      BY <1>2, <1>3 DEF NoDanglingPointer, Elements
<1>6. \A r \in Resolver : Holders(r)' \subseteq Holders(r)
      BY <1>2, <1>3 DEF Holders, Elements
<1>7. RefCountCoversHolders'
      BY <1>6, FewerHolders DEF RefCountCoversHolders
<1>. QED  BY <1>1, <1>4, <1>5, <1>7

(* sort() and randomize() keep every pointer and its single occurrence. *)
LEMMA ReorderInv ==
    ASSUME Inv, NEW p \in Pool, Reorder(p)
    PROVE  Inv'
<1>. USE DEF Inv
<1>1. PICK s \in Rearrangements(mResolvers[p]) :
          mResolvers' = [mResolvers EXCEPT ![p] = s]
      BY DEF Reorder
<1>2. UNCHANGED <<life, hostAddress, refCount>>
      BY DEF Reorder
<1>3. mResolvers[p] \in Seq(Resolver)
      BY DEF TypeOK
<1>4. /\ s \in Seq(Resolver)
      /\ Len(s) = Len(mResolvers[p])
      /\ Elements(s) = Elements(mResolvers[p])
      BY <1>3, RearrangementFacts
<1>5. PICK f \in Bijections(1 .. Len(mResolvers[p])) :
          \A i \in 1 .. Len(mResolvers[p]) : s[i] = mResolvers[p][f[i]]
      BY <1>3, RearrangementFacts
<1>6. TypeOK'
      BY <1>1, <1>2, <1>4 DEF TypeOK
<1>7. /\ mResolvers'[p] = s
      /\ \A q \in Pool : q # p => mResolvers'[q] = mResolvers[q]
      BY <1>1 DEF TypeOK
<1>8. \A q \in Pool : Elements(mResolvers[q])' = Elements(mResolvers[q])
  <2>. TAKE q \in Pool
  <2>1. CASE q = p
    <3>1. Elements(mResolvers[p])' = Elements(s)
          BY <1>7 DEF Elements
    <3>. QED  BY <1>4, <2>1, <3>1
  <2>2. CASE q # p
        BY <1>7, <2>2 DEF Elements
  <2>. QED  BY <2>1, <2>2
<1>9. DistinctHosts'
  <2>1. ASSUME NEW i \in 1 .. Len(s), NEW j \in 1 .. Len(s), i # j
        PROVE  hostAddress[s[i]] # hostAddress[s[j]]
    <3>. DEFINE N == Len(mResolvers[p])
    <3>1. i \in 1 .. N /\ j \in 1 .. N
          BY <1>4
    <3>2. f[i] \in 1 .. N /\ f[j] \in 1 .. N /\ f[i] # f[j]
          BY <2>1, <3>1 DEF Bijections
    <3>3. hostAddress[mResolvers[p][f[i]]] # hostAddress[mResolvers[p][f[j]]]
          BY <3>2 DEF DistinctHosts
    <3>. QED  BY <1>5, <3>1, <3>3
  <2>. QED  BY <1>2, <1>7, <2>1 DEF DistinctHosts
<1>10. NoDanglingPointer'
       BY <1>2, <1>8 DEF NoDanglingPointer
<1>11. \A r \in Resolver : Holders(r)' = Holders(r)
       BY <1>8 DEF Holders
<1>12. RefCountCoversHolders'
       BY <1>2, <1>11 DEF RefCountCoversHolders
<1>. QED  BY <1>6, <1>9, <1>10, <1>12

(* The deferred delete runs for a doomed resolver, which is in no pool. *)
LEMMA DeferredDeleteInv ==
    ASSUME Inv, NEW d \in Resolver, DeferredDelete(d)
    PROVE  Inv'
<1>. USE DEF Inv, DeferredDelete
<1>1. TypeOK'
      BY DEF TypeOK
<1>2. DistinctHosts'
      BY DEF DistinctHosts
<1>3. NoDanglingPointer'
      BY DEF NoDanglingPointer, TypeOK
<1>4. \A r \in Resolver : Holders(r)' = Holders(r)
      BY DEF Holders
<1>5. RefCountCoversHolders'
      BY <1>4 DEF RefCountCoversHolders
<1>. QED  BY <1>1, <1>2, <1>3, <1>5

(* A destructor takes one reference from each resolver of its list: one    *)
(* whose count drops to zero has no other holder.                          *)
LEMMA DestroyInv ==
    ASSUME Inv, NEW p \in Pool, Destroy(p)
    PROVE  Inv'
<1>. USE DEF Inv
<1>1. /\ hostAddress' = hostAddress
      /\ mResolvers' = [mResolvers EXCEPT ![p] = <<>>]
      BY DEF Destroy
<1>2. \A r \in Resolver :
          refCount'[r] = IF r \in Elements(mResolvers[p])
                         THEN refCount[r] - 1 ELSE refCount[r]
  <2>. TAKE r \in Resolver
  <2>1. refCount'[r] = refCount[r] - Occurrences(mResolvers[p], r)
        BY DEF Destroy
  <2>2. refCount[r] \in Int
        BY DEF TypeOK
  <2>. QED  BY <2>1, <2>2, OccurrencesFacts
<1>3. TypeOK'
  <2>1. refCount' \in [Resolver -> Int]
    <3>1. \A r \in Resolver : refCount'[r] \in Int
          BY <1>2 DEF TypeOK
    <3>. QED  BY <3>1 DEF Destroy
  <2>2. life' \in [Resolver -> {"free", "live", "doomed"}]
        BY DEF Destroy, TypeOK
  <2>. QED  BY <1>1, <2>1, <2>2, EmptySeq DEF TypeOK
<1>4. \A q \in Pool : \/ q = p /\ mResolvers'[q] = <<>>
                      \/ q # p /\ mResolvers'[q] = mResolvers[q]
      BY <1>1 DEF TypeOK
<1>5. mResolvers'[p] = <<>> /\ Len(mResolvers'[p]) = 0 /\ Elements(mResolvers[p])' = {}
      BY <1>3, <1>4, EmptySeq DEF TypeOK, Elements
<1>6. DistinctHosts'
      BY <1>1, <1>4, <1>5 DEF DistinctHosts
<1>7. \A r \in Resolver : Holders(r)' = Holders(r) \ {p}
      BY <1>4, <1>5 DEF Holders, Elements
<1>8. RefCountCoversHolders'
  <2>. SUFFICES ASSUME NEW r \in Resolver
                PROVE  refCount'[r] >= Cardinality(Holders(r)')
       BY DEF RefCountCoversHolders
  <2>1. Cardinality(Holders(r)') = IF p \in Holders(r)
                                   THEN Cardinality(Holders(r)) - 1
                                   ELSE Cardinality(Holders(r))
        BY <1>7, HoldersFinite, FS_RemoveElement
  <2>2. p \in Holders(r) <=> r \in Elements(mResolvers[p])
        BY DEF Holders
  <2>3. refCount[r] \in Int /\ refCount[r] >= Cardinality(Holders(r))
        BY DEF RefCountCoversHolders, TypeOK
  <2>. QED  BY <1>2, <2>1, <2>2, <2>3, HoldersFinite
<1>9. NoDanglingPointer'
  <2>. SUFFICES ASSUME NEW q \in Pool, NEW r \in Elements(mResolvers[q])'
                PROVE  life'[r] = "live"
       BY DEF NoDanglingPointer
  <2>1. q # p /\ r \in Elements(mResolvers[q])
        BY <1>4, <1>5 DEF Elements
  <2>2. r \in Resolver /\ life[r] = "live"
    <3>1. mResolvers[q] \in Seq(Resolver)
          BY DEF TypeOK
    <3>. QED  BY <2>1, <3>1, ElementOfSeq DEF NoDanglingPointer, Elements
  <2>3. q \in Holders(r)'
        BY <1>7, <2>1, <2>2 DEF Holders
  <2>4. Cardinality(Holders(r)') > 0
    <3>1. IsFiniteSet(Holders(r)')
          BY <1>7, <2>2, HoldersFinite, FS_RemoveElement
    <3>2. Cardinality(Holders(r)') # 0
          BY <2>3, <3>1, FS_EmptySet
    <3>. QED  BY <3>1, <3>2, FS_CardinalityType
  <2>5. refCount'[r] > 0
    <3>1. refCount'[r] >= Cardinality(Holders(r)')
          BY <1>8, <2>2 DEF RefCountCoversHolders
    <3>2. refCount'[r] \in Int /\ Cardinality(Holders(r)') \in Int
      <4>1. IsFiniteSet(Holders(r)')
            BY <1>7, <2>2, HoldersFinite, FS_RemoveElement
      <4>. QED  BY <1>3, <2>2, <4>1, FS_CardinalityType DEF TypeOK
    <3>. QED  BY <2>4, <3>1, <3>2
  <2>6. life'[r] = IF r \in Elements(mResolvers[p]) /\ refCount'[r] <= 0
                   THEN "doomed" ELSE life[r]
        BY <2>2 DEF Destroy
  <2>7. refCount'[r] \in Int
        BY <1>3, <2>2 DEF TypeOK
  <2>. QED  BY <2>2, <2>5, <2>6, <2>7
<1>. QED  BY <1>3, <1>6, <1>8, <1>9

(* append() of a resolver some pool holds: it is live, its count is at     *)
(* least one, so decRef() of a duplicate never dooms it.                   *)
LEMMA AppendSharedInv ==
    ASSUME Inv, NEW p \in Pool, NEW r \in Resolver, AppendShared(p, r)
    PROVE  Inv'
<1>. USE DEF Inv
<1>1. life[r] = "live" /\ refCount[r] \in Int /\ refCount[r] > 0
  <2>1. life[r] = "live"
        BY DEF AppendShared, Holders, NoDanglingPointer
  <2>2. Cardinality(Holders(r)) # 0
        BY HoldersFinite, FS_EmptySet DEF AppendShared
  <2>. QED  BY <2>1, <2>2, HoldersFinite DEF RefCountCoversHolders, TypeOK
<1>2. UNCHANGED hostAddress
      BY DEF AppendShared
<1>3. CASE contains(p, hostAddress[r])
  <2>1. UNCHANGED <<life, refCount, mResolvers>>
        BY <1>1, <1>3 DEF AppendShared, TypeOK
  <2>2. TypeOK' /\ DistinctHosts' /\ NoDanglingPointer'
        BY <1>2, <2>1 DEF TypeOK, DistinctHosts, NoDanglingPointer, Elements
  <2>3. \A q \in Resolver : Holders(q)' = Holders(q)
        BY <2>1 DEF Holders
  <2>4. RefCountCoversHolders'
        BY <2>1, <2>3 DEF RefCountCoversHolders
  <2>. QED  BY <2>2, <2>4
<1>4. CASE ~ contains(p, hostAddress[r])
  <2>. DEFINE s == Append(mResolvers[p], r)
  <2>1. /\ refCount' = [refCount EXCEPT ![r] = @ + 1]
        /\ mResolvers' = [mResolvers EXCEPT ![p] = s]
        /\ UNCHANGED life
        BY <1>4 DEF AppendShared
  <2>2. mResolvers[p] \in Seq(Resolver)
        BY DEF TypeOK
  <2>3. /\ s \in Seq(Resolver)
        /\ Len(s) = Len(mResolvers[p]) + 1
        /\ \A i \in 1 .. Len(mResolvers[p]) : s[i] = mResolvers[p][i]
        /\ s[Len(mResolvers[p]) + 1] = r
        /\ Elements(s) = Elements(mResolvers[p]) \cup {r}
        BY <2>2, AppendFacts
  <2>. HIDE DEF s
  <2>4. TypeOK'
        BY <1>1, <1>2, <2>1, <2>3 DEF TypeOK
  <2>5. /\ mResolvers'[p] = s
        /\ \A q \in Pool : q # p => mResolvers'[q] = mResolvers[q]
        BY <2>1 DEF TypeOK
  <2>6. /\ Elements(mResolvers[p])' = Elements(mResolvers[p]) \cup {r}
        /\ \A q \in Pool : q # p => Elements(mResolvers[q])' = Elements(mResolvers[q])
    <3>1. Elements(mResolvers[p])' = Elements(s)
          BY <2>5 DEF Elements
    <3>. QED  BY <2>3, <2>5, <3>1 DEF Elements
  <2>7. DistinctHosts'
    <3>1. ASSUME NEW i \in 1 .. Len(s), NEW j \in 1 .. Len(s), i # j
          PROVE  hostAddress[s[i]] # hostAddress[s[j]]
      <4>. DEFINE N == Len(mResolvers[p])
      <4>1. N \in Nat /\ Len(s) = N + 1
            BY <2>2, <2>3
      <4>2. \A k \in 1 .. N : hostAddress[mResolvers[p][k]] # hostAddress[r]
            BY <1>4 DEF contains, Elements
      <4>3. CASE i \in 1 .. N /\ j \in 1 .. N
            BY <2>3, <3>1, <4>3 DEF DistinctHosts
      <4>4. CASE i = N + 1 /\ j \in 1 .. N
            BY <2>3, <4>2, <4>4
      <4>5. CASE i \in 1 .. N /\ j = N + 1
            BY <2>3, <4>2, <4>5
      <4>. QED  BY <3>1, <4>1, <4>3, <4>4, <4>5
    <3>. QED  BY <1>2, <2>5, <3>1 DEF DistinctHosts
  <2>8. NoDanglingPointer'
    <3>. SUFFICES ASSUME NEW q \in Pool, NEW x \in Elements(mResolvers[q])'
                  PROVE  life'[x] = "live"
         BY DEF NoDanglingPointer
    <3>1. x = r \/ x \in Elements(mResolvers[q])
          BY <2>6
    <3>. QED  BY <1>1, <2>1, <3>1 DEF NoDanglingPointer
  <2>9. RefCountCoversHolders'
    <3>. SUFFICES ASSUME NEW q \in Resolver
                  PROVE  refCount'[q] >= Cardinality(Holders(q)')
         BY DEF RefCountCoversHolders
    <3>1. CASE q = r
      <4>1. Holders(r)' = Holders(r) \cup {p}
            BY <2>6 DEF Holders
      <4>2. Cardinality(Holders(r)') <= Cardinality(Holders(r)) + 1
        <5>1. Cardinality(Holders(r) \cup {p}) =
                  IF p \in Holders(r) THEN Cardinality(Holders(r))
                                      ELSE Cardinality(Holders(r)) + 1
              BY HoldersFinite, FS_AddElement
        <5>. QED  BY <4>1, <5>1, HoldersFinite
      <4>3. Cardinality(Holders(r)') \in Nat
            BY <4>1, HoldersFinite, FS_AddElement, FS_CardinalityType
      <4>4. refCount'[r] = refCount[r] + 1
            BY <2>1 DEF TypeOK
      <4>5. refCount[r] >= Cardinality(Holders(r))
            BY DEF RefCountCoversHolders
      <4>. QED  BY <1>1, <3>1, <4>2, <4>3, <4>4, <4>5, HoldersFinite
    <3>2. CASE q # r
      <4>1. Holders(q)' \subseteq Holders(q)
            BY <2>6, <3>2 DEF Holders
      <4>2. refCount'[q] = refCount[q]
            BY <2>1, <3>2 DEF TypeOK
      <4>. QED  BY <4>1, <4>2, FewerHolders
    <3>. QED  BY <3>1, <3>2
  <2>. QED  BY <2>4, <2>7, <2>8, <2>9
<1>. QED  BY <1>3, <1>4

(* fromIPList(): the new object occupies a free cell, which no pool points *)
(* to; it is inserted with one reference, or dropped with none.            *)
LEMMA InsortNewInv ==
    ASSUME Inv, NEW p \in Pool, NEW h \in Host, NEW r \in Resolver,
           InsortNew(p, h, r)
    PROVE  Inv'
<1>. USE DEF Inv
<1>1. Holders(r) = {}
      BY DEF InsortNew, Holders, NoDanglingPointer
<1>2. /\ hostAddress' = [hostAddress EXCEPT ![r] = h]
      /\ hostAddress' \in [Resolver -> Host]
      /\ \A x \in Resolver : x # r => hostAddress'[x] = hostAddress[x]
      /\ hostAddress'[r] = h
      BY DEF InsortNew, TypeOK
<1>3. \A q \in Pool : \A i \in 1 .. Len(mResolvers[q]) :
          /\ mResolvers[q][i] \in Resolver \ {r}
          /\ hostAddress'[mResolvers[q][i]] = hostAddress[mResolvers[q][i]]
  <2>. TAKE q \in Pool
  <2>. TAKE i \in 1 .. Len(mResolvers[q])
  <2>1. mResolvers[q] \in Seq(Resolver)
        BY DEF TypeOK
  <2>2. mResolvers[q][i] \in Resolver
        BY <2>1, ElementOfSeq
  <2>3. mResolvers[q][i] # r
        BY <1>1 DEF Holders, Elements
  <2>. QED  BY <1>2, <2>2, <2>3
<1>4. \A q \in Pool : \A i, j \in 1 .. Len(mResolvers[q]) :
          i # j => hostAddress'[mResolvers[q][i]] # hostAddress'[mResolvers[q][j]]
      BY <1>3 DEF DistinctHosts
<1>5. CASE contains(p, h)
  <2>1. /\ life' = [life EXCEPT ![r] = "doomed"]
        /\ refCount' = [refCount EXCEPT ![r] = 0]
        /\ UNCHANGED mResolvers
        BY <1>5 DEF InsortNew
  <2>2. TypeOK'
        BY <1>2, <2>1 DEF TypeOK
  <2>3. DistinctHosts'
        BY <1>4, <2>1 DEF DistinctHosts
  <2>4. NoDanglingPointer'
        BY <1>3, <2>1 DEF NoDanglingPointer, Elements, TypeOK
  <2>5. \A q \in Resolver : Holders(q)' = Holders(q)
        BY <2>1 DEF Holders
  <2>6. refCount'[r] >= Cardinality(Holders(r)')
    <3>1. Cardinality(Holders(r)') = 0
          BY <1>1, <2>5, FS_EmptySet
    <3>2. refCount'[r] = 0
          BY <2>1 DEF TypeOK
    <3>. QED  BY <3>1, <3>2
  <2>7. RefCountCoversHolders'
        BY <2>1, <2>5, <2>6 DEF RefCountCoversHolders, TypeOK
  <2>. QED  BY <2>2, <2>3, <2>4, <2>7
<1>6. CASE ~ contains(p, h)
  <2>. DEFINE N == Len(mResolvers[p])
              a == Append(mResolvers[p], r)
  <2>1. PICK s \in Rearrangements(a) : mResolvers' = [mResolvers EXCEPT ![p] = s]
        BY <1>6 DEF InsortNew
  <2>2. /\ life' = [life EXCEPT ![r] = "live"]
        /\ refCount' = [refCount EXCEPT ![r] = 1]
        BY <1>6 DEF InsortNew
  <2>3. mResolvers[p] \in Seq(Resolver) /\ N \in Nat
        BY LenProperties DEF TypeOK
  <2>4. /\ a \in Seq(Resolver)
        /\ Len(a) = N + 1
        /\ \A i \in 1 .. N : a[i] = mResolvers[p][i]
        /\ a[N + 1] = r
        /\ Elements(a) = Elements(mResolvers[p]) \cup {r}
        BY <2>3, AppendFacts
  <2>. HIDE DEF a
  <2>5. /\ s \in Seq(Resolver)
        /\ Len(s) = N + 1
        /\ Elements(s) = Elements(mResolvers[p]) \cup {r}
        BY <2>4, RearrangementFacts
  <2>6. PICK f \in Bijections(1 .. N + 1) : \A i \in 1 .. N + 1 : s[i] = a[f[i]]
        BY <2>4, RearrangementFacts
  <2>7. TypeOK'
        BY <1>2, <2>1, <2>2, <2>5 DEF TypeOK
  <2>8. /\ mResolvers'[p] = s
        /\ \A q \in Pool : q # p => mResolvers'[q] = mResolvers[q]
        BY <2>1 DEF TypeOK
  <2>9. /\ Elements(mResolvers[p])' = Elements(mResolvers[p]) \cup {r}
        /\ \A q \in Pool : q # p => Elements(mResolvers[q])' = Elements(mResolvers[q])
    <3>1. Elements(mResolvers[p])' = Elements(s)
          BY <2>8 DEF Elements
    <3>2. \A q \in Pool : q # p => Elements(mResolvers[q])' = Elements(mResolvers[q])
          BY <2>8 DEF Elements
    <3>. QED  BY <2>5, <3>1, <3>2
  <2>10. DistinctHosts'
    <3>1. \A k \in 1 .. N : hostAddress'[a[k]] # h
          BY <1>3, <1>6, <2>4 DEF contains, Elements
    <3>2. ASSUME NEW k \in 1 .. N + 1, NEW m \in 1 .. N + 1, k # m
          PROVE  hostAddress'[a[k]] # hostAddress'[a[m]]
      <4>1. CASE k \in 1 .. N /\ m \in 1 .. N
            BY <1>4, <2>4, <3>2, <4>1
      <4>2. CASE k = N + 1 /\ m \in 1 .. N
            BY <1>2, <2>4, <3>1, <4>2
      <4>3. CASE k \in 1 .. N /\ m = N + 1
            BY <1>2, <2>4, <3>1, <4>3
      <4>. QED  BY <2>3, <3>2, <4>1, <4>2, <4>3
    <3>3. ASSUME NEW i \in 1 .. Len(s), NEW j \in 1 .. Len(s), i # j
          PROVE  hostAddress'[s[i]] # hostAddress'[s[j]]
      <4>1. i \in 1 .. N + 1 /\ j \in 1 .. N + 1
            BY <2>5
      <4>2. f[i] \in 1 .. N + 1 /\ f[j] \in 1 .. N + 1 /\ f[i] # f[j]
            BY <3>3, <4>1 DEF Bijections
      <4>. QED  BY <2>6, <3>2, <4>1, <4>2
    <3>. QED  BY <1>4, <2>8, <3>3 DEF DistinctHosts
  <2>11. NoDanglingPointer'
    <3>. SUFFICES ASSUME NEW q \in Pool, NEW x \in Elements(mResolvers[q])'
                  PROVE  life'[x] = "live"
         BY DEF NoDanglingPointer
    <3>1. x = r \/ x \in Elements(mResolvers[q])
          BY <2>9
    <3>2. CASE x = r
          BY <2>2, <3>2 DEF TypeOK
    <3>3. CASE x # r /\ x \in Elements(mResolvers[q])
          BY <1>3, <2>2, <3>3 DEF NoDanglingPointer, Elements, TypeOK
    <3>. QED  BY <3>1, <3>2, <3>3
  <2>12. RefCountCoversHolders'
    <3>. SUFFICES ASSUME NEW q \in Resolver
                  PROVE  refCount'[q] >= Cardinality(Holders(q)')
         BY DEF RefCountCoversHolders
    <3>1. CASE q = r
      <4>1. Holders(r)' = {p}
            BY <1>1, <2>9 DEF Holders
      <4>2. Cardinality(Holders(r)') = 1
            BY <4>1, FS_Singleton
      <4>3. refCount'[r] = 1
            BY <2>2 DEF TypeOK
      <4>. QED  BY <3>1, <4>2, <4>3
    <3>2. CASE q # r
      <4>1. Holders(q)' \subseteq Holders(q)
            BY <2>9, <3>2 DEF Holders
      <4>2. refCount'[q] = refCount[q]
            BY <2>2, <3>2 DEF TypeOK
      <4>. QED  BY <4>1, <4>2, FewerHolders
    <3>. QED  BY <3>1, <3>2
  <2>. QED  BY <2>7, <2>10, <2>11, <2>12
<1>. QED  BY <1>5, <1>6

LEMMA InductiveStep == Inv /\ [Next]_vars => Inv'
<1>. SUFFICES ASSUME Inv, [Next]_vars PROVE Inv'
     OBVIOUS
<1>1. ASSUME NEW p \in Pool, Clear(p) PROVE Inv'
      BY <1>1, ClearInv
<1>2. ASSUME NEW p \in Pool, Destroy(p) PROVE Inv'
      BY <1>2, DestroyInv
<1>3. ASSUME NEW p \in Pool, Reorder(p) PROVE Inv'
      BY <1>3, ReorderInv
<1>4. ASSUME NEW p \in Pool, NEW r \in Resolver, AppendShared(p, r) PROVE Inv'
      BY <1>4, AppendSharedInv
<1>5. ASSUME NEW p \in Pool, NEW r \in Resolver, NEW h \in Host, InsortNew(p, h, r)
      PROVE  Inv'
      BY <1>5, InsortNewInv
<1>6. ASSUME NEW r \in Resolver, DeferredDelete(r) PROVE Inv'
      BY <1>6, DeferredDeleteInv
<1>7. CASE UNCHANGED vars
      BY <1>7 DEF Inv, TypeOK, DistinctHosts, NoDanglingPointer,
                  RefCountCoversHolders, Holders, Elements, vars
<1>. QED  BY <1>1, <1>2, <1>3, <1>4, <1>5, <1>6, <1>7 DEF Next

(* The inductive invariant holds in every reachable state. *)
LEMMA Invariance == Spec => []Inv
BY InitInv, InductiveStep, PTL DEF Spec

(* Every count, address, list and life stays in its type. *)
THEOREM TypeCorrectness == Spec => []TypeOK
<1>1. Inv => TypeOK
      BY DEF Inv
<1>. QED  BY Invariance, <1>1, PTL

(* No pool ever points to a resolver that is doomed or deleted, for any    *)
(* number of resolvers and pools: at() and sort() never read freed memory. *)
THEOREM MemorySafety == Spec => []NoDanglingPointer
<1>1. Inv => NoDanglingPointer
      BY DEF Inv
<1>. QED  BY Invariance, <1>1, PTL

(* The reference count of a resolver never falls below its pools.          *)
THEOREM CountsCoverHolders == Spec => []RefCountCoversHolders
<1>1. Inv => RefCountCoversHolders
      BY DEF Inv
<1>. QED  BY Invariance, <1>1, PTL

(* A pool never holds two resolvers of the same address. *)
THEOREM AddressesDistinct == Spec => []DistinctHosts
<1>1. Inv => DistinctHosts
      BY DEF Inv
<1>. QED  BY Invariance, <1>1, PTL

-----------------------------------------------------------------------------
(* The refinement: a list is read as the set of its elements, and a cell   *)
(* is allocated until the deferred delete has run.                         *)
alloc == {r \in Resolver : life[r] # "free"}
elems == [p \in Pool |-> Elements(mResolvers[p])]

(* How the list of one pool changes in a step, seen as sets. *)
LEMMA OneListChanges ==
    ASSUME TypeOK, NEW p \in Pool, NEW s \in Seq(Resolver),
           mResolvers' = [mResolvers EXCEPT ![p] = s]
    PROVE  elems' = [elems EXCEPT ![p] = Elements(s)]
<1>1. ASSUME NEW q \in Pool
      PROVE  Elements(mResolvers'[q]) = IF q = p THEN Elements(s)
                                                 ELSE Elements(mResolvers[q])
      BY DEF TypeOK
<1>2. elems' = [q \in Pool |-> Elements(mResolvers'[q])]
      BY DEF elems, Elements
<1>. QED  BY <1>1, <1>2 DEF elems

LEMMA RefinementInit == Init => Ownership!Init
<1>. SUFFICES ASSUME Init PROVE Ownership!Init
     OBVIOUS
<1>1. {r \in Resolver : life[r] # "free"} = {}
      BY DEF Init
<1>2. \A p \in Pool : Elements(mResolvers[p]) = {}
      BY EmptySeq DEF Init, Elements
<1>. QED  BY <1>1, <1>2 DEF Ownership!Init

LEMMA RefinementStep ==
    ASSUME Inv, Inv', [Next]_vars
    PROVE  [Ownership!Next]_(Ownership!vars)
<1>. USE DEF Inv
<1>. DEFINE Stutter == alloc' = alloc /\ elems' = elems
<1>1. ASSUME NEW p \in Pool, Clear(p) PROVE Ownership!Drop(p)
  <2>1. mResolvers' = [mResolvers EXCEPT ![p] = <<>>] /\ life' = life
        BY <1>1 DEF Clear
  <2>2. <<>> \in Seq(Resolver) /\ Elements(<<>>) = {}
        BY EmptySeq DEF Elements
  <2>3. elems' = [elems EXCEPT ![p] = {}]
        BY <2>1, <2>2, OneListChanges
  <2>. QED  BY <2>1, <2>3 DEF Ownership!Drop, elems
<1>2. ASSUME NEW p \in Pool, Destroy(p) PROVE Ownership!Drop(p)
  <2>1. mResolvers' = [mResolvers EXCEPT ![p] = <<>>]
        BY <1>2 DEF Destroy
  <2>2. <<>> \in Seq(Resolver) /\ Elements(<<>>) = {}
        BY EmptySeq DEF Elements
  <2>3. elems' = [elems EXCEPT ![p] = {}]
        BY <2>1, <2>2, OneListChanges
  <2>4. \A r \in Resolver : life'[r] = "free" <=> life[r] = "free"
        BY <1>2 DEF Destroy, NoDanglingPointer
  <2>5. alloc' = alloc
        BY <2>4 DEF alloc
  <2>. QED  BY <2>3, <2>5 DEF Ownership!Drop, elems, alloc
<1>3. ASSUME NEW p \in Pool, Reorder(p) PROVE Stutter
  <2>1. PICK s \in Rearrangements(mResolvers[p]) :
            mResolvers' = [mResolvers EXCEPT ![p] = s]
        BY <1>3 DEF Reorder
  <2>2. s \in Seq(Resolver) /\ Elements(s) = Elements(mResolvers[p])
        BY RearrangementFacts DEF TypeOK
  <2>3. elems' = [elems EXCEPT ![p] = Elements(mResolvers[p])]
        BY <2>1, <2>2, OneListChanges
  <2>4. elems' = elems
        BY <2>3 DEF elems
  <2>. QED  BY <1>3, <2>4 DEF Reorder, alloc
<1>4. ASSUME NEW p \in Pool, NEW r \in Resolver, AppendShared(p, r)
      PROVE  Stutter \/ Ownership!Share(p, r)
  <2>1. r \in UNION {elems[q] : q \in Pool}
        BY <1>4 DEF AppendShared, Holders, elems
  <2>2. life[r] = "live" /\ alloc' = alloc
        BY <1>4 DEF AppendShared, Holders, NoDanglingPointer, alloc, TypeOK
  <2>3. CASE contains(p, hostAddress[r])
        BY <1>4, <2>2, <2>3 DEF AppendShared, elems
  <2>4. CASE ~ contains(p, hostAddress[r])
    <3>1. mResolvers' = [mResolvers EXCEPT ![p] = Append(mResolvers[p], r)]
          BY <1>4, <2>4 DEF AppendShared
    <3>2. /\ Append(mResolvers[p], r) \in Seq(Resolver)
          /\ Elements(Append(mResolvers[p], r)) = Elements(mResolvers[p]) \cup {r}
          BY AppendFacts DEF TypeOK
    <3>3. elems' = [elems EXCEPT ![p] = Elements(mResolvers[p]) \cup {r}]
          BY <3>1, <3>2, OneListChanges
    <3>4. elems' = [elems EXCEPT ![p] = @ \cup {r}]
          BY <3>3 DEF elems
    <3>. QED  BY <2>1, <2>2, <3>4 DEF Ownership!Share, Ownership!Held, elems, alloc
  <2>. QED  BY <2>3, <2>4
<1>5. ASSUME NEW p \in Pool, NEW r \in Resolver, NEW h \in Host, InsortNew(p, h, r)
      PROVE  Ownership!Allocate(r)
  <2>1. r \notin alloc /\ alloc' = alloc \cup {r}
        BY <1>5 DEF InsortNew, alloc, TypeOK
  <2>2. CASE contains(p, h)
        BY <1>5, <2>1, <2>2 DEF InsortNew, Ownership!Allocate, elems, alloc
  <2>3. CASE ~ contains(p, h)
    <3>1. PICK s \in Rearrangements(Append(mResolvers[p], r)) :
              mResolvers' = [mResolvers EXCEPT ![p] = s]
          BY <1>5, <2>3 DEF InsortNew
    <3>2. /\ Append(mResolvers[p], r) \in Seq(Resolver)
          /\ Elements(Append(mResolvers[p], r)) = Elements(mResolvers[p]) \cup {r}
          BY AppendFacts DEF TypeOK
    <3>3. s \in Seq(Resolver) /\ Elements(s) = Elements(mResolvers[p]) \cup {r}
          BY <3>2, RearrangementFacts
    <3>4. elems' = [elems EXCEPT ![p] = Elements(mResolvers[p]) \cup {r}]
          BY <3>1, <3>3, OneListChanges
    <3>5. elems' = [elems EXCEPT ![p] = @ \cup {r}]
          BY <3>4 DEF elems
    <3>. QED  BY <2>1, <3>5 DEF Ownership!Allocate, elems, alloc
  <2>. QED  BY <2>2, <2>3
<1>6. ASSUME NEW r \in Resolver, DeferredDelete(r) PROVE Ownership!Free(r)
  <2>1. r \in alloc /\ alloc' = alloc \ {r} /\ elems' = elems
        BY <1>6 DEF DeferredDelete, alloc, elems, TypeOK
  <2>2. r \notin UNION {elems[q] : q \in Pool}
        BY <1>6 DEF DeferredDelete, NoDanglingPointer, elems
  <2>. QED  BY <2>1, <2>2 DEF Ownership!Free, Ownership!Held, elems, alloc
<1>7. UNCHANGED vars => Stutter
      BY DEF vars, alloc, elems, Elements
<1>8. Stutter => UNCHANGED Ownership!vars
      BY DEF Ownership!vars, alloc, elems
<1>. HIDE DEF Stutter
<1>9. CASE Next
  <2>1. CASE \E p \in Pool : Clear(p) \/ Destroy(p) \/ Reorder(p)
        BY <1>1, <1>2, <1>3, <1>8, <2>1 DEF Ownership!Next
  <2>2. CASE \E p \in Pool, r \in Resolver : AppendShared(p, r)
        BY <1>4, <1>8, <2>2 DEF Ownership!Next
  <2>3. CASE \E p \in Pool, r \in Resolver, h \in Host : InsortNew(p, h, r)
        BY <1>5, <2>3 DEF Ownership!Next
  <2>4. CASE \E r \in Resolver : DeferredDelete(r)
        BY <1>6, <2>4 DEF Ownership!Next
  <2>. QED  BY <1>9, <2>1, <2>2, <2>3, <2>4 DEF Next
<1>10. CASE UNCHANGED vars
       BY <1>7, <1>8, <1>10 DEF Stutter
<1>. QED  BY <1>9, <1>10

(* The reference counts implement shared ownership for every heap and      *)
(* every set of pools.                                                     *)
THEOREM OwnershipRefinement == Spec => ImplementsOwnership
<1>1. Inv /\ Inv' /\ [Next]_vars => [Ownership!Next]_(Ownership!vars)
      BY RefinementStep
<1>. QED  BY RefinementInit, <1>1, Invariance, PTL DEF Spec, ImplementsOwnership, Ownership!Spec
=============================================================================
