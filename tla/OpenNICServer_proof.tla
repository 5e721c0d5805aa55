------------------------- MODULE OpenNICServer_proof -------------------------
(***************************************************************************)
(* Theorems about OpenNICServer for every set of resolvers, every cache    *)
(* size, any number of outside events and writes that may fail.            *)
(*                                                                         *)
(* The inductive invariant IInv says when the cache may be out of step     *)
(* with its size: only while updateDNS() is the call about to run.  Every  *)
(* other call finds the cache full and leaves it so, which is what makes   *)
(* a resize harmless at any point of a cold boot.                          *)
(***************************************************************************)
EXTENDS OpenNICServer, FiniteSetTheorems, SequenceTheorems, TLAPS

Filled == Len(mResolverCache) = Minimum(mResolverCacheSize, Cardinality(mResolverPool))
AboutToUpdate == calls # <<>> /\ Head(calls) = "updateDNS"

IInv == TypeOK /\ CacheFromPool /\ (Filled \/ AboutToUpdate)

(* What updateDNS() and the cold boot propose: n distinct resolvers of the *)
(* pool, or as many as it has.                                             *)
LEMMA RankingsFacts ==
    ASSUME NEW pool, IsFiniteSet(pool), NEW n \in Nat, NEW s \in Rankings(pool, n)
    PROVE  /\ s \in Seq(pool)
           /\ Len(s) = Minimum(n, Cardinality(pool))
           /\ Elements(s) \subseteq pool
           /\ \A i, j \in DOMAIN s : i # j => s[i] # s[j]
<1>. DEFINE k == Minimum(n, Cardinality(pool))
<1>1. k \in Nat
      BY FS_CardinalityType DEF Minimum
<1>2. s \in [1 .. k -> pool] /\ \A i, j \in DOMAIN s : i # j => s[i] # s[j]
      BY DEF Rankings
<1>3. s \in Seq(pool)
      BY <1>1, <1>2, SeqDef
<1>4. Len(s) = k
      BY <1>1, <1>2, <1>3, LenProperties
<1>5. Elements(s) \subseteq pool
      BY <1>2, <1>4 DEF Elements
<1>. QED  BY <1>2, <1>3, <1>4, <1>5

(* The pool is always finite. *)
LEMMA PoolFinite ==
    ASSUME TypeOK
    PROVE  IsFiniteSet(Address) /\ IsFiniteSet(mResolverPool)
<1>1. IsFiniteSet(Address)
      BY ServerAssumption, FS_Union DEF Address
<1>. QED  BY <1>1, FS_Subset DEF TypeOK

(* A call that returns, leaving others, keeps the stack well-formed. *)
LEMMA ReturnType ==
    ASSUME calls \in Seq(Calls), calls # <<>>, NEW then \in Seq(Calls), Return(then)
    PROVE  calls' \in Seq(Calls)
BY HeadTailProperties, ConcatProperties DEF Return

(* Filling the cache from a pool with a ranking fills it. *)
LEMMA FillingFills ==
    ASSUME TypeOK', NEW s \in Rankings(mResolverPool', mResolverCacheSize'),
           mResolverCache' = s
    PROVE  CacheFromPool' /\ Filled'
<1>1. IsFiniteSet(mResolverPool') /\ mResolverCacheSize' \in Nat
      BY ServerAssumption, FS_Union, FS_Subset DEF Address, TypeOK
<1>2. /\ Len(s) = Minimum(mResolverCacheSize', Cardinality(mResolverPool'))
      /\ Elements(s) \subseteq mResolverPool'
      /\ \A i, j \in DOMAIN s : i # j => s[i] # s[j]
      BY <1>1, RankingsFacts
<1>. QED  BY <1>2 DEF CacheFromPool, Filled, Elements

(* A ranking of resolvers of the server is a list of addresses. *)
LEMMA RankingType ==
    ASSUME NEW pool, pool \subseteq Address, NEW n \in Nat, NEW s \in Rankings(pool, n)
    PROVE  s \in Seq(Address)
<1>1. IsFiniteSet(pool)
      BY ServerAssumption, FS_Union, FS_Subset DEF Address
<1>2. s \in Seq(pool)
      BY <1>1, RankingsFacts
<1>. QED  BY <1>2, SeqMonotonic

(* The initial state and every exit leave nothing to be out of step. *)
LEMMA EmptyIsFilled ==
    ASSUME mResolverPool = {}, mResolverCache = <<>>, mResolverCacheSize \in Nat
    PROVE  CacheFromPool /\ Filled
<1>1. Len(mResolverCache) = 0 /\ Elements(mResolverCache) = {} /\ DOMAIN mResolverCache = {}
      BY EmptySeq DEF Elements
<1>2. Cardinality(mResolverPool) = 0
      BY FS_EmptySet
<1>. QED  BY <1>1, <1>2 DEF CacheFromPool, Filled, Minimum

LEMMA InitIInv == Init => IInv
<1>. SUFFICES ASSUME Init PROVE IInv
     OBVIOUS
<1>1. calls \in Seq(Calls) /\ mResolverCache \in Seq(Address)
      BY EmptySeq DEF Init
<1>2. SystemTypeOK
      BY SystemAssumption, EmptySeq DEF Init, SystemInit, SystemTypeOK
<1>3. TypeOK
  <2>1. tries \in 0 .. T2Tries - 1 /\ disturbances \in 0 .. MaxDisturbances
        BY ServerAssumption DEF Init
  <2>2. mResolverPool \subseteq Address /\ dead \subseteq Address
        BY DEF Init
  <2>3. settings \in Settings /\ mResolverCacheSize \in Nat
        BY DEF Init
  <2>4. running = FALSE /\ mResolversInitialized \in BOOLEAN /\ mInColdBoot \in BOOLEAN
        BY DEF Init
  <2>. QED  BY <1>1, <1>2, <2>1, <2>2, <2>3, <2>4 DEF TypeOK
<1>4. CacheFromPool /\ Filled
      BY EmptyIsFilled DEF Init
<1>. QED  BY <1>3, <1>4 DEF IInv

-----------------------------------------------------------------------------
(* Type correctness, first of what the operating system side does. *)

LEMMA fileCopyType ==
    ASSUME NEW from \in Seq(Line), NEW to \in Seq(Line), NEW f \in fileCopy(from, to)
    PROVE  f \in Seq(Line)
<1>1. SubSeq(to, Len(from) + 1, Len(to)) \in Seq(Line)
  <2>1. Len(from) \in Nat /\ Len(to) \in Nat
        BY LenProperties
  <2>2. \A i \in Len(from) + 1 .. Len(to) : to[i] \in Line
        BY <2>1, ElementOfSeq
  <2>. QED  BY <2>1, <2>2, SubSeqProperties
<1>. QED  BY <1>1, ConcatProperties DEF fileCopy

LEMMA setEnabledType ==
    ASSUME SystemTypeOK, NEW enabled \in BOOLEAN, setEnabled(enabled)
    PROVE  SystemTypeOK'
<1>1. CASE enabled = mEnabled
      BY <1>1 DEF setEnabled, SystemTypeOK
<1>2. CASE enabled # mEnabled /\ enabled
      BY <1>2, fileCopyType DEF setEnabled, SystemTypeOK, startup
<1>3. CASE enabled # mEnabled /\ ~ enabled
      BY <1>3, fileCopyType DEF setEnabled, SystemTypeOK, shutdown
<1>. QED  BY <1>1, <1>2, <1>3

LEMMA replaceType ==
    ASSUME SystemTypeOK, NEW proposed \in Seq(Address), NEW applied \in BOOLEAN,
           replaceActiveResolvers(proposed, applied)
    PROVE  SystemTypeOK' /\ mResolverCache' \in Seq(Address)
<1>1. proposed \in Seq(Line)
      BY ServerAssumption, SeqMonotonic DEF Address
<1>. QED  BY <1>1 DEF replaceActiveResolvers, writeResolvers, SystemTypeOK

LEMMA systemUnchanged ==
    ASSUME SystemTypeOK, UNCHANGED systemVars
    PROVE  SystemTypeOK'
BY DEF SystemTypeOK, systemVars

(* Handling an event pushes the calls of its handler. *)
LEMMA HandleType ==
    ASSUME calls \in Seq(Calls), NEW handler \in Seq(Calls), Handle(handler)
    PROVE  calls' \in Seq(Calls)
BY ConcatProperties DEF Handle

(* The lists of calls that a call or an event can leave. *)
LEMMA CallLists ==
    /\ <<>> \in Seq(Calls)
    /\ \A c \in Calls : <<c>> \in Seq(Calls)
    /\ \A c, d \in Calls : <<c, d>> \in Seq(Calls)
    /\ \A c, d, e \in Calls : <<c, d, e>> \in Seq(Calls)
OBVIOUS

LEMMA updateDNSType == ASSUME TypeOK, updateDNS PROVE TypeOK'
<1>. USE DEF TypeOK, updateDNS
<1>1. calls' \in Seq(Calls)
      BY ReturnType, CallLists DEF Run
<1>2. SystemTypeOK' /\ mResolverCache' \in Seq(Address)
  <2>1. CASE UNCHANGED <<mResolverCache, systemVars>>
        BY <2>1, systemUnchanged
  <2>2. ASSUME NEW proposed \in Proposals(mResolverCacheSize), NEW applied \in BOOLEAN,
               replaceActiveResolvers(proposed, applied)
        PROVE  SystemTypeOK' /\ mResolverCache' \in Seq(Address)
    <3>1. proposed \in Rankings(mResolverPool, mResolverCacheSize)
          BY DEF Proposals
    <3>. QED  BY <2>2, <3>1, RankingType, replaceType
  <2>. QED  BY <2>1, <2>2
<1>. QED  BY <1>1, <1>2

LEMMA readSettingsType == ASSUME TypeOK, readSettings PROVE TypeOK'
<1>. USE DEF TypeOK, readSettings
<1>1. calls' \in Seq(Calls)
      BY ReturnType, CallLists DEF Run, Calls
<1>2. mResolverCacheSize' \in Nat /\ mResolverCacheSize' \in Sizes
      BY ServerAssumption DEF Settings
<1>. QED  BY <1>1, <1>2, systemUnchanged

LEMMA readEnabledType == ASSUME TypeOK, readEnabled PROVE TypeOK'
<1>. USE DEF TypeOK, readEnabled
<1>1. calls' \in Seq(Calls)
      BY ReturnType, CallLists DEF Run
<1>2. SystemTypeOK'
      BY setEnabledType DEF Settings
<1>. QED  BY <1>1, <1>2 DEF serverVars

LEMMA writeSettingsType == ASSUME TypeOK, writeSettings PROVE TypeOK'
<1>. USE DEF TypeOK, writeSettings
<1>1. calls' \in Seq(Calls)
      BY ReturnType, CallLists DEF Run
<1>2. settings' \in Settings
      BY DEF Settings, SystemTypeOK, Run
<1>. QED  BY <1>1, <1>2, systemUnchanged DEF serverVars

LEMMA refreshType ==
    ASSUME TypeOK, NEW force \in BOOLEAN, refreshResolvers(force)
    PROVE  TypeOK'
<1>. USE DEF TypeOK
<1>. DEFINE check == IF force THEN "forceRecheck" ELSE "recheck"
<1>1. calls' \in Seq(Calls)
  <2>1. {check, "readSettings", "bootLoop"} \subseteq Calls
        BY DEF Calls, BootFrames
  <2>2. <<"readSettings", "bootLoop", check>> \in Seq(Calls) /\ <<check>> \in Seq(Calls)
        BY <2>1, CallLists
  <2>3. Return(<<"readSettings", "bootLoop", check>>) \/ Return(<<check>>)
        BY DEF refreshResolvers
  <2>4. calls # <<>>
        BY DEF refreshResolvers, Run
  <2>. HIDE DEF check
  <2>. QED  BY <2>2, <2>3, <2>4, ReturnType
<1>2. mInColdBoot' \in BOOLEAN
      BY DEF refreshResolvers
<1>3. UNCHANGED <<running, settings, mResolverPool, mResolverCache, tries, dead,
                  mResolverCacheSize, mResolversInitialized, disturbances, systemVars>>
      BY DEF refreshResolvers
<1>. QED  BY <1>1, <1>2, <1>3, systemUnchanged

LEMMA recheckType ==
    ASSUME TypeOK, NEW force \in BOOLEAN, NEW noticed \in BOOLEAN,
           recheckResolvers(force, noticed)
    PROVE  TypeOK'
<1>. USE DEF TypeOK
<1>1. calls' \in Seq(Calls)
      BY ReturnType, CallLists DEF Run, Calls, recheckResolvers
<1>2. UNCHANGED <<running, settings, serverVars, dead, disturbances, systemVars>>
      BY DEF recheckResolvers
<1>. QED  BY <1>1, <1>2, systemUnchanged DEF serverVars

LEMMA bootstrapT1Type == ASSUME TypeOK, bootstrapT1 PROVE TypeOK'
<1>. USE DEF TypeOK, bootstrapT1
<1>1. calls' \in Seq(Calls)
      BY ReturnType, CallLists DEF Run, Calls, BootFrames, EventLoops
<1>2. PICK proposed \in Rankings(T1, mResolverCacheSize), applied \in BOOLEAN :
          replaceActiveResolvers(proposed, applied)
      OBVIOUS
<1>3. T1 \subseteq Address
      BY DEF Address
<1>4. proposed \in Seq(Address)
      BY <1>3, RankingType
<1>5. SystemTypeOK' /\ mResolverCache' \in Seq(Address)
      BY <1>2, <1>4, replaceType
<1>6. tries' \in 0 .. T2Tries - 1
      BY ServerAssumption
<1>. QED  BY <1>1, <1>3, <1>5, <1>6

LEMMA bootstrapT2Type == ASSUME TypeOK, bootstrapT2 PROVE TypeOK'
<1>. USE DEF TypeOK
<1>1. calls' \in Seq(Calls)
      BY ReturnType, CallLists DEF bootstrapT2, Run, Calls, BootFrames, EventLoops
<1>2. mResolverPool' \subseteq Address
      BY DEF bootstrapT2, Address
<1>3. PICK proposed \in Rankings(mResolverPool', mResolverCacheSize), applied \in BOOLEAN :
          IF proposed # <<>>
          THEN /\ replaceActiveResolvers(proposed, applied)
               /\ mResolversInitialized' = applied
          ELSE UNCHANGED <<mResolverCache, mResolversInitialized, systemVars>>
      BY DEF bootstrapT2
<1>4. proposed \in Seq(Address)
      BY <1>2, RankingType
<1>5. /\ SystemTypeOK' /\ mResolverCache' \in Seq(Address)
      /\ mResolversInitialized' \in BOOLEAN
      BY <1>3, <1>4, replaceType, systemUnchanged
<1>6. tries' \in 0 .. T2Tries - 1
      BY ServerAssumption DEF bootstrapT2
<1>7. UNCHANGED <<running, settings, mResolverCacheSize, mInColdBoot, dead, disturbances>>
      BY DEF bootstrapT2
<1>. QED  BY <1>1, <1>2, <1>5, <1>6, <1>7

(* The calls that change nothing but a flag or a counter. *)
LEMMA otherCallsType ==
    ASSUME TypeOK, coldBootReturns \/ retryT2 \/ delayOver
    PROVE  TypeOK'
<1>. USE DEF TypeOK
<1>1. CASE coldBootReturns
  <2>1. calls' \in Seq(Calls)
        BY <1>1, ReturnType, CallLists DEF coldBootReturns, Run
  <2>. QED  BY <1>1, <2>1, systemUnchanged DEF coldBootReturns
<1>2. CASE retryT2
  <2>1. tries' \in 0 .. T2Tries - 1
        BY <1>2, ServerAssumption DEF retryT2
  <2>. QED  BY <1>2, <2>1, systemUnchanged DEF retryT2
<1>3. CASE delayOver
  <2>1. calls' \in Seq(Calls)
        BY <1>3, ReturnType, CallLists DEF delayOver, Run, Calls, BootFrames
  <2>. QED  BY <1>3, <2>1, systemUnchanged DEF delayOver, serverVars
<1>. QED  BY <1>1, <1>2, <1>3

LEMMA EventType == ASSUME TypeOK, Event PROVE TypeOK'
<1>. USE DEF TypeOK
<1>1. ASSUME Disturb("resize") \/ Disturb("toggle") \/ Disturb("update_dns")
      PROVE  disturbances' \in 0 .. MaxDisturbances
      BY <1>1, ServerAssumption DEF Disturb
<1>2. CASE fastTimer
  <2>1. calls' \in Seq(Calls)
        BY <1>2, HandleType, CallLists DEF fastTimer, Calls
  <2>. QED  BY <1>2, <2>1, systemUnchanged DEF fastTimer, serverVars
<1>3. CASE refreshTimer
  <2>1. calls' \in Seq(Calls)
        BY <1>3, HandleType, CallLists DEF refreshTimer, Calls
  <2>. QED  BY <1>3, <2>1, systemUnchanged DEF refreshTimer, serverVars
<1>4. ASSUME NEW size \in Sizes, setResolverCacheSize(size) PROVE TypeOK'
  <2>1. calls' \in Seq(Calls)
        BY <1>4, HandleType, CallLists DEF setResolverCacheSize, Calls
  <2>2. mResolverCacheSize' \in Nat /\ mResolverCacheSize' \in Sizes
        BY <1>4, ServerAssumption DEF setResolverCacheSize
  <2>. QED  BY <1>1, <1>4, <2>1, <2>2, systemUnchanged DEF setResolverCacheSize
<1>5. ASSUME NEW enabled \in BOOLEAN, clientEnables(enabled) PROVE TypeOK'
  <2>1. calls' \in Seq(Calls)
        BY <1>5, HandleType, CallLists DEF clientEnables, Calls
  <2>. QED  BY <1>1, <1>5, <2>1, setEnabledType DEF clientEnables, serverVars
<1>6. CASE clientUpdatesDNS
  <2>1. calls' \in Seq(Calls)
        BY <1>6, HandleType, CallLists DEF clientUpdatesDNS, Calls
  <2>. QED  BY <1>1, <1>6, <2>1, systemUnchanged DEF clientUpdatesDNS, serverVars
<1>. QED  BY <1>2, <1>3, <1>4, <1>5, <1>6 DEF Event

LEMMA ExitType ==
    ASSUME TypeOK, Exit, resolvConf' \in Seq(Line), backup' \in Seq(Line),
           UNCHANGED <<settings, dead>>, disturbances' \in 0 .. MaxDisturbances
    PROVE  TypeOK'
<1>1. calls' \in Seq(Calls) /\ mResolverCache' \in Seq(Address)
      BY EmptySeq DEF Exit
<1>2. tries' \in 0 .. T2Tries - 1
      BY ServerAssumption DEF Exit
<1>3. SystemTypeOK'
      BY DEF Exit, SystemTypeOK
<1>. QED  BY <1>1, <1>2, <1>3 DEF Exit, TypeOK

LEMMA OutsideType == ASSUME TypeOK, Outside PROVE TypeOK'
<1>1. resolvConf \in Seq(Line) /\ backup \in Seq(Line) /\ disturbances \in 0 .. MaxDisturbances
      BY DEF TypeOK, SystemTypeOK
<1>2. ASSUME NEW kind, Disturb(kind) PROVE disturbances' \in 0 .. MaxDisturbances
      BY <1>1, <1>2, ServerAssumption DEF Disturb
<1>3. CASE globalShutdown
  <2>1. resolvConf' \in Seq(Line) /\ backup' = backup
        BY <1>1, <1>3, fileCopyType DEF globalShutdown, shutdown
  <2>. QED  BY <1>1, <1>2, <1>3, <2>1, ExitType DEF globalShutdown
<1>4. CASE crash
      BY <1>1, <1>2, <1>4, ExitType DEF crash
<1>5. CASE start
  <2>. USE <1>5 DEF start
  <2>1. calls' \in Seq(Calls) /\ mResolverCache' \in Seq(Address)
        BY CallLists, EmptySeq DEF Calls
  <2>2. tries' \in 0 .. T2Tries - 1
        BY ServerAssumption
  <2>3. backup' \in Seq(Line) /\ resolvConf' = resolvConf
        BY <1>1, fileCopyType DEF startup
  <2>4. /\ settings' = settings /\ settings \in Settings
        /\ mResolverCacheSize' \in Sizes /\ mResolverCacheSize' \in Nat
        /\ mEnabled' \in BOOLEAN
        BY ServerAssumption DEF TypeOK, Settings
  <2>5. SystemTypeOK'
        BY <1>1, <2>3, <2>4 DEF SystemTypeOK
  <2>. QED  BY <2>1, <2>2, <2>4, <2>5 DEF TypeOK
<1>6. CASE editSettings
  <2>1. disturbances' \in 0 .. MaxDisturbances
        BY <1>2, <1>6 DEF editSettings
  <2>. QED  BY <1>6, <2>1, systemUnchanged DEF editSettings, TypeOK, serverVars
<1>7. CASE healthChange
  <2>1. disturbances' \in 0 .. MaxDisturbances
        BY <1>2, <1>7 DEF healthChange
  <2>2. dead' \subseteq Address
        BY <1>7 DEF healthChange, TypeOK
  <2>. QED  BY <1>7, <2>1, <2>2, systemUnchanged DEF healthChange, TypeOK, serverVars
<1>. QED  BY <1>3, <1>4, <1>5, <1>6, <1>7 DEF Outside

LEMMA TypeStep == ASSUME TypeOK, [Next]_vars PROVE TypeOK'
<1>1. CASE Step
      BY <1>1, updateDNSType, readSettingsType, readEnabledType, writeSettingsType,
         refreshType, recheckType, bootstrapT1Type, bootstrapT2Type, otherCallsType DEF Step
<1>2. CASE Event
      BY <1>2, EventType
<1>3. CASE Outside
      BY <1>3, OutsideType
<1>4. CASE UNCHANGED vars
      BY <1>4, systemUnchanged DEF vars, serverVars, TypeOK
<1>. QED  BY <1>1, <1>2, <1>3, <1>4 DEF Next

-----------------------------------------------------------------------------
(* The cache against its pool and its size. *)

InStep == CacheFromPool /\ Filled

(* A step that touches neither the cache, nor the pool, nor the size.      *)
LEMMA CacheUntouched ==
    ASSUME CacheFromPool, Filled,
           UNCHANGED <<mResolverPool, mResolverCache, mResolverCacheSize>>
    PROVE  InStep'
BY DEF InStep, CacheFromPool, Filled, Elements

(* An update ends with a full cache: it has filled it, or found a proposal *)
(* of the same length not different enough, or the pool is empty.          *)
LEMMA updateDNSFills == ASSUME IInv, TypeOK', updateDNS PROVE InStep'
<1>. USE DEF IInv
<1>1. UNCHANGED <<mResolverPool, mResolverCacheSize>>
      BY DEF updateDNS
<1>2. CASE mResolverPool = {} /\ UNCHANGED mResolverCache
  <2>1. Len(mResolverCache) = 0
    <3>1. \A i \in 1 .. Len(mResolverCache) : mResolverCache[i] \in mResolverPool
          BY DEF CacheFromPool, Elements
    <3>2. Len(mResolverCache) \in Nat
          BY LenProperties DEF TypeOK
    <3>. QED  BY <1>2, <3>1, <3>2
  <2>2. Cardinality(mResolverPool) = 0 /\ mResolverCacheSize \in Nat
        BY <1>2, FS_EmptySet DEF TypeOK
  <2>3. Filled
        BY <2>1, <2>2 DEF Filled, Minimum
  <2>. QED  BY <1>1, <1>2, <2>3, CacheUntouched
<1>3. ASSUME NEW proposed \in Proposals(mResolverCacheSize),
             IF shouldReplaceWithProposed(proposed)
             THEN \E applied \in BOOLEAN : replaceActiveResolvers(proposed, applied)
             ELSE UNCHANGED <<mResolverCache, systemVars>>
      PROVE  InStep'
  <2>1. proposed \in Rankings(mResolverPool, mResolverCacheSize)
        BY DEF Proposals
  <2>2. CASE shouldReplaceWithProposed(proposed)
    <3>1. mResolverCache' = proposed
          BY <1>3, <2>2 DEF replaceActiveResolvers
    <3>2. proposed \in Rankings(mResolverPool', mResolverCacheSize')
          BY <1>1, <2>1
    <3>. QED  BY <3>1, <3>2, FillingFills DEF InStep
  <2>3. CASE ~ shouldReplaceWithProposed(proposed)
    <3>1. Len(proposed) = Len(mResolverCache) /\ UNCHANGED mResolverCache
          BY <1>3, <2>3 DEF shouldReplaceWithProposed
    <3>2. Len(proposed) = Minimum(mResolverCacheSize, Cardinality(mResolverPool))
          BY <2>1, PoolFinite, RankingsFacts DEF TypeOK
    <3>3. Filled
          BY <3>1, <3>2 DEF Filled
    <3>. QED  BY <1>1, <3>1, <3>3, CacheUntouched
  <2>. QED  BY <2>2, <2>3
<1>. QED  BY <1>2, <1>3 DEF updateDNS

LEMMA bootstrapT1Fills == ASSUME TypeOK', bootstrapT1 PROVE InStep'
<1>1. PICK proposed \in Rankings(T1, mResolverCacheSize) : mResolverCache' = proposed
      BY DEF bootstrapT1, replaceActiveResolvers
<1>2. mResolverPool' = T1 /\ mResolverCacheSize' = mResolverCacheSize
      BY DEF bootstrapT1
<1>. QED  BY <1>1, <1>2, FillingFills DEF InStep

(* The second half of a boot proposes nothing only when nothing can be     *)
(* cached; then the cache, full from a smaller pool, is empty already.     *)
LEMMA bootstrapT2Fills == ASSUME IInv, TypeOK', bootstrapT2 PROVE InStep'
<1>. USE DEF IInv
<1>1. PICK proposed \in Rankings(mResolverPool', mResolverCacheSize) :
          IF proposed # <<>>
          THEN mResolverCache' = proposed
          ELSE UNCHANGED mResolverCache
      BY DEF bootstrapT2, replaceActiveResolvers
<1>2. mResolverCacheSize' = mResolverCacheSize /\ mResolverPool \subseteq mResolverPool'
      BY DEF bootstrapT2
<1>3. CASE proposed # <<>>
      BY <1>1, <1>2, <1>3, FillingFills DEF InStep
<1>4. CASE proposed = <<>>
  <2>. DEFINE m == Cardinality(mResolverPool)
              n == Cardinality(mResolverPool')
              k == mResolverCacheSize
  <2>1. IsFiniteSet(mResolverPool')
        BY ServerAssumption, FS_Union, FS_Subset DEF Address, TypeOK
  <2>2. m \in Nat /\ n \in Nat /\ m <= n /\ k \in Nat
        BY <1>2, <2>1, PoolFinite, FS_Subset, FS_CardinalityType DEF TypeOK
  <2>3. Minimum(k, n) = 0
    <3>1. Len(proposed) = Minimum(k, n)
          BY <2>1, <2>2, RankingsFacts
    <3>. QED  BY <1>4, <3>1, EmptySeq
  <2>4. Filled
        BY DEF bootstrapT2, Run, AboutToUpdate
  <2>5. Len(mResolverCache) = Minimum(k, n)
        BY <2>2, <2>3, <2>4 DEF Filled, Minimum
  <2>6. CacheFromPool'
        BY <1>1, <1>2, <1>4 DEF CacheFromPool, Elements
  <2>7. Filled'
        BY <1>1, <1>2, <1>4, <2>5 DEF Filled
  <2>. QED  BY <2>6, <2>7 DEF InStep
<1>. QED  BY <1>3, <1>4

(* Every other call finds the cache in step, as it is not "updateDNS".     *)
LEMMA callsKeepInStep ==
    ASSUME IInv, TypeOK',
           \/ readEnabled \/ writeSettings \/ coldBootReturns \/ retryT2 \/ delayOver
           \/ \E force \in BOOLEAN : refreshResolvers(force)
           \/ \E force, noticed \in BOOLEAN : recheckResolvers(force, noticed)
    PROVE  InStep'
<1>1. CacheFromPool /\ Filled
      BY DEF IInv, AboutToUpdate, Run, readEnabled, writeSettings, coldBootReturns,
             retryT2, delayOver, refreshResolvers, recheckResolvers
<1>2. UNCHANGED <<mResolverPool, mResolverCache, mResolverCacheSize>>
      BY DEF readEnabled, writeSettings, coldBootReturns, retryT2, delayOver,
             refreshResolvers, recheckResolvers, serverVars
<1>. QED  BY <1>1, <1>2, CacheUntouched

(* What starts with updateDNS() is about to update. *)
LEMMA updateFirst ==
    ASSUME NEW d \in Calls, NEW s \in Seq(Calls)
    PROVE  LET c == <<"updateDNS", d>> \o s IN c # <<>> /\ Head(c) = "updateDNS"
<1>. DEFINE c == <<"updateDNS", d>>
<1>1. c \in Seq(Calls) /\ Len(c) = 2 /\ c[1] = "updateDNS"
      BY DEF Calls
<1>2. Len(s) \in Nat
      BY LenProperties
<1>. HIDE DEF c
<1>3. c \o s \in Seq(Calls) /\ Len(c \o s) = 2 + Len(s) /\ (c \o s)[1] = c[1]
  <2>1. c \o s \in Seq(Calls) /\ Len(c \o s) = Len(c) + Len(s)
        BY <1>1, ConcatProperties
  <2>2. \A i \in 1 .. Len(c) + Len(s) :
            (c \o s)[i] = IF i <= Len(c) THEN c[i] ELSE s[i - Len(c)]
        BY <1>1, ConcatProperties
  <2>. QED  BY <1>1, <1>2, <2>1, <2>2
<1>4. c \o s # <<>>
      BY <1>2, <1>3, EmptySeq
<1>5. Head(c \o s) = (c \o s)[1]
      BY <1>3, <1>4, HeadTailProperties
<1>. QED  BY <1>1, <1>3, <1>4, <1>5 DEF c

(* A new size leaves an update as the next call. *)
LEMMA readSettingsInv == ASSUME IInv, TypeOK', readSettings PROVE IInv'
<1>. USE DEF IInv
<1>1. CacheFromPool /\ Filled
      BY DEF AboutToUpdate, readSettings, Run
<1>2. UNCHANGED <<mResolverPool, mResolverCache>>
      BY DEF readSettings
<1>3. CacheFromPool'
      BY <1>1, <1>2 DEF CacheFromPool, Elements
<1>4. CASE settings.size = mResolverCacheSize
      BY <1>1, <1>2, <1>4, CacheUntouched DEF readSettings, InStep
<1>5. CASE settings.size # mResolverCacheSize
  <2>1. calls' = <<"updateDNS", "setEnabled">> \o Tail(calls)
        BY <1>5 DEF readSettings, Return
  <2>2. Tail(calls) \in Seq(Calls)
        BY HeadTailProperties DEF TypeOK, readSettings, Run
  <2>3. AboutToUpdate'
        BY <2>1, <2>2, updateFirst DEF AboutToUpdate, Calls
  <2>. QED  BY <1>3, <2>3
<1>. QED  BY <1>4, <1>5

(* Events come when the program waits, so when no update is about to run.  *)
LEMMA EventInv == ASSUME IInv, TypeOK', Event PROVE IInv'
<1>. USE DEF IInv
<1>1. InEventLoop
      BY DEF Event, fastTimer, refreshTimer, setResolverCacheSize, clientEnables,
             clientUpdatesDNS, Handle
<1>2. CacheFromPool /\ Filled
      BY <1>1 DEF InEventLoop, AboutToUpdate, EventLoops
<1>3. UNCHANGED <<mResolverPool, mResolverCache>>
      BY DEF Event, fastTimer, refreshTimer, setResolverCacheSize, clientEnables,
             clientUpdatesDNS, serverVars
<1>4. CASE mResolverCacheSize' = mResolverCacheSize
      BY <1>2, <1>3, <1>4, CacheUntouched DEF InStep
<1>5. CASE mResolverCacheSize' # mResolverCacheSize
  <2>1. PICK size \in Sizes : setResolverCacheSize(size)
        BY <1>5 DEF Event, fastTimer, refreshTimer, clientEnables, clientUpdatesDNS, serverVars
  <2>2. calls' = <<"updateDNS", "writeSettings">> \o calls
        BY <1>5, <2>1 DEF setResolverCacheSize, Handle
  <2>3. AboutToUpdate'
        BY <2>2, updateFirst DEF AboutToUpdate, TypeOK, Calls
  <2>4. CacheFromPool'
        BY <1>2, <1>3 DEF CacheFromPool, Elements
  <2>. QED  BY <2>3, <2>4
<1>. QED  BY <1>4, <1>5

(* A process that starts or ends has no resolvers and an empty cache.      *)
LEMMA OutsideInv == ASSUME IInv, TypeOK', Outside PROVE IInv'
<1>. USE DEF IInv
<1>1. CASE globalShutdown \/ crash \/ start
  <2>1. mResolverPool' = {} /\ mResolverCache' = <<>>
        BY <1>1 DEF globalShutdown, crash, start, Exit
  <2>2. mResolverCacheSize' \in Nat
        BY DEF TypeOK
  <2>3. Len(mResolverCache') = 0 /\ DOMAIN mResolverCache' = {}
        BY <2>1
  <2>4. Cardinality(mResolverPool') = 0
        BY <2>1, FS_EmptySet
  <2>5. CacheFromPool'
        BY <2>1, <2>3 DEF CacheFromPool, Elements
  <2>6. Filled'
        BY <2>2, <2>3, <2>4 DEF Filled, Minimum
  <2>. QED  BY <2>5, <2>6
<1>2. CASE editSettings \/ healthChange
  <2>1. UNCHANGED <<calls, mResolverPool, mResolverCache, mResolverCacheSize>>
        BY <1>2 DEF editSettings, healthChange, serverVars
  <2>. QED  BY <2>1 DEF CacheFromPool, Filled, Elements, AboutToUpdate
<1>. QED  BY <1>1, <1>2 DEF Outside

LEMMA Inductive == IInv /\ [Next]_vars => IInv'
<1>. SUFFICES ASSUME IInv, [Next]_vars PROVE IInv'
     OBVIOUS
<1>1. TypeOK'
      BY TypeStep DEF IInv
<1>2. CASE Step
  <2>1. CASE readSettings
        BY <1>1, <2>1, readSettingsInv
  <2>2. CASE ~ readSettings
        BY <1>1, <1>2, <2>2, updateDNSFills, bootstrapT1Fills, bootstrapT2Fills,
           callsKeepInStep DEF Step, IInv, InStep
  <2>. QED  BY <2>1, <2>2
<1>3. CASE Event
      BY <1>1, <1>3, EventInv
<1>4. CASE Outside
      BY <1>1, <1>4, OutsideInv
<1>5. CASE UNCHANGED vars
      BY <1>1, <1>5 DEF IInv, CacheFromPool, Filled, Elements, AboutToUpdate, vars, serverVars
<1>. QED  BY <1>2, <1>3, <1>4, <1>5 DEF Next

THEOREM Invariance == Spec => []IInv
BY InitIInv, Inductive, PTL DEF Spec

(* Type correctness: every variable keeps its type, for any constants.     *)
THEOREM TypeCorrectness == Spec => []TypeOK
BY Invariance, PTL DEF IInv

(* The active resolvers are always distinct resolvers of the pool that the *)
(* server holds now, through cold boots, resizes, crashes and restarts.    *)
THEOREM CacheIsFromPool == Spec => []CacheFromPool
BY Invariance, PTL DEF IInv

(* Whenever the program waits for events the cache holds as many resolvers *)
(* as its size asks for, or the whole pool.                                *)
THEOREM CacheIsFull == Spec => []CacheFull
<1>1. IInv => CacheFull
      BY DEF IInv, CacheFull, Filled, AboutToUpdate, InEventLoop, EventLoops
<1>. QED  BY <1>1, Invariance, PTL

-----------------------------------------------------------------------------
(* One cold boot: its calls on the stack. *)

NoBoot(s) == \A i \in DOMAIN s : s[i] \notin BootFrames
OneBoot(s) == \E i \in DOMAIN s : /\ s[i] \in BootFrames
                                 /\ \A j \in DOMAIN s : s[j] \in BootFrames => j = i

(* The form of OneColdBoot that the steps are shown to keep. *)
BootOnStack == IF mInColdBoot THEN OneBoot(calls) ELSE NoBoot(calls)

LEMMA BootOnStackIsOneColdBoot ==
    ASSUME mInColdBoot \in BOOLEAN
    PROVE  BootOnStack <=> OneColdBoot
<1>1. OneBoot(calls) <=> \E i \in DOMAIN calls : BootFramesPending = {i}
      BY DEF OneBoot, BootFramesPending
<1>2. NoBoot(calls) <=> BootFramesPending = {}
      BY DEF NoBoot, BootFramesPending
<1>. QED  BY <1>1, <1>2 DEF BootOnStack, OneColdBoot

LEMMA ConcatBoots ==
    ASSUME NEW s \in Seq(Calls), NEW t \in Seq(Calls)
    PROVE  /\ NoBoot(s) /\ NoBoot(t) => NoBoot(s \o t)
           /\ NoBoot(s) /\ OneBoot(t) => OneBoot(s \o t)
           /\ OneBoot(s) /\ NoBoot(t) => OneBoot(s \o t)
<1>. DEFINE m == Len(s)
            n == Len(t)
<1>1. /\ m \in Nat /\ n \in Nat
      /\ DOMAIN s = 1 .. m /\ DOMAIN t = 1 .. n /\ DOMAIN (s \o t) = 1 .. m + n
      /\ \A i \in 1 .. m : (s \o t)[i] = s[i]
      /\ \A i \in 1 .. n : (s \o t)[m + i] = t[i]
      BY LenProperties, ConcatProperties
<1>2. \A i \in 1 .. m + n :
          (i \in 1 .. m /\ (s \o t)[i] = s[i]) \/ (i - m \in 1 .. n /\ (s \o t)[i] = t[i - m])
  <2>1. \A i \in 1 .. m + n : (s \o t)[i] = IF i <= m THEN s[i] ELSE t[i - m]
        BY ConcatProperties
  <2>. QED  BY <1>1, <2>1
<1>. HIDE DEF m, n
<1>3. NoBoot(s) /\ NoBoot(t) => NoBoot(s \o t)
      BY <1>1, <1>2 DEF NoBoot
<1>4. ASSUME NoBoot(s), OneBoot(t) PROVE OneBoot(s \o t)
  <2>1. PICK k \in 1 .. n : /\ t[k] \in BootFrames
                            /\ \A j \in 1 .. n : t[j] \in BootFrames => j = k
        BY <1>1, <1>4 DEF OneBoot
  <2>2. m + k \in 1 .. m + n /\ (s \o t)[m + k] \in BootFrames
        BY <1>1, <2>1
  <2>3. ASSUME NEW j \in 1 .. m + n, (s \o t)[j] \in BootFrames PROVE j = m + k
    <3>1. j - m \in 1 .. n /\ t[j - m] \in BootFrames
          BY <1>1, <1>2, <1>4, <2>3 DEF NoBoot
    <3>2. j - m = k
          BY <2>1, <3>1
    <3>. QED  BY <1>1, <2>1, <3>2
  <2>. QED  BY <1>1, <2>2, <2>3 DEF OneBoot
<1>5. ASSUME OneBoot(s), NoBoot(t) PROVE OneBoot(s \o t)
  <2>1. PICK k \in 1 .. m : /\ s[k] \in BootFrames
                            /\ \A j \in 1 .. m : s[j] \in BootFrames => j = k
        BY <1>1, <1>5 DEF OneBoot
  <2>2. k \in 1 .. m + n /\ (s \o t)[k] \in BootFrames
        BY <1>1, <2>1
  <2>3. \A j \in 1 .. m + n : (s \o t)[j] \in BootFrames => j = k
        BY <1>1, <1>2, <1>5, <2>1 DEF NoBoot
  <2>. QED  BY <1>1, <2>2, <2>3 DEF OneBoot
<1>. QED  BY <1>3, <1>4, <1>5

(* What is left under the first call, by what the first call is. *)
LEMMA TailBoots ==
    ASSUME NEW s \in Seq(Calls), s # <<>>
    PROVE  /\ Tail(s) \in Seq(Calls)
           /\ NoBoot(s) => Head(s) \notin BootFrames /\ NoBoot(Tail(s))
           /\ OneBoot(s) /\ Head(s) \in BootFrames => NoBoot(Tail(s))
           /\ OneBoot(s) /\ Head(s) \notin BootFrames => OneBoot(Tail(s))
<1>. DEFINE n == Len(s)
<1>1. /\ n \in Nat \ {0} /\ Tail(s) \in Seq(Calls)
      /\ DOMAIN s = 1 .. n /\ DOMAIN Tail(s) = 1 .. n - 1
      /\ Head(s) = s[1]
      /\ \A i \in 1 .. n - 1 : Tail(s)[i] = s[i + 1]
      BY LenProperties, HeadTailProperties, EmptySeq
<1>. HIDE DEF n
<1>2. NoBoot(s) => Head(s) \notin BootFrames /\ NoBoot(Tail(s))
      BY <1>1 DEF NoBoot
<1>3. OneBoot(s) /\ Head(s) \in BootFrames => NoBoot(Tail(s))
      BY <1>1 DEF OneBoot, NoBoot
<1>4. ASSUME OneBoot(s), Head(s) \notin BootFrames PROVE OneBoot(Tail(s))
  <2>1. PICK k \in 1 .. n : /\ s[k] \in BootFrames
                            /\ \A j \in 1 .. n : s[j] \in BootFrames => j = k
        BY <1>1, <1>4 DEF OneBoot
  <2>2. k # 1
        BY <1>1, <1>4, <2>1
  <2>3. k - 1 \in 1 .. n - 1 /\ Tail(s)[k - 1] \in BootFrames
        BY <1>1, <2>1, <2>2
  <2>4. \A j \in 1 .. n - 1 : Tail(s)[j] \in BootFrames => j = k - 1
        BY <1>1, <2>1
  <2>. QED  BY <1>1, <2>3, <2>4 DEF OneBoot
<1>. QED  BY <1>1, <1>2, <1>3, <1>4

(* Where a step can leave boot frames: "then" is what the first call       *)
(* leaves, the tail what its callers wait for.                             *)
LEMMA ReturnBoots ==
    ASSUME TypeOK, calls # <<>>, NEW then \in Seq(Calls), Return(then)
    PROVE  /\ NoBoot(calls) /\ NoBoot(then) => NoBoot(calls')
           /\ NoBoot(calls) /\ OneBoot(then) => OneBoot(calls')
           /\ OneBoot(calls) /\ Head(calls) \in BootFrames /\ NoBoot(then) => NoBoot(calls')
           /\ OneBoot(calls) /\ Head(calls) \in BootFrames /\ OneBoot(then) => OneBoot(calls')
           /\ OneBoot(calls) /\ Head(calls) \notin BootFrames /\ NoBoot(then) => OneBoot(calls')
<1>1. calls \in Seq(Calls) /\ Tail(calls) \in Seq(Calls) /\ calls' = then \o Tail(calls)
      BY TailBoots DEF TypeOK, Return
<1>. QED  BY <1>1, TailBoots, ConcatBoots

(* The lists of calls that are left: those of a cold boot, and the others. *)
LEMMA ListBoots ==
    /\ NoBoot(<<>>)
    /\ \A c \in Calls \ BootFrames : NoBoot(<<c>>)
    /\ \A c, d \in Calls \ BootFrames : NoBoot(<<c, d>>)
    /\ \A c \in BootFrames : OneBoot(<<c>>)
    /\ \A c, e \in Calls \ BootFrames, d \in BootFrames : OneBoot(<<c, d, e>>)
BY DEF NoBoot, OneBoot

LEMMA BootNames ==
    /\ BootFrames \subseteq Calls
    /\ {"bootLoop", "fetchT2", "delay"} \subseteq BootFrames
    /\ {"readSettings", "setEnabled", "writeSettings", "updateDNS", "refresh",
        "forceRefresh", "recheck", "forceRecheck"} \subseteq Calls \ BootFrames
BY DEF Calls, BootFrames, EventLoops

(* A call outside of the boot that leaves no boot frame. *)
LEMMA plainCallBoots ==
    ASSUME TypeOK, BootOnStack, UNCHANGED mInColdBoot, NEW c \in Calls \ BootFrames, Run(c),
           NEW then \in Seq(Calls), NoBoot(then), Return(then)
    PROVE  BootOnStack'
<1>1. calls # <<>> /\ Head(calls) \notin BootFrames
      BY DEF Run
<1>2. CASE mInColdBoot
  <2>1. OneBoot(calls')
        BY <1>1, <1>2, ReturnBoots DEF BootOnStack
  <2>. QED  BY <1>2, <2>1 DEF BootOnStack, OneBoot
<1>3. CASE ~ mInColdBoot
  <2>1. NoBoot(calls')
        BY <1>1, <1>3, ReturnBoots DEF BootOnStack
  <2>. QED  BY <1>3, <2>1 DEF BootOnStack, NoBoot
<1>. QED  BY <1>2, <1>3

(* A frame of the boot that leaves another one in its place. *)
LEMMA bootFrameBoots ==
    ASSUME TypeOK, BootOnStack, UNCHANGED mInColdBoot,
           NEW c \in BootFrames, Run(c), NEW d \in BootFrames, Return(<<d>>)
    PROVE  BootOnStack'
<1>1. calls # <<>> /\ Head(calls) \in BootFrames
      BY DEF Run
<1>2. mInColdBoot /\ OneBoot(calls)
      BY <1>1, TailBoots DEF BootOnStack, TypeOK
<1>3. <<d>> \in Seq(Calls) /\ OneBoot(<<d>>)
      BY CallLists, ListBoots, BootNames
<1>4. OneBoot(calls')
      BY <1>1, <1>2, <1>3, ReturnBoots
<1>. QED  BY <1>2, <1>4 DEF BootOnStack, OneBoot

LEMMA refreshBoots ==
    ASSUME TypeOK, BootOnStack, NEW force \in BOOLEAN, refreshResolvers(force)
    PROVE  BootOnStack'
<1>. DEFINE c == IF force THEN "forceRefresh" ELSE "refresh"
            check == IF force THEN "forceRecheck" ELSE "recheck"
            boots == ~ mResolversInitialized /\ ~ mInColdBoot
<1>1. /\ Run(c) /\ mInColdBoot' = (mInColdBoot \/ boots)
      /\ boots => Return(<<"readSettings", "bootLoop", check>>)
      /\ ~ boots => Return(<<check>>)
      BY DEF refreshResolvers
<1>2. c \in Calls \ BootFrames /\ check \in Calls \ BootFrames
      BY BootNames
<1>3. <<check>> \in Seq(Calls) /\ NoBoot(<<check>>)
      BY <1>2, CallLists, ListBoots
<1>4. /\ <<"readSettings", "bootLoop", check>> \in Seq(Calls)
      /\ OneBoot(<<"readSettings", "bootLoop", check>>)
      BY <1>2, CallLists, ListBoots, BootNames
<1>. HIDE DEF c, check
<1>5. CASE boots
  <2>1. OneBoot(calls')
        BY <1>1, <1>4, <1>5, ReturnBoots DEF BootOnStack, Run
  <2>. QED  BY <1>1, <1>5, <2>1 DEF BootOnStack, OneBoot
<1>6. CASE ~ boots
  <2>1. UNCHANGED mInColdBoot
        BY <1>1, <1>6 DEF TypeOK
  <2>. QED  BY <1>1, <1>2, <1>3, <1>6, <2>1, plainCallBoots
<1>. QED  BY <1>5, <1>6

LEMMA StepBoots == ASSUME TypeOK, TypeOK', BootOnStack, Step PROVE BootOnStack'
<1>1. CASE updateDNS
      BY <1>1, plainCallBoots, BootNames, CallLists, ListBoots DEF updateDNS
<1>2. CASE readSettings
  <2>1. UNCHANGED mInColdBoot /\ Run("readSettings")
        BY <1>2 DEF readSettings
  <2>2. Return(<<"updateDNS", "setEnabled">>) \/ Return(<<"setEnabled">>)
        BY <1>2 DEF readSettings
  <2>. QED  BY <2>1, <2>2, plainCallBoots, BootNames, CallLists, ListBoots
<1>3. CASE readEnabled
      BY <1>3, plainCallBoots, BootNames, CallLists, ListBoots DEF readEnabled, serverVars
<1>4. CASE writeSettings
      BY <1>4, plainCallBoots, BootNames, CallLists, ListBoots DEF writeSettings, serverVars
<1>5. ASSUME NEW force \in BOOLEAN, refreshResolvers(force) PROVE BootOnStack'
      BY <1>5, refreshBoots
<1>6. ASSUME NEW force \in BOOLEAN, NEW noticed \in BOOLEAN,
             recheckResolvers(force, noticed)
      PROVE  BootOnStack'
  <2>1. UNCHANGED mInColdBoot /\ (Run("recheck") \/ Run("forceRecheck"))
        BY <1>6 DEF recheckResolvers, serverVars
  <2>2. Return(<<"updateDNS">>) \/ Return(<<>>)
        BY <1>6 DEF recheckResolvers
  <2>. QED  BY <2>1, <2>2, plainCallBoots, BootNames, CallLists, ListBoots
<1>7. CASE coldBootReturns
  <2>1. calls # <<>> /\ Head(calls) \in BootFrames /\ Return(<<>>) /\ mInColdBoot' = FALSE
        BY <1>7, BootNames DEF coldBootReturns, Run
  <2>2. OneBoot(calls)
        BY <2>1, TailBoots DEF BootOnStack, TypeOK
  <2>3. NoBoot(calls')
        BY <2>1, <2>2, ReturnBoots, CallLists, ListBoots
  <2>. QED  BY <2>1, <2>3 DEF BootOnStack, NoBoot
<1>8. CASE bootstrapT1
      BY <1>8, bootFrameBoots, BootNames DEF bootstrapT1
<1>9. CASE retryT2
      BY <1>9 DEF retryT2, BootOnStack, OneBoot, NoBoot
<1>10. CASE bootstrapT2
  <2>1. UNCHANGED mInColdBoot /\ Run("fetchT2")
        BY <1>10 DEF bootstrapT2
  <2>2. Return(<<"bootLoop">>) \/ Return(<<"delay">>)
        BY <1>10 DEF bootstrapT2
  <2>. QED  BY <2>1, <2>2, bootFrameBoots, BootNames
<1>11. CASE delayOver
      BY <1>11, bootFrameBoots, BootNames DEF delayOver, serverVars
<1>. QED  BY <1>1, <1>2, <1>3, <1>4, <1>5, <1>6, <1>7, <1>8, <1>9, <1>10, <1>11 DEF Step

(* An event pushes calls that are not of a boot. *)
LEMMA EventBoots == ASSUME TypeOK, BootOnStack, Event PROVE BootOnStack'
<1>1. UNCHANGED mInColdBoot
      BY DEF Event, fastTimer, refreshTimer, setResolverCacheSize, clientEnables,
             clientUpdatesDNS, serverVars
<1>2. PICK handler \in Seq(Calls) : NoBoot(handler) /\ Handle(handler)
  <2>1. \E handler \in {<<"readSettings", "refresh">>, <<"readSettings">>,
                        <<"forceRefresh">>, <<"writeSettings">>,
                        <<"updateDNS", "writeSettings">>} : Handle(handler)
        BY DEF Event, fastTimer, refreshTimer, setResolverCacheSize, clientEnables,
               clientUpdatesDNS
  <2>. QED  BY <2>1, BootNames, CallLists, ListBoots
<1>3. calls \in Seq(Calls) /\ calls' = handler \o calls
      BY <1>2 DEF TypeOK, Handle
<1>4. CASE mInColdBoot
  <2>1. OneBoot(calls')
        BY <1>2, <1>3, <1>4, ConcatBoots DEF BootOnStack
  <2>. QED  BY <1>1, <1>4, <2>1 DEF BootOnStack, OneBoot
<1>5. CASE ~ mInColdBoot
  <2>1. NoBoot(calls')
        BY <1>2, <1>3, <1>5, ConcatBoots DEF BootOnStack
  <2>. QED  BY <1>1, <1>5, <2>1 DEF BootOnStack, NoBoot
<1>. QED  BY <1>4, <1>5

LEMMA OutsideBoots == ASSUME BootOnStack, Outside PROVE BootOnStack'
<1>1. CASE globalShutdown \/ crash \/ start
  <2>1. /\ mInColdBoot' = FALSE
        /\ calls' = <<>> \/ calls' = <<"readSettings", "refresh">>
        BY <1>1 DEF globalShutdown, crash, start, Exit
  <2>2. NoBoot(calls')
        BY <2>1, ListBoots, BootNames
  <2>. QED  BY <2>1, <2>2 DEF BootOnStack, NoBoot
<1>2. CASE editSettings \/ healthChange
      BY <1>2 DEF editSettings, healthChange, serverVars, BootOnStack, OneBoot, NoBoot
<1>. QED  BY <1>1, <1>2 DEF Outside

LEMMA BootInvariance == Spec => [](TypeOK /\ BootOnStack)
<1>1. Init => TypeOK /\ BootOnStack
      BY InitIInv, ListBoots DEF IInv, Init, BootOnStack
<1>2. TypeOK /\ BootOnStack /\ [Next]_vars => TypeOK' /\ BootOnStack'
  <2>. SUFFICES ASSUME TypeOK, BootOnStack, [Next]_vars PROVE TypeOK' /\ BootOnStack'
       OBVIOUS
  <2>1. TypeOK'
        BY TypeStep
  <2>2. CASE UNCHANGED vars
        BY <2>1, <2>2 DEF vars, serverVars, BootOnStack, OneBoot, NoBoot
  <2>3. CASE Step
        BY <2>1, <2>3, StepBoots
  <2>4. CASE Event
        BY <2>1, <2>4, EventBoots
  <2>5. CASE Outside
        BY <2>1, <2>5, OutsideBoots
  <2>. QED  BY <2>1, <2>2, <2>3, <2>4, <2>5 DEF Next
<1>. QED  BY <1>1, <1>2, PTL DEF Spec

(* A cold boot is never started inside another, however deep the calls of  *)
(* timers and clients pile up in its event loop.                           *)
THEOREM ColdBootIsOne == Spec => []OneColdBoot
<1>1. TypeOK /\ BootOnStack => OneColdBoot
      BY BootOnStackIsOneColdBoot DEF TypeOK
<1>. QED  BY <1>1, BootInvariance, PTL

-----------------------------------------------------------------------------
(* The implementation of ActiveResolvers.  Its steps are those of the boot *)
(* and of the updates; that they come in its order is in the stack: who    *)
(* waits for dig has loaded the first half, and once the pool is complete  *)
(* nobody waits for dig any more, as there was only one who did.           *)

NoFetch(s) == \A i \in DOMAIN s : s[i] # "fetchT2"
HalfLoaded == T1 \subseteq mResolverPool
BootOrder == /\ mResolversInitialized => HalfLoaded /\ NoFetch(calls)
             /\ NoFetch(calls) \/ HalfLoaded

LEMMA FetchConcat ==
    ASSUME NEW s \in Seq(Calls), NEW t \in Seq(Calls), NoFetch(s), NoFetch(t)
    PROVE  NoFetch(s \o t)
<1>. DEFINE m == Len(s)
            n == Len(t)
<1>1. /\ m \in Nat /\ n \in Nat
      /\ DOMAIN s = 1 .. m /\ DOMAIN t = 1 .. n /\ DOMAIN (s \o t) = 1 .. m + n
      /\ \A i \in 1 .. m + n : (s \o t)[i] = IF i <= m THEN s[i] ELSE t[i - m]
      BY LenProperties, ConcatProperties
<1>. HIDE DEF m, n
<1>2. ASSUME NEW i \in 1 .. m + n PROVE (s \o t)[i] # "fetchT2"
  <2>1. CASE i <= m
        BY <1>1, <2>1 DEF NoFetch
  <2>2. CASE ~ (i <= m)
    <3>1. i - m \in 1 .. n
          BY <1>1, <2>2
    <3>. QED  BY <1>1, <2>2, <3>1 DEF NoFetch
  <2>. QED  BY <2>1, <2>2
<1>. QED  BY <1>1, <1>2 DEF NoFetch

LEMMA FetchTail ==
    ASSUME NEW s \in Seq(Calls), s # <<>>, NoFetch(s)
    PROVE  NoFetch(Tail(s))
<1>1. /\ Len(s) \in Nat \ {0}
      /\ DOMAIN s = 1 .. Len(s) /\ DOMAIN Tail(s) = 1 .. Len(s) - 1
      /\ \A i \in 1 .. Len(s) - 1 : Tail(s)[i] = s[i + 1]
      BY LenProperties, HeadTailProperties, EmptySeq
<1>. QED  BY <1>1 DEF NoFetch

(* Who has no boot waits for no dig.                                       *)
LEMMA NoBootNoFetch == ASSUME NEW s, NoBoot(s) PROVE NoFetch(s)
BY BootNames DEF NoBoot, NoFetch

(* A step that loads nothing and waits for no dig. *)
LEMMA OrderKept ==
    ASSUME TypeOK, BootOrder, UNCHANGED <<mResolverPool, mResolversInitialized>>,
           NEW then \in Seq(Calls), NoFetch(then),
           \/ calls # <<>> /\ Return(then)
           \/ Handle(then)
           \/ UNCHANGED calls
    PROVE  BootOrder'
<1>1. calls \in Seq(Calls)
      BY DEF TypeOK
<1>2. NoFetch(calls) => NoFetch(calls')
  <2>1. CASE calls # <<>> /\ Return(then)
    <3>1. Tail(calls) \in Seq(Calls)
          BY <1>1, <2>1, HeadTailProperties
    <3>. QED  BY <1>1, <2>1, <3>1, FetchTail, FetchConcat DEF Return
  <2>2. CASE Handle(then)
        BY <1>1, <2>2, FetchConcat DEF Handle
  <2>3. CASE UNCHANGED calls
        BY <2>3 DEF NoFetch
  <2>. QED  BY <2>1, <2>2, <2>3
<1>. QED  BY <1>2 DEF BootOrder, HalfLoaded

(* The lists of calls that are left but by bootstrapT1. *)
LEMMA ListFetches ==
    /\ NoFetch(<<>>)
    /\ \A c \in Calls \ {"fetchT2"} : NoFetch(<<c>>)
    /\ \A c, d \in Calls \ {"fetchT2"} : NoFetch(<<c, d>>)
    /\ \A c, d, e \in Calls \ {"fetchT2"} : NoFetch(<<c, d, e>>)
BY DEF NoFetch

LEMMA NotFetches ==
    {"readSettings", "setEnabled", "writeSettings", "updateDNS", "refresh", "forceRefresh",
     "recheck", "forceRecheck", "bootLoop", "delay"} \subseteq Calls \ {"fetchT2"}
BY DEF Calls, BootFrames, EventLoops

LEMMA StepOrder == ASSUME TypeOK, BootOnStack, BootOrder, Step PROVE BootOrder'
<1>. DEFINE Kept == UNCHANGED <<mResolverPool, mResolversInitialized>>
<1>1. CASE updateDNS
  <2>1. Kept /\ calls # <<>> /\ Return(<<>>)
        BY <1>1 DEF updateDNS, Run
  <2>. QED  BY <2>1, OrderKept, CallLists, ListFetches
<1>2. CASE readSettings
  <2>1. PICK then \in {<<"updateDNS", "setEnabled">>, <<"setEnabled">>} :
            Kept /\ calls # <<>> /\ Return(then)
        BY <1>2 DEF readSettings, Run
  <2>2. then \in Seq(Calls) /\ NoFetch(then)
        BY NotFetches, CallLists, ListFetches
  <2>. QED  BY <2>1, <2>2, OrderKept
<1>3. CASE readEnabled \/ writeSettings
  <2>1. Kept /\ calls # <<>> /\ Return(<<>>)
        BY <1>3 DEF readEnabled, writeSettings, Run, serverVars
  <2>. QED  BY <2>1, OrderKept, CallLists, ListFetches
<1>4. ASSUME NEW force \in BOOLEAN, refreshResolvers(force)
      PROVE  BootOrder'
  <2>. DEFINE check == IF force THEN "forceRecheck" ELSE "recheck"
  <2>1. PICK then \in {<<"readSettings", "bootLoop", check>>, <<check>>} :
            Kept /\ calls # <<>> /\ Return(then)
        BY <1>4 DEF refreshResolvers, Run
  <2>2. {check, "readSettings", "bootLoop"} \subseteq Calls \ {"fetchT2"}
        BY NotFetches
  <2>. HIDE DEF check
  <2>3. then \in Seq(Calls) /\ NoFetch(then)
    <3>1. CASE then = <<check>>
          BY <2>2, <3>1, CallLists, ListFetches
    <3>2. CASE then = <<"readSettings", "bootLoop", check>>
          BY <2>2, <3>2, CallLists, ListFetches
    <3>. QED  BY <3>1, <3>2
  <2>. QED  BY <2>1, <2>3, OrderKept
<1>5. ASSUME NEW force \in BOOLEAN, NEW noticed \in BOOLEAN, recheckResolvers(force, noticed)
      PROVE  BootOrder'
  <2>1. PICK then \in {<<"updateDNS">>, <<>>} : Kept /\ calls # <<>> /\ Return(then)
        BY <1>5 DEF recheckResolvers, Run, serverVars
  <2>2. then \in Seq(Calls) /\ NoFetch(then)
        BY NotFetches, CallLists, ListFetches
  <2>. QED  BY <2>1, <2>2, OrderKept
<1>6. CASE coldBootReturns
  <2>1. Kept /\ calls # <<>> /\ Return(<<>>)
        BY <1>6 DEF coldBootReturns, Run
  <2>. QED  BY <2>1, OrderKept, CallLists, ListFetches
<1>7. CASE bootstrapT1
      BY <1>7 DEF bootstrapT1, BootOrder, HalfLoaded
<1>8. CASE retryT2
  <2>1. Kept /\ UNCHANGED calls
        BY <1>8 DEF retryT2
  <2>. QED  BY <2>1, OrderKept, CallLists, ListFetches
<1>9. CASE bootstrapT2
  <2>1. /\ calls # <<>> /\ Head(calls) = "fetchT2"
        /\ \E c \in {"bootLoop", "delay"} : Return(<<c>>)
        BY <1>9 DEF bootstrapT2, Run
  <2>2. HalfLoaded
    <3>1. Len(calls) \in Nat \ {0} /\ DOMAIN calls = 1 .. Len(calls) /\ Head(calls) = calls[1]
          BY <2>1, LenProperties, HeadTailProperties, EmptySeq DEF TypeOK
    <3>. QED  BY <2>1, <3>1 DEF BootOrder, NoFetch
  <2>3. HalfLoaded'
        BY <1>9, <2>2 DEF bootstrapT2, HalfLoaded
  <2>4. Tail(calls) \in Seq(Calls) /\ NoFetch(Tail(calls))
    <3>1. NoBoot(Tail(calls)) /\ Tail(calls) \in Seq(Calls)
          BY <2>1, TailBoots, BootNames DEF TypeOK, BootOnStack
    <3>. QED  BY <3>1, NoBootNoFetch
  <2>5. NoFetch(calls')
        BY <2>1, <2>4, NotFetches, CallLists, ListFetches, FetchConcat DEF Return
  <2>. QED  BY <2>3, <2>5 DEF BootOrder
<1>10. CASE delayOver
  <2>1. Kept /\ calls # <<>> /\ Return(<<"bootLoop">>)
        BY <1>10 DEF delayOver, Run, serverVars
  <2>. QED  BY <2>1, OrderKept, NotFetches, CallLists, ListFetches
<1>. QED  BY <1>1, <1>2, <1>3, <1>4, <1>5, <1>6, <1>7, <1>8, <1>9, <1>10 DEF Step

LEMMA EventOrder == ASSUME TypeOK, BootOrder, Event PROVE BootOrder'
<1>1. UNCHANGED <<mResolverPool, mResolversInitialized>>
      BY DEF Event, fastTimer, refreshTimer, setResolverCacheSize, clientEnables,
             clientUpdatesDNS, serverVars
<1>2. \E handler \in {<<"readSettings", "refresh">>, <<"readSettings">>,
                      <<"forceRefresh">>, <<"writeSettings">>,
                      <<"updateDNS", "writeSettings">>} : Handle(handler)
      BY DEF Event, fastTimer, refreshTimer, setResolverCacheSize, clientEnables,
             clientUpdatesDNS
<1>3. PICK handler \in Seq(Calls) : NoFetch(handler) /\ Handle(handler)
      BY <1>2, NotFetches, CallLists, ListFetches
<1>. QED  BY <1>1, <1>3, OrderKept

LEMMA OutsideOrder == ASSUME TypeOK, BootOrder, Outside PROVE BootOrder'
<1>1. CASE globalShutdown \/ crash \/ start
  <2>1. /\ mResolversInitialized' = FALSE
        /\ calls' = <<>> \/ calls' = <<"readSettings", "refresh">>
        BY <1>1 DEF globalShutdown, crash, start, Exit
  <2>2. NoFetch(calls')
        BY <2>1, ListFetches, NotFetches
  <2>. QED  BY <2>1, <2>2 DEF BootOrder
<1>2. CASE editSettings \/ healthChange
      BY <1>2, OrderKept, CallLists, ListFetches DEF editSettings, healthChange, serverVars
<1>. QED  BY <1>1, <1>2 DEF Outside

(* Each step of the program is one of ActiveResolvers or changes nothing   *)
(* of what that speaks of.                                                 *)
LEMMA ActiveStep ==
    ASSUME IInv, IInv', BootOrder, [Next]_vars
    PROVE  [Active!Next]_(Active!vars)
<1>. DEFINE Stutter == UNCHANGED <<mResolversInitialized, mResolverPool, mResolverCache>>
<1>1. Active!Selection(mResolverCache', mResolverPool')
  <2>1. DOMAIN mResolverCache' = 1 .. Len(mResolverCache')
        BY LenProperties DEF IInv, TypeOK
  <2>. QED  BY <2>1 DEF IInv, CacheFromPool, Elements, Active!Selection
<1>2. CASE updateDNS
  <2>1. UNCHANGED <<mResolversInitialized, mResolverPool>>
        BY <1>2 DEF updateDNS
  <2>2. Active!Select
        BY <1>1, <2>1 DEF Active!Select
  <2>. QED  BY <2>2 DEF Active!Next
<1>3. CASE bootstrapT1
  <2>1. /\ mResolversInitialized = FALSE /\ mResolversInitialized' = FALSE
        /\ mResolverPool' = T1
        BY <1>3 DEF bootstrapT1, IInv, TypeOK
  <2>2. Active!LoadT1
        BY <1>1, <2>1 DEF Active!LoadT1
  <2>. QED  BY <2>2 DEF Active!Next
<1>4. CASE bootstrapT2
  <2>1. HalfLoaded /\ ~ mResolversInitialized
    <3>1. calls # <<>> /\ Head(calls) = "fetchT2"
          BY <1>4 DEF bootstrapT2, Run
    <3>2. Len(calls) \in Nat \ {0} /\ DOMAIN calls = 1 .. Len(calls) /\ Head(calls) = calls[1]
          BY <3>1, LenProperties, HeadTailProperties, EmptySeq DEF IInv, TypeOK
    <3>. QED  BY <3>1, <3>2 DEF BootOrder, NoFetch
  <2>2. mResolversInitialized' \in BOOLEAN
        BY DEF IInv, TypeOK
  <2>3. \E list \in SUBSET T2 : mResolverPool' = mResolverPool \cup list
        BY <1>4 DEF bootstrapT2
  <2>4. Active!LoadT2
        BY <1>1, <2>1, <2>2, <2>3 DEF Active!LoadT2, HalfLoaded
  <2>. QED  BY <2>4 DEF Active!Next
<1>5. CASE globalShutdown \/ crash \/ start
  <2>1. mResolversInitialized' = FALSE /\ mResolverPool' = {} /\ mResolverCache' = <<>>
        BY <1>5 DEF globalShutdown, crash, start, Exit
  <2>2. Active!Quit
        BY <2>1 DEF Active!Quit, Active!Init
  <2>. QED  BY <2>2 DEF Active!Next
<1>6. CASE readSettings \/ readEnabled \/ writeSettings \/ coldBootReturns \/ retryT2 \/ delayOver
      BY <1>6 DEF readSettings, readEnabled, writeSettings, coldBootReturns, retryT2,
                  delayOver, serverVars, Active!vars
<1>7. ASSUME NEW force \in BOOLEAN, NEW noticed \in BOOLEAN,
             refreshResolvers(force) \/ recheckResolvers(force, noticed)
      PROVE  Stutter
      BY <1>7 DEF refreshResolvers, recheckResolvers, serverVars
<1>8. CASE Event
      BY <1>8 DEF Event, fastTimer, refreshTimer, setResolverCacheSize, clientEnables,
                  clientUpdatesDNS, serverVars, Active!vars
<1>9. CASE editSettings \/ healthChange
      BY <1>9 DEF editSettings, healthChange, serverVars, Active!vars
<1>10. CASE UNCHANGED vars
      BY <1>10 DEF vars, serverVars, Active!vars
<1>. QED  BY <1>2, <1>3, <1>4, <1>5, <1>6, <1>7, <1>8, <1>9, <1>10
          DEF Next, Step, Outside, Active!vars

(* The service on Linux implements ActiveResolvers: no boot replaces a     *)
(* complete pool, its halves are loaded in order, and what is active is a  *)
(* selection from the pool, whatever handlers the boot is interrupted by.  *)
THEOREM ActiveRefinement == Spec => ImplementsActive
<1>1. Init => Active!Init /\ BootOrder
      BY ListFetches DEF Init, Active!Init, BootOrder
<1>2. TypeOK /\ BootOnStack /\ BootOrder /\ [Next]_vars => BootOrder'
  <2>1. ASSUME BootOrder, UNCHANGED vars PROVE BootOrder'
        BY <2>1 DEF vars, serverVars, BootOrder, HalfLoaded, NoFetch
  <2>. QED  BY <2>1, StepOrder, EventOrder, OutsideOrder DEF Next
<1>3. IInv /\ IInv' /\ BootOrder /\ [Next]_vars => [Active!Next]_(Active!vars)
      BY ActiveStep
<1>. QED  BY <1>1, <1>2, <1>3, Invariance, BootInvariance, PTL
          DEF Spec, ImplementsActive, Active!Spec
-----------------------------------------------------------------------------
(***************************************************************************)
(* The two files of OpenNICSystem, as OpenNICServer uses them: for every   *)
(* set of resolvers, any sizes, and resolv.conf files of any length.       *)
(*                                                                         *)
(* What follows holds under the hypotheses that README names: files can be *)
(* written and the enabled flag is changed by nobody (Steady), and what is *)
(* said of the original lines while no process crashes.  Under these a     *)
(* process has the flag its settings file has, so setEnabled() never calls *)
(* startup() or shutdown() between the start of a process and its end.     *)
(***************************************************************************)
Steady == WriteFails = FALSE /\ Disturbance \cap {"toggle", "edit"} = {}
NoCrash == "crash" \notin Disturbance
NoZero == 0 \notin Sizes

FlagKept == running => mEnabled = settings.enabled

-----------------------------------------------------------------------------
(* The flag, and the two files between start and end of a process. *)

LEMMA StepKeeps ==
    ASSUME TypeOK, Steady, FlagKept, Step
    PROVE  /\ FlagKept' /\ running /\ running' /\ UNCHANGED backup
<1>1. ASSUME updateDNS \/ readSettings \/ coldBootReturns \/ bootstrapT1 \/ retryT2
             \/ bootstrapT2 \/ delayOver
      PROVE  running /\ UNCHANGED <<running, settings, mEnabled, backup>>
  <2>1. CASE updateDNS
        BY <2>1 DEF updateDNS, Run, systemVars, replaceActiveResolvers, writeResolvers
  <2>2. CASE readSettings \/ coldBootReturns \/ retryT2 \/ delayOver
        BY <2>2 DEF readSettings, coldBootReturns, retryT2, delayOver, Run, systemVars
  <2>3. CASE bootstrapT1
        BY <2>3 DEF bootstrapT1, Run, replaceActiveResolvers, writeResolvers
  <2>4. CASE bootstrapT2
        BY <2>4 DEF bootstrapT2, Run, systemVars, replaceActiveResolvers, writeResolvers
  <2>. QED  BY <1>1, <2>1, <2>2, <2>3, <2>4
<1>2. ASSUME (\E force \in BOOLEAN : refreshResolvers(force))
             \/ \E force, noticed \in BOOLEAN : recheckResolvers(force, noticed)
      PROVE  running /\ UNCHANGED <<running, settings, mEnabled, backup>>
      BY <1>2 DEF refreshResolvers, recheckResolvers, Run, systemVars
<1>3. CASE readEnabled
      BY <1>3 DEF readEnabled, Run, setEnabled, FlagKept
<1>4. CASE writeSettings
      BY <1>4 DEF writeSettings, Run, systemVars, FlagKept
<1>. QED  BY <1>1, <1>2, <1>3, <1>4 DEF Step, FlagKept

LEMMA EventKeeps ==
    ASSUME TypeOK, Steady, FlagKept, Event
    PROVE  /\ FlagKept' /\ running /\ running' /\ InEventLoop
           /\ UNCHANGED <<backup, resolvConf, mResolverCache, mResolverPool>>
<1>1. ~ \E enabled \in BOOLEAN : clientEnables(enabled)
      BY DEF clientEnables, Disturb, Steady
<1>2. CASE fastTimer \/ refreshTimer
      BY <1>2 DEF fastTimer, refreshTimer, Handle, InEventLoop, systemVars, serverVars,
                  FlagKept
<1>3. CASE \E size \in Sizes : setResolverCacheSize(size)
      BY <1>3 DEF setResolverCacheSize, Handle, InEventLoop, systemVars, FlagKept
<1>4. CASE clientUpdatesDNS
      BY <1>4 DEF clientUpdatesDNS, Handle, InEventLoop, systemVars, serverVars, FlagKept
<1>. QED  BY <1>1, <1>2, <1>3, <1>4 DEF Event

LEMMA OutsideFlag ==
    ASSUME Steady, FlagKept, Outside
    PROVE  FlagKept'
<1>1. ~ editSettings
      BY DEF editSettings, Disturb, Steady
<1>2. CASE globalShutdown \/ crash \/ start
      BY <1>2 DEF globalShutdown, crash, start, Exit, FlagKept
<1>3. CASE healthChange
      BY <1>3 DEF healthChange, systemVars, FlagKept
<1>. QED  BY <1>1, <1>2, <1>3 DEF Outside

-----------------------------------------------------------------------------
(* The original lines. *)

HasOriginal(f) == /\ Len(f) >= Len(Original)
                  /\ \A i \in 1 .. Len(Original) : f[i] = Original[i]

LEMMA OriginalOnTop ==
    ASSUME NEW f \in Seq(Line), HasOriginal(f)
    PROVE  SubSeq(f, 1, Len(Original)) = Original
<1>. DEFINE n == Len(Original)
<1>1. n \in Nat /\ Len(f) \in Nat /\ n <= Len(f) /\ Original \in Seq(Line)
      BY SystemAssumption, LenProperties DEF HasOriginal
<1>2. \A i \in 1 .. n : f[i] \in Line
      BY <1>1, ElementOfSeq
<1>3. /\ SubSeq(f, 1, n) \in Seq(Line) /\ Len(SubSeq(f, 1, n)) = n
      /\ \A i \in 1 .. n : SubSeq(f, 1, n)[i] = f[i]
  <2>1. /\ SubSeq(f, 1, n) \in Seq(Line)
        /\ Len(SubSeq(f, 1, n)) = IF 1 <= n THEN n - 1 + 1 ELSE 0
        /\ \A i \in 1 .. n - 1 + 1 : SubSeq(f, 1, n)[i] = f[1 + i - 1]
        BY <1>1, <1>2, SubSeqProperties
  <2>. QED  BY <1>1, <2>1
<1>4. \A i \in 1 .. n : f[i] = Original[i]
      BY DEF HasOriginal
<1>. HIDE DEF n
<1>5. \A i \in 1 .. n : SubSeq(f, 1, n)[i] = Original[i]
      BY <1>3, <1>4
<1>. QED  BY <1>1, <1>3, <1>5, SeqEqual DEF n

(* fileCopy() carries the lines over, whatever it leaves below them. *)
LEMMA CopyKeeps ==
    ASSUME Steady, NEW from \in Seq(Line), NEW to \in Seq(Line), HasOriginal(from),
           NEW f \in fileCopy(from, to)
    PROVE  HasOriginal(f)
<1>. DEFINE rest == SubSeq(to, Len(from) + 1, Len(to))
<1>1. f = from \o rest
      BY DEF fileCopy, Steady
<1>2. rest \in Seq(Line) /\ Len(from) \in Nat
  <2>1. Len(from) \in Nat /\ Len(to) \in Nat
        BY LenProperties
  <2>2. \A i \in Len(from) + 1 .. Len(to) : to[i] \in Line
        BY <2>1, ElementOfSeq
  <2>. QED  BY <2>1, <2>2, SubSeqProperties
<1>. HIDE DEF rest
<1>3. /\ Len(f) = Len(from) + Len(rest) /\ Len(rest) \in Nat
      /\ \A i \in 1 .. Len(from) + Len(rest) :
            f[i] = IF i <= Len(from) THEN from[i] ELSE rest[i - Len(from)]
      BY <1>1, <1>2, ConcatProperties, LenProperties
<1>4. Len(Original) \in Nat
      BY SystemAssumption, LenProperties
<1>. QED  BY <1>2, <1>3, <1>4 DEF HasOriginal

(* Where the lines are: in the copy while a process runs, else in the file. *)
Kept == IF running THEN HasOriginal(backup) ELSE HasOriginal(resolvConf)

LEMMA OutsideKeeps ==
    ASSUME TypeOK, Steady, NoCrash, Kept, Outside
    PROVE  Kept'
<1>1. resolvConf \in Seq(Line) /\ backup \in Seq(Line)
      BY DEF TypeOK, SystemTypeOK
<1>2. ~ crash
      BY DEF crash, Disturb, NoCrash
<1>3. CASE globalShutdown
  <2>1. running /\ running' = FALSE /\ resolvConf' \in fileCopy(backup, resolvConf)
        BY <1>3 DEF globalShutdown, InEventLoop, Exit, shutdown
  <2>. QED  BY <1>1, <2>1, CopyKeeps DEF Kept
<1>4. CASE start
  <2>1. ~ running /\ running' = TRUE /\ backup' \in fileCopy(resolvConf, backup)
        BY <1>4 DEF start, startup
  <2>. QED  BY <1>1, <2>1, CopyKeeps DEF Kept
<1>5. CASE editSettings \/ healthChange
      BY <1>5 DEF editSettings, healthChange, systemVars, Kept, HasOriginal
<1>. QED  BY <1>2, <1>3, <1>4, <1>5 DEF Outside

(* What the administrator had in resolv.conf is at the top of the file or  *)
(* of its copy, through updates, shutdowns and restarts                    *)
(* (opennicsystem_linux.cpp:125), if no process dies, files can be written *)
(* and the flag stays.                                                     *)
THEOREM OriginalKept == Steady /\ NoCrash /\ Spec => []OriginalIsKept
<1>. SUFFICES ASSUME Steady, NoCrash PROVE Spec => []OriginalIsKept
     OBVIOUS
<1>1. Init => TypeOK /\ FlagKept /\ Kept
  <2>. SUFFICES ASSUME Init PROVE TypeOK /\ FlagKept /\ Kept
       OBVIOUS
  <2>1. TypeOK
        BY InitIInv DEF IInv
  <2>2. Len(Original) \in Nat
        BY SystemAssumption, LenProperties
  <2>3. HasOriginal(Original)
        BY <2>2 DEF HasOriginal
  <2>4. ~ running /\ resolvConf = Original
        BY DEF Init, SystemInit
  <2>. QED  BY <2>1, <2>3, <2>4 DEF FlagKept, Kept
<1>2. TypeOK /\ FlagKept /\ Kept /\ [Next]_vars => (TypeOK /\ FlagKept /\ Kept)'
  <2>. SUFFICES ASSUME TypeOK, FlagKept, Kept, [Next]_vars
                PROVE  (TypeOK /\ FlagKept /\ Kept)'
       OBVIOUS
  <2>1. TypeOK'
        BY TypeStep
  <2>2. CASE Step
        BY <2>1, <2>2, StepKeeps DEF Kept, HasOriginal
  <2>3. CASE Event
        BY <2>1, <2>3, EventKeeps DEF Kept, HasOriginal
  <2>4. CASE Outside
        BY <2>1, <2>4, OutsideFlag, OutsideKeeps
  <2>5. CASE UNCHANGED vars
        BY <2>1, <2>5 DEF vars, systemVars, FlagKept, Kept, HasOriginal
  <2>. QED  BY <2>2, <2>3, <2>4, <2>5 DEF Next
<1>3. TypeOK /\ Kept => OriginalIsKept
      BY OriginalOnTop DEF TypeOK, SystemTypeOK, Kept, OriginalIsKept
<1>. QED  BY <1>1, <1>2, <1>3, PTL DEF Spec

-----------------------------------------------------------------------------
(* resolv.conf and the cache. *)

(* From the start of a process to the first half of its first boot nothing *)
(* is cached, and no event comes in between.                               *)
Beginnings == {<<"readSettings", "refresh">>, <<"setEnabled", "refresh">>, <<"refresh">>}
Boots == {<<"readSettings", "bootLoop", "recheck">>,
          <<"setEnabled", "bootLoop", "recheck">>, <<"bootLoop", "recheck">>}

Beginning == /\ mResolverPool = {} /\ ~ mResolversInitialized
             /\ mResolverCacheSize = settings.size
             /\ calls \in IF mInColdBoot THEN Boots ELSE Beginnings

Follows == resolvConf = mResolverCache /\ mResolverPool # {}

Applied == running => Follows \/ Beginning

(* Something is proposed by every pool. *)
LEMMA RankingNotEmpty ==
    ASSUME NoZero, NEW pool, pool \subseteq Address, pool # {}, NEW n \in Sizes,
           NEW s \in Rankings(pool, n)
    PROVE  s # <<>>
<1>1. IsFiniteSet(pool)
      BY ServerAssumption, FS_Union, FS_Subset DEF Address
<1>2. Cardinality(pool) \in Nat /\ Cardinality(pool) # 0
      BY <1>1, FS_CardinalityType, FS_EmptySet
<1>3. n \in Nat /\ n # 0
      BY ServerAssumption DEF NoZero
<1>4. Len(s) = Minimum(n, Cardinality(pool)) /\ s \in Seq(pool)
      BY <1>1, <1>3, RankingsFacts
<1>. QED  BY <1>2, <1>3, <1>4, EmptySeq DEF Minimum

LEMMA WrittenIsCached ==
    ASSUME Steady, NEW proposed, proposed # <<>>, NEW applied \in BOOLEAN,
           replaceActiveResolvers(proposed, applied)
    PROVE  resolvConf' = proposed /\ mResolverCache' = proposed /\ applied
BY DEF replaceActiveResolvers, writeResolvers, Steady

LEMMA SetEnabledFirst ==
    ASSUME NEW t \in Seq(Calls), NEW s \in Seq(Calls), Len(s) = Len(t) + 1,
           s[1] = "setEnabled", \A i \in 1 .. Len(t) : s[i + 1] = t[i]
    PROVE  <<"setEnabled">> \o t = s
<1>. DEFINE f == <<"setEnabled">>
<1>1. f \in Seq(Calls) /\ Len(f) = 1 /\ f[1] = "setEnabled"
      BY DEF Calls
<1>. HIDE DEF f
<1>2. /\ Len(t) \in Nat /\ f \o t \in Seq(Calls) /\ Len(f \o t) = Len(f) + Len(t)
      /\ \A i \in 1 .. Len(f) + Len(t) :
            (f \o t)[i] = IF i <= Len(f) THEN f[i] ELSE t[i - Len(f)]
      BY <1>1, LenProperties, ConcatProperties
<1>3. ASSUME NEW i \in 1 .. Len(t) + 1 PROVE (f \o t)[i] = s[i]
  <2>1. CASE i = 1
        BY <1>1, <1>2, <2>1
  <2>2. CASE i # 1
    <3>1. i - 1 \in 1 .. Len(t) /\ (f \o t)[i] = t[i - 1]
          BY <1>1, <1>2, <2>2
    <3>2. s[(i - 1) + 1] = t[i - 1]
          BY <3>1
    <3>. QED  BY <3>1, <3>2
  <2>. QED  BY <2>1, <2>2
<1>4. f \o t = s
      BY <1>1, <1>2, <1>3, SeqEqual
<1>. QED  BY <1>4 DEF f

LEMMA Joined ==
    /\ <<"setEnabled">> \o <<"refresh">> = <<"setEnabled", "refresh">>
    /\ <<"setEnabled">> \o <<"bootLoop", "recheck">> = <<"setEnabled", "bootLoop", "recheck">>
<1>1. <<"setEnabled">> \o <<"refresh">> = <<"setEnabled", "refresh">>
  <2>. DEFINE t == <<"refresh">>
              s == <<"setEnabled", "refresh">>
  <2>1. /\ t \in Seq(Calls) /\ s \in Seq(Calls) /\ Len(t) = 1 /\ Len(s) = 2
        /\ s[1] = "setEnabled" /\ s[2] = t[1]
        BY DEF Calls
  <2>. HIDE DEF s, t
  <2>2. /\ t \in Seq(Calls) /\ s \in Seq(Calls) /\ Len(s) = Len(t) + 1
        /\ s[1] = "setEnabled" /\ \A i \in 1 .. Len(t) : s[i + 1] = t[i]
        BY <2>1
  <2>3. <<"setEnabled">> \o t = s
        BY <2>2, SetEnabledFirst, Zenon
  <2>. QED  BY <2>3 DEF s, t
<1>2. <<"setEnabled">> \o <<"bootLoop", "recheck">> = <<"setEnabled", "bootLoop", "recheck">>
  <2>. DEFINE t == <<"bootLoop", "recheck">>
              s == <<"setEnabled", "bootLoop", "recheck">>
  <2>1. /\ t \in Seq(Calls) /\ s \in Seq(Calls) /\ Len(t) = 2 /\ Len(s) = 3
        /\ s[1] = "setEnabled" /\ s[2] = t[1] /\ s[3] = t[2]
        BY DEF Calls, BootFrames
  <2>. HIDE DEF s, t
  <2>2. /\ t \in Seq(Calls) /\ s \in Seq(Calls) /\ Len(s) = Len(t) + 1
        /\ s[1] = "setEnabled" /\ \A i \in 1 .. Len(t) : s[i + 1] = t[i]
        BY <2>1
  <2>3. <<"setEnabled">> \o t = s
        BY <2>2, SetEnabledFirst, Zenon
  <2>. QED  BY <2>3 DEF s, t
<1>. QED  BY <1>1, <1>2

LEMMA BeginningStep ==
    ASSUME TypeOK, Steady, FlagKept, Beginning, running, Step, ~ bootstrapT1
    PROVE  Beginning'
<1>1. /\ calls # <<>> /\ Head(calls) \in {"readSettings", "setEnabled", "refresh", "bootLoop"}
      /\ calls \in Seq(Calls)
      BY DEF Beginning, Beginnings, Boots, TypeOK
<1>2. CASE readSettings
  <2>1. /\ calls' = <<"setEnabled">> \o Tail(calls)
        /\ UNCHANGED <<mResolverPool, mResolversInitialized, mInColdBoot, settings>>
        /\ mResolverCacheSize' = settings.size
        BY <1>2 DEF readSettings, Return, Beginning
  <2>2. CASE mInColdBoot
    <3>1. calls = <<"readSettings", "bootLoop", "recheck">>
          BY <1>2, <2>2 DEF Beginning, Boots, readSettings, Run
    <3>2. Tail(calls) = <<"bootLoop", "recheck">>
          BY <3>1
    <3>3. calls' = <<"setEnabled", "bootLoop", "recheck">>
          BY <2>1, <3>2, Joined
    <3>. QED  BY <2>1, <2>2, <3>3 DEF Beginning, Boots
  <2>3. CASE ~ mInColdBoot
    <3>1. calls = <<"readSettings", "refresh">>
          BY <1>2, <2>3 DEF Beginning, Beginnings, readSettings, Run
    <3>2. Tail(calls) = <<"refresh">>
          BY <3>1
    <3>3. calls' = <<"setEnabled", "refresh">>
          BY <2>1, <3>2, Joined
    <3>. QED  BY <2>1, <2>3, <3>3 DEF Beginning, Beginnings
  <2>. QED  BY <2>2, <2>3
<1>3. CASE readEnabled
  <2>1. /\ calls' = <<>> \o Tail(calls)
        /\ UNCHANGED <<mResolverPool, mResolversInitialized, mInColdBoot, settings,
                       mResolverCacheSize>>
        BY <1>3 DEF readEnabled, Return, serverVars
  <2>2. CASE mInColdBoot
    <3>1. calls = <<"setEnabled", "bootLoop", "recheck">>
          BY <1>3, <2>2 DEF Beginning, Boots, readEnabled, Run
    <3>2. calls' = <<"bootLoop", "recheck">>
          BY <2>1, <3>1
    <3>. QED  BY <2>1, <2>2, <3>2 DEF Beginning, Boots
  <2>3. CASE ~ mInColdBoot
    <3>1. calls = <<"setEnabled", "refresh">>
          BY <1>3, <2>3 DEF Beginning, Beginnings, readEnabled, Run
    <3>2. calls' = <<"refresh">>
          BY <2>1, <3>1
    <3>. QED  BY <2>1, <2>3, <3>2 DEF Beginning, Beginnings
  <2>. QED  BY <2>2, <2>3
<1>4. ASSUME NEW force \in BOOLEAN, refreshResolvers(force) PROVE Beginning'
  <2>1. Head(calls) = "refresh" /\ ~ force
        BY <1>1, <1>4 DEF refreshResolvers, Run
  <2>2. calls = <<"refresh">> /\ ~ mInColdBoot
        BY <2>1 DEF Beginning, Beginnings, Boots
  <2>3. /\ calls' = <<"readSettings", "bootLoop", "recheck">> \o Tail(calls)
        /\ mInColdBoot'
        /\ UNCHANGED <<mResolverPool, mResolversInitialized, settings, mResolverCacheSize>>
        BY <1>4, <2>1, <2>2 DEF refreshResolvers, Return, Beginning
  <2>4. calls' = <<"readSettings", "bootLoop", "recheck">>
        BY <2>2, <2>3
  <2>. QED  BY <2>3, <2>4 DEF Beginning, Boots
<1>5. ~ (updateDNS \/ writeSettings \/ retryT2 \/ bootstrapT2 \/ delayOver)
      BY <1>1 DEF updateDNS, writeSettings, retryT2, bootstrapT2, delayOver, Run
<1>6. ~ coldBootReturns
      BY DEF coldBootReturns, Beginning
<1>7. ~ \E force, noticed \in BOOLEAN : recheckResolvers(force, noticed)
      BY <1>1 DEF recheckResolvers, Run
<1>. QED  BY <1>2, <1>3, <1>4, <1>5, <1>6, <1>7 DEF Step

LEMMA FollowsStep ==
    ASSUME TypeOK, Steady, NoZero, FlagKept, Follows, running, Step, ~ bootstrapT1
    PROVE  Follows'
<1>1. mResolverCacheSize \in Sizes
      BY DEF TypeOK
<1>2. CASE updateDNS
  <2>1. PICK proposed \in Proposals(mResolverCacheSize) :
            IF shouldReplaceWithProposed(proposed)
            THEN \E applied \in BOOLEAN : replaceActiveResolvers(proposed, applied)
            ELSE UNCHANGED <<mResolverCache, systemVars>>
        BY <1>2 DEF updateDNS, Follows
  <2>2. mResolverPool' = mResolverPool
        BY <1>2 DEF updateDNS
  <2>3. proposed # <<>>
        BY <1>1, RankingNotEmpty DEF Proposals, Follows, TypeOK
  <2>4. CASE shouldReplaceWithProposed(proposed)
        BY <2>1, <2>2, <2>3, <2>4, WrittenIsCached DEF Follows
  <2>5. CASE ~ shouldReplaceWithProposed(proposed)
        BY <2>1, <2>2, <2>5 DEF Follows, systemVars
  <2>. QED  BY <2>4, <2>5
<1>3. CASE bootstrapT2
  <2>1. mResolverPool \subseteq mResolverPool'
        BY <1>3 DEF bootstrapT2
  <2>2. mResolverPool' \subseteq Address
        BY <1>3 DEF bootstrapT2, TypeOK, Address
  <2>3. PICK proposed \in Rankings(mResolverPool', mResolverCacheSize) :
            \E applied \in BOOLEAN :
                IF proposed # <<>>
                THEN /\ replaceActiveResolvers(proposed, applied)
                     /\ mResolversInitialized' = applied
                ELSE UNCHANGED <<mResolverCache, mResolversInitialized, systemVars>>
        BY <1>3 DEF bootstrapT2
  <2>4. proposed # <<>>
        BY <1>1, <2>1, <2>2, RankingNotEmpty DEF Follows
  <2>. QED  BY <2>1, <2>3, <2>4, WrittenIsCached DEF Follows
<1>4. CASE readSettings \/ writeSettings \/ coldBootReturns \/ retryT2 \/ delayOver
      BY <1>4 DEF readSettings, writeSettings, coldBootReturns, retryT2, delayOver,
                  serverVars, systemVars, Follows
<1>5. CASE readEnabled
      BY <1>5 DEF readEnabled, setEnabled, serverVars, FlagKept, Follows
<1>6. CASE \E force \in BOOLEAN : refreshResolvers(force)
      BY <1>6 DEF refreshResolvers, systemVars, Follows
<1>7. CASE \E force, noticed \in BOOLEAN : recheckResolvers(force, noticed)
      BY <1>7 DEF recheckResolvers, serverVars, systemVars, Follows
<1>. QED  BY <1>2, <1>3, <1>4, <1>5, <1>6, <1>7 DEF Step

LEMMA bootstrapT1Follows ==
    ASSUME TypeOK, Steady, NoZero, bootstrapT1
    PROVE  Follows'
<1>1. mResolverCacheSize \in Sizes /\ T1 # {} /\ T1 \subseteq Address
      BY ServerAssumption DEF bootstrapT1, Run, TypeOK, Address
<1>2. PICK proposed \in Rankings(T1, mResolverCacheSize) :
          \E applied \in BOOLEAN : replaceActiveResolvers(proposed, applied)
      BY DEF bootstrapT1
<1>3. proposed # <<>> /\ mResolverPool' = T1
      BY <1>1, RankingNotEmpty DEF bootstrapT1
<1>. QED  BY <1>1, <1>2, <1>3, WrittenIsCached DEF Follows

LEMMA OutsideApplied ==
    ASSUME Steady, Applied, Outside
    PROVE  Applied'
<1>1. ~ editSettings
      BY DEF editSettings, Disturb, Steady
<1>2. CASE globalShutdown \/ crash
      BY <1>2 DEF globalShutdown, crash, Exit, Applied
<1>3. CASE start
      BY <1>3 DEF start, Applied, Beginning, Beginnings
<1>4. CASE healthChange
      BY <1>4 DEF healthChange, serverVars, systemVars, Applied, Follows, Beginning
<1>. QED  BY <1>1, <1>2, <1>3, <1>4 DEF Outside

LEMMA BeginningIsNoEventLoop == Beginning => ~ InEventLoop
BY DEF Beginning, Beginnings, Boots, InEventLoop, EventLoops

(* While the program waits for events resolv.conf lists the active         *)
(* resolvers in their order (opennicserver.h:106), through any updates,    *)
(* resizes, boots, crashes and restarts, if files can be written, the flag *)
(* stays and no size is zero.                                              *)
THEOREM SystemFollows == Steady /\ NoZero /\ Spec => []SystemFollowsCache
<1>. SUFFICES ASSUME Steady, NoZero PROVE Spec => []SystemFollowsCache
     OBVIOUS
<1>1. Init => TypeOK /\ FlagKept /\ Applied
      BY InitIInv DEF IInv, Init, FlagKept, Applied
<1>2. TypeOK /\ FlagKept /\ Applied /\ [Next]_vars => (TypeOK /\ FlagKept /\ Applied)'
  <2>. SUFFICES ASSUME TypeOK, FlagKept, Applied, [Next]_vars
                PROVE  (TypeOK /\ FlagKept /\ Applied)'
       OBVIOUS
  <2>1. TypeOK'
        BY TypeStep
  <2>2. CASE Step
    <3>1. FlagKept' /\ running
          BY <2>2, StepKeeps
    <3>2. Follows' \/ Beginning'
          BY <2>2, <3>1, BeginningStep, FollowsStep, bootstrapT1Follows DEF Applied
    <3>. QED  BY <2>1, <3>1, <3>2 DEF Applied
  <2>3. CASE Event
    <3>1. /\ FlagKept' /\ running /\ InEventLoop
          /\ UNCHANGED <<resolvConf, mResolverCache, mResolverPool>>
          BY <2>3, EventKeeps
    <3>2. Follows
          BY <3>1, BeginningIsNoEventLoop DEF Applied
    <3>. QED  BY <2>1, <3>1, <3>2 DEF Applied, Follows
  <2>4. CASE Outside
        BY <2>1, <2>4, OutsideFlag, OutsideApplied
  <2>5. CASE UNCHANGED vars
        BY <2>1, <2>5 DEF vars, serverVars, systemVars, FlagKept, Applied, Follows, Beginning
  <2>. QED  BY <2>2, <2>3, <2>4, <2>5 DEF Next
<1>3. Applied => SystemFollowsCache
      BY BeginningIsNoEventLoop DEF Applied, Follows, SystemFollowsCache, InEventLoop
<1>. QED  BY <1>1, <1>2, <1>3, PTL DEF Spec
=============================================================================
