---------------------------- MODULE OpenNICServer ----------------------------
(***************************************************************************)
(* The service on Linux: opennicserver.cpp over OpenNICSystem.             *)
(*                                                                         *)
(* The program has one thread.  "calls" is its stack of pending calls, the *)
(* running one first; every step runs the first call, which returns and    *)
(* may leave calls to make before its caller goes on.  Timers and client   *)
(* messages are handled when the program is in an event loop: the main one *)
(* (no call is pending) or the one nested in the cold boot, where          *)
(* getBootstrapT2List() waits for dig and delay() for the next attempt.    *)
(*                                                                         *)
(* A resolver is its address.  The order of mResolverPool is not kept:     *)
(* each use of it comes right after score() and sort(), or randomize(), so *)
(* the order is chosen where it matters, in Rankings.  updateDNS() is one  *)
(* step, as nothing in it enters an event loop, so mUpdatingDNS is never   *)
(* seen true by a handler and is not a variable.                           *)
(***************************************************************************)
EXTENDS OpenNICSystem, FiniteSets

CONSTANTS T1,             \* the bootstrap list (never empty: see its fallback)
          T2,             \* the resolvers dig can report
          Sizes,          \* the values resolver_cache_size can be given
          T2Tries,        \* runs of dig in one attempt to boot
          DeadRankLast,   \* do the scores put a dead resolver behind the others?
          Disturbance,    \* the kinds of outside events that can happen
          MaxDisturbances \* bound of their number

ASSUME ServerAssumption ==
    /\ T1 # {} /\ IsFiniteSet(T1) /\ IsFiniteSet(T2)
    /\ T1 \cup T2 \subseteq Line
    /\ Sizes \subseteq Nat
    /\ T2Tries \in Nat \ {0} /\ MaxDisturbances \in Nat
    /\ DeadRankLast \in BOOLEAN

VARIABLES running,        \* is the process up?
          settings,       \* the settings file: size and enabled
          calls,          \* pending calls, the running one first
          tries,          \* local variable of bootstrapResolvers()
          mResolverPool, mResolverCache, mResolverCacheSize,
          mResolversInitialized, mInColdBoot,
          dead,           \* the resolvers that have stopped answering
          disturbances    \* how many outside events there were

serverVars == <<mResolverPool, mResolverCache, mResolverCacheSize,
                mResolversInitialized, mInColdBoot, tries>>
vars == <<running, settings, calls, serverVars, dead, disturbances, systemVars>>

Address == T1 \cup T2
EventLoops == {"fetchT2", "delay"}
BootFrames == EventLoops \cup {"bootLoop"}
Calls == BootFrames \cup
         {"readSettings", "setEnabled", "writeSettings", "updateDNS",
          "refresh", "forceRefresh", "recheck", "forceRecheck"}
Settings == [size : Sizes, enabled : BOOLEAN]

Minimum(m, n) == IF m <= n THEN m ELSE n
Elements(s) == {s[i] : i \in 1 .. Len(s)}

TypeOK == /\ running \in BOOLEAN
          /\ settings \in Settings
          /\ calls \in Seq(Calls)
          /\ tries \in 0 .. T2Tries - 1
          /\ mResolverPool \subseteq Address
          /\ mResolverCache \in Seq(Address)
          /\ mResolverCacheSize \in Nat
          /\ running => mResolverCacheSize \in Sizes
          /\ mResolversInitialized \in BOOLEAN /\ mInColdBoot \in BOOLEAN
          /\ SystemTypeOK
          /\ dead \subseteq Address
          /\ disturbances \in 0 .. MaxDisturbances

Init == /\ SystemInit
        /\ running = FALSE
        /\ settings \in Settings
        /\ calls = <<>> /\ tries = 0
        /\ mResolverPool = {} /\ mResolverCache = <<>>
        /\ mResolverCacheSize = 0
        /\ mResolversInitialized = FALSE /\ mInColdBoot = FALSE
        /\ mEnabled = TRUE
        /\ dead = {} /\ disturbances = 0

-----------------------------------------------------------------------------
(* The calls. *)

InEventLoop == running /\ (calls # <<>> => Head(calls) \in EventLoops)

(* A handler called from the event loop, above what is suspended there. *)
Handle(handler) == InEventLoop /\ calls' = handler \o calls

(* The first call runs; "then" are the calls it leaves to its caller.      *)
Run(c) == running /\ calls # <<>> /\ Head(calls) = c
Return(then) == calls' = then \o Tail(calls)

(* The first n of a pool in the order of some scores. *)
Rankings(pool, n) ==
    {s \in [1 .. Minimum(n, Cardinality(pool)) -> pool] :
        \A i, j \in DOMAIN s : i # j => s[i] # s[j]}

(* updateDNS() ranks by fresh scores. *)
Proposals(n) ==
    {s \in Rankings(mResolverPool, n) :
        DeadRankLast => \/ Elements(s) \cap dead = {}
                        \/ mResolverPool \ dead \subseteq Elements(s)}

(* Mutant: only the differences count, not the lengths. *)
shouldReplaceWithProposed_anyLength(proposed) ==
    LET differ == {i \in 1 .. Len(proposed) : proposed[i] \notin Elements(mResolverCache)}
    IN  Cardinality(differ) >= Len(mResolverCache) \div 2 /\ differ # {}

(* Mutant: more than half must differ. *)
shouldReplaceWithProposed_moreThanHalf(proposed) ==
    LET count == Len(mResolverCache)
        differ == {i \in 1 .. Len(proposed) : proposed[i] \notin Elements(mResolverCache)}
    IN  \/ Len(proposed) # count
        \/ count = 0
        \/ Cardinality(differ) > count \div 2

(* shouldReplaceWithProposed(): proposals of another length than the cache *)
(* are accepted; of one resolver, when it is the active one; of two or     *)
(* more, when half of them (rounded down) are not active.                  *)
shouldReplaceWithProposed(proposed) ==
    LET count == Len(mResolverCache)
        differ == {i \in 1 .. Len(proposed) : proposed[i] \notin Elements(mResolverCache)}
    IN  \/ Len(proposed) # count
        \/ count = 0
        \/ count = 1 /\ proposed[1] = mResolverCache[1]
        \/ count >= 2 /\ Cardinality(differ) >= count \div 2

(* Mutant: the cache is not cleared first. *)
replaceActiveResolvers_appending(proposed, applied) ==
    /\ mResolverCache' = mResolverCache \o proposed
    /\ writeResolvers(proposed, applied)

(* The cache is refilled whatever becomes of the file. *)
replaceActiveResolvers(proposed, applied) ==
    /\ mResolverCache' = proposed
    /\ writeResolvers(proposed, applied)

updateDNS ==
    /\ Run("updateDNS") /\ Return(<<>>)
    /\ \/ /\ mResolverPool = {}
          /\ UNCHANGED <<mResolverCache, systemVars>>
       \/ /\ mResolverPool # {}
          /\ \E proposed \in Proposals(mResolverCacheSize) :
                IF shouldReplaceWithProposed(proposed)
                THEN \E applied \in BOOLEAN : replaceActiveResolvers(proposed, applied)
                ELSE UNCHANGED <<mResolverCache, systemVars>>
    /\ UNCHANGED <<running, settings, mResolverPool, mResolverCacheSize, dead,
                   mResolversInitialized, mInColdBoot, tries, disturbances>>

(* readSettings(): a size that differs updates the DNS at once, before the *)
(* enabled flag of the file is looked at.                                  *)
readSettings ==
    /\ Run("readSettings")
    /\ mResolverCacheSize' = settings.size
    /\ Return(IF settings.size # mResolverCacheSize
              THEN <<"updateDNS", "setEnabled">> ELSE <<"setEnabled">>)
    /\ UNCHANGED <<running, settings, mResolverPool, mResolverCache, tries, dead,
                   mResolversInitialized, mInColdBoot, disturbances, systemVars>>

readEnabled ==
    /\ Run("setEnabled") /\ Return(<<>>)
    /\ setEnabled(settings.enabled)
    /\ UNCHANGED <<running, settings, serverVars, dead, disturbances>>

writeSettings ==
    /\ Run("writeSettings") /\ Return(<<>>)
    /\ settings' = [size |-> mResolverCacheSize, enabled |-> mEnabled]
    /\ UNCHANGED <<running, serverVars, dead, disturbances, systemVars>>

(* Mutant: mInColdBoot is not looked at. *)
refreshResolvers_unguarded(force) ==
    LET check == IF force THEN "forceRecheck" ELSE "recheck"
        boots == ~ mResolversInitialized
    IN  /\ Run(IF force THEN "forceRefresh" ELSE "refresh")
        /\ mInColdBoot' = (mInColdBoot \/ boots)
        /\ Return(IF boots THEN <<"readSettings", "bootLoop", check>> ELSE <<check>>)
        /\ UNCHANGED <<running, settings, mResolverPool, mResolverCache, tries, dead,
                       mResolverCacheSize, mResolversInitialized, disturbances, systemVars>>

(* refreshResolvers(): cold boot first unless it is done or under way ...  *)
refreshResolvers(force) ==
    LET check == IF force THEN "forceRecheck" ELSE "recheck"
        boots == ~ mResolversInitialized /\ ~ mInColdBoot
    IN  /\ Run(IF force THEN "forceRefresh" ELSE "refresh")
        /\ mInColdBoot' = (mInColdBoot \/ boots)
        /\ Return(IF boots THEN <<"readSettings", "bootLoop", check>> ELSE <<check>>)
        /\ UNCHANGED <<running, settings, mResolverPool, mResolverCache, tries, dead,
                       mResolverCacheSize, mResolversInitialized, disturbances, systemVars>>

(* ... then update when forced, when resolvers are missing from the cache  *)
(* or when testResolverCache() finds one that does not answer.  It may not *)
(* notice: alive() holds of a resolver with a query under way.             *)
recheckResolvers(force, noticed) ==
    LET missing == Len(mResolverCache) < mResolverCacheSize \/ mResolverCache = <<>>
        failing == noticed /\ Elements(mResolverCache) \cap dead # {}
    IN  /\ Run(IF force THEN "forceRecheck" ELSE "recheck")
        /\ Return(IF force \/ missing \/ failing THEN <<"updateDNS">> ELSE <<>>)
        /\ UNCHANGED <<running, settings, serverVars, dead, disturbances, systemVars>>

(* coldBoot() loops until the resolvers are initialized. *)
coldBootReturns ==
    /\ Run("bootLoop") /\ Return(<<>>)
    /\ mResolversInitialized
    /\ mInColdBoot' = FALSE
    /\ UNCHANGED <<running, settings, mResolverPool, mResolverCache, tries, dead,
                   mResolverCacheSize, mResolversInitialized, disturbances, systemVars>>

(* bootstrapResolvers(), up to the wait for dig: T1 resolvers are applied. *)
bootstrapT1 ==
    /\ Run("bootLoop") /\ Return(<<"fetchT2">>)
    /\ ~ mResolversInitialized
    /\ tries' = 0
    /\ mResolverPool' = T1
    /\ \E proposed \in Rankings(T1, mResolverCacheSize), applied \in BOOLEAN :
           replaceActiveResolvers(proposed, applied)
    /\ UNCHANGED <<running, settings, mResolverCacheSize, mResolversInitialized,
                   mInColdBoot, dead, disturbances>>

(* Mutant: one run too many. *)
retryT2_onceMore ==
    /\ Run("fetchT2")
    /\ tries < T2Tries
    /\ tries' = tries + 1
    /\ UNCHANGED <<running, settings, calls, mResolverPool, mResolverCache,
                   mResolverCacheSize, mResolversInitialized, mInColdBoot, dead,
                   disturbances, systemVars>>

(* Mutant: dig is run until it reports a resolver. *)
retryT2_forEver ==
    /\ Run("fetchT2")
    /\ tries' = 1 - tries
    /\ UNCHANGED <<running, settings, calls, mResolverPool, mResolverCache,
                   mResolverCacheSize, mResolversInitialized, mInColdBoot, dead,
                   disturbances, systemVars>>

(* dig has reported no resolver, and is run again. *)
retryT2 ==
    /\ Run("fetchT2")
    /\ tries + 1 < T2Tries
    /\ tries' = tries + 1
    /\ UNCHANGED <<running, settings, calls, mResolverPool, mResolverCache,
                   mResolverCacheSize, mResolversInitialized, mInColdBoot, dead,
                   disturbances, systemVars>>

(* bootstrapResolvers(), from there on: dig has reported T2 resolvers, or  *)
(* none in its last run, and the pool with what it reported is applied.    *)
bootstrapT2 ==
    /\ Run("fetchT2")
    /\ \E list \in SUBSET T2 :
          /\ list # {} \/ tries + 1 = T2Tries
          /\ mResolverPool' = mResolverPool \cup list
    /\ tries' = 0
    /\ \E proposed \in Rankings(mResolverPool', mResolverCacheSize), applied \in BOOLEAN :
          IF proposed # <<>>
          THEN /\ replaceActiveResolvers(proposed, applied)
               /\ mResolversInitialized' = applied
          ELSE UNCHANGED <<mResolverCache, mResolversInitialized, systemVars>>
    /\ Return(IF mResolversInitialized' THEN <<"bootLoop">> ELSE <<"delay">>)
    /\ UNCHANGED <<running, settings, mResolverCacheSize, mInColdBoot, dead, disturbances>>

(* delay(5) is over. *)
delayOver ==
    /\ Run("delay") /\ Return(<<"bootLoop">>)
    /\ UNCHANGED <<running, settings, serverVars, dead, disturbances, systemVars>>

-----------------------------------------------------------------------------
(* What the event loop handles: timers, and the messages of a client. *)

fastTimer ==
    /\ Handle(IF mEnabled THEN <<"readSettings", "refresh">> ELSE <<"readSettings">>)
    /\ UNCHANGED <<running, settings, serverVars, dead, disturbances, systemVars>>

(* The bootstrap timer and, for ever, the refresh timer. *)
refreshTimer ==
    /\ mEnabled
    /\ Handle(<<"forceRefresh">>)
    /\ UNCHANGED <<running, settings, serverVars, dead, disturbances, systemVars>>

Disturb(kind) == /\ kind \in Disturbance
                 /\ disturbances < MaxDisturbances
                 /\ disturbances' = disturbances + 1

setResolverCacheSize(size) ==
    /\ Disturb("resize")
    /\ mResolverCacheSize' = size
    /\ Handle(IF size # mResolverCacheSize THEN <<"updateDNS", "writeSettings">>
                                           ELSE <<"writeSettings">>)
    /\ UNCHANGED <<running, settings, mResolverPool, mResolverCache, tries, dead,
                   mResolversInitialized, mInColdBoot, systemVars>>

clientEnables(enabled) ==
    /\ Disturb("toggle")
    /\ Handle(<<"writeSettings">>)
    /\ setEnabled(enabled)
    /\ UNCHANGED <<running, settings, serverVars, dead>>

clientUpdatesDNS ==
    /\ Disturb("update_dns")
    /\ Handle(<<"updateDNS", "writeSettings">>)
    /\ UNCHANGED <<running, settings, serverVars, dead, systemVars>>

(* What the process knows is gone when it ends. *)
Exit == /\ running' = FALSE
        /\ calls' = <<>> /\ tries' = 0
        /\ mResolverPool' = {} /\ mResolverCache' = <<>>
        /\ mResolverCacheSize' = 0
        /\ mResolversInitialized' = FALSE /\ mInColdBoot' = FALSE
        /\ mEnabled' = TRUE

(* A timer finds GlobalShutdown set by SIGTERM or SIGHUP: restore, exit.   *)
globalShutdown ==
    /\ Disturb("shutdown")
    /\ InEventLoop
    /\ Exit
    /\ shutdown
    /\ UNCHANGED <<settings, dead>>

(* The process dies, or QtService makes it quit: nothing is restored. *)
crash ==
    /\ Disturb("crash")
    /\ running
    /\ Exit
    /\ UNCHANGED <<settings, dead, resolvConf, backup>>

(* The constructor (readSettings() with an empty pool, startup()) and the  *)
(* call of runOnce() that start() makes, whether enabled or not.           *)
start ==
    /\ ~ running
    /\ running' = TRUE
    /\ calls' = <<"readSettings", "refresh">>
    /\ mResolverPool' = {} /\ mResolverCache' = <<>>
    /\ mResolverCacheSize' = settings.size
    /\ mResolversInitialized' = FALSE /\ mInColdBoot' = FALSE /\ tries' = 0
    /\ mEnabled' = settings.enabled
    /\ startup
    /\ UNCHANGED <<settings, dead, disturbances>>

(* Outside the program: the file is edited (not while readSettings() is at *)
(* work, which reads it once), resolvers fail and recover.                 *)
editSettings ==
    /\ Disturb("edit")
    /\ "setEnabled" \notin Elements(calls)
    /\ settings' \in Settings
    /\ UNCHANGED <<running, calls, serverVars, dead, systemVars>>

healthChange ==
    /\ Disturb("health")
    /\ \E r \in Address : dead' \in {dead \cup {r}, dead \ {r}}
    /\ UNCHANGED <<running, settings, calls, serverVars, systemVars>>

-----------------------------------------------------------------------------
Step == \/ updateDNS \/ readSettings \/ readEnabled \/ writeSettings
        \/ \E force \in BOOLEAN : refreshResolvers(force)
        \/ \E force, noticed \in BOOLEAN : recheckResolvers(force, noticed)
        \/ coldBootReturns \/ bootstrapT1 \/ retryT2 \/ bootstrapT2 \/ delayOver

Event == \/ fastTimer \/ refreshTimer
         \/ \E size \in Sizes : setResolverCacheSize(size)
         \/ \E enabled \in BOOLEAN : clientEnables(enabled)
         \/ clientUpdatesDNS

Outside == globalShutdown \/ crash \/ start \/ editSettings \/ healthChange

Next == Step \/ Event \/ Outside

Spec == Init /\ [][Next]_vars

(* Fairness: a call that is running runs on; the fast timer is never       *)
(* killed and Qt delivers a due timer on every pass of an event loop, the  *)
(* nested ones included, which also ends the waits of the cold boot.       *)
Fairness == /\ WF_vars(Step)
            /\ SF_vars(fastTimer)
            /\ SF_vars(delayOver)
            /\ SF_vars(retryT2 \/ bootstrapT2)
            /\ WF_vars(start)

FairSpec == Spec /\ Fairness

(* The refresh timer is periodic as well, however long its period.         *)
RefreshFairSpec == FairSpec /\ SF_vars(refreshTimer)

-----------------------------------------------------------------------------
(* Whatever resizes, boots and updates interleave, the active resolvers    *)
(* are distinct resolvers of the current pool: an update that compares     *)
(* them with its proposal, or a rebooted pool, never meets a stale entry.  *)
CacheFromPool ==
    /\ Elements(mResolverCache) \subseteq mResolverPool
    /\ \A i, j \in DOMAIN mResolverCache :
          i # j => mResolverCache[i] # mResolverCache[j]

(* The promise of ActiveResolvers is kept: no boot, however nested, failed *)
(* or repeated, replaces a pool that is complete under the updates that    *)
(* select from it (opennicserver.cpp:403-502).                             *)
Active == INSTANCE ActiveResolvers WITH
            complete <- mResolversInitialized, pool <- mResolverPool,
            active <- mResolverCache
ImplementsActive == Active!Spec

(* opennicserver.h:106 "the number of resolvers to keep in the cache":     *)
(* outside of an update the cache holds that many resolvers, or the whole  *)
(* pool, even when updates were declined or a resize came in a cold boot.  *)
CacheFull ==
    InEventLoop =>
        Len(mResolverCache) = Minimum(mResolverCacheSize, Cardinality(mResolverPool))

(* There is never a second cold boot inside the event loop of the first,   *)
(* and mInColdBoot says whether there is one.                              *)
BootFramesPending == {i \in DOMAIN calls : calls[i] \in BootFrames}
OneColdBoot ==
    IF mInColdBoot THEN \E i \in DOMAIN calls : BootFramesPending = {i}
                   ELSE BootFramesPending = {}

(* opennicserver.h:106 "(and apply to the O/S)": while the program waits   *)
(* for events, enabled, resolv.conf lists the active resolvers in their    *)
(* order.  It holds where the file can be written, the size is not zero    *)
(* and the enabled flag never changes.                                     *)
SystemFollowsCache ==
    InEventLoop /\ mEnabled => resolvConf = mResolverCache

(* opennicsystem_linux.cpp:125 "Preserve the resolver cache                *)
(* /etc/resolv.conf to /etc/resolv.conf.bak": the lines the administrator  *)
(* had are at the top of the file or of its copy.                          *)
OriginalIsKept ==
    \/ SubSeq(resolvConf, 1, Len(Original)) = Original
    \/ SubSeq(backup, 1, Len(Original)) = Original

(* A cold boot ends, however dig fares, if resolv.conf can be written and  *)
(* the cache size is not zero.                                             *)
ColdBootEnds == [](running => <>(~ running \/ mResolversInitialized))

(* opennicserver.cpp:681 "not so good, get new ones": a resolver that has  *)
(* stopped answering for good leaves the cache for good, if the pool has   *)
(* enough others, the scores put it behind them and the service is up and  *)
(* enabled.                                                                *)
Replaceable(r) == /\ running /\ mEnabled /\ mResolversInitialized
                  /\ r \in dead
                  /\ Cardinality(mResolverPool \ dead) >= mResolverCacheSize
DeadResolverIsReplaced ==
    \A r \in Address :
        <>[]Replaceable(r) => <>[](r \notin Elements(mResolverCache))
=============================================================================
