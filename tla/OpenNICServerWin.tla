--------------------------- MODULE OpenNICServerWin ---------------------------
(***************************************************************************)
(* The service on Windows: opennicserver.cpp over opennicsystem_win.cpp.   *)
(*                                                                         *)
(* A resolver list is applied by one run of netsh for each resolver, and   *)
(* after each the program handles whatever events are due before it looks  *)
(* at the result.  So here, other than on Linux, timers and messages of    *)
(* clients come in the middle of an update, of a restore and of the cold   *)
(* boot's own lists, and share mResolverIndex, mResolverCache and the      *)
(* settings with what they interrupt.                                      *)
(*                                                                         *)
(* "calls" is the stack of pending calls, the running one first, as in     *)
(* OpenNICServer; a call that runs netsh has the list of what it has yet   *)
(* to apply, whose head was given to the netsh that ran last, and the      *)
(* result of that.  The process starts after the constructor and does not  *)
(* end: what is lost with it is in OpenNICServer.                          *)
(***************************************************************************)
EXTENDS Integers, Sequences, FiniteSets, SequencesExt

CONSTANTS T1, T2,         \* the resolvers of the bootstrap list, and of dig
          Sizes,          \* the values resolver_cache_size can be given
          Original,       \* the DNS servers of the interface at the start
          NetshFails,     \* can netsh leave things as they are?
          Disturbance,    \* what clients do
          MaxDisturbances \* bound of their number

ASSUME WinAssumption ==
    /\ T1 # {} /\ IsFiniteSet(T1 \cup T2)
    /\ Sizes \subseteq Nat \ {0}
    /\ Original \in Seq(ToSet(Original)) \ {<<>>}
    /\ ToSet(Original) \cap (T1 \cup T2) = {}
    /\ NetshFails \in BOOLEAN /\ MaxDisturbances \in Nat

VARIABLES calls,
          settings,       \* the settings file: size and enabled
          dns,            \* the DNS servers Windows has for the interface
          resolvConf,     \* the service's file RESOLVE_CONF, a line each
          mResolverIndex, mResolverPool, mResolverCache, mResolverCacheSize,
          mResolversInitialized, mInColdBoot, mUpdatingDNS, mEnabled,
          toggled,        \* history: was the enabled flag ever changed?
          disturbances

osVars == <<dns, resolvConf, mResolverIndex>>
poolVars == <<mResolverPool, mResolversInitialized, mInColdBoot>>
flagVars == <<mEnabled, toggled>>
vars == <<calls, settings, osVars, poolVars, mResolverCache, mResolverCacheSize,
          mUpdatingDNS, flagVars, disturbances>>

Address == T1 \cup T2 \cup ToSet(Original)
Applying == {"applyT1", "applyT2", "applyUpdate"}
EventLoops == Applying \cup {"restore", "preserve", "fetchT2"}
BootFrames == {"bootLoop", "applyT1", "fetchT2", "applyT2"}
Ops == EventLoops \cup BootFrames \cup
       {"readSettings", "readEnabled", "writeSettings", "updateDNS",
        "refresh", "forceRefresh", "recheck", "forceRecheck"}
Minimum(m, n) == IF m <= n THEN m ELSE n

Call(op) == [op |-> op, list |-> <<>>, ok |-> FALSE]

TypeOK == /\ calls \in Seq([op : Ops, list : Seq(Address), ok : BOOLEAN])
          /\ settings \in [size : Sizes, enabled : BOOLEAN]
          /\ dns \in Seq(Address) /\ resolvConf \in Seq(Address)
          /\ mResolverIndex \in Nat
          /\ mResolverPool \subseteq T1 \cup T2
          /\ mResolverCache \in Seq(T1 \cup T2)
          /\ mResolverCacheSize \in Sizes
          /\ mResolversInitialized \in BOOLEAN /\ mInColdBoot \in BOOLEAN
          /\ mUpdatingDNS \in BOOLEAN /\ mEnabled \in BOOLEAN /\ toggled \in BOOLEAN
          /\ disturbances \in 0 .. MaxDisturbances

(* After the constructor, whose startup() has preserved the servers before *)
(* there was a timer or a client, start() calls runOnce().                 *)
Init == /\ calls = <<Call("readSettings"), Call("refresh")>>
        /\ settings \in [size : Sizes, enabled : BOOLEAN]
        /\ dns = Original /\ resolvConf = Original /\ mResolverIndex = 0
        /\ mResolverPool = {} /\ mResolverCache = <<>>
        /\ mResolverCacheSize = settings.size
        /\ mResolversInitialized = FALSE /\ mInColdBoot = FALSE
        /\ mUpdatingDNS = FALSE
        /\ mEnabled = settings.enabled /\ toggled = FALSE
        /\ disturbances = 0

InEventLoop == calls # <<>> => Head(calls).op \in EventLoops
Handle(ops) == InEventLoop /\ calls' = [i \in DOMAIN ops |-> Call(ops[i])] \o calls

Run(op) == calls # <<>> /\ Head(calls).op = op
Return(ops) == calls' = [i \in DOMAIN ops |-> Call(ops[i])] \o Tail(calls)

Rankings(pool, n) ==
    {s \in [1 .. Minimum(n, Cardinality(pool)) -> pool] : IsInjective(s)}

-----------------------------------------------------------------------------
(* netsh and the lists. *)

(* The first of a list replaces what the interface has, the others are     *)
(* added at their index; netsh refuses what is there already.  If it can   *)
(* fail, it refuses an address, or it is not started or not done in time:  *)
(* then there is no exit code, and the 0 there is instead means success.   *)
Netsh(index, address) ==
    (IF index = 1 THEN {[dns |-> <<address>>, ok |-> TRUE]}
     ELSE IF address \in ToSet(dns) THEN {[dns |-> dns, ok |-> FALSE]}
     ELSE {[dns |-> InsertAt(dns, Minimum(index, Len(dns) + 1), address), ok |-> TRUE]})
    \cup (IF NetshFails THEN [dns : {dns}, ok : BOOLEAN] ELSE {})

(* updateResolver() up to its event loop. *)
runNetsh(index, op, list, below) ==
    \E result \in Netsh(index, Head(list)) :
        /\ mResolverIndex' = index
        /\ dns' = result.dns
        /\ calls' = <<[op |-> op, list |-> list, ok |-> result.ok]>> \o below

(* Mutant: the index is not reset. *)
FirstIndex_unreset == mResolverIndex + 1

(* beginUpdateResolvers() resets the index, whoever else is using it. *)
FirstIndex == 1

applyList(op, list, below) == runNetsh(FirstIndex, op, list, below)

(* What follows the last address of a list. *)
After(op) == CASE op = "applyT1" -> <<Call("fetchT2")>>
               [] op = "applyT2" -> <<Call("bootLoop")>>
               [] OTHER          -> <<>>

(* Mutants: what is restored is cached; the flag stays when an update ends. *)
Accepted_restored(call) == call.ok
StaysUpdating_always(call) == mUpdatingDNS

(* updateResolver() was successful, and the caller keeps a cache.          *)
Accepted(call) == call.op \in Applying /\ call.ok

(* The end of the list with the T2 resolvers: endUpdateResolvers() is true *)
(* whatever netsh said.                                                    *)
Initializes(call) == call.op = "applyT2"

StaysUpdating(call) == mUpdatingDNS /\ call.op # "applyUpdate"

(* The events are over: the result of netsh, and the next address.         *)
(* append() ignores an address the cache has.                              *)
nextResolver ==
    LET call == Head(calls)
    IN  /\ calls # <<>> /\ call.op \in Applying \cup {"restore"}
        /\ mResolverCache' =
              IF Accepted(call) /\ Head(call.list) \notin ToSet(mResolverCache)
              THEN Append(mResolverCache, Head(call.list)) ELSE mResolverCache
        /\ IF Len(call.list) > 1
           THEN /\ runNetsh(mResolverIndex + 1, call.op, Tail(call.list), Tail(calls))
                /\ UNCHANGED <<mResolversInitialized, mUpdatingDNS>>
           ELSE /\ calls' = After(call.op) \o Tail(calls)
                /\ mUpdatingDNS' = StaysUpdating(call)
                /\ mResolversInitialized' = (mResolversInitialized \/ Initializes(call))
                /\ UNCHANGED <<dns, mResolverIndex>>
        /\ UNCHANGED <<settings, resolvConf, mResolverPool, mInColdBoot,
                       mResolverCacheSize, flagVars, disturbances>>

(* preserveResolverCache(): what netsh showed before the events is saved.  *)
preserved ==
    /\ Run("preserve") /\ calls' = Tail(calls)
    /\ resolvConf' = IF Head(calls).list = <<>> THEN resolvConf ELSE Head(calls).list
    /\ UNCHANGED <<settings, dns, mResolverIndex, poolVars, mResolverCache,
                   mResolverCacheSize, mUpdatingDNS, flagVars, disturbances>>

(* setEnabled(): a change runs startup() or shutdown().  restoreResolver-  *)
(* Cache() reads the file line by line, which nothing changes meanwhile    *)
(* but a startup() it is interrupted by: it is read at the start here.     *)
setEnabled(enabled, below) ==
    /\ mEnabled' = enabled /\ toggled' = (toggled \/ enabled # mEnabled)
    /\ CASE enabled = mEnabled -> calls' = below /\ UNCHANGED <<dns, mResolverIndex>>
         [] enabled /\ ~ mEnabled ->
              /\ calls' = <<[op |-> "preserve", list |-> dns, ok |-> TRUE]>> \o below
              /\ UNCHANGED <<dns, mResolverIndex>>
         [] OTHER -> applyList("restore", resolvConf, below)

-----------------------------------------------------------------------------
(* The calls, as in OpenNICServer. *)

(* Mutant: only the differences count, not the lengths. *)
shouldReplaceWithProposed_anyLength(proposed) ==
    LET differ == {i \in 1 .. Len(proposed) : proposed[i] \notin ToSet(mResolverCache)}
    IN  Cardinality(differ) >= Len(mResolverCache) \div 2 /\ differ # {}

shouldReplaceWithProposed(proposed) ==
    LET count == Len(mResolverCache)
        differ == {i \in 1 .. Len(proposed) : proposed[i] \notin ToSet(mResolverCache)}
    IN  \/ Len(proposed) # count
        \/ count = 0
        \/ count = 1 /\ proposed[1] = mResolverCache[1]
        \/ count >= 2 /\ Cardinality(differ) >= count \div 2

(* Mutant: an update does not look for another one under way. *)
UpdateSkipped_nested == mResolverPool = {}

(* An update that finds another under way does nothing. *)
UpdateSkipped == mUpdatingDNS \/ mResolverPool = {}

updateDNS ==
    /\ Run("updateDNS")
    /\ \/ /\ UpdateSkipped
          /\ calls' = Tail(calls)
          /\ UNCHANGED <<dns, mResolverIndex, mResolverCache, mUpdatingDNS>>
       \/ /\ ~ UpdateSkipped
          /\ \E proposed \in Rankings(mResolverPool, mResolverCacheSize) :
                IF shouldReplaceWithProposed(proposed)
                THEN /\ mResolverCache' = <<>> /\ mUpdatingDNS' = TRUE
                     /\ applyList("applyUpdate", proposed, Tail(calls))
                ELSE /\ calls' = Tail(calls)
                     /\ UNCHANGED <<dns, mResolverIndex, mResolverCache, mUpdatingDNS>>
    /\ UNCHANGED <<settings, resolvConf, poolVars, mResolverCacheSize, flagVars,
                   disturbances>>

readSettings ==
    /\ Run("readSettings")
    /\ mResolverCacheSize' = settings.size
    /\ Return(IF settings.size # mResolverCacheSize
              THEN <<"updateDNS", "readEnabled">> ELSE <<"readEnabled">>)
    /\ UNCHANGED <<settings, osVars, poolVars, mResolverCache, mUpdatingDNS, flagVars,
                   disturbances>>

readEnabled ==
    /\ Run("readEnabled")
    /\ setEnabled(settings.enabled, Tail(calls))
    /\ UNCHANGED <<settings, resolvConf, poolVars, mResolverCache, mResolverCacheSize,
                   mUpdatingDNS, disturbances>>

writeSettings ==
    /\ Run("writeSettings") /\ Return(<<>>)
    /\ settings' = [size |-> mResolverCacheSize, enabled |-> mEnabled]
    /\ UNCHANGED <<osVars, poolVars, mResolverCache, mResolverCacheSize, mUpdatingDNS,
                   flagVars, disturbances>>

(* Mutant: mInColdBoot is not looked at. *)
Boots_nested == ~ mResolversInitialized

Boots == ~ mResolversInitialized /\ ~ mInColdBoot

refreshResolvers(force) ==
    LET check == IF force THEN "forceRecheck" ELSE "recheck"
    IN  /\ Run(IF force THEN "forceRefresh" ELSE "refresh")
        /\ mInColdBoot' = (mInColdBoot \/ Boots)
        /\ Return(IF Boots THEN <<"readSettings", "bootLoop", check>> ELSE <<check>>)
        /\ UNCHANGED <<settings, osVars, mResolverPool, mResolversInitialized, mResolverCache,
                       mResolverCacheSize, mUpdatingDNS, flagVars, disturbances>>

(* A resolver may be found dead whenever the cache is looked at. *)
recheckResolvers(force, failing) ==
    LET missing == Len(mResolverCache) < mResolverCacheSize \/ mResolverCache = <<>>
    IN  /\ Run(IF force THEN "forceRecheck" ELSE "recheck")
        /\ Return(IF force \/ missing \/ failing THEN <<"updateDNS">> ELSE <<>>)
        /\ UNCHANGED <<settings, osVars, poolVars, mResolverCache, mResolverCacheSize,
                       mUpdatingDNS, flagVars, disturbances>>

coldBootReturns ==
    /\ Run("bootLoop") /\ Return(<<>>)
    /\ mResolversInitialized
    /\ mInColdBoot' = FALSE
    /\ UNCHANGED <<settings, osVars, mResolverPool, mResolversInitialized, mResolverCache,
                   mResolverCacheSize, mUpdatingDNS, flagVars, disturbances>>

bootstrapT1 ==
    /\ Run("bootLoop")
    /\ ~ mResolversInitialized
    /\ mResolverPool' = T1 /\ mResolverCache' = <<>>
    /\ \E proposed \in Rankings(T1, mResolverCacheSize) :
          applyList("applyT1", proposed, Tail(calls))
    /\ UNCHANGED <<settings, resolvConf, mResolversInitialized, mInColdBoot,
                   mResolverCacheSize, mUpdatingDNS, flagVars, disturbances>>

(* dig has returned for the last time.  The pool is not empty and no size  *)
(* is zero, so there is a list to apply, which always ends well: endUpdate-*)
(* Resolvers() has the last word.                                          *)
bootstrapT2 ==
    /\ Run("fetchT2")
    /\ \E list \in SUBSET T2 :
          /\ mResolverPool' = mResolverPool \cup list
          /\ \E proposed \in Rankings(mResolverPool', mResolverCacheSize) :
                applyList("applyT2", proposed, Tail(calls))
    /\ mResolverCache' = <<>>
    /\ UNCHANGED <<settings, resolvConf, mResolversInitialized, mInColdBoot,
                   mResolverCacheSize, mUpdatingDNS, flagVars, disturbances>>

-----------------------------------------------------------------------------
(* Events. *)

fastTimer ==
    /\ Handle(IF mEnabled THEN <<"readSettings", "refresh">> ELSE <<"readSettings">>)
    /\ UNCHANGED <<settings, osVars, poolVars, mResolverCache, mResolverCacheSize,
                   mUpdatingDNS, flagVars, disturbances>>

refreshTimer ==
    /\ mEnabled
    /\ Handle(<<"forceRefresh">>)
    /\ UNCHANGED <<settings, osVars, poolVars, mResolverCache, mResolverCacheSize,
                   mUpdatingDNS, flagVars, disturbances>>

Disturb(kind) == /\ kind \in Disturbance
                 /\ disturbances < MaxDisturbances
                 /\ disturbances' = disturbances + 1

setResolverCacheSize(size) ==
    /\ Disturb("resize")
    /\ mResolverCacheSize' = size
    /\ Handle(IF size # mResolverCacheSize THEN <<"updateDNS", "writeSettings">>
                                           ELSE <<"writeSettings">>)
    /\ UNCHANGED <<settings, osVars, poolVars, mResolverCache, mUpdatingDNS, flagVars>>

clientEnables(enabled) ==
    /\ Disturb("toggle")
    /\ InEventLoop
    /\ setEnabled(enabled, <<Call("writeSettings")>> \o calls)
    /\ UNCHANGED <<settings, resolvConf, poolVars, mResolverCache, mResolverCacheSize,
                   mUpdatingDNS>>

-----------------------------------------------------------------------------
Step == \/ nextResolver \/ preserved
        \/ updateDNS \/ readSettings \/ readEnabled \/ writeSettings
        \/ \E force \in BOOLEAN : refreshResolvers(force)
        \/ \E force, failing \in BOOLEAN : recheckResolvers(force, failing)
        \/ coldBootReturns \/ bootstrapT1 \/ bootstrapT2

Next == \/ Step
        \/ fastTimer \/ refreshTimer
        \/ \E size \in Sizes : setResolverCacheSize(size)
        \/ \E enabled \in BOOLEAN : clientEnables(enabled)

Spec == Init /\ [][Next]_vars

(* Fairness: what runs runs on, and the event loop in each kind of call is *)
(* left, however often it is entered: processEvents() handles the events   *)
(* that are due, once.  The refresh timer is periodic.                     *)
Fairness == /\ WF_vars(Step /\ ~ InEventLoop)
            /\ \A op \in Applying \cup {"restore"} : SF_vars(Run(op) /\ nextResolver)
            /\ SF_vars(preserved) /\ SF_vars(bootstrapT2)
            /\ SF_vars(refreshTimer)
FairSpec == Spec /\ Fairness

-----------------------------------------------------------------------------
Pending(ops) == {i \in DOMAIN calls : calls[i].op \in ops}

(* mUpdatingDNS and mInColdBoot keep updates and boots from nesting: there *)
(* is one of each at most, and the flags say whether there is one.         *)
OneOfEach ==
    /\ Cardinality(Pending({"applyUpdate"})) = IF mUpdatingDNS THEN 1 ELSE 0
    /\ Cardinality(Pending(BootFrames)) = IF mInColdBoot THEN 1 ELSE 0

(* Whatever interrupts a list, the cache is made of distinct resolvers of  *)
(* the pool: an interrupted list goes on with resolvers that still exist.  *)
CacheFromPool ==
    /\ ToSet(mResolverCache) \subseteq mResolverPool
    /\ IsInjective(mResolverCache)

(* The promise of ActiveResolvers is kept, though lists are applied one    *)
(* address at a time: no list goes on over a pool that a boot has replaced *)
(* (opennicserver.cpp:403-502, 567-599).                                   *)
Active == INSTANCE ActiveResolvers WITH
            complete <- mResolversInitialized, pool <- mResolverPool,
            active <- mResolverCache
ImplementsActive == Active!Spec

(* While the program waits, where netsh refuses nothing but what is there  *)
(* and the service was never enabled or disabled, Windows has no resolver  *)
(* of the service that is not in the cache: what testResolverCache()       *)
(* watches includes what is in use, even where a list was applied in the   *)
(* middle of another.                                                      *)
NoStray ==
    calls = <<>> /\ ~ toggled =>
        ToSet(dns) \cap (T1 \cup T2) \subseteq ToSet(mResolverCache)

(* An update ends, whatever interrupts it.                                 *)
UpdateEnds == mUpdatingDNS ~> ~ mUpdatingDNS

(* Undisturbed by clients, an enabled service comes back again and again   *)
(* to waiting with just those resolvers in Windows that the cache has,     *)
(* though its own timers interrupt its cold boot.                          *)
Agree == calls = <<>> /\ ToSet(dns) = ToSet(mResolverCache)
Heals == [](disturbances = 0 /\ mEnabled) => []<>Agree
=============================================================================
