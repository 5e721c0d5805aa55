------------------------ MODULE OpenNICServerWin_proof ------------------------
(***************************************************************************)
(* Theorems about OpenNICServerWin for every set of resolvers, every cache *)
(* size, any depth of interruption and a netsh that may refuse anything.   *)
(*                                                                         *)
(* Two things have to be known of the stack.  What a pending list still    *)
(* has to apply are resolvers of the pool (Good), although the pool is     *)
(* replaced once: that is when it is empty, and nothing can be pending     *)
(* then.  And there is at most one frame of an update and one of a boot    *)
(* (Stack), so that no second boot empties the cache under the first.      *)
(* For NoStray, a resolver that Windows has and the cache has not is one   *)
(* that a pending list will put into the cache (Watched).                  *)
(***************************************************************************)
EXTENDS OpenNICServerWin, FiniteSetTheorems, SequenceTheorems, TLAPS

Frame == [op : Ops, list : Seq(Address), ok : BOOLEAN]

-----------------------------------------------------------------------------
(* How often the calls of K are on a stack. *)

NoCall(s, K) == \A i \in DOMAIN s : s[i].op \notin K
OneCall(s, K) == \E i \in DOMAIN s : /\ s[i].op \in K
                                     /\ \A j \in DOMAIN s : s[j].op \in K => j = i
Stack(s, K, flag) == IF flag THEN OneCall(s, K) ELSE NoCall(s, K)

LEMMA ConcatCalls ==
    ASSUME NEW s \in Seq(Frame), NEW t \in Seq(Frame), NEW K
    PROVE  /\ NoCall(s, K) /\ NoCall(t, K) => NoCall(s \o t, K)
           /\ NoCall(s, K) /\ OneCall(t, K) => OneCall(s \o t, K)
           /\ OneCall(s, K) /\ NoCall(t, K) => OneCall(s \o t, K)
<1>. DEFINE m == Len(s)
            n == Len(t)
<1>1. /\ m \in Nat /\ n \in Nat
      /\ DOMAIN s = 1 .. m /\ DOMAIN t = 1 .. n /\ DOMAIN (s \o t) = 1 .. m + n
      /\ \A i \in 1 .. m : (s \o t)[i] = s[i]
      /\ \A i \in 1 .. n : (s \o t)[m + i] = t[i]
      BY LenProperties, ConcatProperties
<1>2. \A i \in 1 .. m + n :
          (i \in 1 .. m /\ (s \o t)[i] = s[i]) \/ (i - m \in 1 .. n /\ (s \o t)[i] = t[i - m])
  <2>1. \A i \in 1 .. m + n : (s \o t)[i] = IF i <= m THEN s[i] ELSE t[i - m]
        BY ConcatProperties
  <2>. QED  BY <1>1, <2>1
<1>. HIDE DEF m, n
<1>3. NoCall(s, K) /\ NoCall(t, K) => NoCall(s \o t, K)
      BY <1>1, <1>2 DEF NoCall
<1>4. ASSUME NoCall(s, K), OneCall(t, K) PROVE OneCall(s \o t, K)
  <2>1. PICK k \in 1 .. n : t[k].op \in K /\ \A j \in 1 .. n : t[j].op \in K => j = k
        BY <1>1, <1>4 DEF OneCall
  <2>2. m + k \in 1 .. m + n /\ (s \o t)[m + k].op \in K
        BY <1>1, <2>1
  <2>3. ASSUME NEW j \in 1 .. m + n, (s \o t)[j].op \in K PROVE j = m + k
    <3>1. j - m \in 1 .. n /\ t[j - m].op \in K
          BY <1>1, <1>2, <1>4, <2>3 DEF NoCall
    <3>2. j - m = k
          BY <2>1, <3>1
    <3>. QED  BY <1>1, <2>1, <3>2
  <2>. QED  BY <1>1, <2>2, <2>3 DEF OneCall
<1>5. ASSUME OneCall(s, K), NoCall(t, K) PROVE OneCall(s \o t, K)
  <2>1. PICK k \in 1 .. m : s[k].op \in K /\ \A j \in 1 .. m : s[j].op \in K => j = k
        BY <1>1, <1>5 DEF OneCall
  <2>2. k \in 1 .. m + n /\ (s \o t)[k].op \in K
        BY <1>1, <2>1
  <2>3. \A j \in 1 .. m + n : (s \o t)[j].op \in K => j = k
        BY <1>1, <1>2, <1>5, <2>1 DEF NoCall
  <2>. QED  BY <1>1, <2>2, <2>3 DEF OneCall
<1>. QED  BY <1>3, <1>4, <1>5

LEMMA TailCalls ==
    ASSUME NEW s \in Seq(Frame), s # <<>>, NEW K
    PROVE  /\ Tail(s) \in Seq(Frame)
           /\ NoCall(s, K) => Head(s).op \notin K /\ NoCall(Tail(s), K)
           /\ OneCall(s, K) /\ Head(s).op \in K => NoCall(Tail(s), K)
           /\ OneCall(s, K) /\ Head(s).op \notin K => OneCall(Tail(s), K)
<1>. DEFINE n == Len(s)
<1>1. /\ n \in Nat \ {0} /\ Tail(s) \in Seq(Frame)
      /\ DOMAIN s = 1 .. n /\ DOMAIN Tail(s) = 1 .. n - 1
      /\ Head(s) = s[1]
      /\ \A i \in 1 .. n - 1 : Tail(s)[i] = s[i + 1]
      BY LenProperties, HeadTailProperties, EmptySeq
<1>. HIDE DEF n
<1>2. NoCall(s, K) => Head(s).op \notin K /\ NoCall(Tail(s), K)
      BY <1>1 DEF NoCall
<1>3. OneCall(s, K) /\ Head(s).op \in K => NoCall(Tail(s), K)
      BY <1>1 DEF OneCall, NoCall
<1>4. ASSUME OneCall(s, K), Head(s).op \notin K PROVE OneCall(Tail(s), K)
  <2>1. PICK k \in 1 .. n : s[k].op \in K /\ \A j \in 1 .. n : s[j].op \in K => j = k
        BY <1>1, <1>4 DEF OneCall
  <2>2. k # 1
        BY <1>1, <1>4, <2>1
  <2>3. k - 1 \in 1 .. n - 1 /\ Tail(s)[k - 1].op \in K
        BY <1>1, <2>1, <2>2
  <2>4. \A j \in 1 .. n - 1 : Tail(s)[j].op \in K => j = k - 1
        BY <1>1, <2>1
  <2>. QED  BY <1>1, <2>3, <2>4 DEF OneCall
<1>. QED  BY <1>1, <1>2, <1>3, <1>4

(* The first call returns and leaves "then". *)
LEMMA ReturnStack ==
    ASSUME NEW s \in Seq(Frame), s # <<>>, NEW then \in Seq(Frame), NEW K,
           NEW flag \in BOOLEAN, NEW flag2 \in BOOLEAN, Stack(s, K, flag),
           \/ Head(s).op \notin K /\ NoCall(then, K) /\ flag2 = flag
           \/ Head(s).op \notin K /\ OneCall(then, K) /\ ~ flag /\ flag2
           \/ Head(s).op \in K /\ NoCall(then, K) /\ ~ flag2
           \/ Head(s).op \in K /\ OneCall(then, K) /\ flag2
    PROVE  Stack(then \o Tail(s), K, flag2)
<1>1. /\ Tail(s) \in Seq(Frame)
      /\ NoCall(s, K) => Head(s).op \notin K /\ NoCall(Tail(s), K)
      /\ OneCall(s, K) /\ Head(s).op \in K => NoCall(Tail(s), K)
      /\ OneCall(s, K) /\ Head(s).op \notin K => OneCall(Tail(s), K)
      BY TailCalls
<1>2. /\ NoCall(then, K) /\ NoCall(Tail(s), K) => NoCall(then \o Tail(s), K)
      /\ NoCall(then, K) /\ OneCall(Tail(s), K) => OneCall(then \o Tail(s), K)
      /\ OneCall(then, K) /\ NoCall(Tail(s), K) => OneCall(then \o Tail(s), K)
      BY <1>1, ConcatCalls
<1>. QED  BY <1>1, <1>2 DEF Stack

(* Events push calls of their own. *)
LEMMA PushStack ==
    ASSUME NEW s \in Seq(Frame), NEW then \in Seq(Frame), NEW K, NEW flag \in BOOLEAN,
           Stack(s, K, flag), NoCall(then, K)
    PROVE  Stack(then \o s, K, flag)
BY ConcatCalls DEF Stack

-----------------------------------------------------------------------------
(* The inductive invariant. *)

(* What a frame says of the pool: its list is still of the pool's          *)
(* resolvers and not at its end, and dig is only asked when there is a     *)
(* resolver to ask.                                                        *)
Good(pool) == {f \in Frame : /\ f.op \in Applying => ToSet(f.list) \subseteq pool
                             /\ f.op \in Applying \cup {"restore"} => f.list # <<>>
                             /\ f.op = "fetchT2" => pool # {}}

(* The loop of a first boot that has not yet begun has no pool.            *)
StackOK(s) == /\ s \in Seq(Good(mResolverPool))
              /\ Stack(s, {"applyUpdate"}, mUpdatingDNS)
              /\ Stack(s, BootFrames, mInColdBoot)
              /\ ~ mResolversInitialized /\ mResolverPool # {} => NoCall(s, {"bootLoop"})

(* The variables other than the stack. *)
DataOK == /\ settings \in [size : Sizes, enabled : BOOLEAN]
          /\ dns \in Seq(Address) /\ resolvConf \in Seq(Address)
          /\ mResolverIndex \in Nat
          /\ mResolverPool \subseteq T1 \cup T2
          /\ mResolverCache \in Seq(T1 \cup T2)
          /\ mResolverCacheSize \in Sizes
          /\ mResolversInitialized \in BOOLEAN /\ mInColdBoot \in BOOLEAN
          /\ mUpdatingDNS \in BOOLEAN /\ mEnabled \in BOOLEAN /\ toggled \in BOOLEAN
          /\ disturbances \in 0 .. MaxDisturbances

NoPool == ~ mResolversInitialized /\ ~ mInColdBoot => mResolverPool = {}

IInv == DataOK /\ StackOK(calls) /\ NoPool /\ CacheFromPool /\ resolvConf # <<>>

LEMMA Types == IInv => TypeOK
<1>. SUFFICES ASSUME IInv PROVE TypeOK
     OBVIOUS
<1>1. \A P : Good(P) \subseteq Frame
      BY DEF Good
<1>2. Seq(Good(mResolverPool)) \subseteq Seq(Frame)
      BY <1>1
<1>3. calls \in Seq(Frame)
      BY <1>2 DEF IInv, StackOK
<1>. QED  BY <1>3 DEF IInv, DataOK, TypeOK, Frame

(* The pool only grows, and what was good remains so. *)
LEMMA GoodGrows ==
    ASSUME NEW P, NEW Q, P \subseteq Q
    PROVE  Seq(Good(P)) \subseteq Seq(Good(Q)) /\ Seq(Good(P)) \subseteq Seq(Frame)
<1>1. Good(P) \subseteq Good(Q) /\ Good(P) \subseteq Frame
      BY DEF Good
<1>. QED  BY <1>1

(* One frame. *)
LEMMA OneFrame ==
    ASSUME NEW P, NEW f \in Good(P), NEW K
    PROVE  /\ <<f>> \in Seq(Good(P)) /\ <<f>> \in Seq(Frame)
           /\ f.op \notin K => NoCall(<<f>>, K)
           /\ f.op \in K => OneCall(<<f>>, K)
<1>1. <<f>> \in Seq(Good(P)) /\ f \in Frame
      BY DEF Good
<1>2. DOMAIN <<f>> = {1} /\ <<f>>[1] = f
      OBVIOUS
<1>. QED  BY <1>1, <1>2 DEF NoCall, OneCall

(* Calls that run no netsh. *)
Plain == Ops \ EventLoops

LEMMA PlainCalls ==
    ASSUME NEW ops \in Seq(Plain), NEW P
    PROVE  LET then == [i \in DOMAIN ops |-> Call(ops[i])]
           IN  /\ then \in Seq(Good(P)) /\ then \in Seq(Frame)
               /\ DOMAIN then = DOMAIN ops
               /\ \A i \in DOMAIN ops : then[i].op = ops[i]
<1>. DEFINE then == [i \in DOMAIN ops |-> Call(ops[i])]
<1>1. PICK n \in Nat : DOMAIN ops = 1 .. n
      BY LenProperties
<1>2. \A i \in 1 .. n : ops[i] \in Plain
      BY <1>1, ElementOfSeq
<1>3. \A op \in Plain : Call(op) \in Good(P) /\ Call(op).op = op
  <2>1. \A op \in Plain : Call(op) \in Frame /\ Call(op).op = op
        BY EmptySeq DEF Plain, Call, Frame
  <2>2. \A op \in Plain : op \notin Applying \cup {"restore"} /\ op # "fetchT2"
        BY DEF Plain, EventLoops
  <2>. QED  BY <2>1, <2>2 DEF Good
<1>4. then \in [1 .. n -> Good(P)]
      BY <1>1, <1>2, <1>3
<1>5. then \in Seq(Good(P))
      BY <1>4
<1>6. \A i \in DOMAIN ops : then[i].op = ops[i]
      BY <1>1, <1>2, <1>3
<1>. QED  BY <1>5, <1>6, GoodGrows

-----------------------------------------------------------------------------
(* What the operators of the model yield. *)

LEMMA RankingFacts ==
    ASSUME NEW pool, pool \subseteq T1 \cup T2, pool # {}, NEW size \in Sizes,
           NEW list \in Rankings(pool, size)
    PROVE  list \in Seq(pool) /\ list # <<>> /\ ToSet(list) \subseteq pool
           /\ list \in Seq(Address)
<1>1. IsFiniteSet(pool) /\ Cardinality(pool) # 0 /\ Cardinality(pool) \in Nat
      BY WinAssumption, FS_Subset, FS_EmptySet, FS_CardinalityType
<1>. DEFINE n == Minimum(size, Cardinality(pool))
<1>2. n \in Nat \ {0}
      BY <1>1, WinAssumption DEF Minimum
<1>3. list \in [1 .. n -> pool]
      BY DEF Rankings
<1>. HIDE DEF n
<1>4. list \in Seq(pool) /\ Len(list) = n
      BY <1>2, <1>3
<1>5. ToSet(list) \subseteq pool
      BY <1>3 DEF ToSet
<1>6. pool \subseteq Address
      BY DEF Address
<1>7. list \in Seq(Address)
      BY <1>4, <1>6
<1>. QED  BY <1>2, <1>4, <1>5, <1>7

LEMMA NetshFacts ==
    ASSUME dns \in Seq(Address), NEW index \in Nat \ {0}, NEW address \in Address,
           NEW result \in Netsh(index, address)
    PROVE  result.dns \in Seq(Address) /\ result.ok \in BOOLEAN
<1>. DEFINE at == Minimum(index, Len(dns) + 1)
<1>1. Len(dns) \in Nat /\ \A i \in 1 .. Len(dns) : dns[i] \in Address
      BY LenProperties, ElementOfSeq
<1>2. at \in 1 .. Len(dns) + 1
      BY <1>1 DEF Minimum
<1>. HIDE DEF at
<1>3. SubSeq(dns, 1, at - 1) \in Seq(Address) /\ SubSeq(dns, at, Len(dns)) \in Seq(Address)
      BY <1>1, <1>2, SubSeqProperties
<1>4. InsertAt(dns, at, address) \in Seq(Address)
      BY <1>3 DEF InsertAt
<1>5. <<address>> \in Seq(Address)
      OBVIOUS
<1>6. \/ result = [dns |-> <<address>>, ok |-> TRUE]
      \/ result = [dns |-> dns, ok |-> FALSE]
      \/ result = [dns |-> InsertAt(dns, at, address), ok |-> TRUE]
      \/ result \in [dns : {dns}, ok : BOOLEAN]
      BY Zenon DEF Netsh, at
<1>7. CASE result = [dns |-> <<address>>, ok |-> TRUE]
      BY <1>5, <1>7
<1>8. CASE result = [dns |-> dns, ok |-> FALSE]
      BY <1>8
<1>9. CASE result = [dns |-> InsertAt(dns, at, address), ok |-> TRUE]
      BY <1>4, <1>9
<1>10. CASE result \in [dns : {dns}, ok : BOOLEAN]
      BY <1>10
<1>. QED  BY <1>6, <1>7, <1>8, <1>9, <1>10

Framed(op, list, below) ==
    \E f \in Frame : f.op = op /\ f.list = list /\ calls' = <<f>> \o below

(* One netsh for the head of a list: a frame for it is on the stack. *)
LEMMA RunsNetsh ==
    ASSUME dns \in Seq(Address), NEW index \in Nat \ {0}, NEW op \in Ops,
           NEW list \in Seq(Address), list # <<>>, NEW below,
           runNetsh(index, op, list, below)
    PROVE  /\ dns' \in Seq(Address) /\ mResolverIndex' \in Nat
           /\ Framed(op, list, below)
<1>1. Head(list) \in Address
      BY HeadTailProperties
<1>2. PICK result \in Netsh(index, Head(list)) :
          /\ mResolverIndex' = index
          /\ dns' = result.dns
          /\ calls' = <<[op |-> op, list |-> list, ok |-> result.ok]>> \o below
      BY DEF runNetsh
<1>3. result.dns \in Seq(Address) /\ result.ok \in BOOLEAN
      BY <1>1, NetshFacts
<1>. DEFINE f == [op |-> op, list |-> list, ok |-> result.ok]
<1>4. f \in Frame /\ f.op = op /\ f.list = list
      BY <1>3 DEF Frame
<1>. QED  BY <1>2, <1>3, <1>4 DEF Framed

-----------------------------------------------------------------------------
(* What the steps that leave pool and flags alone do to the stack. *)

Kept == Ops \ ({"applyUpdate"} \cup BootFrames)
Quiet(then) == /\ then \in Seq(Good(mResolverPool))
               /\ NoCall(then, {"applyUpdate"} \cup BootFrames)

LEMMA QuietPush ==
    ASSUME NEW s, StackOK(s), NEW then, Quiet(then)
    PROVE  StackOK(then \o s)
<1>1. s \in Seq(Frame) /\ then \in Seq(Frame)
      BY GoodGrows DEF StackOK, Quiet
<1>2. /\ NoCall(then, {"applyUpdate"}) /\ NoCall(then, BootFrames)
      /\ NoCall(then, {"bootLoop"})
      BY DEF Quiet, NoCall, BootFrames
<1>3. /\ Stack(then \o s, {"applyUpdate"}, mUpdatingDNS)
      /\ Stack(then \o s, BootFrames, mInColdBoot)
      BY <1>1, <1>2, ConcatCalls DEF StackOK, Stack
<1>4. NoCall(s, {"bootLoop"}) => NoCall(then \o s, {"bootLoop"})
      BY <1>1, <1>2, ConcatCalls
<1>5. then \o s \in Seq(Good(mResolverPool))
      BY ConcatProperties DEF StackOK, Quiet
<1>. QED  BY <1>3, <1>4, <1>5 DEF StackOK

LEMMA QuietPop ==
    ASSUME StackOK(calls), calls # <<>>, Head(calls).op \in Kept
    PROVE  StackOK(Tail(calls))
<1>1. calls \in Seq(Frame)
      BY GoodGrows DEF StackOK
<1>2. Head(calls).op \notin {"applyUpdate"} /\ Head(calls).op \notin BootFrames
      BY DEF Kept
<1>3. /\ Stack(Tail(calls), {"applyUpdate"}, mUpdatingDNS)
      /\ Stack(Tail(calls), BootFrames, mInColdBoot)
      BY <1>1, <1>2, TailCalls DEF StackOK, Stack
<1>4. NoCall(calls, {"bootLoop"}) => NoCall(Tail(calls), {"bootLoop"})
      BY <1>1, TailCalls
<1>5. Tail(calls) \in Seq(Good(mResolverPool))
      BY HeadTailProperties DEF StackOK
<1>. QED  BY <1>3, <1>4, <1>5 DEF StackOK

QuietVars == <<mResolverPool, mResolversInitialized, mInColdBoot, mUpdatingDNS>>

(* Such a step keeps what is not about data. *)
LEMMA QuietStep ==
    ASSUME IInv, StackOK(calls'), UNCHANGED QuietVars
    PROVE  StackOK(calls)' /\ NoPool'
BY DEF IInv, StackOK, NoPool, QuietVars, Stack, NoCall, OneCall, Good, Frame

LEMMA QuietCache ==
    ASSUME IInv, UNCHANGED <<mResolverPool, mResolverCache>>
    PROVE  CacheFromPool'
BY DEF IInv, CacheFromPool, ToSet, IsInjective

LEMMA QuietCalls ==
    ASSUME NEW ops \in Seq(Kept \ EventLoops)
    PROVE  Quiet([i \in DOMAIN ops |-> Call(ops[i])])
<1>1. ops \in Seq(Plain)
      BY DEF Kept, Plain
<1>2. \A i \in DOMAIN ops : ops[i] \in Kept
      BY ElementOfSeq, LenProperties
<1>3. \A i \in DOMAIN ops : ops[i] \notin {"applyUpdate"} \cup BootFrames
      BY <1>2 DEF Kept
<1>. DEFINE then == [i \in DOMAIN ops |-> Call(ops[i])]
<1>4. /\ then \in Seq(Good(mResolverPool)) /\ DOMAIN then = DOMAIN ops
      /\ \A i \in DOMAIN ops : then[i].op = ops[i]
      BY <1>1, PlainCalls
<1>. HIDE DEF then
<1>5. Quiet(then)
      BY <1>3, <1>4 DEF Quiet, NoCall
<1>. QED  BY <1>5 DEF then

LEMMA QuietReturn ==
    ASSUME IInv, calls # <<>>, Head(calls).op \in Kept, UNCHANGED QuietVars,
           NEW ops \in Seq(Kept \ EventLoops), Return(ops)
    PROVE  StackOK(calls)' /\ NoPool'
<1>1. StackOK(Tail(calls))
      BY QuietPop DEF IInv
<1>2. StackOK(calls')
      BY <1>1, QuietCalls, QuietPush DEF Return
<1>. QED  BY <1>2, QuietStep

LEMMA QuietHandle ==
    ASSUME IInv, UNCHANGED QuietVars, NEW ops \in Seq(Kept \ EventLoops), Handle(ops)
    PROVE  StackOK(calls)' /\ NoPool'
<1>1. StackOK(calls')
      BY QuietCalls, QuietPush DEF Handle, IInv
<1>. QED  BY <1>1, QuietStep

LEMMA QuietFrame ==
    ASSUME NEW f \in Good(mResolverPool), f.op \in Kept
    PROVE  Quiet(<<f>>)
BY OneFrame DEF Quiet, Kept

LEMMA KeptOps ==
    /\ {"readSettings", "readEnabled", "writeSettings", "updateDNS", "refresh",
        "forceRefresh", "recheck", "forceRecheck"} = Kept \ EventLoops
    /\ {"preserve", "restore"} = Kept \cap EventLoops
BY DEF Kept, EventLoops, Applying, BootFrames, Ops

LEMMA QuickCalls ==
    LET Quick == Kept \ EventLoops
    IN  /\ <<>> \in Seq(Quick) /\ <<"updateDNS">> \in Seq(Quick)
        /\ <<"updateDNS", "readEnabled">> \in Seq(Quick) /\ <<"readEnabled">> \in Seq(Quick)
        /\ <<"readSettings", "refresh">> \in Seq(Quick) /\ <<"readSettings">> \in Seq(Quick)
        /\ <<"updateDNS", "writeSettings">> \in Seq(Quick)
        /\ <<"writeSettings">> \in Seq(Quick) /\ <<"forceRefresh">> \in Seq(Quick)
        /\ <<"recheck">> \in Seq(Quick) /\ <<"forceRecheck">> \in Seq(Quick)
<1>. DEFINE Quick == Kept \ EventLoops
<1>1. /\ "updateDNS" \in Quick /\ "readEnabled" \in Quick /\ "readSettings" \in Quick
      /\ "refresh" \in Quick /\ "writeSettings" \in Quick /\ "forceRefresh" \in Quick
      /\ "recheck" \in Quick /\ "forceRecheck" \in Quick
      BY KeptOps
<1>. HIDE DEF Quick
<1>2. \A a, b \in Quick : <<a>> \in Seq(Quick) /\ <<a, b>> \in Seq(Quick)
      OBVIOUS
<1>3. <<>> \in Seq(Quick)
      OBVIOUS
<1>. QED  BY <1>1, <1>2, <1>3 DEF Quick

LEMMA QuickIsPlain == Seq(Kept \ EventLoops) \subseteq Seq(Plain)
<1>1. Kept \ EventLoops \subseteq Plain
      BY DEF Kept, Plain
<1>. QED  BY <1>1

(* The steps that only return or push calls which run no netsh. *)
LEMMA PlainSteps ==
    ASSUME \/ readSettings \/ writeSettings \/ coldBootReturns
           \/ \E force \in BOOLEAN : refreshResolvers(force)
           \/ \E force, failing \in BOOLEAN : recheckResolvers(force, failing)
           \/ fastTimer \/ refreshTimer
           \/ \E size \in Sizes : setResolverCacheSize(size)
    PROVE  \E ops \in Seq(Plain) : \/ calls # <<>> /\ Head(calls).op \notin Applying /\ Return(ops)
                                   \/ Handle(ops)
<1>1. \/ /\ \/ readSettings \/ writeSettings \/ coldBootReturns
            \/ \E force \in BOOLEAN : refreshResolvers(force)
            \/ \E force, failing \in BOOLEAN : recheckResolvers(force, failing)
         /\ calls # <<>> /\ Head(calls).op \notin Applying
      \/ fastTimer \/ refreshTimer \/ \E size \in Sizes : setResolverCacheSize(size)
      BY DEF readSettings, writeSettings, coldBootReturns, refreshResolvers,
                  recheckResolvers, Run, Applying
<1>. DEFINE Boot(check) == <<"readSettings", "bootLoop", check>>
            Short == {<<>>, <<"updateDNS">>, <<"updateDNS", "readEnabled">>,
                      <<"readEnabled">>, <<"readSettings", "refresh">>,
                      <<"readSettings">>, <<"updateDNS", "writeSettings">>,
                      <<"writeSettings">>, <<"forceRefresh">>, <<"recheck">>,
                      <<"forceRecheck">>}
<1>2. /\ \A ops \in Short : ops \in Seq(Plain)
      /\ \A check \in {"recheck", "forceRecheck"} : Boot(check) \in Seq(Plain)
  <2>1. \A ops \in Short : ops \in Seq(Kept \ EventLoops)
        BY QuickCalls
  <2>2. /\ "readSettings" \in Plain /\ "bootLoop" \in Plain
        /\ "recheck" \in Plain /\ "forceRecheck" \in Plain
        BY DEF Plain, Ops, BootFrames, EventLoops, Applying
  <2>. HIDE DEF Short
  <2>3. \A ops \in Short : ops \in Seq(Plain)
        BY <2>1, QuickIsPlain
  <2>4. \A check \in {"recheck", "forceRecheck"} : Boot(check) \in Seq(Plain)
    <3>1. \A a, b, c \in Plain : <<a, b, c>> \in Seq(Plain)
          OBVIOUS
    <3>. QED  BY <2>2, <3>1
  <2>. QED  BY <2>3, <2>4
<1>3. readSettings => \E ops \in Short : Return(ops)
      BY DEF readSettings
<1>4. writeSettings \/ coldBootReturns => \E ops \in Short : Return(ops)
      BY DEF writeSettings, coldBootReturns
<1>5. ASSUME NEW force \in BOOLEAN, refreshResolvers(force)
      PROVE  \/ \E ops \in Short : Return(ops)
             \/ \E check \in {"recheck", "forceRecheck"} : Return(Boot(check))
      BY <1>5 DEF refreshResolvers
<1>6. ASSUME NEW force \in BOOLEAN, NEW failing \in BOOLEAN, recheckResolvers(force, failing)
      PROVE  \E ops \in Short : Return(ops)
      BY <1>6 DEF recheckResolvers
<1>7. fastTimer \/ refreshTimer \/ (\E size \in Sizes : setResolverCacheSize(size))
         => \E ops \in Short : Handle(ops)
      BY Zenon DEF fastTimer, refreshTimer, setResolverCacheSize
<1>. HIDE DEF Boot, Short
<1>8. \E ops \in Seq(Plain) : \/ calls # <<>> /\ Head(calls).op \notin Applying /\ Return(ops)
                              \/ Handle(ops)
      BY <1>1, <1>2, <1>3, <1>4, <1>5, <1>6, <1>7
<1>. QED  BY <1>8

LEMMA SetsEnabled ==
    ASSUME IInv, NEW enabled \in BOOLEAN, NEW below, StackOK(below),
           setEnabled(enabled, below)
    PROVE  /\ StackOK(calls') /\ dns' \in Seq(Address) /\ mResolverIndex' \in Nat
           /\ mEnabled' \in BOOLEAN /\ toggled' \in BOOLEAN
<1>1. /\ dns \in Seq(Address) /\ mResolverIndex \in Nat
      /\ mEnabled \in BOOLEAN /\ toggled \in BOOLEAN
      /\ resolvConf \in Seq(Address) /\ resolvConf # <<>>
      BY DEF IInv, DataOK
<1>2. mEnabled' \in BOOLEAN /\ toggled' \in BOOLEAN
      BY <1>1 DEF setEnabled
<1>3. CASE enabled = mEnabled
  <2>1. calls' = below /\ UNCHANGED <<dns, mResolverIndex>>
        BY <1>3 DEF setEnabled
  <2>. QED  BY <1>1, <1>2, <2>1
<1>4. CASE enabled /\ ~ mEnabled
  <2>. DEFINE f == [op |-> "preserve", list |-> dns, ok |-> TRUE]
  <2>1. calls' = <<f>> \o below /\ UNCHANGED <<dns, mResolverIndex>>
        BY <1>4 DEF setEnabled
  <2>2. f \in Good(mResolverPool) /\ f.op \in Kept
        BY <1>1, KeptOps DEF Good, Frame, Ops, EventLoops, Applying
  <2>. QED  BY <1>1, <1>2, <2>1, <2>2, QuietFrame, QuietPush
<1>5. CASE ~ enabled /\ mEnabled
  <2>1. runNetsh(1, "restore", resolvConf, below)
        BY <1>5, Zenon DEF setEnabled, applyList, FirstIndex
  <2>2. "restore" \in Ops /\ 1 \in Nat \ {0} /\ resolvConf # <<>>
        BY <1>1 DEF Ops, EventLoops
  <2>3. /\ dns' \in Seq(Address) /\ mResolverIndex' \in Nat
        /\ Framed("restore", resolvConf, below)
    <3>1. dns \in Seq(Address) /\ resolvConf \in Seq(Address)
          BY <1>1
    <3>. QED  BY <2>1, <2>2, <3>1, RunsNetsh
  <2>4. PICK f \in Frame : /\ f.op = "restore" /\ f.list = resolvConf
                           /\ calls' = <<f>> \o below
        BY <2>3 DEF Framed
  <2>5. f \in Good(mResolverPool) /\ f.op \in Kept
        BY <1>1, <2>4, KeptOps DEF Good, Applying
  <2>. QED  BY <1>2, <2>3, <2>4, <2>5, QuietFrame, QuietPush
<1>. QED  BY <1>1, <1>3, <1>4, <1>5

-----------------------------------------------------------------------------
(* The steps. *)

LEMMA HeadIsFrame ==
    ASSUME NEW P, NEW s \in Seq(Good(P)), s # <<>>
    PROVE  /\ Head(s) \in Good(P) /\ Tail(s) \in Seq(Good(P))
           /\ Head(s).op \in Ops /\ Head(s).list \in Seq(Address)
<1>1. Head(s) \in Good(P) /\ Tail(s) \in Seq(Good(P))
      BY HeadTailProperties
<1>. QED  BY <1>1 DEF Good, Frame

LEMMA PreservedStep == ASSUME IInv, preserved PROVE IInv'
<1>1. calls # <<>> /\ Head(calls).op = "preserve" /\ calls' = Tail(calls)
      BY DEF preserved, Run
<1>2. UNCHANGED <<QuietVars, mResolverCache>>
      BY DEF preserved, poolVars, QuietVars
<1>3. StackOK(calls')
      BY <1>1, KeptOps, QuietPop DEF IInv
<1>4. Head(calls).list \in Seq(Address)
      BY <1>1, HeadIsFrame DEF IInv, StackOK
<1>5. DataOK' /\ (resolvConf # <<>>)'
      BY <1>4 DEF preserved, IInv, DataOK, poolVars, flagVars
<1>. QED  BY <1>2, <1>3, <1>5, QuietStep, QuietCache DEF IInv, QuietVars

LEMMA ReadSettingsStep == ASSUME IInv, readSettings PROVE IInv'
<1>. DEFINE ops == IF settings.size # mResolverCacheSize
                   THEN <<"updateDNS", "readEnabled">> ELSE <<"readEnabled">>
<1>1. /\ calls # <<>> /\ Head(calls).op \in Kept /\ Return(ops)
      BY KeptOps DEF readSettings, Run
<1>2. UNCHANGED <<QuietVars, mResolverCache, resolvConf>>
      BY DEF readSettings, poolVars, QuietVars, osVars
<1>3. ops \in Seq(Kept \ EventLoops)
      BY QuickCalls
<1>. HIDE DEF ops
<1>4. StackOK(calls)' /\ NoPool'
      BY <1>1, <1>2, <1>3, QuietReturn
<1>5. DataOK'
      BY DEF readSettings, IInv, DataOK, poolVars, flagVars, osVars
<1>. QED  BY <1>2, <1>4, <1>5, QuietCache DEF IInv, QuietVars

LEMMA ReadEnabledStep == ASSUME IInv, readEnabled PROVE IInv'
<1>1. /\ calls # <<>> /\ Head(calls).op \in Kept
      /\ setEnabled(settings.enabled, Tail(calls))
      BY KeptOps DEF readEnabled, Run
<1>2. UNCHANGED <<QuietVars, mResolverCache, resolvConf>>
      BY DEF readEnabled, poolVars, QuietVars
<1>3. settings.enabled \in BOOLEAN
      BY DEF IInv, DataOK
<1>4. /\ StackOK(calls') /\ dns' \in Seq(Address) /\ mResolverIndex' \in Nat
      /\ mEnabled' \in BOOLEAN /\ toggled' \in BOOLEAN
      BY <1>1, <1>3, QuietPop, SetsEnabled DEF IInv
<1>5. DataOK'
      BY <1>4 DEF readEnabled, IInv, DataOK, poolVars
<1>. QED  BY <1>2, <1>4, <1>5, QuietStep, QuietCache DEF IInv, QuietVars

LEMMA WriteSettingsStep == ASSUME IInv, writeSettings PROVE IInv'
<1>1. /\ calls # <<>> /\ Head(calls).op \in Kept /\ Return(<<>>)
      BY KeptOps DEF writeSettings, Run
<1>2. UNCHANGED <<QuietVars, mResolverCache, resolvConf>>
      BY DEF writeSettings, poolVars, QuietVars, osVars
<1>3. StackOK(calls)' /\ NoPool'
      BY <1>1, <1>2, EmptySeq, QuietReturn
<1>4. DataOK'
      BY DEF writeSettings, IInv, DataOK, poolVars, flagVars, osVars
<1>. QED  BY <1>2, <1>3, <1>4, QuietCache DEF IInv, QuietVars

LEMMA RecheckStep ==
    ASSUME IInv, NEW force \in BOOLEAN, NEW failing \in BOOLEAN,
           recheckResolvers(force, failing)
    PROVE  IInv'
<1>1. calls # <<>> /\ Head(calls).op \in Kept
      BY KeptOps DEF recheckResolvers, Run
<1>2. UNCHANGED <<QuietVars, mResolverCache, resolvConf>>
      BY DEF recheckResolvers, poolVars, QuietVars, osVars
<1>3. PICK ops \in {<<"updateDNS">>, <<>>} : Return(ops)
      BY DEF recheckResolvers
<1>4. ops \in Seq(Kept \ EventLoops)
      BY QuickCalls
<1>5. StackOK(calls)' /\ NoPool'
      BY <1>1, <1>2, <1>3, <1>4, QuietReturn
<1>6. DataOK'
      BY DEF recheckResolvers, IInv, DataOK, poolVars, flagVars, osVars
<1>. QED  BY <1>2, <1>5, <1>6, QuietCache DEF IInv, QuietVars

(* The timers, and the messages of clients. *)
LEMMA EventStep ==
    ASSUME IInv,
           \/ fastTimer \/ refreshTimer
           \/ \E size \in Sizes : setResolverCacheSize(size)
    PROVE  IInv'
<1>1. UNCHANGED <<QuietVars, mResolverCache, resolvConf>>
      BY DEF fastTimer, refreshTimer, setResolverCacheSize, poolVars, QuietVars, osVars
<1>2. PICK ops \in {<<"readSettings", "refresh">>, <<"readSettings">>, <<"forceRefresh">>,
                    <<"updateDNS", "writeSettings">>, <<"writeSettings">>} : Handle(ops)
      BY Zenon DEF fastTimer, refreshTimer, setResolverCacheSize
<1>3. ops \in Seq(Kept \ EventLoops)
      BY QuickCalls
<1>4. StackOK(calls)' /\ NoPool'
      BY <1>1, <1>2, <1>3, QuietHandle
<1>5. ASSUME fastTimer \/ refreshTimer PROVE DataOK'
      BY <1>5 DEF fastTimer, refreshTimer, IInv, DataOK, poolVars, flagVars, osVars
<1>6. ASSUME NEW size \in Sizes, setResolverCacheSize(size) PROVE DataOK'
      BY <1>6, WinAssumption
         DEF setResolverCacheSize, Disturb, IInv, DataOK, poolVars, flagVars, osVars
<1>. QED  BY <1>1, <1>4, <1>5, <1>6, QuietCache DEF IInv, QuietVars

LEMMA ClientEnablesStep ==
    ASSUME IInv, NEW enabled \in BOOLEAN, clientEnables(enabled)
    PROVE  IInv'
<1>. DEFINE below == <<Call("writeSettings")>> \o calls
<1>1. setEnabled(enabled, below) /\ UNCHANGED <<QuietVars, mResolverCache, resolvConf>>
      BY DEF clientEnables, poolVars, QuietVars
<1>2. Call("writeSettings") \in Good(mResolverPool) /\ Call("writeSettings").op \in Kept
  <2>1. Call("writeSettings") \in Frame /\ Call("writeSettings").op = "writeSettings"
        BY EmptySeq DEF Call, Frame, Ops
  <2>. QED  BY <2>1, KeptOps DEF Good, Applying
<1>3. StackOK(below)
      BY <1>2, QuietFrame, QuietPush DEF IInv
<1>. HIDE DEF below
<1>4. /\ StackOK(calls') /\ dns' \in Seq(Address) /\ mResolverIndex' \in Nat
      /\ mEnabled' \in BOOLEAN /\ toggled' \in BOOLEAN
      BY <1>1, <1>3, SetsEnabled
<1>5. DataOK'
      BY <1>4, WinAssumption DEF clientEnables, Disturb, IInv, DataOK, poolVars
<1>. QED  BY <1>1, <1>4, <1>5, QuietStep, QuietCache DEF IInv, QuietVars

-----------------------------------------------------------------------------
(* The steps that apply a list, and those of the cold boot. *)

(* What "then" must be for the calls of K if it replaces the first call.   *)
Moves(then, K, flag, flag2) ==
    \/ Head(calls).op \notin K /\ NoCall(then, K) /\ flag2 = flag
    \/ Head(calls).op \notin K /\ OneCall(then, K) /\ ~ flag /\ flag2
    \/ Head(calls).op \in K /\ NoCall(then, K) /\ ~ flag2
    \/ Head(calls).op \in K /\ OneCall(then, K) /\ flag2

LEMMA FlagOfHead ==
    ASSUME StackOK(calls), calls # <<>>
    PROVE  /\ Head(calls).op = "applyUpdate" => mUpdatingDNS
           /\ Head(calls).op \in BootFrames => mInColdBoot /\ NoCall(Tail(calls), {"bootLoop"})
<1>1. calls \in Seq(Frame)
      BY GoodGrows DEF StackOK
<1>2. Head(calls).op = "applyUpdate" => ~ NoCall(calls, {"applyUpdate"})
      BY <1>1, TailCalls
<1>3. Head(calls).op \in BootFrames => ~ NoCall(calls, BootFrames)
      BY <1>1, TailCalls
<1>4. OneCall(calls, BootFrames) /\ Head(calls).op \in BootFrames
         => NoCall(Tail(calls), BootFrames)
      BY <1>1, TailCalls
<1>5. NoCall(Tail(calls), BootFrames) => NoCall(Tail(calls), {"bootLoop"})
      BY DEF NoCall, BootFrames
<1>. QED  BY <1>2, <1>3, <1>4, <1>5 DEF StackOK, Stack

LEMMA StackStep ==
    ASSUME IInv, calls # <<>>, mResolverPool \subseteq mResolverPool',
           mUpdatingDNS' \in BOOLEAN, mInColdBoot' \in BOOLEAN,
           NEW then \in Seq(Good(mResolverPool')), calls' = then \o Tail(calls),
           Moves(then, {"applyUpdate"}, mUpdatingDNS, mUpdatingDNS'),
           Moves(then, BootFrames, mInColdBoot, mInColdBoot'),
           \/ mResolversInitialized' \/ mResolverPool' = {}
           \/ NoCall(then, {"bootLoop"}) /\ Head(calls).op \in BootFrames
           \/ NoCall(then, {"bootLoop"}) /\ UNCHANGED <<mResolversInitialized, mResolverPool>>
    PROVE  StackOK(calls)'
<1>1. /\ calls \in Seq(Frame) /\ then \in Seq(Frame) /\ StackOK(calls)
      /\ calls \in Seq(Good(mResolverPool'))
      /\ mUpdatingDNS \in BOOLEAN /\ mInColdBoot \in BOOLEAN
      BY GoodGrows DEF IInv, StackOK, DataOK
<1>2. calls' \in Seq(Good(mResolverPool'))
      BY <1>1, HeadTailProperties, ConcatProperties
<1>3. Stack(calls', {"applyUpdate"}, mUpdatingDNS')
      BY <1>1, ReturnStack DEF Moves, StackOK
<1>4. Stack(calls', BootFrames, mInColdBoot')
      BY <1>1, ReturnStack DEF Moves, StackOK
<1>5. ASSUME ~ mResolversInitialized', mResolverPool' # {}
      PROVE  NoCall(calls', {"bootLoop"})
  <2>1. NoCall(then, {"bootLoop"})
        BY <1>5
  <2>2. NoCall(Tail(calls), {"bootLoop"})
    <3>1. CASE Head(calls).op \in BootFrames
          BY <1>1, <3>1, FlagOfHead
    <3>2. CASE UNCHANGED <<mResolversInitialized, mResolverPool>>
      <4>1. NoCall(calls, {"bootLoop"})
            BY <1>1, <1>5, <3>2 DEF StackOK
      <4>. QED  BY <1>1, <4>1, TailCalls
    <3>. QED  BY <1>5, <3>1, <3>2
  <2>3. Tail(calls) \in Seq(Frame)
        BY <1>1, TailCalls
  <2>. QED  BY <1>1, <2>1, <2>2, <2>3, ConcatCalls
<1>. QED  BY <1>2, <1>3, <1>4, <1>5 DEF StackOK, Stack, NoCall, OneCall, Good, Frame

LEMMA ColdBootReturnsStep == ASSUME IInv, coldBootReturns PROVE IInv'
<1>1. /\ calls # <<>> /\ Head(calls).op = "bootLoop" /\ mResolversInitialized
      /\ mInColdBoot' = FALSE
      /\ UNCHANGED <<mResolverPool, mResolversInitialized, mUpdatingDNS, mResolverCache,
                     resolvConf>>
      BY DEF coldBootReturns, Run, osVars
<1>2. calls' = <<>> \o Tail(calls)
      BY DEF coldBootReturns, Return
<1>3. \A K : NoCall(<<>>, K)
      BY DEF NoCall
<1>4. /\ Moves(<<>>, {"applyUpdate"}, mUpdatingDNS, mUpdatingDNS')
      /\ Moves(<<>>, BootFrames, mInColdBoot, mInColdBoot')
      BY <1>1, <1>3 DEF Moves, BootFrames
<1>5. /\ mUpdatingDNS' \in BOOLEAN /\ mInColdBoot' \in BOOLEAN /\ NoPool'
      /\ <<>> \in Seq(Good(mResolverPool'))
      BY <1>1, EmptySeq DEF IInv, DataOK, NoPool
<1>6. StackOK(calls)'
      BY <1>1, <1>2, <1>3, <1>4, <1>5, StackStep
<1>7. DataOK'
      BY DEF coldBootReturns, IInv, DataOK, flagVars, osVars
<1>. QED  BY <1>1, <1>5, <1>6, <1>7, QuietCache DEF IInv

LEMMA RefreshStep ==
    ASSUME IInv, NEW force \in BOOLEAN, refreshResolvers(force)
    PROVE  IInv'
<1>1. /\ calls # <<>> /\ Head(calls).op \in Kept
      /\ UNCHANGED <<mResolverPool, mResolversInitialized, mUpdatingDNS, mResolverCache,
                     resolvConf>>
      BY KeptOps DEF refreshResolvers, Run, osVars
<1>2. DataOK'
      BY DEF refreshResolvers, IInv, DataOK, flagVars, osVars
<1>3. CASE ~ Boots
  <2>1. PICK ops \in {<<"recheck">>, <<"forceRecheck">>} : Return(ops)
        BY <1>3 DEF refreshResolvers
  <2>2. ops \in Seq(Kept \ EventLoops)
        BY QuickCalls
  <2>3. UNCHANGED <<QuietVars, mResolverCache, resolvConf>>
    <3>1. mInColdBoot' = mInColdBoot
          BY <1>3 DEF refreshResolvers, IInv, DataOK
    <3>. QED  BY <1>1, <3>1 DEF QuietVars
  <2>4. StackOK(calls)' /\ NoPool'
        BY <1>1, <2>1, <2>2, <2>3, QuietReturn
  <2>. QED  BY <1>2, <2>3, <2>4, QuietCache DEF IInv, QuietVars
<1>4. CASE Boots
  <2>1. PICK check \in {"recheck", "forceRecheck"} :
            Return(<<"readSettings", "bootLoop", check>>)
        BY <1>4 DEF refreshResolvers
  <2>. DEFINE ops == <<"readSettings", "bootLoop", check>>
              then == [i \in DOMAIN ops |-> Call(ops[i])]
  <2>2. /\ ~ mResolversInitialized /\ ~ mInColdBoot /\ mInColdBoot' = TRUE
        /\ mResolverPool' = {} /\ NoPool'
        BY <1>1, <1>4 DEF Boots, refreshResolvers, IInv, NoPool
  <2>3. /\ "readSettings" \in Plain /\ "bootLoop" \in Plain /\ check \in Plain
        BY DEF Plain, Ops, BootFrames, EventLoops, Applying
  <2>4. /\ ops \in Seq(Plain) /\ DOMAIN ops = 1 .. 3 /\ ops[1] = "readSettings"
        /\ ops[2] = "bootLoop" /\ ops[3] = check
        BY <2>3
  <2>. HIDE DEF ops
  <2>5. /\ then \in Seq(Good(mResolverPool')) /\ DOMAIN then = 1 .. 3
        /\ \A i \in 1 .. 3 : then[i].op = ops[i]
        BY <2>4, PlainCalls
  <2>6. calls' = then \o Tail(calls)
        BY <2>1 DEF Return, ops
  <2>. HIDE DEF then
  <2>7. NoCall(then, {"applyUpdate"})
        BY <2>4, <2>5 DEF NoCall
  <2>8. OneCall(then, BootFrames)
    <3>1. \A i \in 1 .. 3 : then[i].op \in BootFrames <=> i = 2
          BY <2>4, <2>5 DEF BootFrames
    <3>. QED  BY <2>5, <3>1 DEF OneCall
  <2>9. /\ Moves(then, {"applyUpdate"}, mUpdatingDNS, mUpdatingDNS')
        /\ Moves(then, BootFrames, mInColdBoot, mInColdBoot')
        BY <1>1, <2>2, <2>7, <2>8 DEF Moves, Kept
  <2>10. StackOK(calls)'
    <3>1. mUpdatingDNS' \in BOOLEAN /\ mInColdBoot' \in BOOLEAN
          BY <1>2 DEF DataOK
    <3>. QED  BY <1>1, <2>2, <2>5, <2>6, <2>9, <3>1, StackStep
  <2>. QED  BY <1>1, <1>2, <2>2, <2>10, QuietCache DEF IInv
<1>. QED  BY <1>3, <1>4

(* A list of the pool's resolvers is begun: one frame more. *)
LEMMA ListFrame ==
    ASSUME DataOK, NEW op \in Applying, NEW pool, NEW list \in Seq(Address), list # <<>>,
           ToSet(list) \subseteq pool, NEW index \in Nat \ {0},
           runNetsh(index, op, list, Tail(calls))
    PROVE  /\ dns' \in Seq(Address) /\ mResolverIndex' \in Nat
           /\ \E f \in Good(pool) : f.op = op /\ calls' = <<f>> \o Tail(calls)
<1>1. op \in Ops /\ op # "fetchT2"
      BY DEF Ops, EventLoops, Applying
<1>2. dns \in Seq(Address)
      BY DEF DataOK
<1>3. dns' \in Seq(Address) /\ mResolverIndex' \in Nat /\ Framed(op, list, Tail(calls))
      BY <1>1, <1>2, RunsNetsh
<1>4. PICK f \in Frame : f.op = op /\ f.list = list /\ calls' = <<f>> \o Tail(calls)
      BY <1>3 DEF Framed
<1>5. f \in Good(pool)
      BY <1>1, <1>4 DEF Good
<1>. QED  BY <1>3, <1>4, <1>5

LEMMA EmptyCache ==
    ASSUME mResolverCache' = <<>>
    PROVE  CacheFromPool'
BY DEF CacheFromPool, ToSet, IsInjective

LEMMA UpdateStep == ASSUME IInv, updateDNS PROVE IInv'
<1>1. /\ calls # <<>> /\ Head(calls).op = "updateDNS" /\ Head(calls).op \in Kept
      /\ UNCHANGED <<mResolverPool, mResolversInitialized, mInColdBoot, resolvConf>>
      /\ NoPool'
      BY KeptOps DEF updateDNS, Run, poolVars, IInv, NoPool
<1>2. CASE calls' = Tail(calls) /\ UNCHANGED <<dns, mResolverIndex, mResolverCache, mUpdatingDNS>>
  <2>1. UNCHANGED <<QuietVars, mResolverCache>>
        BY <1>1, <1>2 DEF QuietVars
  <2>2. StackOK(calls')
        BY <1>1, <1>2, QuietPop DEF IInv
  <2>3. DataOK'
        BY <1>2 DEF updateDNS, IInv, DataOK, poolVars, flagVars
  <2>. QED  BY <1>1, <2>1, <2>2, <2>3, QuietStep, QuietCache DEF IInv
<1>3. ASSUME ~ UpdateSkipped, NEW list \in Rankings(mResolverPool, mResolverCacheSize),
             mResolverCache' = <<>>, mUpdatingDNS' = TRUE,
             applyList("applyUpdate", list, Tail(calls))
      PROVE  IInv'
  <2>1. /\ mResolverPool \subseteq T1 \cup T2 /\ mResolverPool # {} /\ ~ mUpdatingDNS
        /\ mResolverCacheSize \in Sizes
        BY <1>3 DEF UpdateSkipped, IInv, DataOK
  <2>2. /\ list \in Seq(Address) /\ list # <<>> /\ ToSet(list) \subseteq mResolverPool
        BY <2>1, RankingFacts
  <2>3. runNetsh(1, "applyUpdate", list, Tail(calls)) /\ 1 \in Nat \ {0}
        /\ "applyUpdate" \in Applying
        BY <1>3 DEF applyList, FirstIndex, Applying
  <2>4. /\ dns' \in Seq(Address) /\ mResolverIndex' \in Nat
        /\ \E f \in Good(mResolverPool) :
               f.op = "applyUpdate" /\ calls' = <<f>> \o Tail(calls)
        BY <2>2, <2>3, ListFrame DEF IInv
  <2>5. PICK f \in Good(mResolverPool) :
               f.op = "applyUpdate" /\ calls' = <<f>> \o Tail(calls)
        BY <2>4
  <2>6. /\ <<f>> \in Seq(Good(mResolverPool')) /\ OneCall(<<f>>, {"applyUpdate"})
        /\ NoCall(<<f>>, BootFrames) /\ NoCall(<<f>>, {"bootLoop"})
    <3>1. f.op \in {"applyUpdate"} /\ f.op \notin BootFrames /\ f.op \notin {"bootLoop"}
          BY <2>5 DEF BootFrames
    <3>. QED  BY <1>1, <3>1, OneFrame
  <2>7. /\ Moves(<<f>>, {"applyUpdate"}, mUpdatingDNS, mUpdatingDNS')
        /\ Moves(<<f>>, BootFrames, mInColdBoot, mInColdBoot')
        BY <1>1, <1>3, <2>1, <2>6 DEF Moves, BootFrames
  <2>8. DataOK'
    <3>1. mResolverCache' \in Seq(T1 \cup T2) /\ mUpdatingDNS' \in BOOLEAN
          BY <1>3, EmptySeq
    <3>. QED  BY <2>4, <3>1 DEF updateDNS, IInv, DataOK, poolVars, flagVars
  <2>9. mUpdatingDNS' \in BOOLEAN /\ mInColdBoot' \in BOOLEAN
        BY <2>8 DEF DataOK
  <2>10. StackOK(calls)'
        BY <1>1, <2>5, <2>6, <2>7, <2>9, StackStep
  <2>. QED  BY <1>1, <1>3, <2>8, <2>10, EmptyCache DEF IInv
<1>. QED  BY <1>2, <1>3 DEF updateDNS

(* A list of the boot replaces the frame of the boot, and maybe the pool.  *)
LEMMA BootList ==
    ASSUME IInv, calls # <<>>, Head(calls).op \in BootFrames, NEW op \in Applying,
           op \in BootFrames, mResolverPool \subseteq mResolverPool',
           mResolverPool' \subseteq T1 \cup T2, mResolverPool' # {},
           NEW list \in Rankings(mResolverPool', mResolverCacheSize),
           applyList(op, list, Tail(calls)), mResolverCache' = <<>>,
           UNCHANGED <<settings, resolvConf, mResolversInitialized, mInColdBoot,
                       mResolverCacheSize, mUpdatingDNS, flagVars, disturbances>>
    PROVE  IInv'
<1>1. mInColdBoot /\ mResolverCacheSize \in Sizes
      BY FlagOfHead DEF IInv, DataOK
<1>2. /\ list \in Seq(Address) /\ list # <<>> /\ ToSet(list) \subseteq mResolverPool'
      BY <1>1, RankingFacts
<1>3. runNetsh(1, op, list, Tail(calls)) /\ 1 \in Nat \ {0}
      BY DEF applyList, FirstIndex
<1>4. /\ dns' \in Seq(Address) /\ mResolverIndex' \in Nat
      /\ \E f \in Good(mResolverPool') : f.op = op /\ calls' = <<f>> \o Tail(calls)
      BY <1>2, <1>3, ListFrame DEF IInv
<1>5. PICK f \in Good(mResolverPool') : f.op = op /\ calls' = <<f>> \o Tail(calls)
      BY <1>4
<1>6. /\ <<f>> \in Seq(Good(mResolverPool')) /\ NoCall(<<f>>, {"applyUpdate"})
      /\ OneCall(<<f>>, BootFrames) /\ NoCall(<<f>>, {"bootLoop"})
  <2>1. f.op \notin {"applyUpdate"} /\ f.op \in BootFrames /\ f.op \notin {"bootLoop"}
        BY <1>5 DEF BootFrames, Applying
  <2>. QED  BY <2>1, OneFrame
<1>7. /\ Moves(<<f>>, {"applyUpdate"}, mUpdatingDNS, mUpdatingDNS')
      /\ Moves(<<f>>, BootFrames, mInColdBoot, mInColdBoot')
      BY <1>1, <1>6 DEF Moves, BootFrames
<1>8. DataOK'
  <2>1. mResolverCache' \in Seq(T1 \cup T2)
        BY EmptySeq
  <2>. QED  BY <1>4, <2>1 DEF IInv, DataOK, flagVars
<1>9. mUpdatingDNS' \in BOOLEAN /\ mInColdBoot' \in BOOLEAN
      BY <1>8 DEF DataOK
<1>10. StackOK(calls)'
      BY <1>5, <1>6, <1>7, <1>9, StackStep
<1>11. NoPool' /\ (resolvConf # <<>>)'
      BY <1>1 DEF NoPool, IInv
<1>. QED  BY <1>8, <1>10, <1>11, EmptyCache DEF IInv

LEMMA BootstrapT1Step == ASSUME IInv, bootstrapT1 PROVE IInv'
<1>1. /\ calls # <<>> /\ Head(calls).op = "bootLoop" /\ ~ mResolversInitialized
      BY DEF bootstrapT1, Run
<1>2. mResolverPool = {}
  <2>1. calls \in Seq(Frame) /\ Head(calls).op \in {"bootLoop"}
        BY <1>1, GoodGrows DEF IInv, StackOK
  <2>2. ~ NoCall(calls, {"bootLoop"})
        BY <1>1, <2>1, TailCalls
  <2>. QED  BY <1>1, <2>2 DEF IInv, StackOK
<1>3. /\ Head(calls).op \in BootFrames /\ "applyT1" \in Applying /\ "applyT1" \in BootFrames
      /\ T1 # {}
      BY <1>1, WinAssumption DEF BootFrames, Applying
<1>4. PICK list \in Rankings(T1, mResolverCacheSize) : applyList("applyT1", list, Tail(calls))
      BY DEF bootstrapT1
<1>5. /\ mResolverPool' = T1 /\ mResolverCache' = <<>>
      /\ UNCHANGED <<settings, resolvConf, mResolversInitialized, mInColdBoot,
                     mResolverCacheSize, mUpdatingDNS, flagVars, disturbances>>
      BY DEF bootstrapT1
<1>. QED  BY <1>1, <1>2, <1>3, <1>4, <1>5, BootList

LEMMA BootstrapT2Step == ASSUME IInv, bootstrapT2 PROVE IInv'
<1>1. /\ calls # <<>> /\ Head(calls).op = "fetchT2"
      BY DEF bootstrapT2, Run
<1>2. mResolverPool # {}
  <2>1. Head(calls) \in Good(mResolverPool)
        BY <1>1, HeadIsFrame DEF IInv, StackOK
  <2>. QED  BY <1>1, <2>1 DEF Good
<1>3. /\ Head(calls).op \in BootFrames /\ "applyT2" \in Applying /\ "applyT2" \in BootFrames
      BY <1>1 DEF BootFrames, Applying
<1>4. PICK new \in SUBSET T2 :
          /\ mResolverPool' = mResolverPool \cup new
          /\ \E list \in Rankings(mResolverPool', mResolverCacheSize) :
                applyList("applyT2", list, Tail(calls))
      BY DEF bootstrapT2
<1>5. PICK list \in Rankings(mResolverPool', mResolverCacheSize) :
          applyList("applyT2", list, Tail(calls))
      BY <1>4
<1>6. /\ mResolverCache' = <<>>
      /\ UNCHANGED <<settings, resolvConf, mResolversInitialized, mInColdBoot,
                     mResolverCacheSize, mUpdatingDNS, flagVars, disturbances>>
      BY DEF bootstrapT2
<1>7. /\ mResolverPool \subseteq mResolverPool' /\ mResolverPool' # {}
      /\ mResolverPool' \subseteq T1 \cup T2
      BY <1>2, <1>4 DEF IInv, DataOK
<1>. QED  BY <1>1, <1>3, <1>5, <1>6, <1>7, BootList

-----------------------------------------------------------------------------
(* The step from one address of a list to the next. *)

NextVars == <<settings, resolvConf, mResolverPool, mInColdBoot, mResolverCacheSize,
              flagVars, disturbances>>

(* The frame that goes on, with what is left of its list. *)
LEMMA ListGoesOn ==
    ASSUME IInv, calls # <<>>, Head(calls).op \in Applying \cup {"restore"},
           Len(Head(calls).list) > 1,
           runNetsh(mResolverIndex + 1, Head(calls).op, Tail(Head(calls).list), Tail(calls)),
           UNCHANGED <<NextVars, mResolversInitialized, mUpdatingDNS>>
    PROVE  dns' \in Seq(Address) /\ mResolverIndex' \in Nat /\ StackOK(calls)'
<1>. DEFINE call == Head(calls)
            list == call.list
<1>1. /\ call \in Good(mResolverPool) /\ call.op \in Ops /\ list \in Seq(Address)
      /\ call.op # "fetchT2"
      BY HeadIsFrame DEF IInv, StackOK, Applying
<1>. DEFINE rest == Tail(list)
            op == call.op
<1>2. rest \in Seq(Address) /\ rest # <<>> /\ ToSet(rest) \subseteq ToSet(list)
  <2>1. /\ Len(list) \in Nat /\ list # <<>> /\ DOMAIN list = 1 .. Len(list)
        /\ Len(list) > 1
        BY <1>1
  <2>. HIDE DEF list
  <2>2. /\ Tail(list) \in Seq(Address) /\ DOMAIN Tail(list) = 1 .. Len(list) - 1
        /\ \A i \in 1 .. Len(list) - 1 : Tail(list)[i] = list[i + 1]
        BY <1>1, <2>1, HeadTailProperties
  <2>3. Tail(list) # <<>>
        BY <2>1, <2>2
  <2>4. ToSet(Tail(list)) \subseteq ToSet(list)
        BY <2>1, <2>2 DEF ToSet
  <2>. QED  BY <2>2, <2>3, <2>4
<1>3. /\ mResolverIndex + 1 \in Nat \ {0} /\ dns \in Seq(Address)
      /\ mUpdatingDNS \in BOOLEAN /\ mInColdBoot \in BOOLEAN
      BY DEF IInv, DataOK
<1>4. op \in Applying => ToSet(rest) \subseteq mResolverPool
      BY <1>1, <1>2 DEF Good
<1>5. runNetsh(mResolverIndex + 1, op, rest, Tail(calls)) /\ op \in Ops
      BY <1>1
<1>. HIDE DEF rest, op
<1>6. dns' \in Seq(Address) /\ mResolverIndex' \in Nat /\ Framed(op, rest, Tail(calls))
      BY <1>2, <1>3, <1>5, RunsNetsh
<1>7. PICK f \in Frame : f.op = op /\ f.list = rest /\ calls' = <<f>> \o Tail(calls)
      BY <1>6 DEF Framed
<1>8. f \in Good(mResolverPool)
      BY <1>1, <1>2, <1>4, <1>7 DEF Good, op
<1>9. UNCHANGED <<mResolverPool, mInColdBoot, mUpdatingDNS, mResolversInitialized>>
      BY DEF NextVars
<1>10. /\ <<f>> \in Seq(Good(mResolverPool')) /\ NoCall(<<f>>, {"bootLoop"})
       /\ \A K : (op \in K => OneCall(<<f>>, K)) /\ (op \notin K => NoCall(<<f>>, K))
  <2>1. op \notin {"bootLoop"}
        BY DEF op, Applying
  <2>. QED  BY <1>7, <1>8, <1>9, <2>1, OneFrame
<1>11. /\ Moves(<<f>>, {"applyUpdate"}, mUpdatingDNS, mUpdatingDNS')
       /\ Moves(<<f>>, BootFrames, mInColdBoot, mInColdBoot')
  <2>1. /\ op \in {"applyUpdate"} => mUpdatingDNS
        /\ op \in BootFrames => mInColdBoot
        BY FlagOfHead DEF IInv, op
  <2>. QED  BY <1>9, <1>10, <2>1 DEF Moves, op
<1>12. StackOK(calls)'
      BY <1>3, <1>7, <1>9, <1>10, <1>11, StackStep
<1>. QED  BY <1>6, <1>12

(* The last address: the frame is replaced by what follows the list. *)
LEMMA ListEnds ==
    ASSUME IInv, calls # <<>>, Head(calls).op \in Applying \cup {"restore"},
           calls' = After(Head(calls).op) \o Tail(calls),
           mUpdatingDNS' = StaysUpdating(Head(calls)),
           mResolversInitialized' = (mResolversInitialized \/ Initializes(Head(calls))),
           UNCHANGED NextVars
    PROVE  StackOK(calls)'
<1>. DEFINE op == Head(calls).op
<1>1. /\ mUpdatingDNS \in BOOLEAN /\ mInColdBoot \in BOOLEAN
      /\ mResolversInitialized \in BOOLEAN
      /\ UNCHANGED <<mResolverPool, mInColdBoot>>
      BY DEF IInv, DataOK, NextVars
<1>2. \A K : NoCall(<<>>, K)
      BY DEF NoCall
<1>3. /\ op = "applyUpdate" => mUpdatingDNS
      /\ op \in BootFrames => mInColdBoot
      BY FlagOfHead DEF IInv
<1>4. /\ mUpdatingDNS' = (mUpdatingDNS /\ op # "applyUpdate")
      /\ mResolversInitialized' = (mResolversInitialized \/ op = "applyT2")
      BY DEF StaysUpdating, Initializes
<1>5. CASE op = "applyUpdate" \/ op = "restore"
  <2>1. After(op) = <<>>
        BY <1>5 DEF After
  <2>2. /\ ~ (op \in BootFrames) /\ (op \in {"applyUpdate"} <=> op = "applyUpdate")
        /\ op # "applyT2"
        BY <1>5 DEF BootFrames
  <2>3. mResolversInitialized' = mResolversInitialized
        BY <1>1, <1>4, <2>2
  <2>4. Moves(<<>>, {"applyUpdate"}, mUpdatingDNS, mUpdatingDNS')
        BY <1>1, <1>2, <1>4, <2>2 DEF Moves
  <2>5. Moves(<<>>, BootFrames, mInColdBoot, mInColdBoot')
        BY <1>1, <1>2, <2>2 DEF Moves
  <2>6. <<>> \in Seq(Good(mResolverPool')) /\ mUpdatingDNS' \in BOOLEAN
    <3>1. <<>> \in Seq(Good(mResolverPool'))
          BY EmptySeq
    <3>. QED  BY <1>4, <3>1
  <2>. QED  BY <1>1, <1>2, <2>1, <2>3, <2>4, <2>5, <2>6, StackStep
<1>6. CASE op = "applyT1" \/ op = "applyT2"
  <2>. DEFINE next == IF op = "applyT1" THEN "fetchT2" ELSE "bootLoop"
  <2>1. After(op) = <<Call(next)>>
        BY <1>6 DEF After
  <2>2. op \in BootFrames /\ next \in BootFrames /\ next # "applyUpdate" /\ op # "applyUpdate"
        BY <1>6 DEF BootFrames
  <2>3. mResolverPool # {}
    <3>1. Head(calls) \in Good(mResolverPool)
          BY HeadIsFrame DEF IInv, StackOK
    <3>2. /\ op \in Applying /\ Head(calls).list # <<>> /\ Head(calls).list \in Seq(Address)
          /\ ToSet(Head(calls).list) \subseteq mResolverPool
          BY <1>6, <3>1 DEF Good, Applying, Frame
    <3>3. Head(calls).list[1] \in ToSet(Head(calls).list)
          BY <3>2 DEF ToSet
    <3>. QED  BY <3>2, <3>3
  <2>4. Call(next) \in Good(mResolverPool') /\ Call(next).op = next
    <3>1. Call(next) \in Frame /\ Call(next).op = next
          BY EmptySeq DEF Call, Frame, Ops, EventLoops, BootFrames
    <3>2. next \notin Applying \cup {"restore"}
          BY DEF Applying
    <3>. QED  BY <1>1, <2>3, <3>1, <3>2 DEF Good
  <2>5. op = "applyT1" => next = "fetchT2"
        OBVIOUS
  <2>. HIDE DEF next
  <2>6. /\ <<Call(next)>> \in Seq(Good(mResolverPool'))
        /\ \A K : /\ next \in K => OneCall(<<Call(next)>>, K)
                  /\ next \notin K => NoCall(<<Call(next)>>, K)
        BY <2>4, OneFrame
  <2>7. Moves(<<Call(next)>>, {"applyUpdate"}, mUpdatingDNS, mUpdatingDNS')
        BY <1>1, <1>4, <2>2, <2>6 DEF Moves
  <2>8. Moves(<<Call(next)>>, BootFrames, mInColdBoot, mInColdBoot')
        BY <1>1, <1>3, <2>2, <2>6 DEF Moves
  <2>9. \/ mResolversInitialized'
        \/ NoCall(<<Call(next)>>, {"bootLoop"}) /\ Head(calls).op \in BootFrames
        BY <1>4, <1>6, <2>2, <2>5, <2>6
  <2>10. mUpdatingDNS' \in BOOLEAN /\ mInColdBoot' \in BOOLEAN
        BY <1>1, <1>4
  <2>. QED  BY <1>1, <2>1, <2>6, <2>7, <2>8, <2>9, <2>10, StackStep
<1>. QED  BY <1>5, <1>6 DEF Applying

LEMMA CacheGrows ==
    ASSUME IInv, calls # <<>>, Head(calls).op \in Applying \cup {"restore"},
           mResolverPool' = mResolverPool,
           mResolverCache' =
              IF Accepted(Head(calls)) /\ Head(Head(calls).list) \notin ToSet(mResolverCache)
              THEN Append(mResolverCache, Head(Head(calls).list)) ELSE mResolverCache
    PROVE  CacheFromPool' /\ mResolverCache' \in Seq(T1 \cup T2)
<1>. DEFINE r == Head(Head(calls).list)
<1>1. /\ mResolverCache \in Seq(T1 \cup T2) /\ mResolverPool \subseteq T1 \cup T2
      /\ CacheFromPool
      BY DEF IInv, DataOK
<1>2. CASE Accepted(Head(calls)) /\ r \notin ToSet(mResolverCache)
  <2>1. Head(calls) \in Good(mResolverPool)
        BY HeadIsFrame DEF IInv, StackOK
  <2>2. /\ Head(calls).list \in Seq(Address) /\ Head(calls).list # <<>>
        /\ ToSet(Head(calls).list) \subseteq mResolverPool
        BY <1>2, <2>1 DEF Good, Accepted, Frame
  <2>3. r \in mResolverPool
        BY <2>2 DEF ToSet
  <2>4. mResolverCache' = Append(mResolverCache, r)
        BY <1>2
  <2>. HIDE DEF r
  <2>. DEFINE n == Len(mResolverCache)
  <2>5. /\ mResolverCache' \in Seq(T1 \cup T2) /\ n \in Nat
        /\ DOMAIN mResolverCache = 1 .. n /\ DOMAIN mResolverCache' = 1 .. n + 1
        /\ \A i \in 1 .. n : mResolverCache'[i] = mResolverCache[i]
        /\ mResolverCache'[n + 1] = r
        BY <1>1, <2>3, <2>4, AppendProperties
  <2>. HIDE DEF n
  <2>6. ToSet(mResolverCache') \subseteq mResolverPool'
        BY <1>1, <2>3, <2>5 DEF CacheFromPool, ToSet
  <2>7. \A i \in 1 .. n : mResolverCache[i] # r
        BY <1>2, <2>5 DEF ToSet, r
  <2>8. IsInjective(mResolverCache')
        BY <1>1, <2>5, <2>7 DEF CacheFromPool, IsInjective
  <2>. QED  BY <2>5, <2>6, <2>8 DEF CacheFromPool
<1>3. CASE ~ (Accepted(Head(calls)) /\ r \notin ToSet(mResolverCache))
  <2>1. UNCHANGED <<mResolverPool, mResolverCache>>
        BY <1>3
  <2>. QED  BY <1>1, <2>1, QuietCache
<1>. QED  BY <1>2, <1>3

LEMMA NextResolverStep == ASSUME IInv, nextResolver PROVE IInv'
<1>1. /\ calls # <<>> /\ Head(calls).op \in Applying \cup {"restore"}
      /\ UNCHANGED NextVars
      BY DEF nextResolver, NextVars
<1>2. CacheFromPool' /\ mResolverCache' \in Seq(T1 \cup T2)
  <2>1. mResolverCache' =
           IF Accepted(Head(calls)) /\ Head(Head(calls).list) \notin ToSet(mResolverCache)
           THEN Append(mResolverCache, Head(Head(calls).list)) ELSE mResolverCache
        BY DEF nextResolver
  <2>2. mResolverPool' = mResolverPool
        BY <1>1 DEF NextVars
  <2>. QED  BY <1>1, <2>1, <2>2, CacheGrows
<1>3. ASSUME dns' \in Seq(Address), mResolverIndex' \in Nat,
             mUpdatingDNS' \in BOOLEAN, mResolversInitialized' \in BOOLEAN
      PROVE  DataOK'
      BY <1>1, <1>2, <1>3 DEF NextVars, IInv, DataOK, flagVars
<1>4. /\ mUpdatingDNS \in BOOLEAN /\ mResolversInitialized \in BOOLEAN
      /\ dns \in Seq(Address) /\ mResolverIndex \in Nat
      /\ resolvConf' # <<>>
      BY <1>1 DEF IInv, DataOK, NextVars
<1>5. ASSUME Len(Head(calls).list) > 1 PROVE IInv'
  <2>1. /\ runNetsh(mResolverIndex + 1, Head(calls).op, Tail(Head(calls).list), Tail(calls))
        /\ UNCHANGED <<mResolversInitialized, mUpdatingDNS>>
        BY <1>5 DEF nextResolver
  <2>2. dns' \in Seq(Address) /\ mResolverIndex' \in Nat /\ StackOK(calls)'
        BY <1>1, <1>5, <2>1, ListGoesOn
  <2>3. NoPool'
        BY <1>1, <2>1 DEF IInv, NoPool, NextVars
  <2>. QED  BY <1>2, <1>3, <1>4, <2>1, <2>2, <2>3 DEF IInv
<1>6. ASSUME ~ (Len(Head(calls).list) > 1) PROVE IInv'
  <2>1. /\ calls' = After(Head(calls).op) \o Tail(calls)
        /\ mUpdatingDNS' = StaysUpdating(Head(calls))
        /\ mResolversInitialized' = (mResolversInitialized \/ Initializes(Head(calls)))
        /\ UNCHANGED <<dns, mResolverIndex>>
        BY <1>6 DEF nextResolver
  <2>2. StackOK(calls)'
        BY <1>1, <2>1, ListEnds
  <2>3. mUpdatingDNS' \in BOOLEAN /\ mResolversInitialized' \in BOOLEAN
        BY <1>4, <2>1 DEF StaysUpdating, Initializes
  <2>4. NoPool'
        BY <1>1, <2>1 DEF IInv, NoPool, NextVars
  <2>. QED  BY <1>2, <1>3, <1>4, <2>1, <2>2, <2>3, <2>4 DEF IInv
<1>. QED  BY <1>5, <1>6

-----------------------------------------------------------------------------
LEMMA Starts == Init => IInv
<1>. SUFFICES ASSUME Init PROVE IInv
     OBVIOUS
<1>1. Original \in Seq(Address) /\ Original # <<>>
      BY WinAssumption DEF Address
<1>2. DataOK
  <2>1. /\ settings \in [size : Sizes, enabled : BOOLEAN]
        /\ mResolverCacheSize \in Sizes /\ mEnabled \in BOOLEAN
        BY DEF Init
  <2>2. /\ dns \in Seq(Address) /\ resolvConf \in Seq(Address)
        /\ mResolverIndex \in Nat /\ disturbances \in 0 .. MaxDisturbances
        BY <1>1, WinAssumption DEF Init
  <2>3. mResolverPool \subseteq T1 \cup T2 /\ mResolverCache \in Seq(T1 \cup T2)
        BY EmptySeq DEF Init
  <2>4. /\ mResolversInitialized \in BOOLEAN /\ mInColdBoot \in BOOLEAN
        /\ mUpdatingDNS \in BOOLEAN /\ toggled \in BOOLEAN
        BY DEF Init
  <2>. QED  BY <2>1, <2>2, <2>3, <2>4 DEF DataOK
<1>3. StackOK(calls)
  <2>. DEFINE ops == <<"readSettings", "refresh">>
  <2>1. calls = [i \in DOMAIN ops |-> Call(ops[i])]
        BY DEF Init
  <2>2. ops \in Seq(Kept \ EventLoops)
        BY QuickCalls
  <2>. HIDE DEF ops
  <2>3. Quiet(calls)
        BY <2>1, <2>2, QuietCalls
  <2>4. ~ mUpdatingDNS /\ ~ mInColdBoot
        BY DEF Init
  <2>. QED  BY <2>3, <2>4 DEF StackOK, Quiet, Stack, NoCall, BootFrames
<1>4. NoPool /\ CacheFromPool
      BY DEF Init, NoPool, CacheFromPool, ToSet, IsInjective
<1>. QED  BY <1>1, <1>2, <1>3, <1>4 DEF IInv, Init

LEMMA Stutters == IInv /\ UNCHANGED vars => IInv'
<1>. SUFFICES ASSUME IInv, UNCHANGED vars PROVE IInv'
     OBVIOUS
<1>1. UNCHANGED <<QuietVars, calls, resolvConf, mResolverCache>>
      BY DEF vars, QuietVars, osVars, poolVars
<1>2. DataOK'
      BY DEF vars, IInv, DataOK, osVars, poolVars, flagVars
<1>3. StackOK(calls')
      BY <1>1 DEF IInv
<1>. QED  BY <1>1, <1>2, <1>3, QuietStep, QuietCache DEF IInv, QuietVars

LEMMA Inductive == Spec => []IInv
<1>1. IInv /\ [Next]_vars => IInv'
  <2>. SUFFICES ASSUME IInv, [Next]_vars PROVE IInv'
       OBVIOUS
  <2>1. CASE Step
        BY <2>1, NextResolverStep, PreservedStep, UpdateStep, ReadSettingsStep,
           ReadEnabledStep, WriteSettingsStep, RefreshStep, RecheckStep,
           ColdBootReturnsStep, BootstrapT1Step, BootstrapT2Step DEF Step
  <2>2. CASE fastTimer \/ refreshTimer \/ \E size \in Sizes : setResolverCacheSize(size)
        BY <2>2, EventStep
  <2>3. CASE \E enabled \in BOOLEAN : clientEnables(enabled)
        BY <2>3, ClientEnablesStep
  <2>4. CASE UNCHANGED vars
        BY <2>4, Stutters
  <2>. QED  BY <2>1, <2>2, <2>3, <2>4 DEF Next
<1>. QED  BY <1>1, Starts, PTL DEF Spec

(* Every variable keeps its type.  Behind it is that no list is ever at    *)
(* its end when its next address is asked for, and that netsh is never     *)
(* given an empty one.                                                     *)
THEOREM TypeCorrectness == Spec => []TypeOK
BY Inductive, Types, PTL

(* The cache is made of distinct resolvers of the pool, whatever           *)
(* interrupts the list it is made from.                                    *)
THEOREM CacheIsFromPool == Spec => []CacheFromPool
<1>1. IInv => CacheFromPool
      BY DEF IInv
<1>. QED  BY <1>1, Inductive, PTL

LEMMA CountCalls ==
    ASSUME NEW K
    PROVE  /\ OneCall(calls, K) => Cardinality(Pending(K)) = 1
           /\ NoCall(calls, K) => Cardinality(Pending(K)) = 0
<1>1. ASSUME OneCall(calls, K) PROVE Cardinality(Pending(K)) = 1
  <2>1. PICK i \in DOMAIN calls : /\ calls[i].op \in K
                                  /\ \A j \in DOMAIN calls : calls[j].op \in K => j = i
        BY <1>1 DEF OneCall
  <2>2. Pending(K) = {i}
        BY <2>1 DEF Pending
  <2>. QED  BY <2>2, FS_Singleton
<1>2. ASSUME NoCall(calls, K) PROVE Cardinality(Pending(K)) = 0
  <2>1. Pending(K) = {}
        BY <1>2 DEF NoCall, Pending
  <2>. QED  BY <2>1, FS_EmptySet
<1>. QED  BY <1>1, <1>2

(* However deep the interruptions are, one update and one cold boot at     *)
(* most are under way, and the flags say whether one is.                   *)
THEOREM UpdatesAndBootsAreSingle == Spec => []OneOfEach
<1>1. IInv => OneOfEach
      BY CountCalls DEF IInv, StackOK, Stack, OneOfEach
<1>. QED  BY <1>1, Inductive, PTL

-----------------------------------------------------------------------------
(* The implementation of ActiveResolvers.  As on Linux, the order of a     *)
(* boot is in the stack: who applies a list of the boot, or waits for dig, *)
(* has loaded the first half of the pool, and nobody does any more when    *)
(* the pool is complete.                                                   *)

Half == {"applyT1", "fetchT2", "applyT2"}
HalfLoaded == T1 \subseteq mResolverPool
BootOrder == /\ mResolversInitialized => HalfLoaded /\ NoCall(calls, Half)
             /\ NoCall(calls, Half) \/ HalfLoaded

LEMMA StackType == ASSUME IInv PROVE calls \in Seq(Frame)
BY GoodGrows DEF IInv, StackOK

(* A step that loads nothing and puts nothing of a boot on what it keeps   *)
(* of the stack.                                                           *)
LEMMA OrderKept ==
    ASSUME BootOrder, UNCHANGED <<mResolverPool, mResolversInitialized>>,
           NEW then \in Seq(Frame), NoCall(then, Half),
           NEW below \in Seq(Frame), NoCall(calls, Half) => NoCall(below, Half),
           calls' = then \o below
    PROVE  BootOrder'
<1>1. NoCall(calls, Half) => NoCall(then \o below, Half)
      BY ConcatCalls
<1>2. NoCall(calls, Half) => NoCall(calls', Half)
      BY <1>1
<1>. QED  BY <1>2 DEF BootOrder, HalfLoaded, NoCall

LEMMA ReturnOrder ==
    ASSUME IInv, BootOrder, UNCHANGED <<mResolverPool, mResolversInitialized>>, calls # <<>>,
           NEW then \in Seq(Frame), NoCall(then, Half), calls' = then \o Tail(calls)
    PROVE  BootOrder'
<1>1. Tail(calls) \in Seq(Frame) /\ (NoCall(calls, Half) => NoCall(Tail(calls), Half))
      BY StackType, TailCalls
<1>. QED  BY <1>1, OrderKept

LEMMA PlainOrder ==
    ASSUME IInv, BootOrder, UNCHANGED <<mResolverPool, mResolversInitialized>>,
           NEW ops \in Seq(Plain), (calls # <<>> /\ Return(ops)) \/ Handle(ops)
    PROVE  BootOrder'
<1>. DEFINE then == [i \in DOMAIN ops |-> Call(ops[i])]
<1>1. /\ then \in Seq(Frame) /\ DOMAIN then = DOMAIN ops
      /\ \A i \in DOMAIN ops : then[i].op = ops[i]
      BY PlainCalls
<1>2. \A i \in DOMAIN ops : ops[i] \in Plain
      BY LenProperties, ElementOfSeq
<1>3. Plain \cap Half = {}
      BY DEF Plain, Half, EventLoops, Applying
<1>4. \/ calls # <<>> /\ calls' = then \o Tail(calls)
      \/ calls' = then \o calls
      BY DEF Return, Handle
<1>. HIDE DEF then
<1>5. NoCall(then, Half)
      BY <1>1, <1>2, <1>3 DEF NoCall
<1>. QED  BY <1>1, <1>4, <1>5, StackType, ReturnOrder, OrderKept

(* A list of resolvers that is none of a boot's. *)
LEMMA ListOrder ==
    ASSUME NEW f \in Frame, f.op \notin Half
    PROVE  <<f>> \in Seq(Frame) /\ NoCall(<<f>>, Half)
<1>1. <<f>> \in Seq(Frame) /\ DOMAIN <<f>> = {1} /\ <<f>>[1] = f
      OBVIOUS
<1>. QED  BY <1>1 DEF NoCall

LEMMA NoneOrder == <<>> \in Seq(Frame) /\ NoCall(<<>>, Half) /\ \A s \in Seq(Frame) : <<>> \o s = s
BY DEF NoCall

LEMMA EnablesOrder ==
    ASSUME IInv, BootOrder, UNCHANGED <<mResolverPool, mResolversInitialized>>,
           NEW enabled \in BOOLEAN, NEW below \in Seq(Frame),
           NoCall(calls, Half) => NoCall(below, Half), setEnabled(enabled, below)
    PROVE  BootOrder'
<1>1. dns \in Seq(Address) /\ resolvConf \in Seq(Address) /\ resolvConf # <<>>
      /\ mEnabled \in BOOLEAN
      BY DEF IInv, DataOK
<1>2. CASE enabled = mEnabled
  <2>1. calls' = <<>> \o below
        BY <1>2, NoneOrder DEF setEnabled
  <2>. QED  BY <2>1, NoneOrder, OrderKept
<1>3. CASE enabled /\ ~ mEnabled
  <2>. DEFINE f == [op |-> "preserve", list |-> dns, ok |-> TRUE]
  <2>1. calls' = <<f>> \o below
        BY <1>3 DEF setEnabled
  <2>2. f \in Frame /\ f.op \notin Half
        BY <1>1 DEF Frame, Ops, EventLoops, Half
  <2>. HIDE DEF f
  <2>. QED  BY <2>1, <2>2, ListOrder, OrderKept
<1>4. CASE ~ enabled /\ mEnabled
  <2>1. runNetsh(1, "restore", resolvConf, below)
        BY <1>4, Zenon DEF setEnabled, applyList, FirstIndex
  <2>2. "restore" \in Ops /\ 1 \in Nat \ {0}
        BY DEF Ops, EventLoops
  <2>3. Framed("restore", resolvConf, below)
        BY <1>1, <2>1, <2>2, RunsNetsh
  <2>4. PICK f \in Frame : f.op = "restore" /\ calls' = <<f>> \o below
        BY <2>3 DEF Framed
  <2>. QED  BY <2>4, ListOrder, OrderKept DEF Half
<1>. QED  BY <1>1, <1>2, <1>3, <1>4

LEMMA UpdateOrder == ASSUME IInv, BootOrder, updateDNS PROVE BootOrder'
<1>1. calls # <<>> /\ UNCHANGED <<mResolverPool, mResolversInitialized>>
      BY DEF updateDNS, Run, poolVars
<1>2. CASE calls' = Tail(calls)
  <2>1. calls' = <<>> \o Tail(calls)
        BY <1>1, <1>2, StackType, TailCalls, NoneOrder
  <2>. QED  BY <1>1, <2>1, NoneOrder, ReturnOrder
<1>3. ASSUME ~ UpdateSkipped, NEW list \in Rankings(mResolverPool, mResolverCacheSize),
             applyList("applyUpdate", list, Tail(calls))
      PROVE  BootOrder'
  <2>1. /\ mResolverPool \subseteq T1 \cup T2 /\ mResolverPool # {}
        /\ mResolverCacheSize \in Sizes /\ dns \in Seq(Address)
        BY <1>3 DEF UpdateSkipped, IInv, DataOK
  <2>2. list \in Seq(Address) /\ list # <<>>
        BY <2>1, RankingFacts
  <2>3. runNetsh(1, "applyUpdate", list, Tail(calls))
        BY <1>3, Zenon DEF applyList, FirstIndex
  <2>. "applyUpdate" \in Ops /\ 1 \in Nat \ {0}
        BY DEF Ops, EventLoops, Applying
  <2>4. Framed("applyUpdate", list, Tail(calls))
        BY <2>1, <2>2, <2>3, RunsNetsh
  <2>5. PICK f \in Frame : f.op = "applyUpdate" /\ calls' = <<f>> \o Tail(calls)
        BY <2>4 DEF Framed
  <2>6. <<f>> \in Seq(Frame) /\ NoCall(<<f>>, Half)
        BY <2>5, ListOrder DEF Half
  <2>. QED  BY <1>1, <2>5, <2>6, ReturnOrder
<1>. QED  BY <1>2, <1>3 DEF updateDNS

(* Who has a call of Half on the stack's top has loaded half. *)
LEMMA HeadLoaded ==
    ASSUME IInv, BootOrder, calls # <<>>, Head(calls).op \in Half
    PROVE  HalfLoaded /\ ~ mResolversInitialized
BY StackType, TailCalls DEF BootOrder

LEMMA NextOrder == ASSUME IInv, BootOrder, nextResolver PROVE BootOrder'
<1>1. /\ calls # <<>> /\ Head(calls).op \in Applying \cup {"restore"}
      /\ mResolverPool' = mResolverPool
      BY DEF nextResolver
<1>2. calls \in Seq(Frame) /\ Tail(calls) \in Seq(Frame)
      BY <1>1, StackType, TailCalls
<1>3. CASE Len(Head(calls).list) > 1
  <2>1. \E f \in Frame : f.op = Head(calls).op /\ calls' = <<f>> \o Tail(calls)
    <3>. DEFINE list == Head(calls).list
    <3>1. /\ runNetsh(mResolverIndex + 1, Head(calls).op, Tail(list), Tail(calls))
          /\ UNCHANGED mResolversInitialized
          BY <1>3 DEF nextResolver
    <3>2. /\ list \in Seq(Address) /\ Head(calls).op \in Ops
          /\ dns \in Seq(Address) /\ mResolverIndex + 1 \in Nat \ {0}
          BY <1>1, HeadIsFrame DEF IInv, StackOK, DataOK
    <3>3. Len(list) > 1
          BY <1>3
    <3>. HIDE DEF list
    <3>4. Tail(list) \in Seq(Address) /\ Len(Tail(list)) = Len(list) - 1
          BY <3>2, <3>3, HeadTailProperties, EmptySeq
    <3>5. Tail(list) # <<>>
      <4>1. Len(Tail(list)) # 0
            BY <3>2, <3>3, <3>4, LenProperties
      <4>2. Len(<<>>) = 0
            OBVIOUS
      <4>. QED  BY <4>1, <4>2
    <3>6. Framed(Head(calls).op, Tail(list), Tail(calls))
          BY <3>1, <3>2, <3>4, <3>5, RunsNetsh
    <3>. QED  BY <3>6 DEF Framed
  <2>2. PICK f \in Frame : f.op = Head(calls).op /\ calls' = <<f>> \o Tail(calls)
        BY <2>1
  <2>3. UNCHANGED mResolversInitialized
        BY <1>3 DEF nextResolver
  <2>4. CASE Head(calls).op \in Half
        BY <1>1, <2>3, <2>4, HeadLoaded DEF BootOrder, HalfLoaded
  <2>5. CASE Head(calls).op \notin Half
    <3>1. <<f>> \in Seq(Frame) /\ NoCall(<<f>>, Half)
          BY <2>2, <2>5, ListOrder
    <3>. QED  BY <1>1, <2>2, <2>3, <3>1, ReturnOrder
  <2>. QED  BY <2>4, <2>5
<1>4. CASE ~ (Len(Head(calls).list) > 1)
  <2>1. /\ calls' = After(Head(calls).op) \o Tail(calls)
        /\ mResolversInitialized' = (mResolversInitialized \/ Initializes(Head(calls)))
        BY <1>4 DEF nextResolver
  <2>2. CASE Head(calls).op = "applyT1"
        BY <1>1, <2>1, <2>2, HeadLoaded DEF BootOrder, HalfLoaded, Half, Initializes
  <2>3. CASE Head(calls).op = "applyT2"
    <3>1. HalfLoaded'
          BY <1>1, <2>3, HeadLoaded DEF HalfLoaded, Half
    <3>2. Head(calls).op \in BootFrames
          BY <2>3 DEF BootFrames
    <3>3. NoCall(Tail(calls), BootFrames)
          BY <1>1, <1>2, <3>2, TailCalls DEF IInv, StackOK, Stack
    <3>4. NoCall(Tail(calls), Half)
          BY <3>3 DEF NoCall, Half, BootFrames
    <3>5. Call("bootLoop") \in Frame /\ Call("bootLoop").op \notin Half
          BY EmptySeq DEF Call, Frame, Ops, BootFrames, Half
    <3>6. calls' = <<Call("bootLoop")>> \o Tail(calls)
          BY <2>1, <2>3 DEF After
    <3>7. NoCall(calls', Half)
          BY <1>2, <3>4, <3>5, <3>6, ListOrder, ConcatCalls
    <3>. QED  BY <3>1, <3>7 DEF BootOrder, NoCall
  <2>4. CASE Head(calls).op \notin {"applyT1", "applyT2"}
    <3>1. After(Head(calls).op) = <<>> /\ UNCHANGED mResolversInitialized
      <4>1. mResolversInitialized \in BOOLEAN
            BY DEF IInv, DataOK
      <4>. QED  BY <2>1, <2>4, <4>1 DEF After, Initializes
    <3>. QED  BY <1>1, <2>1, <3>1, NoneOrder, ReturnOrder
  <2>. QED  BY <2>2, <2>3, <2>4
<1>. QED  BY <1>3, <1>4

LEMMA StepOrder == ASSUME IInv, BootOrder, [Next]_vars PROVE BootOrder'
<1>1. CASE nextResolver
      BY <1>1, NextOrder
<1>2. CASE preserved
  <2>1. calls # <<>> /\ calls' = Tail(calls) /\ UNCHANGED <<mResolverPool, mResolversInitialized>>
        BY <1>2 DEF preserved, Run, poolVars
  <2>2. calls' = <<>> \o Tail(calls)
        BY <2>1, StackType, TailCalls, NoneOrder
  <2>. QED  BY <2>1, <2>2, NoneOrder, ReturnOrder
<1>3. CASE updateDNS
      BY <1>3, UpdateOrder
<1>4. CASE \/ readSettings \/ writeSettings \/ coldBootReturns
           \/ \E force \in BOOLEAN : refreshResolvers(force)
           \/ \E force, failing \in BOOLEAN : recheckResolvers(force, failing)
           \/ fastTimer \/ refreshTimer
           \/ \E size \in Sizes : setResolverCacheSize(size)
  <2>1. UNCHANGED <<mResolverPool, mResolversInitialized>>
        BY <1>4 DEF readSettings, writeSettings, coldBootReturns, refreshResolvers,
                    recheckResolvers, fastTimer, refreshTimer, setResolverCacheSize, poolVars
  <2>. QED  BY <1>4, <2>1, PlainSteps, PlainOrder
<1>5. CASE readEnabled
  <2>1. /\ calls # <<>> /\ setEnabled(settings.enabled, Tail(calls))
        /\ UNCHANGED <<mResolverPool, mResolversInitialized>>
        BY <1>5 DEF readEnabled, Run, poolVars
  <2>2. settings.enabled \in BOOLEAN
        BY DEF IInv, DataOK
  <2>3. Tail(calls) \in Seq(Frame) /\ (NoCall(calls, Half) => NoCall(Tail(calls), Half))
        BY <2>1, StackType, TailCalls
  <2>. QED  BY <2>1, <2>2, <2>3, EnablesOrder
<1>6. ASSUME NEW enabled \in BOOLEAN, clientEnables(enabled) PROVE BootOrder'
  <2>. DEFINE below == <<Call("writeSettings")>> \o calls
  <2>1. /\ setEnabled(enabled, below) /\ UNCHANGED <<mResolverPool, mResolversInitialized>>
        BY <1>6 DEF clientEnables, poolVars
  <2>2. Call("writeSettings") \in Frame /\ Call("writeSettings").op \notin Half
        BY EmptySeq DEF Call, Frame, Ops, Half
  <2>3. below \in Seq(Frame) /\ (NoCall(calls, Half) => NoCall(below, Half))
        BY <2>2, ListOrder, StackType, ConcatCalls, ConcatProperties
  <2>. HIDE DEF below
  <2>. QED  BY <2>1, <2>3, EnablesOrder
<1>7. CASE bootstrapT1
      BY <1>7 DEF bootstrapT1, BootOrder, HalfLoaded
<1>8. CASE bootstrapT2
  <2>1. calls # <<>> /\ Head(calls).op \in Half
        BY <1>8 DEF bootstrapT2, Run, Half
  <2>. QED  BY <1>8, <2>1, HeadLoaded DEF bootstrapT2, BootOrder, HalfLoaded
<1>9. CASE UNCHANGED vars
      BY <1>9 DEF vars, poolVars, BootOrder, HalfLoaded, NoCall
<1>. QED  BY <1>1, <1>2, <1>3, <1>4, <1>5, <1>6, <1>7, <1>8, <1>9 DEF Next, Step

(* Each step of the program is one of ActiveResolvers or changes nothing   *)
(* of what that speaks of.  The end of the boot's second list, which makes *)
(* the pool complete, is a LoadT2 with nothing new.                        *)
LEMMA ActiveStep ==
    ASSUME IInv, IInv', BootOrder, [Next]_vars
    PROVE  [Active!Next]_(Active!vars)
<1>1. Active!Selection(mResolverCache', mResolverPool')
      BY DEF IInv, CacheFromPool, ToSet, IsInjective, Active!Selection
<1>2. CASE nextResolver
  <2>1. /\ calls # <<>> /\ mResolverPool' = mResolverPool
        BY <1>2 DEF nextResolver
  <2>2. CASE mResolversInitialized' = mResolversInitialized
        BY <1>1, <2>1, <2>2 DEF Active!Select, Active!Next
  <2>3. CASE mResolversInitialized' # mResolversInitialized
    <3>1. Initializes(Head(calls))
          BY <1>2, <2>3 DEF nextResolver, IInv, DataOK
    <3>2. HalfLoaded /\ ~ mResolversInitialized
          BY <2>1, <3>1, HeadLoaded DEF Initializes, Half
    <3>3. mResolversInitialized' \in BOOLEAN
          BY DEF IInv, DataOK
    <3>4. {} \in SUBSET T2 /\ mResolverPool' = mResolverPool \cup {}
          BY <2>1
    <3>5. Active!LoadT2
          BY <1>1, <3>2, <3>3, <3>4 DEF Active!LoadT2, HalfLoaded
    <3>. QED  BY <3>5 DEF Active!Next
  <2>. QED  BY <2>2, <2>3
<1>3. CASE updateDNS
  <2>1. UNCHANGED <<mResolversInitialized, mResolverPool>>
        BY <1>3 DEF updateDNS, poolVars
  <2>. QED  BY <1>1, <2>1 DEF Active!Select, Active!Next
<1>4. CASE bootstrapT1
  <2>1. /\ ~ mResolversInitialized /\ mResolversInitialized' = FALSE
        /\ mResolverPool' = T1
        BY <1>4 DEF bootstrapT1, IInv, DataOK
  <2>2. Active!LoadT1
        BY <1>1, <2>1 DEF Active!LoadT1
  <2>. QED  BY <2>2 DEF Active!Next
<1>5. CASE bootstrapT2
  <2>1. calls # <<>> /\ Head(calls).op \in Half
        BY <1>5 DEF bootstrapT2, Run, Half
  <2>2. HalfLoaded /\ ~ mResolversInitialized /\ mResolversInitialized' \in BOOLEAN
        BY <2>1, HeadLoaded DEF IInv, DataOK
  <2>3. \E list \in SUBSET T2 : mResolverPool' = mResolverPool \cup list
        BY <1>5 DEF bootstrapT2
  <2>4. Active!LoadT2
        BY <1>1, <2>2, <2>3 DEF Active!LoadT2, HalfLoaded
  <2>. QED  BY <2>4 DEF Active!Next
<1>6. CASE preserved \/ readSettings \/ readEnabled \/ writeSettings \/ coldBootReturns
           \/ fastTimer \/ refreshTimer
      BY <1>6 DEF preserved, readSettings, readEnabled, writeSettings, coldBootReturns,
                  fastTimer, refreshTimer, poolVars, Active!vars
<1>7. ASSUME NEW force \in BOOLEAN, NEW failing \in BOOLEAN,
             refreshResolvers(force) \/ recheckResolvers(force, failing)
      PROVE  UNCHANGED Active!vars
      BY <1>7 DEF refreshResolvers, recheckResolvers, poolVars, Active!vars
<1>8. CASE \/ \E size \in Sizes : setResolverCacheSize(size)
           \/ \E enabled \in BOOLEAN : clientEnables(enabled)
      BY <1>8 DEF setResolverCacheSize, clientEnables, poolVars, Active!vars
<1>9. CASE UNCHANGED vars
      BY <1>9 DEF vars, poolVars, Active!vars
<1>. QED  BY <1>2, <1>3, <1>4, <1>5, <1>6, <1>7, <1>8, <1>9 DEF Next, Step

(* The service on Windows implements the same ActiveResolvers as the one   *)
(* on Linux, whatever interrupts its lists and whatever netsh refuses.     *)
THEOREM ActiveRefinement == Spec => ImplementsActive
<1>1. Init => Active!Init /\ BootOrder
      BY DEF Init, Active!Init, BootOrder, NoCall, Half, Call
<1>2. IInv /\ BootOrder /\ [Next]_vars => BootOrder'
      BY StepOrder
<1>3. IInv /\ IInv' /\ BootOrder /\ [Next]_vars => [Active!Next]_(Active!vars)
      BY ActiveStep
<1>. QED  BY <1>1, <1>2, <1>3, Inductive, PTL DEF Spec, ImplementsActive, Active!Spec

-----------------------------------------------------------------------------
(* What Windows has and the cache has not. *)

(* A pending list will put it into the cache. *)
Coming(x, s) == \E i \in DOMAIN s : /\ s[i].op \in Applying /\ s[i].ok
                                    /\ Head(s[i].list) = x

WatchedBy(addresses, cache, s) ==
    /\ NoCall(s, {"restore"})
    /\ \A x \in ToSet(addresses) \cap (T1 \cup T2) : x \in ToSet(cache) \/ Coming(x, s)

Watched == ~ toggled => WatchedBy(dns, mResolverCache, calls)

(* The hypothesis of the theorem: netsh refuses only what is there. *)
Obliging == NetshFails = FALSE

LEMMA InsertedElements ==
    ASSUME NEW s \in Seq(Address), NEW at \in 1 .. Len(s) + 1, NEW x \in Address
    PROVE  ToSet(InsertAt(s, at, x)) \subseteq ToSet(s) \cup {x}
<1>. DEFINE a == SubSeq(s, 1, at - 1)
            b == SubSeq(s, at, Len(s))
            P == ToSet(s) \cup {x}
<1>1. Len(s) \in Nat /\ DOMAIN s = 1 .. Len(s) /\ \A i \in 1 .. Len(s) : s[i] \in P
      BY LenProperties DEF ToSet
<1>. HIDE DEF P
<1>2. a \in Seq(P) /\ b \in Seq(P)
      BY <1>1, SubSeqProperties
<1>. HIDE DEF a, b
<1>3. <<x>> \in Seq(P)
      BY DEF P
<1>4. a \o <<x>> \o b \in Seq(P)
      BY <1>2, <1>3
<1>5. InsertAt(s, at, x) \in Seq(P)
      BY <1>4 DEF InsertAt, a, b
<1>6. ToSet(InsertAt(s, at, x)) \subseteq P
      BY <1>5, LenProperties, ElementOfSeq DEF ToSet
<1>. QED  BY <1>6 DEF P

(* netsh adds nothing but the address, and says so. *)
LEMMA NetshAdds ==
    ASSUME Obliging, dns \in Seq(Address), NEW index \in Nat \ {0}, NEW address \in Address,
           NEW result \in Netsh(index, address)
    PROVE  /\ index = 1 => result.ok /\ ToSet(result.dns) \subseteq {address}
           /\ result.ok => ToSet(result.dns) \subseteq ToSet(dns) \cup {address}
           /\ ~ result.ok => result.dns = dns
<1>. DEFINE at == Minimum(index, Len(dns) + 1)
<1>1. Len(dns) \in Nat /\ at \in 1 .. Len(dns) + 1
      BY LenProperties DEF Minimum
<1>. HIDE DEF at
<1>2. CASE index = 1
  <2>1. result = [dns |-> <<address>>, ok |-> TRUE]
        BY <1>2 DEF Netsh, Obliging
  <2>2. ToSet(<<address>>) \subseteq {address}
        BY DEF ToSet
  <2>. QED  BY <2>1, <2>2
<1>3. CASE index # 1 /\ result = [dns |-> dns, ok |-> FALSE]
      BY <1>3
<1>4. CASE index # 1 /\ result = [dns |-> InsertAt(dns, at, address), ok |-> TRUE]
      BY <1>1, <1>4, InsertedElements
<1>5. index # 1 => \/ result = [dns |-> dns, ok |-> FALSE]
                   \/ result = [dns |-> InsertAt(dns, at, address), ok |-> TRUE]
      BY Zenon DEF Netsh, Obliging, at
<1>. QED  BY <1>2, <1>3, <1>4, <1>5

LEMMA ComingStays ==
    ASSUME NEW s \in Seq(Frame), NEW t \in Seq(Frame), NEW x
    PROVE  /\ Coming(x, s) => Coming(x, s \o t)
           /\ Coming(x, t) => Coming(x, s \o t)
<1>1. /\ Len(s) \in Nat /\ Len(t) \in Nat /\ DOMAIN s = 1 .. Len(s) /\ DOMAIN t = 1 .. Len(t)
      /\ DOMAIN (s \o t) = 1 .. Len(s) + Len(t)
      /\ \A i \in 1 .. Len(s) : (s \o t)[i] = s[i]
      /\ \A i \in 1 .. Len(t) : (s \o t)[Len(s) + i] = t[i]
      BY LenProperties, ConcatProperties
<1>. DEFINE m == Len(s)
            n == Len(t)
<1>. HIDE DEF m, n
<1>2. ASSUME Coming(x, s) PROVE Coming(x, s \o t)
  <2>1. PICK i \in 1 .. Len(s) : s[i].op \in Applying /\ s[i].ok /\ Head(s[i].list) = x
        BY <1>1, <1>2 DEF Coming
  <2>2. i \in 1 .. Len(s) + Len(t) /\ (s \o t)[i] = s[i]
        BY <1>1, <2>1
  <2>. QED  BY <1>1, <2>1, <2>2 DEF Coming
<1>3. ASSUME Coming(x, t) PROVE Coming(x, s \o t)
  <2>1. PICK i \in 1 .. Len(t) : t[i].op \in Applying /\ t[i].ok /\ Head(t[i].list) = x
        BY <1>1, <1>3 DEF Coming
  <2>2. Len(s) + i \in 1 .. Len(s) + Len(t) /\ (s \o t)[Len(s) + i] = t[i]
        BY <1>1, <2>1
  <2>. QED  BY <1>1, <2>1, <2>2 DEF Coming
<1>. QED  BY <1>2, <1>3

LEMMA ComingBelow ==
    ASSUME NEW s \in Seq(Frame), s # <<>>, NEW x, Coming(x, s)
    PROVE  \/ Head(s).op \in Applying /\ Head(s).ok /\ Head(Head(s).list) = x
           \/ Coming(x, Tail(s))
<1>1. /\ Len(s) \in Nat \ {0} /\ DOMAIN s = 1 .. Len(s) /\ DOMAIN Tail(s) = 1 .. Len(s) - 1
      /\ Head(s) = s[1] /\ \A i \in 1 .. Len(s) - 1 : Tail(s)[i] = s[i + 1]
      BY LenProperties, HeadTailProperties, EmptySeq
<1>2. PICK i \in 1 .. Len(s) : s[i].op \in Applying /\ s[i].ok /\ Head(s[i].list) = x
      BY <1>1 DEF Coming
<1>3. CASE i = 1
      BY <1>1, <1>2, <1>3
<1>4. CASE i # 1
  <2>1. i - 1 \in 1 .. Len(s) - 1 /\ Tail(s)[i - 1] = s[i]
        BY <1>1, <1>2, <1>4
  <2>. QED  BY <1>1, <1>2, <2>1 DEF Coming
<1>. QED  BY <1>3, <1>4

(* Steps that leave Windows and the cache alone. *)
LEMMA WatchedReturn ==
    ASSUME IInv, Watched, calls # <<>>, Head(calls).op \notin Applying,
           NEW then \in Seq(Frame), NoCall(then, {"restore"}), toggled => toggled',
           calls' = then \o Tail(calls), UNCHANGED <<dns, mResolverCache>>
    PROVE  Watched'
<1>. SUFFICES ASSUME ~ toggled' PROVE WatchedBy(dns, mResolverCache, calls)'
     BY DEF Watched
<1>0. ~ toggled /\ WatchedBy(dns, mResolverCache, calls) /\ dns' = dns
      /\ mResolverCache' = mResolverCache
      BY DEF Watched
<1>1. calls \in Seq(Frame) /\ then \in Seq(Frame) /\ Tail(calls) \in Seq(Frame)
      BY GoodGrows, TailCalls DEF IInv, StackOK
<1>2. NoCall(calls', {"restore"})
      BY <1>0, <1>1, TailCalls, ConcatCalls DEF WatchedBy
<1>3. \A x : Coming(x, calls) => Coming(x, calls')
      BY <1>1, ComingBelow, ComingStays
<1>4. WatchedBy(dns, mResolverCache, calls')
      BY <1>0, <1>2, <1>3 DEF WatchedBy
<1>. QED  BY <1>0, <1>4

LEMMA WatchedHandle ==
    ASSUME IInv, Watched, NEW then \in Seq(Frame), NoCall(then, {"restore"}),
           toggled => toggled', calls' = then \o calls, UNCHANGED <<dns, mResolverCache>>
    PROVE  Watched'
<1>. SUFFICES ASSUME ~ toggled' PROVE WatchedBy(dns, mResolverCache, calls)'
     BY DEF Watched
<1>0. ~ toggled /\ WatchedBy(dns, mResolverCache, calls) /\ dns' = dns
      /\ mResolverCache' = mResolverCache
      BY DEF Watched
<1>1. calls \in Seq(Frame) /\ then \in Seq(Frame)
      BY GoodGrows DEF IInv, StackOK
<1>2. NoCall(calls', {"restore"})
      BY <1>0, <1>1, ConcatCalls DEF WatchedBy
<1>3. \A x : Coming(x, calls) => Coming(x, calls')
      BY <1>1, ComingStays
<1>4. WatchedBy(dns, mResolverCache, calls')
      BY <1>0, <1>2, <1>3 DEF WatchedBy
<1>. QED  BY <1>0, <1>4

LEMMA WatchedOps ==
    ASSUME IInv, Watched, NEW ops \in Seq(Plain), toggled => toggled',
           UNCHANGED <<dns, mResolverCache>>,
           \/ calls # <<>> /\ Head(calls).op \notin Applying /\ Return(ops)
           \/ Handle(ops)
    PROVE  Watched'
<1>. DEFINE then == [i \in DOMAIN ops |-> Call(ops[i])]
<1>1. /\ then \in Seq(Frame) /\ DOMAIN then = DOMAIN ops
      /\ \A i \in DOMAIN ops : then[i].op = ops[i]
      BY PlainCalls
<1>2. /\ Return(ops) => calls' = then \o Tail(calls)
      /\ Handle(ops) => calls' = then \o calls
      BY DEF Return, Handle
<1>. HIDE DEF then
<1>3. \A i \in DOMAIN ops : ops[i] \in Plain
      BY ElementOfSeq, LenProperties
<1>4. NoCall(then, {"restore"})
      BY <1>1, <1>3 DEF NoCall, Plain, EventLoops
<1>. QED  BY <1>1, <1>2, <1>4, WatchedReturn, WatchedHandle

LEMMA WatchedEnables ==
    ASSUME IInv, Watched, NEW enabled \in BOOLEAN, NEW below, setEnabled(enabled, below),
           mResolverCache' = mResolverCache,
           \/ calls # <<>> /\ Head(calls).op \notin Applying /\ below = Tail(calls)
           \/ below = <<Call("writeSettings")>> \o calls
    PROVE  Watched'
<1>1. (toggled => toggled') /\ (enabled # mEnabled => toggled')
      BY DEF setEnabled
<1>2. CASE enabled # mEnabled
      BY <1>1, <1>2 DEF Watched
<1>3. CASE enabled = mEnabled
  <2>1. calls' = below /\ UNCHANGED <<dns, mResolverCache>>
        BY <1>3 DEF setEnabled
  <2>2. /\ Tail(calls) = <<>> \o Tail(calls) \/ calls = <<>>
        /\ <<>> \in Seq(Frame) /\ NoCall(<<>>, {"restore"})
    <3>1. calls \in Seq(Frame)
          BY GoodGrows DEF IInv, StackOK
    <3>2. calls # <<>> => Tail(calls) \in Seq(Frame)
          BY <3>1, HeadTailProperties
    <3>3. \A s \in Seq(Frame) : s = <<>> \o s
          OBVIOUS
    <3>4. <<>> \in Seq(Frame) /\ NoCall(<<>>, {"restore"})
          BY DEF NoCall
    <3>. QED  BY <3>2, <3>3, <3>4
  <2>3. <<Call("writeSettings")>> \in Seq(Frame) /\ NoCall(<<Call("writeSettings")>>, {"restore"})
    <3>1. Call("writeSettings") \in Frame /\ Call("writeSettings").op = "writeSettings"
          BY EmptySeq DEF Call, Frame, Ops
    <3>2. <<Call("writeSettings")>> \in Seq(Frame)
          BY <3>1
    <3>. QED  BY <3>1, <3>2 DEF NoCall
  <2>4. CASE calls # <<>> /\ Head(calls).op \notin Applying /\ below = Tail(calls)
        BY <1>1, <2>1, <2>2, <2>4, WatchedReturn
  <2>5. CASE below = <<Call("writeSettings")>> \o calls
        BY <1>1, <2>1, <2>3, <2>5, WatchedHandle
  <2>. QED  BY <2>4, <2>5
<1>. QED  BY <1>2, <1>3

(* A netsh for a list of resolvers: what it adds is coming. *)
LEMMA WatchedNetsh ==
    ASSUME Obliging, IInv, calls # <<>>, NEW index \in Nat \ {0}, NEW op \in Applying,
           NEW list \in Seq(Address), list # <<>>, runNetsh(index, op, list, Tail(calls)),
           NoCall(Tail(calls), {"restore"}),
           \/ index = 1
           \/ \A x \in ToSet(dns) \cap (T1 \cup T2) :
                 x \in ToSet(mResolverCache') \/ Coming(x, Tail(calls))
    PROVE  WatchedBy(dns', mResolverCache', calls')
<1>1. /\ dns \in Seq(Address) /\ Head(list) \in Address /\ calls \in Seq(Frame)
      /\ Tail(calls) \in Seq(Frame)
  <2>1. calls \in Seq(Frame)
        BY GoodGrows DEF IInv, StackOK
  <2>. QED  BY <2>1, HeadTailProperties DEF IInv, DataOK
<1>2. PICK result \in Netsh(index, Head(list)) :
          /\ dns' = result.dns
          /\ calls' = <<[op |-> op, list |-> list, ok |-> result.ok]>> \o Tail(calls)
      BY DEF runNetsh
<1>3. /\ index = 1 => result.ok /\ ToSet(result.dns) \subseteq {Head(list)}
      /\ result.ok => ToSet(result.dns) \subseteq ToSet(dns) \cup {Head(list)}
      /\ ~ result.ok => result.dns = dns
      BY <1>1, NetshAdds
<1>4. result.ok \in BOOLEAN
      BY <1>1, NetshFacts
<1>. DEFINE f == [op |-> op, list |-> list, ok |-> result.ok]
<1>5. /\ f \in Frame /\ f.op = op /\ f.list = list /\ f.ok = result.ok
      BY <1>4 DEF Frame, Ops, EventLoops
<1>. HIDE DEF f
<1>6. <<f>> \in Seq(Frame) /\ DOMAIN <<f>> = {1} /\ <<f>>[1] = f
      BY <1>5
<1>7. NoCall(<<f>>, {"restore"})
      BY <1>5, <1>6 DEF NoCall, Applying
<1>8. f.ok => Coming(Head(list), <<f>>)
      BY <1>5, <1>6 DEF Coming
<1>9. calls' = <<f>> \o Tail(calls)
      BY <1>2 DEF f
<1>10. NoCall(calls', {"restore"})
      BY <1>1, <1>6, <1>7, <1>9, ConcatCalls
<1>11. /\ f.ok => Coming(Head(list), calls')
       /\ \A x : Coming(x, Tail(calls)) => Coming(x, calls')
      BY <1>1, <1>6, <1>8, <1>9, ComingStays
<1>12. ASSUME NEW x \in ToSet(dns') \cap (T1 \cup T2)
       PROVE  x \in ToSet(mResolverCache') \/ Coming(x, calls')
  <2>1. CASE index = 1
        BY <1>2, <1>3, <1>5, <1>11, <2>1
  <2>2. CASE index # 1 /\ result.ok
        BY <1>2, <1>3, <1>5, <1>11, <2>2
  <2>3. CASE index # 1 /\ ~ result.ok
        BY <1>2, <1>3, <1>11, <2>3
  <2>. QED  BY <1>4, <2>1, <2>2, <2>3
<1>. QED  BY <1>10, <1>12 DEF WatchedBy

(* A list is begun. *)
LEMMA WatchedList ==
    ASSUME Obliging, IInv, Watched, calls # <<>>, NEW op \in Applying, NEW pool,
           pool \subseteq T1 \cup T2, pool # {},
           NEW list \in Rankings(pool, mResolverCacheSize),
           applyList(op, list, Tail(calls)), toggled' = toggled
    PROVE  Watched'
<1>. SUFFICES ASSUME ~ toggled' PROVE WatchedBy(dns, mResolverCache, calls)'
     BY DEF Watched
<1>1. list \in Seq(Address) /\ list # <<>>
      BY RankingFacts DEF IInv, DataOK
<1>2. runNetsh(1, op, list, Tail(calls)) /\ 1 \in Nat \ {0}
      BY DEF applyList, FirstIndex
<1>3. NoCall(Tail(calls), {"restore"})
  <2>1. calls \in Seq(Frame) /\ NoCall(calls, {"restore"})
        BY GoodGrows DEF IInv, StackOK, Watched, WatchedBy
  <2>. QED  BY <2>1, TailCalls
<1>4. WatchedBy(dns', mResolverCache', calls')
      BY <1>1, <1>2, <1>3, WatchedNetsh
<1>. QED  BY <1>4

(* The next address of a list, or its end. *)
LEMMA WatchedNext == ASSUME Obliging, IInv, Watched, nextResolver PROVE Watched'
<1>. SUFFICES ASSUME ~ toggled' PROVE WatchedBy(dns, mResolverCache, calls)'
     BY DEF Watched
<1>. DEFINE r == Head(Head(calls).list)
<1>1. /\ ~ toggled /\ calls # <<>> /\ Head(calls).op \in Applying \cup {"restore"}
      /\ WatchedBy(dns, mResolverCache, calls)
      BY DEF nextResolver, flagVars, Watched
<1>2. /\ calls \in Seq(Frame) /\ Tail(calls) \in Seq(Frame)
      /\ Head(calls).op \in Applying /\ NoCall(Tail(calls), {"restore"})
  <2>1. calls \in Seq(Frame) /\ NoCall(calls, {"restore"})
        BY <1>1, GoodGrows DEF IInv, StackOK, WatchedBy
  <2>. QED  BY <1>1, <2>1, TailCalls
<1>3. /\ ToSet(mResolverCache) \subseteq ToSet(mResolverCache')
      /\ Head(calls).ok => r \in ToSet(mResolverCache')
  <2>1. mResolverCache' = IF Accepted(Head(calls)) /\ r \notin ToSet(mResolverCache)
                          THEN Append(mResolverCache, r) ELSE mResolverCache
        BY DEF nextResolver
  <2>2. Accepted(Head(calls)) <=> Head(calls).ok
        BY <1>2 DEF Accepted
  <2>. HIDE DEF r
  <2>3. CASE Accepted(Head(calls)) /\ r \notin ToSet(mResolverCache)
    <3>1. /\ mResolverCache \in Seq(T1 \cup T2) /\ mResolverCache' = Append(mResolverCache, r)
          BY <2>1, <2>3 DEF IInv, DataOK
    <3>. DEFINE n == Len(mResolverCache)
    <3>2. /\ n \in Nat /\ DOMAIN mResolverCache = 1 .. n /\ DOMAIN mResolverCache' = 1 .. n + 1
          /\ \A i \in 1 .. n : mResolverCache'[i] = mResolverCache[i]
          /\ mResolverCache'[n + 1] = r
          BY <3>1, LenProperties
    <3>. HIDE DEF n
    <3>. QED  BY <3>2 DEF ToSet
  <2>4. CASE ~ (Accepted(Head(calls)) /\ r \notin ToSet(mResolverCache))
        BY <2>1, <2>2, <2>4
  <2>. QED  BY <2>3, <2>4
<1>4. \A x \in ToSet(dns) \cap (T1 \cup T2) :
          x \in ToSet(mResolverCache') \/ Coming(x, Tail(calls))
  <2>1. \A x : Coming(x, calls) => (Head(calls).ok /\ r = x) \/ Coming(x, Tail(calls))
        BY <1>1, <1>2, ComingBelow
  <2>. HIDE DEF r
  <2>. QED  BY <1>1, <1>3, <2>1 DEF WatchedBy
<1>5. CASE Len(Head(calls).list) > 1
  <2>. DEFINE rest == Tail(Head(calls).list)
  <2>1. runNetsh(mResolverIndex + 1, Head(calls).op, rest, Tail(calls))
        BY <1>5 DEF nextResolver
  <2>2. mResolverIndex + 1 \in Nat \ {0}
        BY DEF IInv, DataOK
  <2>3. rest \in Seq(Address) /\ rest # <<>>
    <3>1. Head(calls).list \in Seq(Address)
          BY <1>1, HeadIsFrame DEF IInv, StackOK
    <3>. DEFINE list == Head(calls).list
    <3>. HIDE DEF list
    <3>2. list \in Seq(Address) /\ Len(list) > 1
          BY <1>5, <3>1 DEF list
    <3>3. Tail(list) \in Seq(Address) /\ Len(Tail(list)) = Len(list) - 1
          BY <3>2, HeadTailProperties, EmptySeq
    <3>4. Tail(list) # <<>>
      <4>1. Len(Tail(list)) # 0
            BY <3>2, <3>3, LenProperties
      <4>2. Len(<<>>) = 0
            OBVIOUS
      <4>. QED  BY <4>1, <4>2
    <3>. QED  BY <3>3, <3>4 DEF list
  <2>. HIDE DEF rest
  <2>. QED  BY <1>1, <1>2, <1>4, <2>1, <2>2, <2>3, WatchedNetsh
<1>6. CASE ~ (Len(Head(calls).list) > 1)
  <2>. DEFINE then == After(Head(calls).op)
  <2>1. calls' = then \o Tail(calls) /\ dns' = dns
        BY <1>6 DEF nextResolver
  <2>2. then \in Seq(Frame) /\ NoCall(then, {"restore"})
    <3>1. then \in {<<Call("fetchT2")>>, <<Call("bootLoop")>>, <<>>}
          BY <1>2 DEF After, Applying
    <3>2. \A op \in {"fetchT2", "bootLoop"} : Call(op) \in Frame /\ Call(op).op = op
          BY EmptySeq DEF Call, Frame, Ops, EventLoops, BootFrames
    <3>3. \A op \in {"fetchT2", "bootLoop"} :
              <<Call(op)>> \in Seq(Frame) /\ NoCall(<<Call(op)>>, {"restore"})
      <4>1. \A f \in Frame : <<f>> \in Seq(Frame) /\ DOMAIN <<f>> = {1} /\ <<f>>[1] = f
            OBVIOUS
      <4>2. \A f \in Frame : f.op # "restore" => NoCall(<<f>>, {"restore"})
            BY <4>1 DEF NoCall
      <4>. QED  BY <3>2, <4>1, <4>2
    <3>4. <<>> \in Seq(Frame) /\ NoCall(<<>>, {"restore"})
          BY DEF NoCall
    <3>. HIDE DEF then
    <3>. QED  BY <3>1, <3>3, <3>4
  <2>. HIDE DEF then
  <2>3. NoCall(calls', {"restore"})
        BY <1>2, <2>1, <2>2, ConcatCalls
  <2>4. \A x : Coming(x, Tail(calls)) => Coming(x, calls')
        BY <1>2, <2>1, <2>2, ComingStays
  <2>5. WatchedBy(dns', mResolverCache', calls')
        BY <1>4, <2>1, <2>3, <2>4 DEF WatchedBy
  <2>. QED  BY <2>5
<1>. QED  BY <1>5, <1>6

(* The steps that only call, return or push. *)
LEMMA WatchedQuiet ==
    ASSUME IInv, Watched,
           \/ preserved \/ readSettings \/ writeSettings \/ coldBootReturns
           \/ \E force \in BOOLEAN : refreshResolvers(force)
           \/ \E force, failing \in BOOLEAN : recheckResolvers(force, failing)
           \/ fastTimer \/ refreshTimer
           \/ \E size \in Sizes : setResolverCacheSize(size)
    PROVE  Watched'
<1>1. UNCHANGED <<dns, mResolverCache>> /\ toggled' = toggled
      BY DEF preserved, readSettings, writeSettings, coldBootReturns, refreshResolvers,
             recheckResolvers, fastTimer, refreshTimer, setResolverCacheSize, osVars, flagVars
<1>2. CASE preserved
  <2>1. calls \in Seq(Frame) /\ calls # <<>> /\ Head(calls).op = "preserve"
        /\ calls' = Tail(calls)
        BY <1>2, GoodGrows DEF IInv, StackOK, preserved, Run
  <2>2. <<>> \in Seq(Frame) /\ NoCall(<<>>, {"restore"})
        BY DEF NoCall
  <2>3. Tail(calls) \in Seq(Frame)
        BY <2>1, HeadTailProperties
  <2>4. calls' = <<>> \o Tail(calls)
        BY <2>1, <2>3
  <2>. QED  BY <1>1, <2>1, <2>2, <2>4, WatchedReturn DEF Applying
<1>3. CASE ~ preserved
      BY <1>1, <1>3, PlainSteps, WatchedOps
<1>. QED  BY <1>2, <1>3

LEMMA WatchedUpdate == ASSUME Obliging, IInv, Watched, updateDNS PROVE Watched'
<1>1. /\ calls # <<>> /\ Head(calls).op = "updateDNS" /\ toggled' = toggled
      BY DEF updateDNS, Run, flagVars
<1>2. CASE calls' = Tail(calls) /\ UNCHANGED <<dns, mResolverIndex, mResolverCache, mUpdatingDNS>>
  <2>1. Tail(calls) \in Seq(Frame)
        BY <1>1, GoodGrows, HeadTailProperties DEF IInv, StackOK
  <2>2. calls' = <<>> \o Tail(calls) /\ <<>> \in Seq(Frame) /\ NoCall(<<>>, {"restore"})
        BY <1>2, <2>1 DEF NoCall
  <2>3. Head(calls).op \notin Applying
        BY <1>1 DEF Applying
  <2>. QED  BY <1>1, <1>2, <2>2, <2>3, WatchedReturn
<1>3. ASSUME ~ UpdateSkipped, NEW list \in Rankings(mResolverPool, mResolverCacheSize),
             applyList("applyUpdate", list, Tail(calls))
      PROVE  Watched'
  <2>1. mResolverPool \subseteq T1 \cup T2 /\ mResolverPool # {}
        BY <1>3 DEF UpdateSkipped, IInv, DataOK
  <2>2. "applyUpdate" \in Applying
        BY DEF Applying
  <2>. QED  BY <1>1, <1>3, <2>1, <2>2, WatchedList
<1>. QED  BY <1>2, <1>3 DEF updateDNS

LEMMA WatchedBoots ==
    ASSUME Obliging, IInv, Watched, bootstrapT1 \/ bootstrapT2
    PROVE  Watched'
<1>1. calls # <<>> /\ toggled' = toggled /\ {"applyT1", "applyT2"} \subseteq Applying
      BY DEF bootstrapT1, bootstrapT2, Run, flagVars, Applying
<1>2. CASE bootstrapT1
  <2>1. PICK list \in Rankings(T1, mResolverCacheSize) : applyList("applyT1", list, Tail(calls))
        BY <1>2 DEF bootstrapT1
  <2>. QED  BY <1>1, <2>1, WinAssumption, WatchedList
<1>3. CASE bootstrapT2
  <2>1. mResolverPool # {}
    <3>1. Head(calls) \in Good(mResolverPool) /\ Head(calls).op = "fetchT2"
          BY <1>1, <1>3, HeadIsFrame DEF IInv, StackOK, bootstrapT2, Run
    <3>. QED  BY <3>1 DEF Good
  <2>2. PICK new \in SUBSET T2 :
            /\ mResolverPool' = mResolverPool \cup new
            /\ \E list \in Rankings(mResolverPool', mResolverCacheSize) :
                  applyList("applyT2", list, Tail(calls))
        BY <1>3 DEF bootstrapT2
  <2>3. PICK list \in Rankings(mResolverPool', mResolverCacheSize) :
                applyList("applyT2", list, Tail(calls))
        BY <2>2
  <2>4. mResolverPool' \subseteq T1 \cup T2 /\ mResolverPool' # {}
        BY <2>1, <2>2 DEF IInv, DataOK
  <2>. QED  BY <1>1, <2>3, <2>4, WatchedList
<1>. QED  BY <1>2, <1>3

(* If netsh refuses nothing but what is there, and the service is never    *)
(* enabled or disabled, then whenever the program waits, what Windows has  *)
(* of the service's resolvers is in the cache that is watched: however     *)
(* lists were applied in the middle of others.                             *)
THEOREM NoStraysLeft == Obliging /\ Spec => []NoStray
<1>. SUFFICES ASSUME Obliging PROVE Spec => []NoStray
     OBVIOUS
<1>1. Init => Watched
  <2>. SUFFICES ASSUME Init PROVE WatchedBy(dns, mResolverCache, calls)
       BY DEF Watched
  <2>1. dns = Original /\ calls = <<Call("readSettings"), Call("refresh")>>
        BY DEF Init
  <2>2. NoCall(calls, {"restore"})
        BY <2>1 DEF NoCall, Call
  <2>3. ToSet(dns) \cap (T1 \cup T2) = {}
        BY <2>1, WinAssumption
  <2>. QED  BY <2>2, <2>3 DEF WatchedBy
<1>2. IInv /\ Watched /\ [Next]_vars => Watched'
  <2>. SUFFICES ASSUME IInv, Watched, [Next]_vars PROVE Watched'
       OBVIOUS
  <2>1. CASE nextResolver
        BY <2>1, WatchedNext
  <2>2. CASE updateDNS
        BY <2>2, WatchedUpdate
  <2>3. CASE bootstrapT1 \/ bootstrapT2
        BY <2>3, WatchedBoots
  <2>4. CASE readEnabled
    <3>1. /\ calls # <<>> /\ Head(calls).op \notin Applying
          /\ setEnabled(settings.enabled, Tail(calls)) /\ mResolverCache' = mResolverCache
          BY <2>4 DEF readEnabled, Run, Applying
    <3>2. settings.enabled \in BOOLEAN
          BY DEF IInv, DataOK
    <3>. QED  BY <3>1, <3>2, WatchedEnables
  <2>5. ASSUME NEW enabled \in BOOLEAN, clientEnables(enabled) PROVE Watched'
    <3>1. /\ setEnabled(enabled, <<Call("writeSettings")>> \o calls)
          /\ mResolverCache' = mResolverCache
          BY <2>5 DEF clientEnables
    <3>. QED  BY <3>1, WatchedEnables
  <2>6. CASE \/ preserved \/ readSettings \/ writeSettings \/ coldBootReturns
             \/ \E force \in BOOLEAN : refreshResolvers(force)
             \/ \E force, failing \in BOOLEAN : recheckResolvers(force, failing)
             \/ fastTimer \/ refreshTimer
             \/ \E size \in Sizes : setResolverCacheSize(size)
        BY <2>6, WatchedQuiet
  <2>7. CASE UNCHANGED vars
    <3>1. UNCHANGED <<dns, mResolverCache, calls, toggled>>
          BY <2>7 DEF vars, osVars, flagVars
    <3>. QED  BY <3>1 DEF Watched, WatchedBy, NoCall, Coming, ToSet
  <2>. QED  BY <2>1, <2>2, <2>3, <2>4, <2>5, <2>6, <2>7 DEF Next, Step
<1>3. Watched => NoStray
  <2>. SUFFICES ASSUME Watched, calls = <<>>, ~ toggled
                PROVE  ToSet(dns) \cap (T1 \cup T2) \subseteq ToSet(mResolverCache)
       BY DEF NoStray
  <2>1. WatchedBy(dns, mResolverCache, calls) /\ \A x : ~ Coming(x, calls)
        BY DEF Watched, Coming
  <2>. QED  BY <2>1 DEF WatchedBy
<1>. QED  BY <1>1, <1>2, <1>3, Inductive, PTL DEF Spec
=============================================================================
