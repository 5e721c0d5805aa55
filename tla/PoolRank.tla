------------------------------- MODULE PoolRank -------------------------------
(***************************************************************************)
(* The order of a pool: its scores, sort() and randomize(), from           *)
(* opennicresolverpool.cpp, and what a score is made of, the histories of  *)
(* opennicresolver.cpp.                                                    *)
(*                                                                         *)
(* A query is what the scores see of it: its error, its latency and, while *)
(* the error is DNS_OK, whether its name is one of OpenNIC's.  A pending   *)
(* query has the values it was constructed with, DNS_OK and latency 0.     *)
(* The latency is the time at which the reply or the timer is handled, so  *)
(* that a query may end as late as the event loop lets it, expired or not. *)
(* The errors other than DNS_OK count alike.                               *)
(* Averages are in units of 1/Unit ms and scores in 1/160000 of that,      *)
(* which makes them integers: the factors of the code are 0.6666, 1.5,     *)
(* 1.75, 0.75 and 0.5.                                                     *)
(*                                                                         *)
(* A score is read only by the sort() that follows score() and by that of  *)
(* insort(), which finds nothing to do: a new resolver has score 0, and    *)
(* the pool it is appended to is in the order of its scores or has none    *)
(* yet.  So mScore is not a variable, and insort() is Append.              *)
(***************************************************************************)
EXTENDS Integers, Sequences, FiniteSets

CONSTANTS Resolver,
          T1, T2,         \* the bootstrap lists, without repetition
          Latencies,      \* of queries that have ended, in ms
          MaxQueryDepth,  \* MAX_QUERY_DEPTH
          Unit,           \* a common multiple of the lengths of histories
          MaxTests        \* bound of the number of tests

ASSUME RankAssumption ==
    /\ T1 \in Seq(Resolver) /\ T2 \in Seq(Resolver)
    /\ Latencies \subseteq Nat
    /\ MaxQueryDepth \in Nat \ {0} /\ MaxTests \in Nat
    /\ Unit \in Nat \ {0} /\ \A n \in 1 .. MaxQueryDepth : Unit % n = 0

VARIABLES mResolvers,     \* the pool
          history,        \* mQueries of each resolver, the newest first
          mScoreInternal, \* are the built-in rules in use?
          tests           \* how many tests there were

vars == <<mResolvers, history, mScoreInternal, tests>>

Pending(nic) == [error |-> "DNS_OK", latency |-> 0, nic |-> nic, ended |-> FALSE]
Outcome(error, latency, nic) ==
    [error |-> error, latency |-> latency, nic |-> nic /\ error = "DNS_OK", ended |-> TRUE]
Outcomes(nic) ==
    {Outcome(error, latency, nic) : error \in {"DNS_OK", "failed"}, latency \in Latencies}

Elements(s) == {s[i] : i \in 1 .. Len(s)}
Minimum(m, n) == IF m <= n THEN m ELSE n

Init == /\ mResolvers = <<>>
        /\ history = [r \in Resolver |-> <<>>]
        /\ mScoreInternal \in BOOLEAN
        /\ tests = 0

-----------------------------------------------------------------------------
(* What is read from a history. *)

totalLatency(queries) ==
    LET total[n \in 0 .. Len(queries)] ==
            IF n = 0 THEN 0 ELSE total[n - 1] + queries[n].latency
    IN  total

(* -1 without a history. *)
averageLatency(r) ==
    LET count == Len(history[r])
    IN  IF count = 0 THEN -1 ELSE (Unit * totalLatency(history[r])[count]) \div count

resolvesNIC(r) ==
    \E i \in DOMAIN history[r] : history[r][i].nic /\ history[r][i].error = "DNS_OK"

status(r) ==
    LET recent == 1 .. Minimum(3, Len(history[r]))
        failures == {i \in recent : history[r][i].error # "DNS_OK"}
        successes == recent \ failures
    IN  CASE failures = {} /\ successes # {} -> "Green"
          [] failures # {} /\ Cardinality(successes) > Cardinality(failures) -> "Yellow"
          [] OTHER -> "Red"

-----------------------------------------------------------------------------
(* The scores. *)

(* Mutant: the smallest average is taken for the largest. *)
maxLatency_min(pool) ==
    CHOOSE m \in {averageLatency(r) : r \in pool} : \A r \in pool : m <= averageLatency(r)

(* latency(): of its results only the largest average is used. *)
maxLatency(pool) ==
    CHOOSE m \in {averageLatency(r) : r \in pool} : \A r \in pool : m >= averageLatency(r)

KindFactor(r) == IF r \in Elements(T1) THEN 6666 ELSE 15000
StatusFactor == [Red |-> 2, Yellow |-> 3, Green |-> 4]
NICFactor(r) == IF resolvesNIC(r) THEN 7 ELSE 4

scoreResolverInternal(r, max) ==
    LET average == IF averageLatency(r) < 0 THEN max ELSE averageLatency(r)
    IN  (max - average) * KindFactor(r) * NICFactor(r) * StatusFactor[status(r)]

(* With the default script, DEFAULT_SCORE_RULES.  The status is passed as  *)
(* the number of the enumeration, the script compares it with letters: it  *)
(* counts as Green.                                                        *)
scoreResolverScript(r, max) ==
    (max - averageLatency(r)) * KindFactor(r) * NICFactor(r) * StatusFactor["Green"]

score == LET max == maxLatency(Elements(mResolvers))
         IN  [r \in Elements(mResolvers) |->
                 IF mScoreInternal THEN scoreResolverInternal(r, max)
                                   ELSE scoreResolverScript(r, max)]

-----------------------------------------------------------------------------
(* The order. *)

(* Mutant: what was at a is overwritten. *)
swap_lost(s, a, b) == [s EXCEPT ![a] = s[b]]

swap(s, a, b) == [s EXCEPT ![a] = s[b], ![b] = s[a]]

(* The first of the best from position a on. *)
best(s, a, scores) ==
    CHOOSE d \in a .. Len(s) : /\ \A b \in a .. Len(s) : scores[s[d]] >= scores[s[b]]
                              /\ \A b \in a .. d - 1 : scores[s[d]] > scores[s[b]]

(* Selection: pass a swaps position a with the best from there on. *)
passes(s, scores) ==
    LET pass[a \in 0 .. Len(s)] ==
            IF a = 0 THEN s ELSE swap(pass[a - 1], a, best(pass[a - 1], a, scores))
    IN  pass

(* Mutant: one pass too few. *)
sort_short(s, scores) == IF Len(s) < 2 THEN s ELSE passes(s, scores)[Len(s) - 2]

sort(s, scores) == IF Len(s) < 2 THEN s ELSE passes(s, scores)[Len(s) - 1]

(* The results of a swap of two positions that are not equal. *)
Swaps(s) == UNION {{swap(s, a, b) : b \in DOMAIN s \ {a}} : a \in DOMAIN s}

shuffles(s) ==
    LET shuffle[k \in 0 .. Len(s)] ==
            IF k = 0 THEN {s} ELSE UNION {Swaps(t) : t \in shuffle[k - 1]}
    IN  shuffle

(* The results of randomize(): as many swaps as there are resolvers. *)
Randomizations(s) == IF Len(s) < 2 THEN {s} ELSE shuffles(s)[Len(s)]

-----------------------------------------------------------------------------
(* append(): an address the pool has is not taken again. *)
append(pool, r) == IF r \in Elements(pool) THEN pool ELSE Append(pool, r)

(* The pool after the first n addresses of a list. *)
loads(pool, list) ==
    LET load[n \in 0 .. Len(list)] ==
            IF n = 0 THEN pool ELSE append(load[n - 1], list[n])
    IN  load

(* Each resolver that fromIPList() adds tests itself at once. *)
fromIPList(list) ==
    LET pool == loads(mResolvers, list)[Len(list)]
        new == Elements(pool) \ Elements(mResolvers)
    IN  /\ tests' = tests + Len(pool) - Len(mResolvers)
        /\ tests' <= MaxTests
        /\ \E nics \in [new -> BOOLEAN] :
              history' = [r \in Resolver |-> IF r \in new THEN <<Pending(nics[r])>>
                                                          ELSE history[r]]
        /\ mResolvers' \in Randomizations(pool)
        /\ UNCHANGED mScoreInternal

(* bootstrapResolvers(): T1 and, when dig has returned, T2; each list is   *)
(* followed by randomize().                                                *)
bootstrapT1 == mResolvers = <<>> /\ fromIPList(T1)
bootstrapT2 == Elements(mResolvers) = Elements(T1) /\ fromIPList(T2)

addToQueries(queries, q) ==
    SubSeq(<<q>> \o queries, 1, Minimum(MaxQueryDepth, Len(queries) + 1))

test(r, nic) ==
    /\ r \in Elements(mResolvers) /\ tests < MaxTests
    /\ history' = [history EXCEPT ![r] = addToQueries(@, Pending(nic))]
    /\ tests' = tests + 1
    /\ UNCHANGED <<mResolvers, mScoreInternal>>

(* A query ends: by its reply, by its timer or because it is not sent. *)
finished(r, i) ==
    /\ i \in DOMAIN history[r] /\ ~ history[r][i].ended
    /\ \E outcome \in Outcomes(history[r][i].nic) :
           history' = [history EXCEPT ![r][i] = outcome]
    /\ UNCHANGED <<mResolvers, mScoreInternal, tests>>

(* updateDNS() scores and sorts before it proposes the first of the pool. *)
rank == /\ mResolvers # <<>>
        /\ mResolvers' = sort(mResolvers, score)
        /\ UNCHANGED <<history, mScoreInternal, tests>>

(* A client chooses the rules; the script it can edit is the default one.  *)
setScoreInternal == /\ mScoreInternal' = ~ mScoreInternal
                    /\ UNCHANGED <<mResolvers, history, tests>>

Next == \/ bootstrapT1 \/ bootstrapT2
        \/ \E r \in Resolver, nic \in BOOLEAN : test(r, nic)
        \/ \E r \in Resolver : \E i \in DOMAIN history[r] : finished(r, i)
        \/ rank \/ setScoreInternal

Spec == Init /\ [][Next]_vars

-----------------------------------------------------------------------------
Query == [error : {"DNS_OK", "failed"}, latency : Latencies \cup {0},
          nic : BOOLEAN, ended : BOOLEAN]

(* The variables have their types; no history is longer than it may be and *)
(* every resolver of the pool has been tested, so that its average is not  *)
(* the -1 of a resolver without a history.                                 *)
TypeOK ==
    /\ mResolvers \in Seq(Resolver)
    /\ history \in [Resolver -> Seq(Query)]
    /\ \A r \in Resolver : Len(history[r]) <= MaxQueryDepth
    /\ \A r \in Elements(mResolvers) : history[r] # <<>>
    /\ mScoreInternal \in BOOLEAN
    /\ tests \in 0 .. MaxTests

(* Whatever lists were loaded and however often the pool was shuffled and  *)
(* sorted, it has every resolver of the lists once: the swaps of sort()    *)
(* and randomize() neither lose a resolver nor repeat one.                 *)
NoneLost ==
    /\ \A i, j \in DOMAIN mResolvers : mResolvers[i] = mResolvers[j] => i = j
    /\ Elements(mResolvers) \in {{}, Elements(T1), Elements(T1) \cup Elements(T2)}

Before(s, t, r) == \E i, j \in DOMAIN r : i < j /\ r[i] = s /\ r[j] = t
Places == [Green |-> 3, Yellow |-> 2, Red |-> 1]

(* s is faster than r and in nothing else behind it. *)
Dominates(s, r) ==
    /\ averageLatency(s) < averageLatency(r)
    /\ KindFactor(r) <= KindFactor(s)
    /\ resolvesNIC(r) => resolvesNIC(s)
    /\ Places[status(s)] >= Places[status(r)]

(* The pool a client asks for is ranked: after score() and sort(), with    *)
(* either rules, no resolver comes before one that is faster and in        *)
(* nothing behind it.                                                      *)
RankingIsJust ==
    [][rank => \A r, s \in Elements(mResolvers) :
                   Dominates(s, r) => Before(s, r, mResolvers')]_vars

(* A resolver that is the slowest of the pool, as one that never answers   *)
(* mostly is, is not active in the place of a faster one: whatever its     *)
(* kind, its status and what it resolves count for, and with either rules, *)
(* all that are faster come before it (opennicresolverpool.cpp:246-318).   *)
Slowest(r) == \A s \in Elements(mResolvers) : averageLatency(s) <= averageLatency(r)
SlowestIsLast ==
    [][rank => \A r, s \in Elements(mResolvers) :
                   Slowest(r) /\ averageLatency(s) < averageLatency(r)
                       => Before(s, r, mResolvers')]_vars

=============================================================================
