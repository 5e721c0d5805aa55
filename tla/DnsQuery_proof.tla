--------------------------- MODULE DnsQuery_proof ---------------------------
(***************************************************************************)
(* Theorems about DnsQuery, for all sets of queries, resolvers and ports   *)
(* and for every depth of the history.                                     *)
(***************************************************************************)
EXTENDS DnsQuery, SequenceTheorems, TLAPS

(* The inductive invariant: that an ended query holds no socket and no     *)
(* timer is what makes its outcome final; that listed queries belong to    *)
(* their resolver is what lets one prune without touching another's.       *)
IInv == TypeOK /\ PendingIsGuarded /\ HistoryIsSound

(* What a history is after a new query has become its head. *)
LEMMA Pruned ==
    ASSUME NEW queries \in Seq(Query), NEW q \in Query
    PROVE  LET kept == prune(<<q>> \o queries)
           IN  /\ kept \in Seq(Query)
               /\ Len(kept) \in 1 .. MaxQueryDepth
               /\ kept[1] = q
               /\ \A i \in 2 .. Len(kept) : i - 1 \in DOMAIN queries /\ kept[i] = queries[i - 1]
<1> DEFINE all == <<q>> \o queries
           n == Minimum(MaxQueryDepth, Len(all))
<1>1. /\ all \in Seq(Query) /\ Len(all) = Len(queries) + 1
      /\ all[1] = q
      /\ \A i \in 2 .. Len(all) : all[i] = queries[i - 1]
  OBVIOUS
<1>2. Len(queries) \in Nat /\ DOMAIN queries = 1 .. Len(queries)
  OBVIOUS
<1>3. n \in 1 .. MaxQueryDepth /\ n <= Len(all)
  BY <1>1, <1>2, QueryAssumption DEF Minimum
<1> HIDE DEF all, n
<1>4. /\ SubSeq(all, 1, n) \in Seq(Query)
      /\ Len(SubSeq(all, 1, n)) = n
      /\ \A i \in 1 .. n : SubSeq(all, 1, n)[i] = all[i]
  BY <1>1, <1>2, <1>3, QueryAssumption
<1>5. prune(<<q>> \o queries) = SubSeq(all, 1, n)
  BY DEF prune, all, n
<1>6. \A i \in 2 .. n : i - 1 \in DOMAIN queries /\ all[i] = queries[i - 1]
  BY <1>1, <1>2, <1>3
<1>7. \A i \in 2 .. n : SubSeq(all, 1, n)[i] = all[i]
  BY <1>3, <1>4
<1>8. SubSeq(all, 1, n)[1] = q
  BY <1>1, <1>3, <1>4, QueryAssumption
<1> HIDE DEF prune
<1> QED
  BY <1>3, <1>4, <1>5, <1>6, <1>7, <1>8

(* A query that is made is pending, or has ended without an answer. *)
Made(state, r, name, port) ==
    /\ state \in QueryState
    /\ state.resolver = r /\ state.name = name /\ state.addr = None
    /\ state.timer = ~ state.ended
    /\ \/ state = Pending(r, name, port)
       \/ state.ended /\ state.port = None

LEMMA NewQueryFacts ==
    ASSUME NEW r \in Resolver, NEW name \in Name, NEW port \in Port \cup {None},
           NEW sent \in BOOLEAN, NEW state \in {NewQuery(r, name, port, sent)}
    PROVE  Made(state, r, name, port)
<1>1. CASE sent
  <2>1. state = Pending(r, name, port)
    BY <1>1 DEF NewQuery
  <2>2. state = [resolver |-> r, name |-> name, error |-> "DNS_OK", ended |-> FALSE,
                 addr |-> None, port |-> port, timer |-> TRUE]
    BY <2>1 DEF Pending
  <2>3. state \in QueryState
    BY <2>2 DEF QueryState, DNSError
  <2>4. state.timer = ~ state.ended
    BY <2>2
  <2>5. state.resolver = r /\ state.name = name /\ state.addr = None
    BY <2>2
  <2> QED
    BY <2>1, <2>3, <2>4, <2>5, Zenon DEF Made
<1>2. CASE ~ sent
  <2>1. state = terminate(Pending(r, name, port), "DNS_ERROR")
    BY <1>2 DEF NewQuery
  <2>2. state = [resolver |-> r, name |-> name, error |-> "DNS_ERROR", ended |-> TRUE,
                 addr |-> None, port |-> None, timer |-> FALSE]
    BY <2>1 DEF terminate, Pending
  <2>3. state \in QueryState
    BY <2>2 DEF QueryState, DNSError
  <2>4. state.timer = ~ state.ended
    BY <2>2
  <2>5. state.resolver = r /\ state.name = name /\ state.addr = None
    BY <2>2
  <2>6. state.ended /\ state.port = None
    BY <2>2
  <2> QED
    BY <2>3, <2>4, <2>5, <2>6, Zenon DEF Made
<1> QED
  BY <1>1, <1>2

(* The history of a resolver, which may be about to exist. *)
Before(r, queries) == \/ r \in DOMAIN history /\ queries = history[r]
                      \/ r \notin DOMAIN history /\ queries = <<>>

(* What launching a query changes: the queries that stay are as they were, *)
(* the new one is as NewQuery says, and its resolver lists it first.       *)
Launched(r, queries, q, state) ==
    /\ q \notin DOMAIN query /\ q \in DOMAIN query' /\ query'[q] = state
    /\ DOMAIN query' \subseteq DOMAIN query \cup {q}
    /\ query' \in [DOMAIN query' -> QueryState]
    /\ \A x \in DOMAIN query' \ {q} : query'[x] = query[x]
    /\ \A x \in DOMAIN query \ DOMAIN query' :
          /\ x \in {queries[i] : i \in DOMAIN queries}
          /\ x \notin {history'[r][i] : i \in DOMAIN history'[r]}
    /\ DOMAIN history' = DOMAIN history \cup {r}
    /\ \A x \in DOMAIN history \ {r} : history'[x] = history[x]
    /\ history' \in [DOMAIN history' -> Seq(Query)]
    /\ Len(history'[r]) \in 1 .. MaxQueryDepth
    /\ history'[r][1] = q
    /\ \A i \in 2 .. Len(history'[r]) : /\ i - 1 \in DOMAIN queries
                                        /\ history'[r][i] = queries[i - 1]
                                        /\ history'[r][i] \in DOMAIN query'

LEMMA LaunchFacts ==
    ASSUME TypeOK, HistoryIsSound,
           NEW r \in Resolver, NEW queries \in Seq(Query), NEW q \in Query,
           NEW name \in Name, NEW port \in Port \cup {None}, NEW sent \in BOOLEAN,
           Before(r, queries),
           Launch(r, queries, q, name, port, sent)
    PROVE  Launched(r, queries, q, NewQuery(r, name, port, sent))
<1> DEFINE kept == prune(<<q>> \o queries)
           deleted == {queries[i] : i \in DOMAIN queries} \ {kept[i] : i \in DOMAIN kept}
<1>1. /\ kept \in Seq(Query)
      /\ Len(kept) \in 1 .. MaxQueryDepth
      /\ kept[1] = q
      /\ \A i \in 2 .. Len(kept) : i - 1 \in DOMAIN queries /\ kept[i] = queries[i - 1]
  BY Pruned
<1>2. DOMAIN kept = 1 .. Len(kept) /\ Len(kept) \in Nat
  BY <1>1
<1>3. PICK state \in {NewQuery(r, name, port, sent)} :
         query' = [x \in (DOMAIN query \cup {q}) \ deleted |->
                      IF x = q THEN state ELSE query[x]]
  BY DEF Launch
<1>4. /\ q \notin DOMAIN query
      /\ history' = [x \in DOMAIN history \cup {r} |-> IF x = r THEN kept ELSE history[x]]
  BY DEF Launch
<1> HIDE DEF kept
<1>5. q \notin deleted
  BY <1>1, <1>2 DEF deleted
<1>6. \A i \in 2 .. Len(kept) : kept[i] \in DOMAIN query /\ kept[i] \notin deleted
  <2>1. \A j \in DOMAIN queries : queries[j] \in DOMAIN query
    BY DEF HistoryIsSound, Before
  <2> QED
    BY <1>1, <1>2, <2>1 DEF deleted
<1>7. /\ DOMAIN query' = (DOMAIN query \cup {q}) \ deleted
      /\ \A x \in DOMAIN query' : query'[x] = IF x = q THEN state ELSE query[x]
  BY <1>3
<1>8. query' \in [DOMAIN query' -> QueryState]
  <2>1. state \in QueryState
    BY <1>3, NewQueryFacts DEF Made
  <2> HIDE DEF deleted
  <2> QED
    BY <1>3, <1>7, <2>1 DEF TypeOK
<1>9. /\ DOMAIN history' = DOMAIN history \cup {r}
      /\ history'[r] = kept
      /\ \A x \in DOMAIN history \ {r} : history'[x] = history[x]
      /\ history' \in [DOMAIN history' -> Seq(Query)]
  BY <1>1, <1>4 DEF TypeOK
<1>10. \A x \in DOMAIN query \ DOMAIN query' :
           /\ x \in {queries[i] : i \in DOMAIN queries}
           /\ x \notin {kept[i] : i \in DOMAIN kept}
  BY <1>7 DEF deleted
<1> HIDE DEF deleted
<1>11. \A i \in 2 .. Len(kept) : kept[i] \in DOMAIN query'
  BY <1>6, <1>7
<1> QED
  BY <1>1, <1>3, <1>4, <1>5, <1>7, <1>8, <1>9, <1>10, <1>11 DEF Launched

(* The same queries under another state of one of them. *)
LEMMA OneQueryChanges ==
    ASSUME IInv, NEW q \in DOMAIN query, NEW state \in QueryState,
           query' = [query EXCEPT ![q] = state],
           state.resolver = query[q].resolver,
           state.timer = ~ state.ended,
           state.ended => state.port = None,
           state.port \in {query[q].port, None},
           UNCHANGED history
    PROVE  /\ DOMAIN query' = DOMAIN query
           /\ query' \in [DOMAIN query' -> QueryState]
           /\ PendingIsGuarded' /\ HistoryIsSound'
<1>1. /\ DOMAIN query' = DOMAIN query
      /\ query'[q] = state
      /\ \A x \in DOMAIN query \ {q} : query'[x] = query[x]
  OBVIOUS
<1>2. query' \in [DOMAIN query' -> QueryState]
  BY <1>1 DEF IInv, TypeOK
<1>3. \A x \in DOMAIN query : /\ query'[x].resolver = query[x].resolver
                              /\ query'[x].port \in {query[x].port, None}
  BY <1>1
<1>4. PendingIsGuarded'
  <2>1. \A x \in DOMAIN query' : /\ query'[x].timer = ~ query'[x].ended
                                 /\ query'[x].ended => query'[x].port = None
    <3> SUFFICES ASSUME NEW x \in DOMAIN query'
                 PROVE  /\ query'[x].timer = ~ query'[x].ended
                        /\ query'[x].ended => query'[x].port = None
      OBVIOUS
    <3>1. CASE x = q
      BY <1>1, <3>1
    <3>2. CASE x # q
      BY <1>1, <3>2 DEF IInv, PendingIsGuarded
    <3> QED
      BY <3>1, <3>2
  <2>2. \A x, y \in DOMAIN query' :
           query'[x].port = query'[y].port /\ x # y => query'[x].port = None
    BY <1>1, <1>3 DEF IInv, PendingIsGuarded
  <2> QED
    BY <2>1, <2>2 DEF PendingIsGuarded
<1>5. HistoryIsSound'
  BY <1>1, <1>3 DEF IInv, HistoryIsSound
<1> QED
  BY <1>1, <1>2, <1>4, <1>5

(* Launching a query keeps the invariant, whoever counts the ticks. *)
LEMMA LaunchKeeps ==
    ASSUME IInv,
           NEW r \in Resolver, NEW queries \in Seq(Query), NEW q \in Query,
           NEW name \in Name, NEW port \in Port \cup {None}, NEW sent \in BOOLEAN,
           port # None => port \notin Bound,
           Before(r, queries),
           Launch(r, queries, q, name, port, sent),
           mBootstrapTicks' \in [DOMAIN history' -> 1 .. BootstrapTicks + 1]
    PROVE  IInv'
<1>0. PICK state \in {NewQuery(r, name, port, sent)} : Launched(r, queries, q, state)
  <2>1. TypeOK /\ HistoryIsSound
    BY DEF IInv
  <2> QED
    BY <2>1, LaunchFacts
<1>1.
    /\ q \notin DOMAIN query /\ q \in DOMAIN query' /\ query'[q] = state
    /\ DOMAIN query' \subseteq DOMAIN query \cup {q}
    /\ query' \in [DOMAIN query' -> QueryState]
    /\ \A x \in DOMAIN query' \ {q} : query'[x] = query[x]
    /\ \A x \in DOMAIN query \ DOMAIN query' :
          /\ x \in {queries[i] : i \in DOMAIN queries}
          /\ x \notin {history'[r][i] : i \in DOMAIN history'[r]}
    /\ DOMAIN history' = DOMAIN history \cup {r}
    /\ \A x \in DOMAIN history \ {r} : history'[x] = history[x]
    /\ history' \in [DOMAIN history' -> Seq(Query)]
    /\ Len(history'[r]) \in 1 .. MaxQueryDepth
    /\ history'[r][1] = q
    /\ \A i \in 2 .. Len(history'[r]) : /\ i - 1 \in DOMAIN queries
                                        /\ history'[r][i] = queries[i - 1]
                                        /\ history'[r][i] \in DOMAIN query'
  BY <1>0 DEF Launched
<1>2. /\ state \in QueryState
      /\ state.resolver = r
      /\ state.timer = ~ state.ended
      /\ state.port \in {port, None}
      /\ state.ended => state.port = None
  <2>1. /\ state \in QueryState /\ state.resolver = r /\ state.timer = ~ state.ended
        /\ \/ state = Pending(r, name, port)
           \/ state.ended /\ state.port = None
    <3>1. Made(state, r, name, port)
      BY NewQueryFacts
    <3> QED
      BY <3>1 DEF Made
  <2>2. CASE state = Pending(r, name, port)
    BY <2>1, <2>2 DEF Pending
  <2>3. CASE state.ended /\ state.port = None
    BY <2>1, <2>3
  <2> QED
    BY <2>1, <2>2, <2>3
<1>3. TypeOK'
  <2>1. DOMAIN query' \subseteq Query /\ DOMAIN history' \subseteq Resolver
    BY <1>1 DEF IInv, TypeOK
  <2>2. net' \subseteq Reply
    BY <1>1 DEF IInv, TypeOK, Launch, Reply
  <2> QED
    BY <1>1, <2>1, <2>2 DEF TypeOK
<1>4. PendingIsGuarded'
  <2>1. \A x \in DOMAIN query' : /\ query'[x].timer = ~ query'[x].ended
                                 /\ query'[x].ended => query'[x].port = None
    <3> SUFFICES ASSUME NEW x \in DOMAIN query'
                 PROVE  /\ query'[x].timer = ~ query'[x].ended
                        /\ query'[x].ended => query'[x].port = None
      OBVIOUS
    <3>1. CASE x = q
      BY <1>1, <1>2, <3>1
    <3>2. CASE x # q
      BY <1>1, <3>2 DEF IInv, PendingIsGuarded
    <3> QED
      BY <3>1, <3>2
  <2>2. \A x \in DOMAIN query' \ {q} : query'[x].port # None => query'[x].port # query'[q].port
    BY <1>1, <1>2 DEF Bound
  <2>3. \A x, y \in DOMAIN query' \ {q} :
           query'[x].port = query'[y].port /\ x # y => query'[x].port = None
    BY <1>1 DEF IInv, PendingIsGuarded
  <2> QED
    BY <2>1, <2>2, <2>3 DEF PendingIsGuarded
<1>5. HistoryIsSound'
  <2>1. \A x \in DOMAIN history : DOMAIN history[x] = 1 .. Len(history[x])
    BY DEF IInv, TypeOK
  <2>2. DOMAIN history'[r] = 1 .. Len(history'[r])
    BY <1>1
  <2>3. \A i \in DOMAIN queries :
           queries[i] \in DOMAIN query /\ query[queries[i]].resolver = r
    BY DEF IInv, HistoryIsSound, Before
  <2>4. \A i, j \in DOMAIN queries : i # j => queries[i] # queries[j]
    BY DEF IInv, HistoryIsSound, Before
  <2>5. ASSUME NEW x \in DOMAIN history'
        PROVE  /\ Len(history'[x]) \in 1 .. MaxQueryDepth
               /\ \A i \in DOMAIN history'[x] : /\ history'[x][i] \in DOMAIN query'
                                                /\ query'[history'[x][i]].resolver = x
               /\ \A i, j \in DOMAIN history'[x] : i # j => history'[x][i] # history'[x][j]
    <3>1. CASE x = r
      <4>1. \A i \in DOMAIN history'[r] : i = 1 \/ i \in 2 .. Len(history'[r])
        BY <1>1, <2>2
      <4>2. \A i \in DOMAIN history'[r] : /\ history'[r][i] \in DOMAIN query'
                                         /\ query'[history'[r][i]].resolver = r
        <5>1. /\ history'[r][1] \in DOMAIN query'
              /\ query'[history'[r][1]].resolver = r
          BY <1>1, <1>2
        <5>2. \A i \in 2 .. Len(history'[r]) : /\ history'[r][i] \in DOMAIN query'
                                              /\ query'[history'[r][i]].resolver = r
          <6> SUFFICES ASSUME NEW i \in 2 .. Len(history'[r])
                       PROVE  /\ history'[r][i] \in DOMAIN query'
                              /\ query'[history'[r][i]].resolver = r
            OBVIOUS
          <6>1. /\ i - 1 \in DOMAIN queries /\ history'[r][i] = queries[i - 1]
                /\ history'[r][i] \in DOMAIN query'
            BY <1>1
          <6>2. history'[r][i] \in DOMAIN query' \ {q}
            BY <1>1, <2>3, <6>1
          <6>3. query'[history'[r][i]] = query[queries[i - 1]]
            BY <1>1, <6>1, <6>2
          <6> QED
            BY <2>3, <6>1, <6>3
        <5> QED
          BY <4>1, <5>1, <5>2
      <4>3. \A i \in 2 .. Len(history'[r]) : history'[r][i] # q
        BY <1>1, <2>3
      <4>4. \A i, j \in 2 .. Len(history'[r]) : i # j => history'[r][i] # history'[r][j]
        <5> SUFFICES ASSUME NEW i \in 2 .. Len(history'[r]), NEW j \in 2 .. Len(history'[r]), i # j
                     PROVE  history'[r][i] # history'[r][j]
          OBVIOUS
        <5>1. /\ i - 1 \in DOMAIN queries /\ history'[r][i] = queries[i - 1]
              /\ j - 1 \in DOMAIN queries /\ history'[r][j] = queries[j - 1]
          BY <1>1
        <5>2. i - 1 # j - 1
          BY <1>1
        <5> QED
          BY <2>4, <5>1, <5>2
      <4>5. \A i, j \in DOMAIN history'[r] : i # j => history'[r][i] # history'[r][j]
        BY <1>1, <4>1, <4>3, <4>4
      <4> QED
        BY <1>1, <3>1, <4>2, <4>5
    <3>2. CASE x # r
      <4>1. x \in DOMAIN history /\ history'[x] = history[x]
        BY <1>1, <3>2
      <4>2. \A i \in DOMAIN history[x] : /\ history[x][i] \in DOMAIN query
                                        /\ query[history[x][i]].resolver = x
        BY <4>1 DEF IInv, HistoryIsSound
      <4>3. \A i \in DOMAIN history[x] : history[x][i] \in DOMAIN query' /\ history[x][i] # q
        <5> SUFFICES ASSUME NEW i \in DOMAIN history[x]
                     PROVE  history[x][i] \in DOMAIN query' /\ history[x][i] # q
          OBVIOUS
        <5>1. history[x][i] \notin {queries[j] : j \in DOMAIN queries}
          BY <2>3, <3>2, <4>2
        <5> QED
          BY <1>1, <4>2, <5>1
      <4>4. \A i \in DOMAIN history'[x] : /\ history'[x][i] \in DOMAIN query'
                                         /\ query'[history'[x][i]].resolver = x
        BY <1>1, <4>1, <4>2, <4>3
      <4> QED
        BY <4>1, <4>4 DEF IInv, HistoryIsSound
    <3> QED
      BY <3>1, <3>2
  <2> QED
    BY <2>5 DEF HistoryIsSound
<1> QED
  BY <1>3, <1>4, <1>5 DEF IInv

LEMMA InitInv == Init => IInv
<1> SUFFICES ASSUME Init PROVE IInv
  OBVIOUS
<1>1. DOMAIN query = {} /\ DOMAIN history = {} /\ DOMAIN mBootstrapTicks = {} /\ net = {}
  BY DEF Init
<1>2. TypeOK
  BY <1>1 DEF Init, TypeOK
<1> QED
  BY <1>1, <1>2 DEF IInv, PendingIsGuarded, HistoryIsSound

LEMMA TestInv ==
    ASSUME IInv, NEW r \in Resolver, Test(r)
    PROVE  IInv'
<1>1. PICK q \in Query, name \in Name, port \in FreePorts \cup {None}, sent \in BOOLEAN :
         test(r, q, name, port, sent)
  BY DEF Test
<1>2. port \in Port \cup {None} /\ (port # None => port \notin Bound)
  BY DEF FreePorts
<1>3. r \in DOMAIN history /\ Launch(r, history[r], q, name, port, sent)
  BY <1>1 DEF test
<1>4. history[r] \in Seq(Query) /\ Before(r, history[r])
  BY <1>3 DEF IInv, TypeOK, Before
<1>5. mBootstrapTicks' \in [DOMAIN history' -> 1 .. BootstrapTicks + 1]
  <2>1. DOMAIN history' = DOMAIN history
    BY <1>3 DEF Launch
  <2>2. mBootstrapTicks' = [mBootstrapTicks EXCEPT ![r] = Minimum(@ + 1, BootstrapTicks + 1)]
    BY <1>1 DEF test
  <2>3. Minimum(mBootstrapTicks[r] + 1, BootstrapTicks + 1) \in 1 .. BootstrapTicks + 1
    BY <1>3, QueryAssumption DEF IInv, TypeOK, Minimum
  <2> QED
    BY <1>3, <2>1, <2>2, <2>3 DEF IInv, TypeOK
<1> QED
  BY <1>2, <1>3, <1>4, <1>5, LaunchKeeps

LEMMA NewInv ==
    ASSUME IInv, NEW r \in Resolver, New(r)
    PROVE  IInv'
<1>1. PICK q \in Query, name \in Name, port \in FreePorts \cup {None}, sent \in BOOLEAN :
         NewResolver(r, q, name, port, sent)
  BY DEF New
<1>2. port \in Port \cup {None} /\ (port # None => port \notin Bound)
  BY DEF FreePorts
<1> DEFINE queries == <<>>
<1>3. r \notin DOMAIN history /\ Launch(r, queries, q, name, port, sent)
  BY <1>1 DEF NewResolver
<1>4. queries \in Seq(Query) /\ Before(r, queries)
  BY <1>3 DEF Before
<1> HIDE DEF queries
<1>5. mBootstrapTicks' \in [DOMAIN history' -> 1 .. BootstrapTicks + 1]
  <2>1. DOMAIN history' = DOMAIN history \cup {r}
    BY <1>3 DEF Launch
  <2>2. mBootstrapTicks' = [x \in DOMAIN history \cup {r} |->
                               IF x = r THEN 1 ELSE mBootstrapTicks[x]]
    BY <1>1 DEF NewResolver
  <2>3. 1 \in 1 .. BootstrapTicks + 1
    BY QueryAssumption
  <2> QED
    BY <2>1, <2>2, <2>3 DEF IInv, TypeOK
<1> QED
  BY <1>2, <1>3, <1>4, <1>5, LaunchKeeps

LEMMA DeleteInv ==
    ASSUME IInv, NEW r \in Resolver, DeleteResolver(r)
    PROVE  IInv'
<1>1. /\ history' = [x \in DOMAIN history \ {r} |-> history[x]]
      /\ mBootstrapTicks' = [x \in DOMAIN history \ {r} |-> mBootstrapTicks[x]]
      /\ query' = query /\ net' = net
  BY DEF DeleteResolver
<1>2. TypeOK'
  BY <1>1 DEF IInv, TypeOK
<1>3. PendingIsGuarded'
  BY <1>1 DEF IInv, PendingIsGuarded
<1>4. HistoryIsSound'
  BY <1>1 DEF IInv, HistoryIsSound
<1> QED
  BY <1>2, <1>3, <1>4 DEF IInv

(* A query that is terminated is still a query of its resolver. *)
LEMMA Terminated ==
    ASSUME NEW state \in QueryState, NEW error \in DNSError
    PROVE  LET end == terminate(state, error)
           IN  /\ end \in QueryState
               /\ end.resolver = state.resolver /\ end.name = state.name
               /\ end.addr = state.addr
               /\ end.error = error
               /\ end.timer = FALSE /\ end.ended = TRUE /\ end.port = None
  BY DEF terminate, QueryState

(* What a datagram makes of the query it reaches. *)
LEMMA Processed ==
    ASSUME NEW state \in QueryState, NEW m \in Reply,
           NEW kind \in {"answer", "no answer", "malformed"}
    PROVE  LET next == processDatagram(state, m, kind)
           IN  \/ next = state
               \/ /\ next \in QueryState
                  /\ next.resolver = state.resolver /\ next.name = state.name
                  /\ next.addr \in {None, <<m.resolver, m.name>>}
                  /\ next.timer = FALSE /\ next.ended = TRUE /\ next.port = None
<1> DEFINE answered == [state EXCEPT !.addr = <<m.resolver, m.name>>]
           denied == [state EXCEPT !.addr = None]
<1>1. /\ answered \in QueryState /\ denied \in QueryState
      /\ answered.resolver = state.resolver /\ denied.resolver = state.resolver
      /\ answered.name = state.name /\ denied.name = state.name
      /\ answered.addr = <<m.resolver, m.name>> /\ denied.addr = None
  BY DEF QueryState, Reply
<1>2. CASE kind = "answer"
  <2>1. processDatagram(state, m, kind) = terminate(answered, "DNS_OK")
    BY <1>2 DEF processDatagram
  <2>2. "DNS_OK" \in DNSError
    BY DEF DNSError
  <2> DEFINE next == processDatagram(state, m, kind)
  <2> HIDE DEF answered
  <2>3. next = [answered EXCEPT !.error = "DNS_OK", !.ended = TRUE, !.port = None, !.timer = FALSE]
    BY <2>1 DEF terminate
  <2> HIDE DEF next
  <2>4. next \in QueryState
    BY <1>1, <2>2, <2>3 DEF QueryState
  <2>5. /\ next.resolver = answered.resolver /\ next.name = answered.name
        /\ next.addr = answered.addr
        /\ next.timer = FALSE /\ next.ended = TRUE /\ next.port = None
    BY <1>1, <2>3 DEF QueryState
  <2>6. /\ next.resolver = state.resolver /\ next.name = state.name
        /\ next.addr = <<m.resolver, m.name>>
    BY <1>1, <2>5
  <2> QED
    BY <2>4, <2>5, <2>6 DEF next
<1>3. CASE kind = "no answer"
  <2>1. processDatagram(state, m, kind) = terminate(denied, "DNS_DOES_NOT_EXIST")
    BY <1>3 DEF processDatagram
  <2>2. "DNS_DOES_NOT_EXIST" \in DNSError
    BY DEF DNSError
  <2> HIDE DEF denied
  <2>3. /\ terminate(denied, "DNS_DOES_NOT_EXIST") \in QueryState
        /\ terminate(denied, "DNS_DOES_NOT_EXIST").resolver = denied.resolver
        /\ terminate(denied, "DNS_DOES_NOT_EXIST").name = denied.name
        /\ terminate(denied, "DNS_DOES_NOT_EXIST").addr = denied.addr
        /\ terminate(denied, "DNS_DOES_NOT_EXIST").timer = FALSE
        /\ terminate(denied, "DNS_DOES_NOT_EXIST").ended = TRUE
        /\ terminate(denied, "DNS_DOES_NOT_EXIST").port = None
    BY <1>1, <2>2, Terminated
  <2> QED
    BY <1>1, <2>1, <2>3
<1>4. CASE kind = "malformed"
  BY <1>4 DEF processDatagram
<1> QED
  BY <1>2, <1>3, <1>4

LEMMA ReceiveInv ==
    ASSUME IInv, Receive
    PROVE  IInv'
<1>1. PICK q \in DOMAIN query, m \in net, kind \in {"answer", "no answer", "malformed"},
           again \in BOOLEAN : readPendingDatagrams(q, m, kind, again)
  BY DEF Receive
<1> DEFINE next == processDatagram(query[q], m, kind)
<1>2. query[q] \in QueryState /\ m \in Reply
  BY DEF IInv, TypeOK
<1>3. /\ query' = [query EXCEPT ![q] = next]
      /\ net' \subseteq net /\ UNCHANGED <<history, mBootstrapTicks>>
  BY <1>1 DEF readPendingDatagrams
<1>4. \/ next = query[q]
      \/ /\ next \in QueryState
         /\ next.resolver = query[q].resolver
         /\ next.timer = FALSE /\ next.ended = TRUE /\ next.port = None
  BY <1>2, Processed
<1> HIDE DEF next
<1>5. /\ next \in QueryState /\ next.resolver = query[q].resolver
      /\ next.timer = ~ next.ended
      /\ next.ended => next.port = None
      /\ next.port \in {query[q].port, None}
  BY <1>2, <1>4 DEF IInv, PendingIsGuarded
<1>6. /\ DOMAIN query' = DOMAIN query
      /\ query' \in [DOMAIN query' -> QueryState]
      /\ PendingIsGuarded' /\ HistoryIsSound'
  BY <1>3, <1>5, OneQueryChanges
<1>7. TypeOK'
  BY <1>3, <1>6 DEF IInv, TypeOK
<1> QED
  BY <1>6, <1>7 DEF IInv

LEMMA ExpireInv ==
    ASSUME IInv, NEW q \in DOMAIN query, expire(q)
    PROVE  IInv'
<1> DEFINE error == IF q \in Listed THEN "DNS_TIMEOUT" ELSE query[q].error
           next == terminate(query[q], error)
<1>1. query[q] \in QueryState
  BY DEF IInv, TypeOK
<1>2. error \in DNSError
  BY <1>1 DEF QueryState, DNSError
<1>3. query' = [query EXCEPT ![q] = next] /\ UNCHANGED <<history, mBootstrapTicks, net>>
  BY DEF expire
<1> HIDE DEF error
<1>4. /\ next \in QueryState /\ next.resolver = query[q].resolver
      /\ next.timer = FALSE /\ next.ended = TRUE /\ next.port = None
  BY <1>1, <1>2, Terminated
<1> HIDE DEF next
<1>5. /\ next.timer = ~ next.ended
      /\ next.ended => next.port = None
      /\ next.port \in {query[q].port, None}
  BY <1>4
<1>6. /\ DOMAIN query' = DOMAIN query
      /\ query' \in [DOMAIN query' -> QueryState]
      /\ PendingIsGuarded' /\ HistoryIsSound'
  BY <1>3, <1>4, <1>5, OneQueryChanges
<1>7. TypeOK'
  BY <1>3, <1>6 DEF IInv, TypeOK
<1> QED
  BY <1>6, <1>7 DEF IInv

LEMMA UnchangedInv ==
    ASSUME IInv, UNCHANGED <<query, history, mBootstrapTicks>>, net' \subseteq net
    PROVE  IInv'
  BY DEF IInv, TypeOK, PendingIsGuarded, HistoryIsSound

LEMMA NextInv ==
    ASSUME IInv, [Next]_vars
    PROVE  IInv'
<1>1. CASE \E r \in Resolver : Test(r) \/ New(r) \/ DeleteResolver(r)
  BY <1>1, TestInv, NewInv, DeleteInv
<1>2. CASE Receive
  BY <1>2, ReceiveInv
<1>3. CASE \E q \in DOMAIN query : expire(q)
  BY <1>3, ExpireInv
<1>4. CASE \E m \in net : Lose(m)
  BY <1>4, UnchangedInv DEF Lose
<1>5. CASE UNCHANGED vars
  BY <1>5, UnchangedInv DEF vars
<1> QED
  BY <1>1, <1>2, <1>3, <1>4, <1>5 DEF Next

THEOREM Inductive == Spec => []IInv
<1>1. Init => IInv
  BY InitInv
<1>2. IInv /\ [Next]_vars => IInv'
  BY NextInv
<1> QED
  BY <1>1, <1>2, PTL DEF Spec

(* Queries, histories and ticks keep their types. *)
THEOREM TypeCorrectness == Spec => []TypeOK
<1>1. IInv => TypeOK
  BY DEF IInv
<1> QED
  BY <1>1, Inductive, PTL

(* A pending query always has its timer, an ended one holds nothing, and   *)
(* ports are not shared, for any number of resolvers, queries and ports.   *)
THEOREM PendingGuarded == Spec => []PendingIsGuarded
<1>1. IInv => PendingIsGuarded
  BY DEF IInv
<1> QED
  BY <1>1, Inductive, PTL

(* A history lists existing queries of its own resolver, each once, and    *)
(* never more than its depth, although pruning and the destructor of a     *)
(* resolver delete and forget queries in any state.                        *)
THEOREM HistorySound == Spec => []HistoryIsSound
<1>1. IInv => HistoryIsSound
  BY DEF IInv
<1> QED
  BY <1>1, Inductive, PTL

-----------------------------------------------------------------------------
Final == \A q \in DOMAIN query \cap DOMAIN query' : query[q].ended => query'[q] = query[q]

(* What a launch does to the queries, and to the replies that are due. *)
LEMMA LaunchChanges ==
    ASSUME NEW r, NEW queries, NEW q, NEW name, NEW port, NEW sent,
           Launch(r, queries, q, name, port, sent)
    PROVE  /\ \A x \in DOMAIN query \cap DOMAIN query' : query'[x] = query[x]
           /\ DOMAIN query' \subseteq DOMAIN query \cup {q}
           /\ q \notin DOMAIN query
           /\ q \in DOMAIN query' => query'[q] = NewQuery(r, name, port, sent)
           /\ net' \subseteq net \cup {[port |-> port, resolver |-> r, name |-> name]}
  BY DEF Launch

LEMMA NextFinal ==
    ASSUME IInv, Next
    PROVE  Final
<1>1. ASSUME NEW r \in Resolver, Test(r) \/ New(r)
      PROVE  Final
  <2>1. PICK queries, q, name, port, sent : Launch(r, queries, q, name, port, sent)
    BY <1>1 DEF Test, test, New, NewResolver
  <2> QED
    BY <2>1, LaunchChanges DEF Final
<1>2. ASSUME NEW r \in Resolver, DeleteResolver(r)
      PROVE  Final
  BY <1>2 DEF DeleteResolver, Final
<1>3. ASSUME Receive
      PROVE  Final
  <2>1. PICK q \in DOMAIN query, m \in net, kind \in {"answer", "no answer", "malformed"},
             again \in BOOLEAN : readPendingDatagrams(q, m, kind, again)
    BY <1>3 DEF Receive
  <2>2. query[q].port # None
    BY <2>1, QueryAssumption DEF readPendingDatagrams, IInv, TypeOK, Reply
  <2>3. ~ query[q].ended
    BY <2>2 DEF IInv, PendingIsGuarded
  <2>4. \A x \in DOMAIN query \ {q} : query'[x] = query[x]
    BY <2>1 DEF readPendingDatagrams
  <2> QED
    BY <2>3, <2>4 DEF Final
<1>4. ASSUME NEW q \in DOMAIN query, expire(q)
      PROVE  Final
  <2>1. ~ query[q].ended
    BY <1>4 DEF expire, IInv, PendingIsGuarded
  <2>2. \A x \in DOMAIN query \ {q} : query'[x] = query[x]
    BY <1>4 DEF expire
  <2> QED
    BY <2>1, <2>2 DEF Final
<1>5. ASSUME NEW m \in net, Lose(m)
      PROVE  Final
  BY <1>5 DEF Lose, Final
<1> QED
  BY <1>1, <1>2, <1>3, <1>4, <1>5 DEF Next

(* No duplicate, late reply or timer changes a query that has ended.       *)
THEOREM OutcomesFinal == Spec => OutcomeIsFinal
<1>1. IInv /\ [Next]_vars => [Final]_vars
  BY NextFinal
<1> QED
  BY <1>1, Inductive, PTL DEF Spec, OutcomeIsFinal, Final
=============================================================================
