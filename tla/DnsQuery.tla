------------------------------ MODULE DnsQuery ------------------------------
(***************************************************************************)
(* The test queries of the resolvers: opennicdnsquery.cpp, the history of  *)
(* opennicdnsquerylistener.cpp and the timer of opennicresolver.cpp.       *)
(*                                                                         *)
(* A query is an object with a socket (the local port it is bound to) and  *)
(* a timer; it ends by its reply, by the timer or by a failed write.  Each *)
(* resolver sends one now and then and keeps the last of them, the newest  *)
(* first.  The network loses, delays and duplicates replies, and the       *)
(* system may give a port that was closed to another query.                *)
(*                                                                         *)
(* A resolver is its address.  Of time only this is kept: a query expires  *)
(* after MAX_TIMEOUT, and after the first intervals, which are short, the  *)
(* next test comes when MAX_TIMEOUT has passed (RANDOM_INTERVAL_MIN is not *)
(* less), hence after the end of the query before it.                      *)
(***************************************************************************)
EXTENDS Integers, Sequences, FiniteSets

CONSTANTS Query,            \* the memory for query objects
          Resolver, Port,
          Name,             \* the test domains
          MaxQueryDepth,    \* MAX_QUERY_DEPTH
          BootstrapTicks,   \* BOOTSTRAP_TIMER_TICKS
          Doomed,           \* resolvers that can be deleted
          None              \* no port, no address

ASSUME QueryAssumption == /\ MaxQueryDepth \in Nat \ {0}
                          /\ BootstrapTicks \in Nat
                          /\ None \notin Port \cup (Resolver \X Name)

VARIABLES query,            \* the query objects that exist
          history,          \* mQueries of each resolver that exists
          mBootstrapTicks,  \* of each resolver that exists (counted to the bound)
          net               \* replies that may still arrive

vars == <<query, history, mBootstrapTicks, net>>

DNSError == {"DNS_OK", "DNS_DOES_NOT_EXIST", "DNS_TIMEOUT", "DNS_ERROR"}
Failures == {"DNS_TIMEOUT", "DNS_ERROR"}
QueryState == [resolver : Resolver, name : Name, error : DNSError, ended : BOOLEAN,
               addr : (Resolver \X Name) \cup {None},
               port : Port \cup {None}, timer : BOOLEAN]
Reply == [port : Port, resolver : Resolver, name : Name]

Listed == UNION {{history[r][i] : i \in DOMAIN history[r]} : r \in DOMAIN history}
Bound == {query[q].port : q \in DOMAIN query} \ {None}
Minimum(m, n) == IF m <= n THEN m ELSE n

TypeOK == /\ DOMAIN query \subseteq Query
          /\ query \in [DOMAIN query -> QueryState]
          /\ DOMAIN history \subseteq Resolver
          /\ history \in [DOMAIN history -> Seq(Query)]
          /\ mBootstrapTicks \in [DOMAIN history -> 1 .. BootstrapTicks + 1]
          /\ net \subseteq Reply

Init == /\ query = <<>> /\ history = <<>>
        /\ mBootstrapTicks = <<>> /\ net = {}

-----------------------------------------------------------------------------
(* The life of a query. *)

(* Mutant: the socket stays open. *)
terminate_openSocket(state, error) ==
    [state EXCEPT !.error = error, !.ended = TRUE, !.timer = FALSE]

(* Mutant: the timer is not killed. *)
terminate_timerRuns(state, error) ==
    [state EXCEPT !.error = error, !.ended = TRUE, !.port = None]

terminate(state, error) ==
    [state EXCEPT !.error = error, !.ended = TRUE, !.port = None, !.timer = FALSE]

(* The ports bind() can choose, among them one that a reply is still due   *)
(* to.                                                                     *)
FreePorts == Port \ Bound

Pending(r, name, port) ==
    [resolver |-> r, name |-> name, error |-> "DNS_OK", ended |-> FALSE,
     addr |-> None, port |-> port, timer |-> TRUE]

(* The constructor binds a socket (which can fail), starts the timer and   *)
(* sends; the query ends at once if that fails.  The clock is taken not to *)
(* leap by MAX_TIMEOUT in between, which would find the query expired.     *)
NewQuery(r, name, port, sent) ==
    IF sent THEN Pending(r, name, port)
            ELSE terminate(Pending(r, name, port), "DNS_ERROR")

prune(queries) == SubSeq(queries, 1, Minimum(MaxQueryDepth, Len(queries)))

(* test(): a new query becomes the head of the history "queries"; those    *)
(* that are pruned are deleted, with their sockets and timers.             *)
Launch(r, queries, q, name, port, sent) ==
    LET kept == prune(<<q>> \o queries)
        deleted == {queries[i] : i \in DOMAIN queries} \ {kept[i] : i \in DOMAIN kept}
    IN  /\ q \notin DOMAIN query
        /\ query' = [x \in (DOMAIN query \cup {q}) \ deleted |->
                        IF x = q THEN NewQuery(r, name, port, sent) ELSE query[x]]
        /\ history' = [x \in DOMAIN history \cup {r} |-> IF x = r THEN kept ELSE history[x]]
        /\ net' = IF sent /\ port # None
                  THEN net \cup {[port |-> port, resolver |-> r, name |-> name]} ELSE net

(* The interval timer; after the first intervals not before MAX_TIMEOUT.   *)
test(r, q, name, port, sent) ==
    /\ r \in DOMAIN history
    /\ mBootstrapTicks[r] > BootstrapTicks => query[Head(history[r])].ended
    /\ Launch(r, history[r], q, name, port, sent)
    /\ mBootstrapTicks' =
          [mBootstrapTicks EXCEPT ![r] = Minimum(@ + 1, BootstrapTicks + 1)]

(* The constructor of a resolver tests it at once. *)
NewResolver(r, q, name, port, sent) ==
    /\ r \notin DOMAIN history
    /\ Launch(r, <<>>, q, name, port, sent)
    /\ mBootstrapTicks' = [x \in DOMAIN history \cup {r} |->
                              IF x = r THEN 1 ELSE mBootstrapTicks[x]]

(* The destructor of a resolver: clear() forgets its queries, which stay.  *)
DeleteResolver(r) ==
    /\ r \in DOMAIN history \cap Doomed
    /\ history' = [x \in DOMAIN history \ {r} |-> history[x]]
    /\ mBootstrapTicks' = [x \in DOMAIN history \ {r} |-> mBootstrapTicks[x]]
    /\ UNCHANGED <<query, net>>

(* processDatagram(): what a datagram is, not whom it is from, counts.     *)
processDatagram(state, m, kind) ==
    CASE kind = "answer"    -> terminate([state EXCEPT !.addr = <<m.resolver, m.name>>], "DNS_OK")
      [] kind = "no answer" -> terminate([state EXCEPT !.addr = None], "DNS_DOES_NOT_EXIST")
      [] OTHER              -> state

(* A reply arrives at the socket that is bound to its port, perhaps not    *)
(* for the last time.                                                      *)
readPendingDatagrams(q, m, kind, again) ==
    /\ query[q].port = m.port
    /\ query' = [query EXCEPT ![q] = processDatagram(@, m, kind)]
    /\ net' = IF again THEN net ELSE net \ {m}
    /\ UNCHANGED <<history, mBootstrapTicks>>

(* Mutant: the query is deleted when it has expired. *)
expire_deletes(q) ==
    /\ query[q].timer
    /\ query' = [x \in DOMAIN query \ {q} |-> query[x]]
    /\ UNCHANGED <<history, mBootstrapTicks, net>>

(* Mutant: an expired query is not terminated. *)
expire_continues(q) ==
    /\ query[q].timer
    /\ query' = [query EXCEPT ![q].error = IF q \in Listed THEN "DNS_TIMEOUT" ELSE @]
    /\ UNCHANGED <<history, mBootstrapTicks, net>>

(* Mutant: the resolver is not told. *)
expire_silently(q) ==
    /\ query[q].timer
    /\ query' = [query EXCEPT ![q] = terminate(@, @.error)]
    /\ UNCHANGED <<history, mBootstrapTicks, net>>

(* The timer of a query: the resolver, if it exists, sets the error.       *)
expire(q) ==
    /\ query[q].timer
    /\ query' = [query EXCEPT ![q] =
                    terminate(@, IF q \in Listed THEN "DNS_TIMEOUT" ELSE @.error)]
    /\ UNCHANGED <<history, mBootstrapTicks, net>>

(* A reply is lost, or nobody is bound to its port. *)
Lose(m) == /\ net' = net \ {m}
           /\ UNCHANGED <<query, history, mBootstrapTicks>>

-----------------------------------------------------------------------------
Test(r) == \E q \in Query, name \in Name, port \in FreePorts \cup {None}, sent \in BOOLEAN :
               test(r, q, name, port, sent)
New(r) == \E q \in Query, name \in Name, port \in FreePorts \cup {None}, sent \in BOOLEAN :
               NewResolver(r, q, name, port, sent)
Receive == \E q \in DOMAIN query, m \in net, kind \in {"answer", "no answer", "malformed"},
              again \in BOOLEAN : readPendingDatagrams(q, m, kind, again)

Next == \/ \E r \in Resolver : Test(r) \/ New(r) \/ DeleteResolver(r)
        \/ Receive
        \/ \E q \in DOMAIN query : expire(q)
        \/ \E m \in net : Lose(m)

Spec == Init /\ [][Next]_vars

(* Fairness: a timer that is due is delivered, those of queries and those  *)
(* of resolvers.  Nothing is assumed of the network.                       *)
FairSpec == /\ Spec
            /\ \A q \in Query : WF_vars(q \in DOMAIN query /\ expire(q))
            /\ \A r \in Resolver : WF_vars(Test(r))

-----------------------------------------------------------------------------
(* What is read from a history. *)

FailedAt(r, i) == query[history[r][i]].error \in Failures

(* Two failures at the head. *)
alive(r) == ~ (Len(history[r]) >= 2 /\ FailedAt(r, 1) /\ FailedAt(r, 2))

-----------------------------------------------------------------------------
(* A query has one outcome: once it has ended, neither a late reply, nor a *)
(* duplicate, nor the timer changes it while it exists.                    *)
OutcomeIsFinal ==
    [][\A q \in DOMAIN query \cap DOMAIN query' :
          query[q].ended => query'[q] = query[q]]_vars

(* A query that has not ended will: its timer runs; and one that has ended *)
(* holds neither a timer nor a socket.  No two queries share a port.       *)
PendingIsGuarded ==
    /\ \A q \in DOMAIN query : /\ query[q].timer = ~ query[q].ended
                               /\ query[q].ended => query[q].port = None
    /\ \A p, q \in DOMAIN query : query[p].port = query[q].port /\ p # q => query[p].port = None

(* alive(), status() and the scores walk through histories: whatever is    *)
(* listed exists, is a query of that resolver, and is listed once.         *)
HistoryIsSound ==
    /\ \A r \in DOMAIN history :
          /\ Len(history[r]) \in 1 .. MaxQueryDepth
          /\ \A i \in DOMAIN history[r] : /\ history[r][i] \in DOMAIN query
                                          /\ query[history[r][i]].resolver = r
          /\ \A i, j \in DOMAIN history[r] : i # j => history[r][i] # history[r][j]

(* Each query ends or is deleted, whatever the network does. *)
QueryEnds ==
    \A q \in Query :
        (q \in DOMAIN query /\ ~ query[q].ended)
            ~> (q \notin DOMAIN query \/ query[q].ended)

(* testResolverCache() has its chance: a resolver that goes on existing    *)
(* gets answers again and again, or is found dead again and again.         *)
Answered(r) ==
    \E q \in DOMAIN query \cap DOMAIN query' :
        /\ ~ query[q].ended /\ query'[q].ended
        /\ query[q].resolver = r
        /\ query'[q].error = "DNS_DOES_NOT_EXIST" \/ query'[q].addr # None
DeadIsNoticed ==
    \A r \in Resolver :
        <>[](r \in DOMAIN history) =>
            \/ []<><<Answered(r)>>_vars
            \/ []<>(r \in DOMAIN history /\ ~ alive(r))
=============================================================================
