# OpenNIC Wizard: specification, model checking and proofs

OpenNIC Wizard keeps the DNS resolvers of a computer pointed at good resolvers
of the OpenNIC network. A service fetches lists of resolvers, sends them test
queries all the time, scores them, and writes the best few (the *cache* of
active resolvers) to the operating system. A task bar applet talks to the
service over a local TCP connection.

This directory holds TLA+ modules translated from the C++ sources in `src/`,
TLC configurations that check small instances, and TLAPS proofs for all
instances. Paths below are relative to `src/`.

## 1. Inventory of the system

| Part | Sources | State | Operations | Interacts with |
| --- | --- | --- | --- | --- |
| Resolver objects and pools | `server/opennicresolverpool.*`, `server/opennicresolver.*` | lists of pointers to heap objects, a reference count in each object | `fromIPList`, `append`, `insort`, `clear`, destructor, `sort`, `randomize`, `contains` | the server owns three pools: `mResolverPool`, `mResolverCache`, and the local `proposed` |
| Server | `server/opennicserver.*`, `server/main.cpp` | pool, cache, cache size, `mResolversInitialized`, `mInColdBoot`, timers, sessions | `timerEvent`, `runOnce`, `refreshResolvers`, `coldBoot`, `bootstrapResolvers`, `updateDNS`, `replaceActiveResolvers`, `dataReady`, settings | everything |
| Operating system | `server/opennicsystem.*`, `_linux.*`, `_win.*` | enabled flag, `/etc/resolv.conf` and its copy (Linux), interface names (Windows) | `setEnabled`, `startup`, `shutdown`, `begin/update/endUpdateResolvers`, T1 file, `dig` for T2 | called by the server; on both systems `getBootstrapT2List()` and on Windows `updateResolver()` enter nested event loops |
| DNS queries | `server/opennicdnsquery.*` | socket, timer, start and end time, error | constructor (binds, looks up), reply, expiry, `terminate` | reports to its listener |
| Query history | `server/opennicdnsquerylistener.*`, `server/opennicresolver.*` | the last ten queries | `addToQueries`, `pruneQueries`, `status`, `alive`, `resolvesNIC`, `averageLatency` | read by scores and by the server |
| Scores and order | `server/opennicresolverpool.cpp` | score of each resolver | `score`, internal and script rules, `sort`, `randomize` | decides what `updateDNS` proposes |
| Packets | `common/opennicpacket.*`, `common/opennicnet.*` | key/value map, receive state | `send`, `recv` over a byte stream | service and client |
| Sessions | `server/opennicserver.cpp` | list of connections | `newConnection`, `purgeDeadSesssions` | packets |
| Client | `client/` | connection, polled values, settings dialog | timers, `dataReady`, `update`, `updateDNS` | packets |
| Service control | `server/qtservice*`, `server/qtunix*` (third-party) | control socket and its file; on Windows threads, mutex, condition, status | `start`, `exec`, `terminate`, `pause`, `resume`; on Windows `handler`, `serviceMain` | `main.cpp` |
| Test domains | `server/opennicdomainname*` | list of names | read, pick one | queries |

`server/opennicsession.cpp`, `opennicresolvertest.*` and `opennicdnsclient.h`
are compiled by no project file. The repository has no tests.

### What is hard

The service has one thread, and nearly all its concurrency is *nesting*: while the
cold boot waits (for `dig`, or for its next attempt) it enters an event loop,
in which timers and client messages run complete handlers: refresh, resize,
update, enable, disable. Such a handler finds a pool and a cache that the
interrupted boot is half-way through filling. On Windows every `netsh` is such
an event loop, so that any list of resolvers may be interrupted between two of
them, and the glue to the service manager has three threads that wait for one
another. Applet and service are two processes that overwrite each other's idea
of the settings, over a stream whose packets are cut up and run together; the
commands that control the service are processes too. Other difficulties are crashes
(which leave the service's own lines in `resolv.conf`), files that cannot be
written, resolvers that die and recover, a `dig` that reports nothing, and
reference counts shared by three pools. `PROJECT.json` lists each hazard at its
line with the properties that would catch it.

### What would make each part correct

* Pools: no pointer to a deleted resolver; counts never below the references; no
  address twice.
* Server: the cache is a full selection of distinct members of the current
  pool whenever the program waits; one cold boot at a time; a boot ends; a dead
  resolver is replaced.
* Operating system: `resolv.conf` lists the cache; what the administrator had is
  never lost; shutting down restores it.
* Queries and history: one outcome for each query; an answer belongs to its
  question (where ports are not used again); a bounded history; status that tells pending from answered.
* Order: `sort()` sorts, `randomize()` permutes, both sets of rules agree.
* Packets: what is lost when packets are cut or run together is made up for.
* Client and settings: a setting made on one side is not overwritten by an older
  one of the other; the exchange of settings settles.
* Service control: each command ends; one service remains; what has said it stops
  does stop; on Windows no thread waits for ever and the status is true.

## 2. Modules

| Module | Models | Correspondence |
| --- | --- | --- |
| `ResolverOwnership` | abstract: what shared ownership promises | `allocated` is the heap, `members` what each pool points to |
| `ActiveResolvers` | abstract: what the service promises about the resolvers in use, on either system | `complete` is `mResolversInitialized`, `pool` what `mResolverPool` lists, `active` the addresses in `mResolverCache` |
| `ResolverPool` | `opennicresolverpool.cpp`, reference count of `opennicresolver.cpp` | a resolver is the heap cell it occupies; `life` tells free, live and doomed (by `deleteLater()`) cells; one action for each pool operation, `DeferredDelete` for the event loop |
| `PoolRank` | scores, `sort()`, `randomize()`, `averageLatency()`, `resolvesNIC()` | a query is its error, latency and whether its name is OpenNIC's; scores are integers in a common unit |
| `OpenNICSystem` | `opennicsystem.cpp`, `opennicsystem_linux.cpp` | `resolvConf` and `backup` are sequences of lines, `mEnabled` the flag |
| `OpenNICServer` | `opennicserver.cpp`, `main.cpp`, over `OpenNICSystem` | see below |
| `OpenNICServerWin` | `opennicserver.cpp` over `opennicsystem_win.cpp` | as `OpenNICServer`, with a frame on the stack for a list that `netsh` is applying |
| `DnsQuery` | `opennicdnsquery.cpp`, `opennicdnsquerylistener.cpp`, timer and `alive()` of `opennicresolver.cpp` | `query` holds the query objects with their sockets (local ports) and timers, `history` the list of each resolver, `net` the replies that may still come |
| `Applet` | `client/`, sessions of `opennicserver.cpp`, `common/` | `ui` the widgets, `service` the settings of the service, `toService` and `toClient` what is under way on the connection |
| `UnixService` | `qtservice.cpp`, `qtservice_unix.cpp`, `qtunix*socket.cpp`, `main.cpp` | processes of the service and processes of commands; whose the socket file and the TCP port are |
| `WinService` | `qtservice_win.cpp` | a program counter for each of three threads, mutex, condition, semaphores, status |
| `MC...` | instances for TLC (`UnixService` and `WinService` need none) | |
| `..._proof` | theorems | |

### OpenNICServer

`calls` is the stack of pending calls, the running one first. A step runs the
first call: it returns, and leaves the calls its function still has to make. So
`readSettings` leaves `updateDNS` (when the size changed) and `setEnabled`;
`refresh` leaves a cold boot (`readSettings`, `bootLoop`) and `recheck`. The
program is in an event loop when nothing is pending or when the first call is
`fetchT2` (waiting for `dig`) or `delay`; exactly there timers and client
messages can push their handlers, to any depth, and signals are noticed.

What a step hides: `updateDNS()` is atomic because on Linux nothing in it enters
an event loop; the order of `mResolverPool` is chosen at each use, since each
use directly follows `score()` and `sort()` or `randomize()` (`Rankings`,
`Proposals`). Scores are any order; with `DeadRankLast` they put a dead resolver
behind the others, which the liveness runs assume. A resolver is its address;
that is sound because the active resolvers always belong to the current pool
(`CacheFromPool`, proved; `ImplementsActive` implies it).

Each client message carries one setting; the handler applies it and rewrites the
settings file, as `dataReady()` does after its last key. The file can be edited
from outside at any time. The first `readSettings()` of the constructor reads
`mSystem` before it is set; the model takes it to be null (any other value
would crash, which is a start followed by `crash`).

### OpenNICServerWin

The same stack. A call that applies a list of resolvers (`applyT1`, `applyT2`,
`applyUpdate`, and `restore` for the servers the interface had) carries what it
has yet to apply and the result of the last `netsh`; after every `netsh` the
program is in an event loop. The index of the next server, the cache and the
settings are shared by all the lists on the stack, as in the code. `netsh` is
external: the first of a list replaces what the interface has, the others are
inserted, and an address that is there already is refused. With `NetshFails` it may
also leave things as they are, whatever it reports: one that does not start or does
not end in time has exit code 0, which the code takes for success. The run assumes
that it does not fail so, the theorems about types, pools, flags and `ActiveResolvers`
do not.

### DnsQuery

A reply is what a query was sent to, and where: resolver, name and local port. It
may arrive at any time, once, more than once or never, at whatever query is then
bound to its port, as an answer, as a denial or as something that makes no sense;
the code compares neither the transaction ID nor the sender. `bind()` may fail (the
query then waits for its timer), and so may the write. Two times matter: a query
expires after 10 seconds, and a test comes at least 10 seconds after the one
before, except for the first three intervals, which are shorter; so a test of a
resolver that is past these finds the last query ended. A port is free when no query
is bound to it, and may be one to which a reply is still due. The clock is assumed
not to leap over the expiry of a query inside its constructor, where the code would
end the query and send it all the same. The server module uses of all this that a resolver which does not
answer may or may not be noticed (`noticed` in `recheckResolvers`).

### PoolRank

The order of a pool with the histories it is computed from. Averages and scores
are rational numbers brought to a common denominator, so the comparisons are
those of the code but for rounding. Sums, passes, swaps and loads are recursive
functions, one turn of the code's loop each. `sort()` is the selection sort of the code,
pass by pass; the results of `randomize()` are all orders its swaps can reach.
The latency of a query is the time at which its reply or its timer is handled, and an
event loop may be blocked by `dig` meanwhile; so any query, expired or not, may have any
of `Latencies`, and one silent resolver may have a smaller average than another. Then
a T2 may come before a T1 that is faster, though both are silent. What holds of any
latencies is that the slowest of the pool come behind all that are faster
(`SlowestIsLast`). A pending query counts with latency 0, and one that could not be
sent with next to none, so an address that fails at once may come first: the
properties speak of averages, as the code computes them.

### Applet

The key/value maps of the packets are records of what the properties tell apart.
A reply from the service is two cells of `toClient`, so that it can arrive in
pieces; `recv(n)` takes all that has arrived, as `readAll()` does, and what is
behind the first packet is lost. A timer polls whether or not its last poll has been
answered, as the service may be late by the 15 seconds for which `dig` blocks it, and
`send(true)` then clears the half of a reply that has arrived. A widget that `dataReady()` changes emits its
signal, which sends the widgets' state back, key by key in alphabetical order:
`AfterInterface`, `AfterList`, `AfterEnabled` are the states between. `purged` is the loop
of `purgeDeadSesssions()`, index by index: it removes while it counts up, so it may pass
over a dead session and leave it to the next pass.

### UnixService and WinService

`UnixService`: a command connects to the file, sends, waits; a service binds the
file, opens the port in its first event, handles commands in its event loop,
and closes and removes the file at the end. A kill may come at any time.
`WinService`: one action for each lock, wait, post, wake-up, release and report.
The manager is external: it sends one control at a time, only those accepted in
the state that was reported to it.

## 3. Runs

| Run | Asks | Bounds |
| --- | --- | --- |
| `ResolverPool` | is any pointer dangling, any count too low, any address twice; is ownership (`ResolverOwnership`) implemented | 3 cells, 2 addresses, 3 pools, counts up to 3. Two objects of one address and one of another suffice for every branch of `append`; three pools are what the server has |
| `PoolRank` | is a resolver lost or doubled by loading, sorting or shuffling; does one ever come before one that is better in everything; do the slowest come last | 3 resolvers (three is the least number that is ever shuffled), histories of up to 2 queries, 4 tests in all (each resolver once, one of them twice), latencies of 10 and 100 for replies and failures alike; both sets of rules |
| `ServerCache` | is `ActiveResolvers` implemented: a cache of distinct resolvers of a pool that is loaded once; is it full; one boot at a time | 2 T1, 1 T2, sizes 0 to 2 (less than, equal to the pool's halves), 2 outside events of any of seven kinds, failing writes, 2 runs of `dig` |
| `ServerLive` | does `resolv.conf` follow the cache; are the original lines kept; does a boot end; is a dead resolver replaced | sizes 2 and 3 of a pool of up to 4, 2 outside events without toggling, crash, edits or failing writes |
| `ServerCrash` | are the original lines kept across crashes | violated: the second start overwrites the copy |
| `ServerWin` | is `ActiveResolvers` implemented; do flags keep updates and boots single when lists are interrupted; do Windows and the cache agree again; does every update end | 1 T1, 1 T2, 1 server of the interface, sizes 1 and 2, 2 messages of clients; `netsh` refuses only what is there already. One address of each kind makes lists of one and two, so that a list is interrupted before, between and after its addresses |
| `QueryLife` | has a query one outcome, do histories list what exists, is nothing held by ended queries | 2 resolvers, one deletable, histories of 2, 4 query objects, 2 ports |
| `QueryLive` | do queries end, is a dead resolver noticed | 1 resolver, history of 3 (what `status()` looks at), 2 short intervals |
| `Applet` | does an applet with an idle user, whose first reply had all the keys, change anything; do applet and service agree in the end; is a dialog filled; are dead sessions removed, and is each pass right about whom it removes | 2 interfaces, 2 sizes, 2 rule texts, a service that is enabled at first, 1 click (which opens a dialog, or changes a setting, or sends one), 2 restarts of either; timers poll while fewer than 3 packets or pieces are under way: a reply of two pieces and another poll |
| `AppletConnect` | does an applet that only connects leave the settings alone | violated: service disabled |
| `UnixService` | does every command end; does one service remain; does a start lead to a service | 3 processes and 3 commands: two starts and a stop, or two starts and a kill with the file left over, at the same time |
| `WinService` | do two threads ever wait at once; do start and stop end; is the status true | the flags of `main.cpp`, 6 controls of any of the six kinds, with and without the port and the manager |

The type invariants of `ResolverPool`, `DnsQuery`, `PoolRank`, `UnixService` and
`WinService` are in no run: `TypeCorrectness` proves them for every instance.

`MaxDisturbances`, `MaxClicks`, `MaxRestarts`, `MaxControls` and `MaxTests` bound
the events that come from outside (client messages, signals, edits, failures,
controls); timers are not bounded, except where each makes a test. Two such events
are enough for each pair of them to meet in a cold boot, which has two halves, with
a timer between. `T2Tries` is 5 in the code; 2 keeps the difference between the
last run of `dig` and the others. Deadlock is checked in every run but those where
the system stops: with deletable resolvers (the queries of a deleted resolver are
never deleted, so the memory for query objects runs out), with processes that have
all ended, and with a service that has left the Windows manager.

`OriginalIsKept` holds under the hypothesis of `ServerLive`, no crash, and fails
without it in `ServerCrash`. `OnlyByUser`, which is what the code's comments claim,
fails in two ways: `AppletConnect` shows the one, and with `Installed <- MCInstalled`,
a service that is enabled, TLC finds the other (below, Applet). `InformedChangesNothing`
is what remains of it: an applet whose first reply had all the keys is harmless, if
the service was enabled like the applet's check box.

### Disagreements

Two have a run: `ServerCrash` and `AppletConnect`. Others were met while
modelling; the modules show them, no run repeats them:

* Pools and queries. `clear()` (`server/opennicresolverpool.cpp:135`) gives no
  reference back, so `mRefCount` is not "a count of the number of references"
  (`server/opennicresolver.h:75`) and such resolvers are never deleted; the
  destructor of a resolver (`server/opennicresolver.cpp:58`) closes no socket; a
  reply is matched by its port alone, so one that is late may answer another
  question, though `mTid` is a "UDP DNS transaction ID"
  (`server/opennicdnsquery.h:108`); a pending query carries `DNS_OK`, so it hides
  two strikes from `alive()` (275) and counts as resolved for `resolvesNIC()` (400).
* Order. The default script never penalises a red or yellow resolver, as it
  compares a number with letters; `randomize()`, the "opposite of sort()", never
  shuffles two resolvers and reaches half the orders of more.
* Server. Disabling restores `resolv.conf` and leaves the cache; enabled again,
  proposals equal to it are declined for ever (`server/opennicserver.cpp:526`). A
  disabled service boots and writes resolvers (`server/main.cpp:53`). `fileCopy()`
  does not truncate (`server/opennicsystem.cpp:125`), so restoring a shorter file
  leaves the end of the longer. With a cache of one, a proposal is accepted when it
  is the active resolver and declined when it is not
  (`server/opennicserver.cpp:549`). A boot for which `dig` finds nothing succeeds
  with T1 resolvers, so the message at 489 is not reached; with a cache of
  four, a proposal that replaces one resolver is less than half a change and is
  declined. A domain file without a domain makes `randomDomain()` divide by zero.
* Windows. A client's "disable", or a new size, is undone by the `readSettings()`
  of a timer that comes while `netsh` restores; preserving may save the service's
  own resolvers as the original ones; a smaller size set in the middle of a cold
  boot can leave a cache of two and one of them in Windows; `purgeDeadSesssions()` run
  from inside `dataReady()` may delete the session that is being answered.
* Applet. A service that waits for `dig` answers the first poll late. A periodic poll
  between two pieces of that reply clears the first piece (`common/opennicnet.cpp:59`), the
  reply is lost, and with it the only one that has all keys: size and rules stay at the
  applet's defaults, and are sent to the service when a later reply selects the interface.
  `updateDNS()` of the client writes a map without a frame, so
  `update_dns` is never read; an asynchronous message is sent again with every
  answer; what a user changes before the first reply, or just before a stale one,
  sends the other widgets' values with it or is taken back; an empty script is
  never shown.
* Service control. `pause()` and `resume()` change a flag that `readSettings()`
  overwrites. Of two services started at once on Unix the loser removes the
  winner's socket file, so `isRunning()` is wrong from then on. On Windows a late
  report without the mutex can tell the manager a state that has passed, and a
  start that finds no port sets `STOPPED` while another thread sets `RUNNING`.

### Fairness

`OpenNICServer`: a running call runs on (weak fairness of `Step`); the fast timer
is never killed and Qt delivers a due timer in each pass of an event loop,
nested loops included (strong fairness, because handlers come between); the
waits for `dig` (15 seconds at most) and for the next attempt (counted by a
timer) end; the process is started. `RefreshFairSpec` adds the refresh timer,
which is periodic; `ServerLive` uses it, because the fast timer replaces a dead
resolver only when `alive()` says so, which may never coincide with it, while
the refresh timer forces an update. Nothing is assumed of clients, signals, the
result of `dig`, the health of resolvers, or which proposal `sort()` yields among
equals. `OpenNICServerWin` assumes the same of calls and of the refresh timer, and
that each pass of the event loop after a `netsh` ends: it handles what is due, once.

`DnsQuery` assumes that the timer of a query and that of a resolver fire when they
are due (weak fairness: both stay due), and nothing of the network.

`Applet` assumes that both programs read what has arrived and that timers fire, and
two things about time, because the code has no sequence numbers. The timers have
periods of 5 and 15 seconds and a round trip on the loopback interface is short, except
while the service waits for `dig`, which it does while it boots; so the connection is
quiet again and again, and each timer at times expires on a quiet one (strong fairness
of `Quiet /\ pollPeriodicKeys` and `Quiet /\ dialogTimer`). And a reply at times arrives in
one piece. Were the two timers for ever in phase, or every reply cut in two across a
tick, dialogs could stay empty. No safety property uses any of this.

`UnixService` assumes that processes run and event loops read what is there (weak
fairness), which includes that the cold boot in `slotStart` returns to an event loop;
nothing about kills or users. `WinService` assumes that the three threads run; that
a control arrives or that a timeout of 20 seconds or of one second passes is not
assumed, except that `ht->wait(1000)` returns.


## 4. Theorems

`ResolverPool_proof` proves for all sets of cells, addresses, pools and every
bound of the counts: `TypeCorrectness`, `MemorySafety`, `CountsCoverHolders`,
`AddressesDistinct`, and the refinement `OwnershipRefinement`. The inductive
invariant joins the four: memory safety needs that counts cover the holders
(so that a count that reaches zero has no holder left), which needs that a pool
does not list a resolver twice (else destroying a pool would take two
references from one holder), which is why addresses are distinct.

`OpenNICServer_proof` proves for all sets of resolvers, sizes, numbers of outside
events, and with failing writes: `TypeCorrectness`, `CacheIsFromPool`,
`CacheIsFull` and `ColdBootIsOne`. The first three come from
`IInv == TypeOK /\ CacheFromPool /\ (Filled \/ AboutToUpdate)`: `CacheFull` speaks
only of moments when the program waits and is not inductive; what is kept by
every step is that the cache is full, or the call about to run is the
`updateDNS()` that fills it. `ColdBootIsOne` is proved over the stack: the boot
frames in it are one or none, as `mInColdBoot` says, and a step can only push a
boot when there is none.

`ActiveRefinement` proves that the server implements `ActiveResolvers`: each step maps to a
step of it or leaves its variables alone. The hard part is that the second half of a boot
adds to the first, and to a pool that is not complete yet, although anything may run while it
waits for `dig`. `BootOrder` says so of the whole stack: where a call waits for `dig` the
pool has T1, and once the pool is complete none waits. It is kept because boots are single
(`OneBoot`, which is what `mInColdBoot` stands for), so the call that completes the pool is
the only one that did wait.

It also proves two statements about the files of Linux, for lines, resolvers,
sizes and numbers of events without bound, under the hypotheses of the runs that check
them: writes succeed, and neither a client nor an administrator changes the settings file's
flag (`Steady`). `SystemFollows` also needs that no size is zero (`NoZero`), and allows
kills; `OriginalKept` needs that no process is killed (`NoCrash`). Both rest on `FlagKept`:
a running process has the flag of its settings file, so `setEnabled()` calls neither
`startup()` nor `shutdown()` between the start of the process and its end. Then `Kept` says
that the lines are in the copy while a process runs and in `resolv.conf` otherwise, and
`Applied` that `resolv.conf` is the cache, or the process has not yet come to the first
half of its first boot (`Beginning`), where the program does not wait.

`OpenNICServerWin_proof` proves for all sets of resolvers and sizes, for
interruptions of any depth and a `netsh` that may refuse anything and report what it likes: `TypeCorrectness`,
`CacheIsFromPool` and `UpdatesAndBootsAreSingle`. A list that was interrupted goes on
with resolvers chosen before the interruption, so the cache stays in the pool only if
the pool has not been replaced meanwhile. It is replaced once, by the first half of a
boot, and the invariant says why nothing can be pending then: what a frame has yet
to apply is of the pool and not empty (`Good`), so there is no such frame while the pool
is empty, and the pool is empty until the boot loop has run (`NoPool`, and the last part
of `StackOK`), of which there is one. Each action is put together from three
lemmas about the stack: a quiet call returns, quiet calls are pushed, the first call is
replaced by one that counts.

Where netsh refuses only what is there (`Obliging`), `NoStraysLeft` proves `NoStray` of the
same module. A resolver may well be in Windows and not in the cache in the middle of a list:
it is one that `netsh` has just accepted for a pending list, which puts it into the cache when
its event loop is left (`Watched`). Since the first `netsh` of any list removes all others
from Windows, emptying the cache leaves nobody behind, however deep.

`ActiveRefinement` proves that Windows implements `ActiveResolvers` too. There, what a boot has
loaded is applied over many steps, with other calls in between and above, so `BootOrder`
speaks of all frames of a boot, those of its lists included (`Half`).

`PoolRank_proof` proves for pools and histories of any length, any depth, any latency and either
rules: `TypeCorrectness`, `PoolIsWhole` (`NoneLost`), `JustRanking` (`RankingIsJust`) and
`SlowestComesLast` (`SlowestIsLast`). These are facts about loops. Each loop is a recursive function
on Nat whose defining equation is a lemma, and a fact about all its values is proved by taking
the least number for which it fails; no induction rule with an operator for a
parameter is needed. A pass of `sort()` puts the highest score of what is left at its place
(`BestIsFirst`, `PassSorts`); swaps and passes only permute the list; none of the
averages is above what `latency()` finds for the pool. So the lead of a resolver over that
maximum is never negative, is zero for the slowest, and faster with the other factors
no less means a higher score (`BetterScoresMore`).

`DnsQuery_proof` proves for all sets of queries, resolvers, ports and names and for
every depth of the history: `TypeCorrectness`, `PendingGuarded`, `HistorySound` and the
action property `OutcomesFinal`. The invariant joins the first three: an ended query
holds no socket and no timer, so nothing can reach it any more; a listed query belongs
to the resolver that lists it, so pruning one history cannot delete what another
lists.

`WinService_proof` proves for every set of flags, controls and their number:
`TypeCorrectness` (no semaphore is released twice), `WaitingIsSingle`, and
`StatusTruth` for a service that is not told of a shutdown of the system (as in
`main.cpp`); one that is told stops its application under the status it had. The
mutex is given up while a thread waits, so it is not what keeps a second thread from
waiting: the manager is told `START_PENDING` until the start is handled, and sends
nothing then that has to wait (`Starting`). The rest follows the event: the thread that
waits has its event in the queue or Main is about to wake it (`Queued`); one that has been
served finds the application as it wanted it (`Handled`); and until then the status is one
of those that promise nothing (`Hedged`).

`UnixService_proof` proves for any number of processes and commands, with kills at any
time: `TypeCorrectness`, `SoleSeen`, and `OneServes`, which is why one remains of
two services started at once: before their first event they are many, after it all but
one are about to quit. The invariants are that a process which is the only one there
ever was owns the file from when it has bound it until it closes it (`FileInv`), and that a
process that serves listens on the port or was told to quit (`PortInv`).

`Applet_proof` proves `InformedIsHarmless` (`InformedChangesNothing`): an applet whose first
reply had all the keys, and whose user only looks, leaves the service as it is, for all
settings, any number of polls under way, clicks that set nothing, cut, merged, lost and late
packets and restarts of either program. A reply that changes a widget makes the applet
send all its widgets show, so the invariant is that these are the service's settings
(`Shown`). It is kept by what is under way (`Wire`): before the first reply there is no
update, and later the replies have the service's present settings and the updates do not
change them (`Harmless`). Applets that are not informed may change the service while the
user has not touched anything, but whatever any of them has shown or sent has the flag
that all start with (`Fitting`), so that no reply flips a check box. `Alike` says that the
service is installed with that flag, and that the rules are not empty unless the applet's
are; run `AppletConnect` shows what happens to an applet of which the first is not true. The module proves further `TypeCorrectness`, and `PurgeIsSound`: whatever
sessions there are, one pass of `purgeDeadSesssions()` disposes of a dead one if there is
any, and of no session that is connected (`PurgeIsSafe`).

The assumptions are the named ones of the modules: finite sets of resolvers,
at least one T1 resolver (the code has a list of last resort), sizes in Nat (not zero on
Windows), at least one run of `dig`, a history of at least one query, an interface with
at least one server, flags of `QtServiceBase`.

Only model-checked: the liveness properties (`ColdBootEnds`, `DeadResolverIsReplaced`, `UpdateEnds`,
`Heals`, `QueryEnds`, `DeadIsNoticed`, `Settles`, `HistoryIsShown`, `SessionsArePurged`, `EveryCommandEnds`,
`OneRemains`, `StartServes`, `StartEnds`, `StopEnds`), which rest on fairness and so on ENABLED, out
of the prover's reach. Every safety property of a passing run is a theorem. The modules
use recursive functions on Nat and no RECURSIVE operator, since the prover has no SMT backend where
one is declared.

## 5. Not modelled

* Test domains (`opennicdomainname*`): lists of names read from a file; a name is one of a
  set in `DnsQuery`. Saving the T1 and domain lists, which a user edits with an
  editor and the service only reads.
* The length of the refresh period (`setRefreshPeriod()` overflows for long ones): timers
  are events that may come at any time.
* Log and journal, texts, the event log and the installation of services, which are
  output or a call of the system.
* The applet's icon, menus, balloons, tables and other dialogs: they show what the modelled
  fields hold. Edited scripts: a script is the default one or none; what any other
  does to scores is up to its author.
* Sources that no project file compiles.
