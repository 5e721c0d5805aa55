------------------------------ MODULE UnixService ------------------------------
(***************************************************************************)
(* Service control on Unix: qtservice.cpp, qtservice_unix.cpp and the      *)
(* sockets of qtunixserversocket.cpp and qtunixsocket.cpp, with what       *)
(* main.cpp makes of them.                                                 *)
(*                                                                         *)
(* A command is a process that connects to the service's socket, a file    *)
(* /var/tmp/<name>.<user>, sends one line and waits for the answer with no *)
(* timeout.  The command to start asks whether a service is alive, and if  *)
(* none answers starts one as a detached process.  A service takes the     *)
(* file over from whoever has it, before it tries the TCP port for the     *)
(* applets; without the port it quits.                                     *)
(*                                                                         *)
(* pause() and resume() are answered only: the flag they set is            *)
(* overwritten by readSettings() before anything reads it.  Installing,    *)
(* which only writes a settings file, is left out.                         *)
(***************************************************************************)
EXTENDS Integers, FiniteSets

CONSTANTS Process,        \* processes of the service
          Command,        \* processes of commands: bounds how many there are
          serviceFlags,   \* of main.cpp
          None, Leftover  \* nobody; a process that ended before all this

Verb == {"start", "exec", "terminate", "pause", "version"}
ServiceFlag == {"CanBeSuspended", "CannotBeStopped"}

ASSUME UnixAssumption ==
    /\ None \notin Process /\ Leftover \notin Process /\ None # Leftover
    /\ IsFiniteSet(Process)
    /\ serviceFlags \subseteq ServiceFlag

VARIABLES state,          \* of each process of the service
          asService,      \*   is it the detached one? ("exec" is in the foreground)
          path_,          \*   has it bound the file?
          quit,           \*   was QCoreApplication::quit() called?
          file,           \* whose socket the file is
          port,           \* who listens on the TCP port
          pc, verb,       \* of each command
          server,         \*   whom it is connected to
          result          \*   "true" or "false" in the end

serviceVars == <<state, asService, path_, quit>>
commandVars == <<pc, verb, server, result>>
vars == <<serviceVars, file, port, commandVars>>

(* "unlinked" and "bound" are in setPath(); "looping" is the event loop    *)
(* before slotStart, "serving" after it; a loop that has ended leaves      *)
(* "ended", whose application is deleted in "deleted", and whose socket is *)
(* closed but not unlinked in "closed".                                    *)
State == {"unborn", "born", "unlinked", "looping", "serving", "ended", "deleted", "closed", "gone"}
Alive(p) == state[p] \notin {"unborn", "gone"}
Serving(p) == state[p] = "serving"
EventLoop(p) == state[p] \in {"looping", "serving"}
Listens(p) == path_[p] /\ state[p] \in {"looping", "serving", "ended", "deleted"}

TypeOK == /\ state \in [Process -> State]
          /\ asService \in [Process -> BOOLEAN] /\ path_ \in [Process -> BOOLEAN]
          /\ quit \in [Process -> BOOLEAN]
          /\ file \in Process \cup {None, Leftover}
          /\ port \in Process \cup {None}
          /\ pc \in [Command -> {"idle", "connect", "wait", "spawn", "done"}]
          /\ verb \in [Command -> Verb]
          /\ server \in [Command -> Process \cup {None}]
          /\ result \in [Command -> {"none", "true", "false"}]

Init == /\ state = [p \in Process |-> "unborn"]
        /\ asService = [p \in Process |-> FALSE]
        /\ path_ = [p \in Process |-> FALSE]
        /\ quit = [p \in Process |-> FALSE]
        /\ file \in {None, Leftover} /\ port = None
        /\ pc = [c \in Command |-> "idle"]
        /\ verb = [c \in Command |-> "start"]
        /\ server = [c \in Command |-> None]
        /\ result = [c \in Command |-> "none"]

-----------------------------------------------------------------------------
(* A service: run(true). *)

Moves(p, from, to) == state[p] = from /\ state' = [state EXCEPT ![p] = to]

(* Mutant: setPath() does not unlink the file first. *)
unlink_not(p) == /\ Moves(p, "born", "unlinked")
                 /\ UNCHANGED <<asService, path_, quit, file, port, commandVars>>

(* setPath() unlinks the file, whoever has it, and then binds it. *)
unlink(p) == /\ Moves(p, "born", "unlinked")
             /\ file' = None
             /\ UNCHANGED <<asService, path_, quit, port, commandVars>>

bind(p) == /\ Moves(p, "unlinked", "looping")
           /\ path_' = [path_ EXCEPT ![p] = file = None]
           /\ file' = IF file = None THEN p ELSE file
           /\ UNCHANGED <<asService, quit, port, commandVars>>

(* Mutants: isListening() is not looked at; the server does not listen. *)
slotStart_anyway(p) == /\ Moves(p, "looping", "serving")
                       /\ port' = IF port = None THEN p ELSE port
                       /\ UNCHANGED <<asService, path_, quit, file, commandVars>>
slotStart_unlistened(p) == /\ Moves(p, "looping", "serving")
                           /\ quit' = [quit EXCEPT ![p] = TRUE]
                           /\ UNCHANGED <<asService, path_, file, port, commandVars>>

(* start() of main.cpp, its first event. *)
slotStart(p) == /\ Moves(p, "looping", "serving")
                /\ port' = IF port = None THEN p ELSE port
                /\ quit' = [quit EXCEPT ![p] = @ \/ port # None]
                /\ UNCHANGED <<asService, path_, file, commandVars>>

(* quit() may have been called before the first event. *)
endLoop(p) == /\ EventLoop(p) /\ quit[p]
              /\ state' = [state EXCEPT ![p] = "ended"]
              /\ UNCHANGED <<asService, path_, quit, file, port, commandVars>>

deleteApp(p) == /\ Moves(p, "ended", "deleted")
                /\ port' = IF port = p THEN None ELSE port
                /\ UNCHANGED <<asService, path_, quit, file, commandVars>>

(* sysCleanup(): close() closes the socket, then unlinks the file, which   *)
(* may have become another's.                                              *)
closeSocket(p) == /\ Moves(p, "deleted", "closed")
                  /\ UNCHANGED <<asService, path_, quit, file, port, commandVars>>

close(p) == /\ Moves(p, "closed", "gone")
            /\ file' = IF path_[p] THEN None ELSE file
            /\ UNCHANGED <<asService, path_, quit, port, commandVars>>

(* SIGTERM and SIGHUP make a timer event exit(), SIGKILL or a fault ends   *)
(* the process anywhere: neither comes to sysCleanup().                    *)
killed(p) == /\ Alive(p)
             /\ state' = [state EXCEPT ![p] = "gone"]
             /\ port' = IF port = p THEN None ELSE port
             /\ UNCHANGED <<asService, path_, quit, file, commandVars>>

-----------------------------------------------------------------------------
(* slotReady(): the service has read the line of a command. *)

Suspends == "CanBeSuspended" \in serviceFlags
Stops == "CannotBeStopped" \notin serviceFlags

Obeyed(v) == CASE v = "terminate" -> Stops
               [] v = "pause" -> Suspends
               [] v = "start" -> TRUE   \* "alive"

Answered(c, answer) ==
    IF verb[c] = "start" /\ answer = "false"
    THEN pc' = [pc EXCEPT ![c] = "spawn"] /\ UNCHANGED result
    ELSE /\ pc' = [pc EXCEPT ![c] = "done"]
         /\ result' = [result EXCEPT ![c] = IF verb[c] = "start" THEN "false" ELSE answer]

slotReady(p, c) ==
    /\ EventLoop(p)
    /\ pc[c] = "wait" /\ server[c] = p
    /\ quit' = [quit EXCEPT ![p] = @ \/ (verb[c] = "terminate" /\ Obeyed(verb[c]))]
    /\ Answered(c, IF Obeyed(verb[c]) THEN "true" ELSE "false")
    /\ UNCHANGED <<state, asService, path_, file, port, verb, server>>

-----------------------------------------------------------------------------
(* A command: exec() with its first argument, or none to start. *)

exec(c) == /\ pc[c] = "idle"
           /\ \E v \in Verb :
                /\ verb' = [verb EXCEPT ![c] = v]
                /\ pc' = [pc EXCEPT ![c] = IF v = "exec" THEN "spawn" ELSE "connect"]
           /\ UNCHANGED <<serviceVars, file, port, server, result>>

isRunning == file \in Process /\ Listens(file)

(* A version command asks isRunning(), which only connects. *)
connectTo(c) ==
    /\ pc[c] = "connect"
    /\ IF isRunning /\ verb[c] # "version"
       THEN /\ pc' = [pc EXCEPT ![c] = "wait"]
            /\ server' = [server EXCEPT ![c] = file]
            /\ UNCHANGED result
       ELSE Answered(c, IF isRunning THEN "true" ELSE "false") /\ UNCHANGED server
    /\ UNCHANGED <<serviceVars, file, port, verb>>

(* Mutant: only an orderly close is noticed. *)
disconnected_orderly(c) ==
    /\ pc[c] = "wait" /\ state[server[c]] = "closed"
    /\ Answered(c, "false")
    /\ UNCHANGED <<serviceVars, file, port, verb, server>>

(* The connection ends with the socket of a service that did not answer. *)
disconnected(c) ==
    /\ pc[c] = "wait" /\ state[server[c]] \in {"closed", "gone"}
    /\ Answered(c, "false")
    /\ UNCHANGED <<serviceVars, file, port, verb, server>>

(* startDetached() with QTSERVICE_RUN set, or run(false) itself. *)
startDetached(c, p) ==
    /\ pc[c] = "spawn" /\ state[p] = "unborn"
    /\ state' = [state EXCEPT ![p] = IF verb[c] = "start" THEN "born" ELSE "looping"]
    /\ asService' = [asService EXCEPT ![p] = verb[c] = "start"]
    /\ pc' = [pc EXCEPT ![c] = "done"]
    /\ result' = [result EXCEPT ![c] = "true"]
    /\ server' = [server EXCEPT ![c] = p]
    /\ UNCHANGED <<path_, quit, file, port, verb>>

Runs(p) == \/ unlink(p) \/ bind(p) \/ slotStart(p) \/ endLoop(p)
           \/ deleteApp(p) \/ closeSocket(p) \/ close(p)
Continues(c) == \/ connectTo(c) \/ disconnected(c)
                \/ \E p \in Process : startDetached(c, p)

Next == \/ \E p \in Process : Runs(p) \/ killed(p)
        \/ \E p \in Process, c \in Command : slotReady(p, c)
        \/ \E c \in Command : exec(c) \/ Continues(c)

Spec == Init /\ [][Next]_vars

(* What runs goes on, and an event loop reads what is there for it. *)
FairSpec == /\ Spec
            /\ WF_vars(\E p \in Process : Runs(p))
            /\ WF_vars(\E c \in Command : Continues(c))
            /\ WF_vars(\E p \in Process, c \in Command : slotReady(p, c))

-----------------------------------------------------------------------------
(* Every command comes to an end, although it waits without a timeout, for *)
(* a service that may be starting, ending, killed or deprived of its file  *)
(* (qtservice_unix.cpp:101).                                               *)
EveryCommandEnds == \A c \in Command : pc[c] = "wait" ~> pc[c] = "done"

(* However many are started at the same time, one remains at most: the     *)
(* others find the port taken and quit (main.cpp:48-52).                   *)
OneRemains == <>[](Cardinality({p \in Process : Alive(p)}) <= 1)

(* A process that is started leads to a service, its own or another's,     *)
(* unless it was killed or a service was told to stop: of several starts   *)
(* that race for the file and the port, which the losers take over and     *)
(* give up in a different order, not all give up (main.cpp:48-52,          *)
(* qtservice_unix.cpp:407-417). It says nothing of a winner killed before  *)
(* it serves, nor of how long the service lasts.                           *)
StartServes ==
    \A p \in Process :
      state[p] = "born" ~> \/ \E q \in Process : port = q /\ Serving(q)
                           \/ state[p] = "gone" /\ ~quit[p]
                           \/ \E c \in Command : verb[c] = "terminate" /\ server[c] # None

(* If no other process of the service was ever started, a command finds    *)
(* the one that serves, also after one that left its file behind           *)
(* (qtunixserversocket.cpp:72).                                            *)
Seen(p) == Serving(p) /\ asService[p] => file = p
SoleIsSeen == \A p \in Process : (\A q \in Process \ {p} : state[q] = "unborn") => Seen(p)
=============================================================================
