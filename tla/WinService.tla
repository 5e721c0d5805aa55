------------------------------ MODULE WinService ------------------------------
(***************************************************************************)
(* Service control on Windows: start() of qtservice_win.cpp and the        *)
(* handler that the service control manager calls.                         *)
(*                                                                         *)
(* Three threads: Main creates the application and runs its event loop;    *)
(* Handler is given to the manager, which calls handler() in it, one       *)
(* control at a time; Starter is the thread in which the manager calls     *)
(* serviceMain().  handler() posts an event to Main and waits on a         *)
(* condition until Main has handled it; a mutex is held around both, and   *)
(* two semaphores order the start.  setStatus() writes the status and      *)
(* reports it at once; the report at the end of handler() is made without  *)
(* the mutex, and may come to the manager later than one made after it.    *)
(*                                                                         *)
(* With cleanUp the process is as good as gone, and the other threads with *)
(* it.  The commands of a QtServiceController, each a call or two of the   *)
(* manager, are the controls that arrive.                                  *)
(***************************************************************************)
EXTENDS Integers, Sequences

CONSTANTS serviceFlags,   \* of main.cpp
          Code,           \* the controls that are sent
          MaxControls,    \* bound of their number
          Nobody          \* the owner of a free mutex

Control == {"stop", "pause", "continue", "interrogate", "shutdown", "user"}
ServiceFlag == {"CanBeSuspended", "CannotBeStopped", "NeedsStopOnShutdown"}

ASSUME WinServiceAssumption ==
    /\ serviceFlags \subseteq ServiceFlag
    /\ Code \subseteq Control
    /\ MaxControls \in Nat
    /\ Nobody \notin {"Main", "Starter", "Handler"}

VARIABLES mode,           \* what StartServiceCtrlDispatcher() finds
          isListening,    \* does the TCP server of the service get its port?
          pc,             \* of each thread
          code,           \* what Starter and Handler are in handler() for
          mutex, waiting, \* its owner; the threads that wait on the condition
          startSemaphore, startSemaphore2,
          events,         \* posted to the controllerHandler
          quit,           \* was QCoreApplication::quit() called?
          application,    \* what the last event has made of the application
          status,         \* SERVICE_STATUS
          reported,       \* what the manager was told of it
          told,           \* what a thread is telling it
          controls        \* how many controls were sent

settings == <<mode, isListening>>
semaphores == <<startSemaphore, startSemaphore2>>
vars == <<settings, pc, code, mutex, waiting, semaphores, events, quit, application,
          status, reported, told, controls>>

Thread == {"Starter", "Handler"}
HandlerPC == {"enter", "posting", "waiting", "woken", "leaving", "reporting"}
MainPC == {"init", "acquire", "loop", "wake", "wait", "gone"}
StarterPC == HandlerPC \cup {"none", "main", "acquire", "done"}
DispatcherPC == HandlerPC \cup {"none", "dispatch", "idle", "done"}
Status == {"STOPPED", "START_PENDING", "RUNNING", "STOP_PENDING", "PAUSE_PENDING",
           "PAUSED", "CONTINUE_PENDING"}

TypeOK == /\ mode \in {"service", "console", "failed"} /\ isListening \in BOOLEAN
          /\ pc \in [{"Main"} \cup Thread -> MainPC \cup StarterPC \cup DispatcherPC]
          /\ pc["Main"] \in MainPC /\ pc["Starter"] \in StarterPC
          /\ pc["Handler"] \in DispatcherPC
          /\ code \in [Thread -> Control \cup {"startup"}]
          /\ mutex \in Thread \cup {Nobody} /\ waiting \subseteq Thread
          /\ startSemaphore \in 0 .. 1 /\ startSemaphore2 \in 0 .. 1
          /\ events \in Seq(Control \cup {"startup"})
          /\ quit \in BOOLEAN
          /\ application \in {"none", "started", "paused", "stopped"}
          /\ status \in Status /\ reported \in Status /\ told \in [Thread -> Status]
          /\ controls \in 0 .. MaxControls

(* The manager takes a service for starting until it is told something. *)
Init == /\ mode \in {"service", "console", "failed"} /\ isListening \in BOOLEAN
        /\ pc = [t \in {"Main"} \cup Thread |-> IF t = "Main" THEN "init" ELSE "none"]
        /\ code = [t \in Thread |-> "startup"]
        /\ mutex = Nobody /\ waiting = {}
        /\ startSemaphore = 0 /\ startSemaphore2 = 0
        /\ events = <<>> /\ quit = FALSE /\ application = "none"
        /\ status = "STOPPED" /\ reported = "START_PENDING"
        /\ told = [t \in Thread |-> "STOPPED"]
        /\ controls = 0

Moves(t, from, to) == pc["Main"] # "gone" /\ pc[t] = from /\ pc' = [pc EXCEPT ![t] = to]
setStatus(state) == status' = state /\ reported' = state

-----------------------------------------------------------------------------
(* handler() *)

(* Mutants: a status is reported at once. *)
Pending_running(c) == IF c = "startup" THEN {"RUNNING"} ELSE {}
Pending_paused(c) == IF c = "pause" THEN {"PAUSED"} ELSE {}

Pending(c) == CASE c = "startup" -> {"START_PENDING"}
                [] c = "stop" -> {"STOP_PENDING"}
                [] c = "pause" -> {"PAUSE_PENDING"}
                [] c = "continue" -> {"CONTINUE_PENDING"}
                [] OTHER -> {}
Final(c) == CASE c \in {"startup", "continue"} -> {"RUNNING"}
              [] c = "pause" -> {"PAUSED"}
              [] OTHER -> {}
Event(c) == IF c = "shutdown" THEN "stop" ELSE c

SetsStatus(states) == IF states = {} THEN UNCHANGED <<status, reported>>
                      ELSE \E state \in states : setStatus(state)

lock(t) == /\ Moves(t, "enter", IF code[t] = "interrogate" THEN "woken" ELSE "posting")
           /\ mutex = Nobody /\ mutex' = t
           /\ SetsStatus(Pending(code[t]))
           /\ UNCHANGED <<settings, code, waiting, semaphores, events, quit, application,
                          told, controls>>

(* The mutex is released by wait(), together with the beginning of it. *)
post(t) == /\ Moves(t, "posting", "waiting")
           /\ events' = Append(events, Event(code[t]))
           /\ waiting' = waiting \cup {t}
           /\ mutex' = Nobody
           /\ UNCHANGED <<settings, code, semaphores, quit, application, status, reported,
                          told, controls>>

wait(t) == /\ Moves(t, "waiting", "woken")
           /\ t \notin waiting
           /\ mutex = Nobody /\ mutex' = t
           /\ UNCHANGED <<settings, code, waiting, semaphores, events, quit, application,
                          status, reported, told, controls>>

unlock(t) == /\ Moves(t, "woken", "leaving")
             /\ SetsStatus(Final(code[t]))
             /\ mutex' = Nobody
             /\ UNCHANGED <<settings, code, waiting, semaphores, events, quit, application,
                            told, controls>>

(* The status is looked at and reported once more, without the mutex. *)
look(t) == /\ Moves(t, "leaving", "reporting")
           /\ told' = [told EXCEPT ![t] = status]
           /\ UNCHANGED <<settings, code, mutex, waiting, semaphores, events, quit,
                          application, status, reported, controls>>

report(t) == /\ Moves(t, "reporting", IF t = "Starter" THEN "done" ELSE "idle")
             /\ reported' = IF told[t] # "STOPPED" THEN told[t] ELSE reported
             /\ UNCHANGED <<settings, code, mutex, waiting, semaphores, events, quit,
                            application, status, told, controls>>

handler(t) == lock(t) \/ post(t) \/ wait(t) \/ unlock(t) \/ look(t) \/ report(t)

-----------------------------------------------------------------------------
(* The manager and its two threads. *)

(* HandlerThread::run(): the dispatcher calls serviceMain(), or returns.   *)
dispatch ==
    /\ pc["Main"] # "gone" /\ pc["Handler"] = "dispatch"
    /\ IF mode = "service"
       THEN /\ pc' = [pc EXCEPT !["Handler"] = "idle", !["Starter"] = "main"]
            /\ UNCHANGED startSemaphore
       ELSE /\ pc' = [pc EXCEPT !["Handler"] = "done"]
            /\ startSemaphore' = startSemaphore + 1
    /\ UNCHANGED <<settings, code, mutex, waiting, startSemaphore2, events, quit, application,
                   status, reported, told, controls>>

serviceMain == /\ Moves("Starter", "main", "acquire")
               /\ startSemaphore' = startSemaphore + 1
               /\ UNCHANGED <<settings, code, mutex, waiting, startSemaphore2, events, quit,
                              application, status, reported, told, controls>>

RegisterServiceCtrlHandler ==
    /\ Moves("Starter", "acquire", "enter")
    /\ startSemaphore2 > 0 /\ startSemaphore2' = startSemaphore2 - 1
    /\ UNCHANGED <<settings, code, mutex, waiting, startSemaphore, events, quit, application,
                   status, reported, told, controls>>

dwControlsAccepted ==
    {"user"} \cup
    (IF "CanBeSuspended" \in serviceFlags THEN {"pause", "continue"} ELSE {}) \cup
    (IF "CannotBeStopped" \in serviceFlags THEN {} ELSE {"stop"}) \cup
    (IF "NeedsStopOnShutdown" \in serviceFlags THEN {"shutdown"} ELSE {})

Accepts(c) == \/ c = "interrogate"
              \/ c \in dwControlsAccepted
                 /\ reported \in {"RUNNING", "PAUSED", "PAUSE_PENDING", "CONTINUE_PENDING"}

(* The manager sends nothing while the service starts, stops or is stopped *)
(* but the question for its status.                                        *)
ControlService(c) ==
    /\ Moves("Handler", "idle", "enter")
    /\ pc["Starter"] \in HandlerPC \cup {"done"}
    /\ reported # "STOPPED" /\ Accepts(c)
    /\ controls < MaxControls /\ controls' = controls + 1
    /\ code' = [code EXCEPT !["Handler"] = c]
    /\ UNCHANGED <<settings, mutex, waiting, semaphores, events, quit, application, status,
                   reported, told>>

dispatcherReturns == /\ Moves("Handler", "idle", "done")
                     /\ reported = "STOPPED"
                     /\ UNCHANGED <<settings, code, mutex, waiting, semaphores, events, quit,
                                    application, status, reported, told, controls>>

-----------------------------------------------------------------------------
(* start() *)

startThread == /\ pc["Main"] = "init"
               /\ pc' = [pc EXCEPT !["Main"] = "acquire", !["Handler"] = "dispatch"]
               /\ UNCHANGED <<settings, code, mutex, waiting, semaphores, events, quit,
                              application, status, reported, told, controls>>

(* Mutant: serviceMain() is not told to continue. *)
createApplication_unreleased ==
    /\ Moves("Main", "acquire", IF mode = "service" THEN "loop" ELSE "gone")
    /\ startSemaphore > 0 /\ startSemaphore' = startSemaphore - 1
    /\ UNCHANGED <<settings, code, mutex, waiting, startSemaphore2, events, quit, application,
                   status, reported, told, controls>>

(* On a console the manager is asked to start another process. *)
createApplication ==
    /\ Moves("Main", "acquire", IF mode = "service" THEN "loop" ELSE "gone")
    /\ startSemaphore > 0 /\ startSemaphore' = startSemaphore - 1
    /\ startSemaphore2' = IF mode = "service" THEN startSemaphore2 + 1 ELSE startSemaphore2
    /\ UNCHANGED <<settings, code, mutex, waiting, events, quit, application, status,
                   reported, told, controls>>

(* The timeout of 20 seconds. *)
giveUp == /\ Moves("Main", "acquire", "gone")
          /\ startSemaphore = 0
          /\ UNCHANGED <<settings, code, mutex, waiting, semaphores, events, quit, application,
                         status, reported, told, controls>>

(* start() of main.cpp quits if the server does not listen; stop() does    *)
(* nothing there, and processCommand() neither.                            *)
handleCustomEvent ==
    /\ Moves("Main", "loop", "wake")
    /\ events # <<>> /\ events' = Tail(events)
    /\ LET c == Head(events)
       IN /\ application' = CASE c \in {"startup", "continue"} -> "started"
                              [] c = "pause" -> "paused"
                              [] c = "stop" -> "stopped"
                              [] OTHER -> application
          /\ quit' = (quit \/ c = "stop" \/ (c = "startup" /\ ~isListening))
    /\ UNCHANGED <<settings, code, mutex, waiting, semaphores, status, reported, told, controls>>

wakeAll == /\ Moves("Main", "wake", "loop")
           /\ mutex = Nobody
           /\ waiting' = {}
           /\ UNCHANGED <<settings, code, mutex, semaphores, events, quit, application, status,
                          reported, told, controls>>

executeApplicationReturns ==
    /\ Moves("Main", "loop", "wait")
    /\ quit
    /\ setStatus("STOPPED")
    /\ UNCHANGED <<settings, code, mutex, waiting, semaphores, events, quit, application,
                   told, controls>>

(* Mutant: the wait for the handler thread has no timeout. *)
cleanUp_joined == /\ Moves("Main", "wait", "gone")
                  /\ pc["Handler"] = "done"
                  /\ events' = <<>>
                  /\ UNCHANGED <<settings, code, mutex, waiting, semaphores, quit, application,
                                 status, reported, told, controls>>

(* After ht->wait(1000), that is when the handler thread has ended or the  *)
(* second is over.                                                         *)
cleanUp == /\ Moves("Main", "wait", "gone")
           /\ events' = <<>>
           /\ UNCHANGED <<settings, code, mutex, waiting, semaphores, quit, application, status,
                          reported, told, controls>>

Main == \/ startThread \/ createApplication \/ handleCustomEvent \/ wakeAll
        \/ executeApplicationReturns \/ cleanUp
Starter == serviceMain \/ RegisterServiceCtrlHandler \/ handler("Starter")
Handler == dispatch \/ dispatcherReturns \/ handler("Handler")

Next == Main \/ giveUp \/ Starter \/ Handler \/ \E c \in Code : ControlService(c)

Spec == Init /\ [][Next]_vars

(* Threads run.  Time-outs and controls need not happen. *)
FairSpec == Spec /\ WF_vars(Main) /\ WF_vars(Starter) /\ WF_vars(Handler)

-----------------------------------------------------------------------------
(* The status is written running or paused only when the application has   *)
(* been started, resumed or paused, although another thread writes it      *)
(* (qtservice_win.cpp:603-656).                                            *)
StatusIsTrue == /\ status = "RUNNING" => application = "started"
                /\ status = "PAUSED" => application = "paused"

(* Two threads never wait at the same time, so wakeAll() wakes the one     *)
(* whose event was handled (qtservice_win.cpp:598-600, :613).              *)
OneWaits == waiting # Thread

(* The start, for which three threads wait for one another, comes to an    *)
(* end: the application is started, or start() returns                     *)
(* (qtservice_win.cpp:541-566, :808-841).                                  *)
StartEnds == pc["Main"] = "acquire" ~> (application # "none" \/ pc["Main"] = "gone")

(* A stop that the manager delivers ends the process, whatever the threads *)
(* wait for: the handler for the event loop, the loop for the mutex, the   *)
(* end of start() for the handler (qtservice_win.cpp:618-624, :841-846).   *)
StopEnds == pc["Handler"] = "enter" /\ code["Handler"] = "stop" ~> pc["Main"] = "gone"
=============================================================================
