--------------------------- MODULE WinService_proof ---------------------------
(***************************************************************************)
(* Theorems about WinService for every number of controls, every set of    *)
(* controls and the flags of the service, with or without the port and     *)
(* the manager.                                                            *)
(*                                                                         *)
(* What makes the handler safe is not the mutex alone, which is given up   *)
(* while a thread waits, but that the manager is told START_PENDING until  *)
(* the start is handled: it then sends nothing that has to wait (Starting).*)
(* So the one thread that waits has its own event in the queue, or has     *)
(* been served (Handled).                                                  *)
(***************************************************************************)
EXTENDS WinService, SequenceTheorems, TLAPS

StartingPC == {"none", "main", "acquire", "enter", "posting", "waiting", "woken"}
BeforeEnd == {"START_PENDING", "STOPPED"}

(* No semaphore is released twice. *)
Semaphores ==
    /\ pc["Main"] = "init" => /\ pc["Starter"] = "none" /\ pc["Handler"] = "none"
                              /\ startSemaphore = 0
    /\ pc["Main"] \in {"init", "acquire"} => startSemaphore2 = 0
    /\ pc["Handler"] = "dispatch" => pc["Starter"] = "none" /\ startSemaphore = 0
    /\ pc["Starter"] = "main" => startSemaphore = 0

(* Until the start is handled the status does not invite a control that    *)
(* has to wait.                                                            *)
Starting ==
    /\ code["Starter"] = "startup"
    /\ pc["Handler"] \in HandlerPC => code["Handler"] \in Control
    /\ pc["Handler"] \in {"posting", "waiting"} => code["Handler"] # "interrogate"
    /\ pc["Starter"] \in StartingPC =>
          /\ status \in BeforeEnd /\ reported \in BeforeEnd /\ told["Handler"] \in BeforeEnd
          /\ pc["Handler"] \in HandlerPC => code["Handler"] = "interrogate"

(* Who waits on the condition is at the wait. *)
AtWait == \A t \in Thread : t \in waiting => pc[t] = "waiting"

IInv == TypeOK /\ Semaphores /\ Starting /\ AtWait

-----------------------------------------------------------------------------
(* Type correctness. *)

LEMMA EventTypes ==
    \A c \in Control \cup {"startup"} : Event(c) \in Control \cup {"startup"}
BY DEF Event, Control

LEMMA StatusTypes ==
    ASSUME NEW c \in Control \cup {"startup"}
    PROVE  Pending(c) \subseteq Status /\ Final(c) \subseteq Status
BY DEF Pending, Final, Control, Status

LEMMA InitIInv == Init => IInv
<1>. SUFFICES ASSUME Init PROVE IInv
     OBVIOUS
<1>1. /\ pc["Main"] = "init" /\ pc["Starter"] = "none" /\ pc["Handler"] = "none"
      /\ pc \in [{"Main"} \cup Thread -> MainPC \cup StarterPC \cup DispatcherPC]
      BY DEF Init, Thread, MainPC, StarterPC, DispatcherPC
<1>2. code \in [Thread -> Control \cup {"startup"}] /\ code["Starter"] = "startup"
      BY DEF Init, Thread
<1>3. told \in [Thread -> Status] /\ told["Handler"] = "STOPPED"
      BY DEF Init, Thread, Status
<1>4. TypeOK
  <2>1. mode \in {"service", "console", "failed"} /\ isListening \in BOOLEAN
        BY DEF Init
  <2>2. quit \in BOOLEAN /\ application \in {"none", "started", "paused", "stopped"}
        BY DEF Init
  <2>3. events \in Seq(Control \cup {"startup"})
        BY EmptySeq DEF Init
  <2>4. controls \in 0 .. MaxControls /\ startSemaphore \in 0 .. 1 /\ startSemaphore2 \in 0 .. 1
        BY WinServiceAssumption DEF Init
  <2>5. /\ status \in Status /\ reported \in Status
        /\ mutex \in Thread \cup {Nobody} /\ waiting \subseteq Thread
        BY DEF Init, Status
  <2>6. pc["Main"] \in MainPC /\ pc["Starter"] \in StarterPC /\ pc["Handler"] \in DispatcherPC
        BY <1>1 DEF MainPC, StarterPC, DispatcherPC
  <2>. QED  BY <1>1, <1>2, <1>3, <2>1, <2>2, <2>3, <2>4, <2>5, <2>6 DEF TypeOK
<1>. QED  BY <1>1, <1>2, <1>3, <1>4
          DEF Init, IInv, Semaphores, Starting, AtWait, HandlerPC, BeforeEnd

InPlace == /\ pc["Main"] \in MainPC /\ pc["Starter"] \in StarterPC
           /\ pc["Handler"] \in DispatcherPC

(* A thread moves on, and no other does. *)
Moved(t, from, to) ==
    /\ pc' \in [{"Main"} \cup Thread -> MainPC \cup StarterPC \cup DispatcherPC]
    /\ pc[t] = from /\ pc'[t] = to /\ pc["Main"] # "gone"
    /\ \A u \in {"Main"} \cup Thread : u # t => pc'[u] = pc[u]

LEMMA MovesFacts ==
    ASSUME TypeOK, NEW t \in {"Main"} \cup Thread, NEW from, NEW to, Moves(t, from, to),
           to \in MainPC \cup StarterPC \cup DispatcherPC
    PROVE  Moved(t, from, to)
BY DEF TypeOK, Moves, Moved

LEMMA LockStep == ASSUME IInv, NEW t \in Thread, lock(t) PROVE IInv'
<1>. DEFINE to == IF code[t] = "interrogate" THEN "woken" ELSE "posting"
<1>1. Moved(t, "enter", to)
  <2>1. Moves(t, "enter", to) /\ to \in {"woken", "posting"}
        BY DEF lock
  <2>. HIDE DEF to
  <2>. QED  BY <2>1, MovesFacts DEF IInv, HandlerPC, StarterPC
<1>2. to \in {"woken", "posting"} /\ (to = "posting" => code[t] # "interrogate")
      OBVIOUS
<1>. HIDE DEF to
<1>3. code[t] \in Control \cup {"startup"}
      BY DEF IInv, TypeOK
<1>4. status' \in Status /\ reported' \in Status
      BY <1>3, StatusTypes DEF IInv, TypeOK, lock, SetsStatus, setStatus
<1>5. TypeOK'
  <2>1. InPlace'
        BY <1>1, <1>2 DEF InPlace, Moved, IInv, TypeOK, Thread, StarterPC, DispatcherPC,
           HandlerPC
  <2>. QED  BY <1>1, <1>4, <2>1 DEF Moved, IInv, TypeOK, InPlace, lock, settings, semaphores
<1>6. Semaphores'
      BY <1>1, <1>2 DEF Moved, IInv, Semaphores, lock, semaphores, Thread
<1>7. Starting'
      BY <1>1, <1>2, <1>3 DEF Moved, IInv, Starting, lock, Thread, StartingPC, BeforeEnd,
         SetsStatus, setStatus, Pending, HandlerPC
<1>8. AtWait'
      BY <1>1, <1>2 DEF Moved, IInv, AtWait, lock, Thread
<1>. QED  BY <1>5, <1>6, <1>7, <1>8 DEF IInv

LEMMA PostStep == ASSUME IInv, NEW t \in Thread, post(t) PROVE IInv'
<1>1. Moved(t, "posting", "waiting")
      BY MovesFacts DEF IInv, post, Thread, HandlerPC, MainPC, StarterPC, DispatcherPC
<1>2. events' \in Seq(Control \cup {"startup"}) /\ waiting' \subseteq Thread
      BY EventTypes, AppendProperties DEF IInv, TypeOK, post
<1>3. TypeOK'
  <2>1. InPlace'
        BY <1>1 DEF InPlace, Moved, IInv, TypeOK, Thread, MainPC, StarterPC,
           DispatcherPC, HandlerPC
  <2>. QED  BY <1>1, <1>2, <2>1 DEF Moved, IInv, TypeOK, InPlace, post, settings, semaphores
<1>4. Semaphores'
      BY <1>1 DEF Moved, IInv, Semaphores, post, semaphores, Thread
<1>5. Starting'
      BY <1>1 DEF Moved, IInv, Starting, post, Thread, StartingPC, BeforeEnd, HandlerPC
<1>6. AtWait'
      BY <1>1 DEF Moved, IInv, AtWait, post, Thread
<1>. QED  BY <1>3, <1>4, <1>5, <1>6 DEF IInv

LEMMA WaitStep == ASSUME IInv, NEW t \in Thread, wait(t) PROVE IInv'
<1>1. Moved(t, "waiting", "woken")
      BY MovesFacts DEF IInv, wait, Thread, HandlerPC, MainPC, StarterPC, DispatcherPC
<1>3. TypeOK'
  <2>1. InPlace'
        BY <1>1 DEF InPlace, Moved, IInv, TypeOK, Thread, MainPC, StarterPC,
           DispatcherPC, HandlerPC
  <2>. QED  BY <1>1, <2>1 DEF Moved, IInv, TypeOK, InPlace, wait, settings, semaphores
<1>4. Semaphores'
      BY <1>1 DEF Moved, IInv, Semaphores, wait, semaphores, Thread
<1>5. Starting'
      BY <1>1 DEF Moved, IInv, Starting, wait, Thread, StartingPC, BeforeEnd, HandlerPC
<1>6. AtWait'
      BY <1>1 DEF Moved, IInv, AtWait, wait, Thread
<1>. QED  BY <1>3, <1>4, <1>5, <1>6 DEF IInv

LEMMA UnlockStep == ASSUME IInv, NEW t \in Thread, unlock(t) PROVE IInv'
<1>1. Moved(t, "woken", "leaving")
      BY MovesFacts DEF IInv, unlock, Thread, HandlerPC, MainPC, StarterPC, DispatcherPC
<1>2. status' \in Status /\ reported' \in Status
      BY StatusTypes DEF IInv, TypeOK, unlock, SetsStatus, setStatus
<1>3. TypeOK'
  <2>1. InPlace'
        BY <1>1 DEF InPlace, Moved, IInv, TypeOK, Thread, MainPC, StarterPC,
           DispatcherPC, HandlerPC
  <2>. QED  BY <1>1, <1>2, <2>1 DEF Moved, IInv, TypeOK, InPlace, unlock, settings, semaphores
<1>4. Semaphores'
      BY <1>1 DEF Moved, IInv, Semaphores, unlock, semaphores, Thread
<1>5. Starting'
      BY <1>1 DEF Moved, IInv, Starting, unlock, Thread, StartingPC, BeforeEnd,
         HandlerPC, SetsStatus, setStatus, Final, Control
<1>6. AtWait'
      BY <1>1 DEF Moved, IInv, AtWait, unlock, Thread
<1>. QED  BY <1>3, <1>4, <1>5, <1>6 DEF IInv

LEMMA LookStep == ASSUME IInv, NEW t \in Thread, look(t) PROVE IInv'
<1>1. Moved(t, "leaving", "reporting")
      BY MovesFacts DEF IInv, look, Thread, HandlerPC, MainPC, StarterPC, DispatcherPC
<1>2. told' \in [Thread -> Status]
      BY DEF IInv, TypeOK, look
<1>3. TypeOK'
  <2>1. InPlace'
        BY <1>1 DEF InPlace, Moved, IInv, TypeOK, Thread, MainPC, StarterPC,
           DispatcherPC, HandlerPC
  <2>. QED  BY <1>1, <1>2, <2>1 DEF Moved, IInv, TypeOK, InPlace, look, settings, semaphores
<1>4. Semaphores'
      BY <1>1 DEF Moved, IInv, Semaphores, look, semaphores, Thread
<1>5. Starting'
      BY <1>1 DEF Moved, IInv, Starting, look, Thread, StartingPC, BeforeEnd, HandlerPC,
         TypeOK
<1>6. AtWait'
      BY <1>1 DEF Moved, IInv, AtWait, look, Thread
<1>. QED  BY <1>3, <1>4, <1>5, <1>6 DEF IInv

LEMMA ReportStep == ASSUME IInv, NEW t \in Thread, report(t) PROVE IInv'
<1>1. Moved(t, "reporting", IF t = "Starter" THEN "done" ELSE "idle")
      BY MovesFacts DEF IInv, report, Thread, HandlerPC, MainPC, StarterPC, DispatcherPC
<1>2. reported' \in Status
      BY DEF IInv, TypeOK, report
<1>3. TypeOK'
  <2>1. InPlace'
        BY <1>1 DEF InPlace, Moved, IInv, TypeOK, Thread, MainPC, StarterPC,
           DispatcherPC, HandlerPC
  <2>. QED  BY <1>1, <1>2, <2>1 DEF Moved, IInv, TypeOK, InPlace, report, settings, semaphores
<1>4. Semaphores'
      BY <1>1 DEF Moved, IInv, Semaphores, report, semaphores, Thread
<1>5. Starting'
      BY <1>1 DEF Moved, IInv, Starting, report, Thread, StartingPC, BeforeEnd,
         HandlerPC, TypeOK
<1>6. AtWait'
      BY <1>1 DEF Moved, IInv, AtWait, report, Thread
<1>. QED  BY <1>3, <1>4, <1>5, <1>6 DEF IInv

LEMMA ServiceMainStep == ASSUME IInv, serviceMain PROVE IInv'
<1>1. Moved("Starter", "main", "acquire")
      BY MovesFacts DEF IInv, serviceMain, Thread, HandlerPC, MainPC, StarterPC,
         DispatcherPC
<1>2. startSemaphore' \in 0 .. 1
      BY <1>1 DEF Moved, IInv, Semaphores, serviceMain
<1>3. TypeOK'
  <2>1. InPlace'
        BY <1>1 DEF InPlace, Moved, IInv, TypeOK, Thread, MainPC, StarterPC,
           DispatcherPC, HandlerPC
  <2>. QED  BY <1>1, <1>2, <2>1 DEF Moved, IInv, TypeOK, InPlace, serviceMain, settings, semaphores
<1>4. Semaphores'
      BY <1>1 DEF Moved, IInv, Semaphores, serviceMain, semaphores, Thread
<1>5. Starting'
      BY <1>1 DEF Moved, IInv, Starting, serviceMain, Thread, StartingPC, BeforeEnd,
         HandlerPC
<1>6. AtWait'
      BY <1>1 DEF Moved, IInv, AtWait, serviceMain, Thread
<1>. QED  BY <1>3, <1>4, <1>5, <1>6 DEF IInv

LEMMA RegisterStep == ASSUME IInv, RegisterServiceCtrlHandler PROVE IInv'
<1>1. Moved("Starter", "acquire", "enter")
      BY MovesFacts DEF IInv, RegisterServiceCtrlHandler, Thread, HandlerPC, MainPC,
         StarterPC, DispatcherPC
<1>3. TypeOK'
  <2>1. InPlace'
        BY <1>1 DEF InPlace, Moved, IInv, TypeOK, Thread, MainPC, StarterPC,
           DispatcherPC, HandlerPC
  <2>. QED  BY <1>1, <2>1 DEF Moved, IInv, TypeOK, InPlace, RegisterServiceCtrlHandler, settings,
     semaphores
<1>4. Semaphores'
      BY <1>1 DEF Moved, IInv, Semaphores, RegisterServiceCtrlHandler, semaphores, Thread
<1>5. Starting'
      BY <1>1 DEF Moved, IInv, Starting, RegisterServiceCtrlHandler, Thread, StartingPC,
         BeforeEnd, HandlerPC
<1>6. AtWait'
      BY <1>1 DEF Moved, IInv, AtWait, RegisterServiceCtrlHandler, Thread
<1>. QED  BY <1>3, <1>4, <1>5, <1>6 DEF IInv

LEMMA DispatchStep == ASSUME IInv, dispatch PROVE IInv'
<1>1. /\ pc' \in [{"Main"} \cup Thread -> MainPC \cup StarterPC \cup DispatcherPC]
      /\ pc'["Main"] = pc["Main"] /\ pc["Main"] # "gone" /\ pc["Handler"] = "dispatch"
      /\ pc'["Starter"] = IF mode = "service" THEN "main" ELSE pc["Starter"]
      /\ pc'["Handler"] = IF mode = "service" THEN "idle" ELSE "done"
      BY DEF IInv, TypeOK, dispatch, Thread, StarterPC, DispatcherPC
<1>2. TypeOK'
  <2>1. InPlace'
        BY <1>1 DEF InPlace, IInv, TypeOK, StarterPC, DispatcherPC
  <2>2. startSemaphore' \in 0 .. 1
        BY <1>1 DEF IInv, TypeOK, Semaphores, dispatch
  <2>. QED  BY <1>1, <2>1, <2>2 DEF InPlace, IInv, TypeOK, dispatch, settings
<1>3. Semaphores'
      BY <1>1 DEF IInv, Semaphores, dispatch, Thread
<1>4. Starting'
      BY <1>1 DEF IInv, Semaphores, Starting, dispatch, StartingPC, BeforeEnd, HandlerPC
<1>5. AtWait'
      BY <1>1 DEF IInv, Semaphores, AtWait, dispatch, Thread
<1>. QED  BY <1>2, <1>3, <1>4, <1>5 DEF IInv

LEMMA ControlStep == ASSUME IInv, NEW c \in Code, ControlService(c) PROVE IInv'
<1>1. Moved("Handler", "idle", "enter")
      BY MovesFacts DEF IInv, ControlService, Thread, HandlerPC, MainPC, StarterPC,
         DispatcherPC
<1>2. /\ code' \in [Thread -> Control \cup {"startup"}] /\ controls' \in 0 .. MaxControls
      /\ code'["Handler"] = c /\ c \in Control /\ code'["Starter"] = code["Starter"]
      /\ reported \in BeforeEnd => c = "interrogate"
  <2>1. c \in Control
        BY WinServiceAssumption
  <2>2. reported \in BeforeEnd => c = "interrogate"
        BY DEF ControlService, Accepts, BeforeEnd
  <2>3. controls' \in 0 .. MaxControls
        BY WinServiceAssumption DEF IInv, TypeOK, ControlService
  <2>. QED  BY <2>1, <2>2, <2>3 DEF InPlace, IInv, TypeOK, ControlService, Thread
<1>3. TypeOK'
  <2>1. InPlace'
        BY <1>1 DEF InPlace, Moved, IInv, TypeOK, Thread, MainPC, StarterPC,
           DispatcherPC, HandlerPC
  <2>. QED  BY <1>1, <1>2, <2>1 DEF Moved, IInv, TypeOK, InPlace, ControlService, settings,
     semaphores
<1>4. Semaphores'
      BY <1>1 DEF Moved, IInv, Semaphores, ControlService, semaphores, Thread
<1>5. Starting'
      BY <1>1, <1>2 DEF Moved, IInv, Starting, ControlService, Thread, StartingPC,
         BeforeEnd, HandlerPC
<1>6. AtWait'
      BY <1>1 DEF Moved, IInv, AtWait, ControlService, Thread
<1>. QED  BY <1>3, <1>4, <1>5, <1>6 DEF IInv

LEMMA ReturnStep == ASSUME IInv, dispatcherReturns PROVE IInv'
<1>1. Moved("Handler", "idle", "done")
      BY MovesFacts DEF IInv, dispatcherReturns, Thread, HandlerPC, MainPC, StarterPC,
         DispatcherPC
<1>3. TypeOK'
  <2>1. InPlace'
        BY <1>1 DEF InPlace, Moved, IInv, TypeOK, Thread, MainPC, StarterPC,
           DispatcherPC, HandlerPC
  <2>. QED  BY <1>1, <2>1 DEF Moved, IInv, TypeOK, InPlace, dispatcherReturns, settings, semaphores
<1>4. Semaphores'
      BY <1>1 DEF Moved, IInv, Semaphores, dispatcherReturns, semaphores, Thread
<1>5. Starting'
      BY <1>1 DEF Moved, IInv, Starting, dispatcherReturns, Thread, StartingPC,
         BeforeEnd, HandlerPC
<1>6. AtWait'
      BY <1>1 DEF Moved, IInv, AtWait, dispatcherReturns, Thread
<1>. QED  BY <1>3, <1>4, <1>5, <1>6 DEF IInv

LEMMA CreateStep == ASSUME IInv, createApplication PROVE IInv'
<1>1. Moved("Main", "acquire", IF mode = "service" THEN "loop" ELSE "gone")
      BY MovesFacts DEF IInv, createApplication, Thread, HandlerPC, MainPC, StarterPC,
         DispatcherPC
<1>2. startSemaphore' \in 0 .. 1 /\ startSemaphore2' \in 0 .. 1
      BY <1>1 DEF Moved, IInv, TypeOK, Semaphores, createApplication
<1>3. TypeOK'
  <2>1. InPlace'
        BY <1>1 DEF InPlace, Moved, IInv, TypeOK, Thread, MainPC, StarterPC,
           DispatcherPC, HandlerPC
  <2>. QED  BY <1>1, <1>2, <2>1 DEF Moved, IInv, TypeOK, InPlace, createApplication, settings,
     semaphores
<1>4. Semaphores'
      BY <1>1 DEF Moved, IInv, Semaphores, createApplication, semaphores, Thread
<1>5. Starting'
      BY <1>1 DEF Moved, IInv, Starting, createApplication, Thread, StartingPC,
         BeforeEnd, HandlerPC
<1>6. AtWait'
      BY <1>1 DEF Moved, IInv, AtWait, createApplication, Thread
<1>. QED  BY <1>3, <1>4, <1>5, <1>6 DEF IInv

LEMMA GiveUpStep == ASSUME IInv, giveUp PROVE IInv'
<1>1. Moved("Main", "acquire", "gone")
      BY MovesFacts DEF IInv, giveUp, Thread, HandlerPC, MainPC, StarterPC, DispatcherPC
<1>3. TypeOK'
  <2>1. InPlace'
        BY <1>1 DEF InPlace, Moved, IInv, TypeOK, Thread, MainPC, StarterPC,
           DispatcherPC, HandlerPC
  <2>. QED  BY <1>1, <2>1 DEF Moved, IInv, TypeOK, InPlace, giveUp, settings, semaphores
<1>4. Semaphores'
      BY <1>1 DEF Moved, IInv, Semaphores, giveUp, semaphores, Thread
<1>5. Starting'
      BY <1>1 DEF Moved, IInv, Starting, giveUp, Thread, StartingPC, BeforeEnd, HandlerPC
<1>6. AtWait'
      BY <1>1 DEF Moved, IInv, AtWait, giveUp, Thread
<1>. QED  BY <1>3, <1>4, <1>5, <1>6 DEF IInv

LEMMA EventStep == ASSUME IInv, handleCustomEvent PROVE IInv'
<1>1. Moved("Main", "loop", "wake")
      BY MovesFacts DEF IInv, handleCustomEvent, Thread, HandlerPC, MainPC, StarterPC,
         DispatcherPC
<1>2. /\ events' \in Seq(Control \cup {"startup"}) /\ quit' \in BOOLEAN
      /\ application' \in {"none", "started", "paused", "stopped"}
  <2>1. events' \in Seq(Control \cup {"startup"})
        BY HeadTailProperties DEF IInv, TypeOK, handleCustomEvent
  <2>2. application' \in {"none", "started", "paused", "stopped"}
        BY DEF IInv, TypeOK, handleCustomEvent
  <2>3. quit' \in BOOLEAN
        BY DEF IInv, TypeOK, handleCustomEvent
  <2>. QED  BY <2>1, <2>2, <2>3
<1>3. TypeOK'
  <2>1. InPlace'
        BY <1>1 DEF InPlace, Moved, IInv, TypeOK, Thread, MainPC, StarterPC,
           DispatcherPC, HandlerPC
  <2>. QED  BY <1>1, <1>2, <2>1 DEF Moved, IInv, TypeOK, InPlace, handleCustomEvent, settings,
     semaphores
<1>4. Semaphores'
      BY <1>1 DEF Moved, IInv, Semaphores, handleCustomEvent, semaphores, Thread
<1>5. Starting'
      BY <1>1 DEF Moved, IInv, Starting, handleCustomEvent, Thread, StartingPC,
         BeforeEnd, HandlerPC
<1>6. AtWait'
      BY <1>1 DEF Moved, IInv, AtWait, handleCustomEvent, Thread
<1>. QED  BY <1>3, <1>4, <1>5, <1>6 DEF IInv

LEMMA WakeStep == ASSUME IInv, wakeAll PROVE IInv'
<1>1. Moved("Main", "wake", "loop")
      BY MovesFacts DEF IInv, wakeAll, Thread, HandlerPC, MainPC, StarterPC, DispatcherPC
<1>3. TypeOK'
  <2>1. InPlace'
        BY <1>1 DEF InPlace, Moved, IInv, TypeOK, Thread, MainPC, StarterPC,
           DispatcherPC, HandlerPC
  <2>. QED  BY <1>1, <2>1 DEF Moved, IInv, TypeOK, InPlace, wakeAll, settings, semaphores
<1>4. Semaphores'
      BY <1>1 DEF Moved, IInv, Semaphores, wakeAll, semaphores, Thread
<1>5. Starting'
      BY <1>1 DEF Moved, IInv, Starting, wakeAll, Thread, StartingPC, BeforeEnd, HandlerPC
<1>6. AtWait'
      BY <1>1 DEF Moved, IInv, AtWait, wakeAll, Thread
<1>. QED  BY <1>3, <1>4, <1>5, <1>6 DEF IInv

LEMMA ExecuteStep == ASSUME IInv, executeApplicationReturns PROVE IInv'
<1>1. Moved("Main", "loop", "wait")
      BY MovesFacts DEF IInv, executeApplicationReturns, Thread, HandlerPC, MainPC,
         StarterPC, DispatcherPC
<1>2. status' \in Status /\ reported' \in Status
      BY DEF executeApplicationReturns, setStatus, Status
<1>3. TypeOK'
  <2>1. InPlace'
        BY <1>1 DEF InPlace, Moved, IInv, TypeOK, Thread, MainPC, StarterPC,
           DispatcherPC, HandlerPC
  <2>. QED  BY <1>1, <1>2, <2>1 DEF Moved, IInv, TypeOK, InPlace, executeApplicationReturns,
     settings, semaphores
<1>4. Semaphores'
      BY <1>1 DEF Moved, IInv, Semaphores, executeApplicationReturns, semaphores, Thread
<1>5. Starting'
      BY <1>1 DEF Moved, IInv, Starting, executeApplicationReturns, Thread, StartingPC,
         BeforeEnd, HandlerPC, setStatus
<1>6. AtWait'
      BY <1>1 DEF Moved, IInv, AtWait, executeApplicationReturns, Thread
<1>. QED  BY <1>3, <1>4, <1>5, <1>6 DEF IInv

LEMMA CleanUpStep == ASSUME IInv, cleanUp PROVE IInv'
<1>1. Moved("Main", "wait", "gone")
      BY MovesFacts DEF IInv, cleanUp, Thread, HandlerPC, MainPC, StarterPC, DispatcherPC
<1>2. events' \in Seq(Control \cup {"startup"})
      BY EmptySeq DEF cleanUp
<1>3. TypeOK'
  <2>1. InPlace'
        BY <1>1 DEF InPlace, Moved, IInv, TypeOK, Thread, MainPC, StarterPC,
           DispatcherPC, HandlerPC
  <2>. QED  BY <1>1, <1>2, <2>1 DEF Moved, IInv, TypeOK, InPlace, cleanUp, settings, semaphores
<1>4. Semaphores'
      BY <1>1 DEF Moved, IInv, Semaphores, cleanUp, semaphores, Thread
<1>5. Starting'
      BY <1>1 DEF Moved, IInv, Starting, cleanUp, Thread, StartingPC, BeforeEnd, HandlerPC
<1>6. AtWait'
      BY <1>1 DEF Moved, IInv, AtWait, cleanUp, Thread
<1>. QED  BY <1>3, <1>4, <1>5, <1>6 DEF IInv

LEMMA StartThreadStep == ASSUME IInv, startThread PROVE IInv'
<1>1. /\ pc' \in [{"Main"} \cup Thread -> MainPC \cup StarterPC \cup DispatcherPC]
      /\ pc'["Main"] = "acquire" /\ pc["Main"] = "init"
      /\ pc'["Starter"] = pc["Starter"] /\ pc'["Handler"] = "dispatch"
      BY DEF IInv, TypeOK, startThread, Thread, MainPC, DispatcherPC
<1>2. TypeOK'
  <2>1. InPlace'
        BY <1>1 DEF InPlace, IInv, TypeOK, MainPC, DispatcherPC
  <2>. QED  BY <1>1, <2>1 DEF InPlace, IInv, TypeOK, startThread, settings, semaphores
<1>3. Semaphores'
      BY <1>1 DEF IInv, Semaphores, startThread, semaphores
<1>4. Starting'
      BY <1>1 DEF IInv, Starting, startThread, StartingPC, HandlerPC
<1>5. AtWait'
      BY <1>1 DEF IInv, Semaphores, AtWait, startThread, Thread
<1>. QED  BY <1>2, <1>3, <1>4, <1>5 DEF IInv

LEMMA NextIInv == ASSUME IInv, [Next]_vars PROVE IInv'
<1>1. CASE Main
      BY <1>1, StartThreadStep, CreateStep, EventStep, WakeStep, ExecuteStep, CleanUpStep
         DEF Main
<1>2. CASE giveUp
      BY <1>2, GiveUpStep
<1>3. ASSUME NEW t \in Thread, handler(t) PROVE IInv'
      BY <1>3, LockStep, PostStep, WaitStep, UnlockStep, LookStep, ReportStep DEF handler
<1>4. CASE Starter
      BY <1>3, <1>4, ServiceMainStep, RegisterStep DEF Starter, Thread
<1>5. CASE Handler
      BY <1>3, <1>5, DispatchStep, ReturnStep DEF Handler, Thread
<1>6. CASE \E c \in Code : ControlService(c)
      BY <1>6, ControlStep
<1>7. CASE UNCHANGED vars
      BY <1>7 DEF IInv, TypeOK, Semaphores, Starting, AtWait, vars, settings, semaphores
<1>. QED  BY <1>1, <1>2, <1>4, <1>5, <1>6, <1>7 DEF Next

(* The types of threads, status, events and counters hold for ever: no     *)
(* semaphore is released twice (qtservice_win.cpp:541-566).                *)
THEOREM TypeCorrectness == Spec => []TypeOK
<1>1. Init => IInv
      BY InitIInv
<1>2. IInv /\ [Next]_vars => IInv'
      BY NextIInv
<1>3. IInv => TypeOK
      BY DEF IInv
<1>. QED  BY <1>1, <1>2, <1>3, PTL DEF Spec

(* Two threads never wait at the same time, whatever is sent and however   *)
(* often (qtservice_win.cpp:598-600, :613).                                *)
THEOREM WaitingIsSingle == Spec => []OneWaits
<1>1. Init => IInv
      BY InitIInv
<1>2. IInv /\ [Next]_vars => IInv'
      BY NextIInv
<1>3. IInv => OneWaits
  <2>. SUFFICES ASSUME IInv, waiting = Thread PROVE FALSE
       BY DEF OneWaits
  <2>1. pc["Starter"] = "waiting" /\ pc["Handler"] = "waiting"
        BY DEF IInv, AtWait, Thread
  <2>. QED  BY <2>1 DEF IInv, Starting, StartingPC, HandlerPC
<1>. QED  BY <1>1, <1>2, <1>3, PTL DEF Spec

-----------------------------------------------------------------------------
(* The status.  Waits(c): the handler waits for what c makes of the        *)
(* application.                                                            *)

Waits(t) == pc[t] \in {"posting", "waiting", "woken"} /\ code[t] # "interrogate"
Served(t) == pc[t] = "woken" \/ (pc[t] = "waiting" /\ t \notin waiting)

Achieved(c) == /\ c \in {"startup", "continue"} => application = "started"
               /\ c = "pause" => application = "paused"

(* An event is in the queue only while the thread that posted it waits,    *)
(* and that is awake only when the event has been handled.                 *)
Queued == /\ events # <<>> \/ pc["Main"] = "wake" => waiting # {}
          /\ \A t \in waiting :
                \/ pc["Main"] # "wake" /\ events = <<Event(code[t])>>
                \/ pc["Main"] = "wake" /\ events = <<>> /\ Achieved(code[t])

Handled == \A t \in Thread : Waits(t) /\ Served(t) => Achieved(code[t])

(* While a thread waits for a change of the application the status says    *)
(* that it is pending, or that the program has ended.                      *)
Hedged == \A t \in Thread :
             Waits(t) /\ code[t] # "user" => status \notin {"RUNNING", "PAUSED"}

NoShutdown == "NeedsStopOnShutdown" \notin serviceFlags

SInv == /\ code["Handler"] # "shutdown"
        /\ StatusIsTrue
        /\ pc["Main"] # "gone" => Queued /\ Handled /\ Hedged

LEMMA OneIsBusy ==
    ASSUME IInv, NEW t \in Thread, NEW u \in Thread, Waits(t), Waits(u)
    PROVE  t = u
BY DEF IInv, Starting, StartingPC, HandlerPC, Waits, Thread

LEMMA WaitingWaits == ASSUME IInv, NEW t \in waiting PROVE t \in Thread /\ Waits(t)
<1>1. t \in Thread /\ pc[t] = "waiting"
      BY DEF IInv, TypeOK, AtWait
<1>2. code[t] # "interrogate"
      BY <1>1 DEF IInv, Starting, Thread
<1>. QED  BY <1>1, <1>2 DEF Waits

LEMMA InitSInv == Init => SInv
BY DEF Init, SInv, StatusIsTrue, Queued, Handled, Hedged, Waits, Thread

(* A step in which no thread comes to wait or is served, and no running    *)
(* status is written, changes nothing for them.                            *)
LEMMA Indifferent ==
    ASSUME IInv, SInv, UNCHANGED <<events, waiting, application, code>>,
           status' = status \/ status' = "STOPPED",
           \A t \in Thread : pc'[t] \in {"posting", "waiting", "woken"} => pc'[t] = pc[t],
           pc["Main"] # "gone", pc'["Main"] = "wake" <=> pc["Main"] = "wake"
    PROVE  SInv'
<1>1. Queued /\ Handled /\ Hedged
      BY DEF SInv
<1>2. Queued'
      BY <1>1 DEF Queued, Achieved
<1>3. Handled'
      BY <1>1 DEF Handled, Achieved, Waits, Served
<1>4. Hedged'
      BY <1>1 DEF Hedged, Waits
<1>5. StatusIsTrue'
      BY DEF SInv, StatusIsTrue
<1>. QED  BY <1>2, <1>3, <1>4, <1>5 DEF SInv

LEMMA LookTrue == ASSUME IInv, SInv, NEW t \in Thread, look(t) PROVE SInv'
<1>1. Moved(t, "leaving", "reporting")
      BY MovesFacts DEF IInv, look, Thread, HandlerPC, MainPC, StarterPC, DispatcherPC
<1>. QED  BY <1>1, Indifferent DEF Moved, look, Thread

LEMMA ReportTrue == ASSUME IInv, SInv, NEW t \in Thread, report(t) PROVE SInv'
<1>1. Moved(t, "reporting", IF t = "Starter" THEN "done" ELSE "idle")
      BY MovesFacts DEF IInv, report, Thread, HandlerPC, MainPC, StarterPC, DispatcherPC
<1>. QED  BY <1>1, Indifferent DEF Moved, report, Thread

LEMMA ServiceMainTrue == ASSUME IInv, SInv, serviceMain PROVE SInv'
<1>1. Moved("Starter", "main", "acquire")
      BY MovesFacts DEF IInv, serviceMain, Thread, HandlerPC, MainPC, StarterPC,
         DispatcherPC
<1>. QED  BY <1>1, Indifferent DEF Moved, serviceMain, Thread

LEMMA RegisterTrue == ASSUME IInv, SInv, RegisterServiceCtrlHandler PROVE SInv'
<1>1. Moved("Starter", "acquire", "enter")
      BY MovesFacts DEF IInv, RegisterServiceCtrlHandler, Thread, HandlerPC, MainPC,
         StarterPC, DispatcherPC
<1>. QED  BY <1>1, Indifferent DEF Moved, RegisterServiceCtrlHandler, Thread

LEMMA ReturnTrue == ASSUME IInv, SInv, dispatcherReturns PROVE SInv'
<1>1. Moved("Handler", "idle", "done")
      BY MovesFacts DEF IInv, dispatcherReturns, Thread, HandlerPC, MainPC, StarterPC,
         DispatcherPC
<1>. QED  BY <1>1, Indifferent DEF Moved, dispatcherReturns, Thread

LEMMA CreateTrue == ASSUME IInv, SInv, createApplication PROVE SInv'
<1>1. Moved("Main", "acquire", IF mode = "service" THEN "loop" ELSE "gone")
      BY MovesFacts DEF IInv, createApplication, Thread, HandlerPC, MainPC, StarterPC,
         DispatcherPC
<1>. QED  BY <1>1, Indifferent DEF Moved, createApplication, Thread

LEMMA GiveUpTrue == ASSUME IInv, SInv, giveUp PROVE SInv'
<1>1. Moved("Main", "acquire", "gone")
      BY MovesFacts DEF IInv, giveUp, Thread, HandlerPC, MainPC, StarterPC, DispatcherPC
<1>. QED  BY <1>1, Indifferent DEF Moved, giveUp, Thread

LEMMA ExecuteTrue == ASSUME IInv, SInv, executeApplicationReturns PROVE SInv'
<1>1. Moved("Main", "loop", "wait")
      BY MovesFacts DEF IInv, executeApplicationReturns, Thread, HandlerPC, MainPC,
         StarterPC, DispatcherPC
<1>. QED  BY <1>1, Indifferent DEF Moved, executeApplicationReturns, Thread, setStatus

LEMMA StartThreadTrue == ASSUME IInv, SInv, startThread PROVE SInv'
<1>1. /\ pc'["Main"] = "acquire" /\ pc["Main"] = "init"
      /\ pc'["Starter"] = pc["Starter"] /\ pc'["Handler"] = "dispatch"
      BY DEF IInv, TypeOK, startThread, Thread
<1>. QED  BY <1>1, Indifferent DEF startThread, Thread

LEMMA DispatchTrue == ASSUME IInv, SInv, dispatch PROVE SInv'
<1>1. /\ pc'["Main"] = pc["Main"] /\ pc["Main"] # "gone"
      /\ pc'["Starter"] \in {"main", pc["Starter"]} /\ pc'["Handler"] \in {"idle", "done"}
      BY DEF IInv, TypeOK, dispatch, Thread
<1>. QED  BY <1>1, Indifferent DEF dispatch, Thread

LEMMA CleanUpTrue == ASSUME IInv, SInv, cleanUp PROVE SInv'
<1>1. pc'["Main"] = "gone"
      BY DEF IInv, TypeOK, cleanUp, Moves
<1>. QED  BY <1>1 DEF SInv, StatusIsTrue, cleanUp

LEMMA ControlTrue ==
    ASSUME NoShutdown, IInv, SInv, NEW c \in Code, ControlService(c)
    PROVE  SInv'
<1>1. Moved("Handler", "idle", "enter")
      BY MovesFacts DEF IInv, ControlService, Thread, HandlerPC, MainPC, StarterPC,
         DispatcherPC
<1>2. /\ c # "shutdown"
      /\ code'["Handler"] = c /\ code'["Starter"] = code["Starter"]
      BY DEF ControlService, Accepts, dwControlsAccepted, NoShutdown, IInv, TypeOK, Thread
<1>3. Queued /\ Handled /\ Hedged
      BY <1>1 DEF Moved, SInv
<1>4. "Handler" \notin waiting
      BY <1>1 DEF Moved, IInv, AtWait, Thread
<1>5. waiting \subseteq {"Starter"}
      BY <1>4 DEF IInv, TypeOK, Thread
<1>6. Queued'
      BY <1>1, <1>2, <1>3, <1>5 DEF Moved, Queued, Achieved, ControlService, Thread
<1>7. Handled'
      BY <1>1, <1>2, <1>3 DEF Moved, Handled, Achieved, Waits, Served, ControlService,
         Thread
<1>8. Hedged'
      BY <1>1, <1>2, <1>3 DEF Moved, Hedged, Waits, ControlService, Thread
<1>. QED  BY <1>2, <1>6, <1>7, <1>8 DEF SInv, StatusIsTrue, ControlService

LEMMA LockTrue == ASSUME IInv, SInv, NEW t \in Thread, lock(t) PROVE SInv'
<1>. DEFINE to == IF code[t] = "interrogate" THEN "woken" ELSE "posting"
<1>0. to \in {"woken", "posting"} /\ (to = "woken" => code[t] = "interrogate")
      OBVIOUS
<1>9. Moves(t, "enter", to)
      BY DEF lock
<1>. HIDE DEF to
<1>1. Moved(t, "enter", to)
      BY <1>0, <1>9, MovesFacts DEF IInv, HandlerPC, StarterPC
<1>2. Queued /\ Handled /\ Hedged
      BY <1>1 DEF Moved, SInv
<1>3. /\ code[t] \notin {"user", "interrogate"} => status' \notin {"RUNNING", "PAUSED"}
      /\ status' = status \/ status' \notin {"RUNNING", "PAUSED"}
  <2>1. code[t] \in Control \cup {"startup"} /\ code[t] # "shutdown"
        BY DEF IInv, TypeOK, Starting, SInv, Thread
  <2>. QED  BY <2>1 DEF lock, SetsStatus, setStatus, Pending, Control
<1>4. Queued'
      BY <1>1, <1>2 DEF Moved, Queued, Achieved, lock, Thread
<1>5. Handled'
      BY <1>0, <1>1, <1>2 DEF Moved, Handled, Achieved, Waits, Served, lock, Thread,
         IInv, AtWait
<1>6. Hedged'
      BY <1>0, <1>1, <1>2, <1>3 DEF Moved, Hedged, Waits, lock, Thread
<1>7. StatusIsTrue'
      BY <1>3 DEF SInv, StatusIsTrue, lock
<1>. QED  BY <1>4, <1>5, <1>6, <1>7 DEF SInv, lock

LEMMA PostTrue == ASSUME IInv, SInv, NEW t \in Thread, post(t) PROVE SInv'
<1>1. Moved(t, "posting", "waiting")
      BY MovesFacts DEF IInv, post, Thread, HandlerPC, MainPC, StarterPC, DispatcherPC
<1>2. Queued /\ Handled /\ Hedged
      BY <1>1 DEF Moved, SInv
<1>3. Waits(t)
      BY <1>1 DEF Moved, IInv, Starting, Waits, Thread
<1>4. waiting = {}
  <2>. SUFFICES ASSUME NEW u \in waiting PROVE FALSE
       OBVIOUS
  <2>1. u = t
        BY <1>3, OneIsBusy, WaitingWaits
  <2>. QED  BY <1>1, <2>1 DEF Moved, IInv, AtWait
<1>5. events = <<>> /\ pc["Main"] # "wake"
      BY <1>2, <1>4 DEF Queued
<1>6. events' = <<Event(code[t])>> /\ waiting' = {t} /\ pc'["Main"] = pc["Main"]
      BY <1>1, <1>4, <1>5 DEF Moved, post, Thread
<1>7. Queued'
      BY <1>5, <1>6 DEF Queued, post
<1>8. Handled'
      BY <1>1, <1>2, <1>4, <1>6 DEF Moved, Handled, Achieved, Waits, Served, post, Thread
<1>9. Hedged'
      BY <1>1, <1>2, <1>3 DEF Moved, Hedged, Waits, post, Thread
<1>. QED  BY <1>7, <1>8, <1>9 DEF SInv, StatusIsTrue, post

LEMMA WaitTrue == ASSUME IInv, SInv, NEW t \in Thread, wait(t) PROVE SInv'
<1>1. Moved(t, "waiting", "woken")
      BY MovesFacts DEF IInv, wait, Thread, HandlerPC, MainPC, StarterPC, DispatcherPC
<1>2. Queued /\ Handled /\ Hedged
      BY <1>1 DEF Moved, SInv
<1>3. Queued'
      BY <1>1, <1>2 DEF Moved, Queued, Achieved, wait, Thread
<1>4. Handled'
      BY <1>1, <1>2 DEF Moved, Handled, Achieved, Waits, Served, wait, Thread
<1>5. Hedged'
      BY <1>1, <1>2 DEF Moved, Hedged, Waits, wait, Thread
<1>. QED  BY <1>3, <1>4, <1>5 DEF SInv, StatusIsTrue, wait

LEMMA UnlockTrue == ASSUME IInv, SInv, NEW t \in Thread, unlock(t) PROVE SInv'
<1>1. Moved(t, "woken", "leaving")
      BY MovesFacts DEF IInv, unlock, Thread, HandlerPC, MainPC, StarterPC, DispatcherPC
<1>2. Queued /\ Handled /\ Hedged
      BY <1>1 DEF Moved, SInv
<1>3. Queued'
      BY <1>1, <1>2 DEF Moved, Queued, Achieved, unlock, Thread
<1>4. Handled'
      BY <1>1, <1>2 DEF Moved, Handled, Achieved, Waits, Served, unlock, Thread
<1>5. CASE code[t] = "interrogate"
  <2>1. status' = status
        BY <1>5 DEF unlock, SetsStatus, Final
  <2>2. Hedged'
        BY <1>1, <1>2, <2>1 DEF Moved, Hedged, Waits, unlock, Thread
  <2>. QED  BY <1>3, <1>4, <2>1, <2>2 DEF SInv, StatusIsTrue, unlock
<1>6. CASE code[t] # "interrogate"
  <2>1. Waits(t) /\ Served(t)
        BY <1>1, <1>6 DEF Moved, Waits, Served
  <2>2. Achieved(code[t])
        BY <1>2, <2>1 DEF Handled
  <2>3. StatusIsTrue'
        BY <2>2 DEF SInv, StatusIsTrue, Achieved, unlock, SetsStatus, setStatus, Final
  <2>4. \A u \in Thread : ~ Waits(u)'
    <3>1. \A u \in Thread : u # t => ~ Waits(u)
          BY <2>1, OneIsBusy
    <3>. QED  BY <1>1, <3>1 DEF Moved, Waits, unlock, Thread
  <2>5. Hedged'
        BY <2>4 DEF Hedged
  <2>. QED  BY <1>3, <1>4, <2>3, <2>5 DEF SInv, unlock
<1>. QED  BY <1>5, <1>6

LEMMA EventTrue == ASSUME IInv, SInv, handleCustomEvent PROVE SInv'
<1>1. Moved("Main", "loop", "wake")
      BY MovesFacts DEF IInv, handleCustomEvent, Thread, HandlerPC, MainPC, StarterPC,
         DispatcherPC
<1>2. Queued /\ Handled /\ Hedged
      BY <1>1 DEF Moved, SInv
<1>3. PICK t \in waiting : TRUE
      BY <1>2 DEF Queued, handleCustomEvent
<1>4. t \in Thread /\ Waits(t) /\ \A u \in Thread : u # t => ~ Waits(u)
      BY <1>3, WaitingWaits, OneIsBusy
<1>5. waiting = {t}
      BY <1>3, <1>4, WaitingWaits
<1>6. events = <<Event(code[t])>>
      BY <1>1, <1>2, <1>3 DEF Moved, Queued
<1>7. code[t] \in {"startup", "stop", "pause", "continue", "user"}
      BY <1>4 DEF IInv, TypeOK, Starting, SInv, Thread, Control, Waits
<1>8. events' = <<>> /\ Head(events) = code[t]
      BY <1>6, <1>7 DEF handleCustomEvent, Event
<1>9. Achieved(code[t])' /\ (code[t] = "user" => application' = application)
      BY <1>7, <1>8 DEF Achieved, handleCustomEvent
<1>10. Queued'
       BY <1>1, <1>5, <1>8, <1>9 DEF Moved, Queued, handleCustomEvent
<1>11. Handled'
  <2>1. \A u \in Thread : u # t => ~ Waits(u)'
        BY <1>1, <1>4 DEF Moved, Waits, handleCustomEvent, Thread
  <2>. QED  BY <1>9, <2>1 DEF Handled
<1>12. Hedged'
       BY <1>1, <1>2 DEF Moved, Hedged, Waits, handleCustomEvent, Thread
<1>13. StatusIsTrue'
  <2>1. CASE code[t] = "user"
        BY <1>9, <2>1 DEF SInv, StatusIsTrue, handleCustomEvent
  <2>2. CASE code[t] # "user"
        BY <1>2, <1>4, <2>2 DEF Hedged, StatusIsTrue, handleCustomEvent
  <2>. QED  BY <2>1, <2>2
<1>. QED  BY <1>10, <1>11, <1>12, <1>13 DEF SInv, handleCustomEvent

LEMMA WakeTrue == ASSUME IInv, SInv, wakeAll PROVE SInv'
<1>1. Moved("Main", "wake", "loop")
      BY MovesFacts DEF IInv, wakeAll, Thread, HandlerPC, MainPC, StarterPC, DispatcherPC
<1>2. Queued /\ Handled /\ Hedged
      BY <1>1 DEF Moved, SInv
<1>3. \A t \in waiting : events = <<>> /\ Achieved(code[t])
      BY <1>1, <1>2 DEF Moved, Queued
<1>4. Queued'
      BY <1>1, <1>2, <1>3 DEF Moved, Queued, wakeAll
<1>5. Handled'
      BY <1>1, <1>2, <1>3 DEF Moved, Handled, Achieved, Waits, Served, wakeAll, Thread
<1>6. Hedged'
      BY <1>1, <1>2 DEF Moved, Hedged, Waits, wakeAll, Thread
<1>. QED  BY <1>4, <1>5, <1>6 DEF SInv, StatusIsTrue, wakeAll

LEMMA NextSInv == ASSUME NoShutdown, IInv, SInv, [Next]_vars PROVE SInv'
<1>1. CASE Main
      BY <1>1, StartThreadTrue, CreateTrue, EventTrue, WakeTrue, ExecuteTrue, CleanUpTrue
         DEF Main
<1>2. CASE giveUp
      BY <1>2, GiveUpTrue
<1>3. ASSUME NEW t \in Thread, handler(t) PROVE SInv'
      BY <1>3, LockTrue, PostTrue, WaitTrue, UnlockTrue, LookTrue, ReportTrue DEF handler
<1>4. CASE Starter
      BY <1>3, <1>4, ServiceMainTrue, RegisterTrue DEF Starter, Thread
<1>5. CASE Handler
      BY <1>3, <1>5, DispatchTrue, ReturnTrue DEF Handler, Thread
<1>6. CASE \E c \in Code : ControlService(c)
      BY <1>6, ControlTrue
<1>7. CASE UNCHANGED vars
      BY <1>7 DEF SInv, StatusIsTrue, Queued, Handled, Hedged, Waits, Served, Achieved,
                  vars, settings
<1>. QED  BY <1>1, <1>2, <1>4, <1>5, <1>6, <1>7 DEF Next

(* The status says running or paused only when the application is, for a   *)
(* service that is not told of a shutdown of the system: "shutdown" makes  *)
(* the application stop under the status it had                            *)
(* (qtservice_win.cpp:603-656).                                            *)
THEOREM StatusTruth == NoShutdown /\ Spec => []StatusIsTrue
<1>1. Init => IInv /\ SInv
      BY InitIInv, InitSInv
<1>2. NoShutdown /\ IInv /\ SInv /\ [Next]_vars => IInv' /\ SInv' /\ NoShutdown'
      BY NextIInv, NextSInv DEF NoShutdown
<1>3. SInv => StatusIsTrue
      BY DEF SInv
<1>. QED  BY <1>1, <1>2, <1>3, PTL DEF Spec
=============================================================================
