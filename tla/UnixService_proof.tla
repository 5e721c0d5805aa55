-------------------------- MODULE UnixService_proof --------------------------
(***************************************************************************)
(* Theorems about UnixService for every set of processes and of commands,  *)
(* the commands being any, and kills at any time.                          *)
(***************************************************************************)
EXTENDS UnixService, TLAPS

LEMMA InitType == Init => TypeOK
BY DEF Init, TypeOK, State, Verb

LEMMA RunsType == ASSUME TypeOK, NEW p \in Process, Runs(p) \/ killed(p) PROVE TypeOK'
<1>1. CASE unlink(p)
      BY <1>1 DEF unlink, Moves, TypeOK, State, commandVars
<1>2. CASE bind(p)
      BY <1>2 DEF bind, Moves, TypeOK, State, commandVars
<1>3. CASE slotStart(p)
      BY <1>3 DEF slotStart, Moves, TypeOK, State, commandVars
<1>4. CASE endLoop(p)
      BY <1>4 DEF endLoop, TypeOK, State, commandVars
<1>5. CASE deleteApp(p)
      BY <1>5 DEF deleteApp, Moves, TypeOK, State, commandVars
<1>6. CASE closeSocket(p)
      BY <1>6 DEF closeSocket, Moves, TypeOK, State, commandVars
<1>7. CASE close(p)
      BY <1>7 DEF close, Moves, TypeOK, State, commandVars
<1>8. CASE killed(p)
      BY <1>8 DEF killed, TypeOK, State, commandVars
<1>. QED  BY <1>1, <1>2, <1>3, <1>4, <1>5, <1>6, <1>7, <1>8 DEF Runs

LEMMA AnsweredType ==
    ASSUME TypeOK, NEW c \in Command, NEW answer \in {"true", "false"}, Answered(c, answer)
    PROVE  /\ pc' \in [Command -> {"idle", "connect", "wait", "spawn", "done"}]
           /\ result' \in [Command -> {"none", "true", "false"}]
BY DEF Answered, TypeOK

LEMMA CommandType ==
    ASSUME TypeOK, NEW c \in Command,
           exec(c) \/ Continues(c) \/ \E p \in Process : slotReady(p, c)
    PROVE  TypeOK'
<1>1. CASE exec(c)
      BY <1>1 DEF exec, TypeOK, serviceVars
<1>2. CASE connectTo(c)
  <2>1. CASE isRunning /\ verb[c] # "version"
        BY <1>2, <2>1 DEF connectTo, TypeOK, serviceVars, isRunning
  <2>2. CASE ~ (isRunning /\ verb[c] # "version")
        BY <1>2, <2>2, AnsweredType DEF connectTo, TypeOK, serviceVars
  <2>. QED  BY <2>1, <2>2
<1>3. CASE disconnected(c)
      BY <1>3, AnsweredType DEF disconnected, TypeOK, serviceVars
<1>4. ASSUME NEW p \in Process, startDetached(c, p) PROVE TypeOK'
      BY <1>4 DEF startDetached, TypeOK, State
<1>5. ASSUME NEW p \in Process, slotReady(p, c) PROVE TypeOK'
  <2>1. quit' \in [Process -> BOOLEAN]
        BY <1>5 DEF slotReady, TypeOK
  <2>. QED  BY <1>5, <2>1, AnsweredType DEF slotReady, TypeOK
<1>. QED  BY <1>1, <1>2, <1>3, <1>4, <1>5 DEF Continues

LEMMA NextType == TypeOK /\ [Next]_vars => TypeOK'
<1>. SUFFICES ASSUME TypeOK, [Next]_vars PROVE TypeOK'
     OBVIOUS
<1>1. CASE UNCHANGED vars
      BY <1>1 DEF TypeOK, vars, serviceVars, commandVars
<1>. QED  BY <1>1, RunsType, CommandType DEF Next

(* Types hold for ever: a command is connected to a process, a file and a  *)
(* port are a process's or nobody's.                                       *)
THEOREM TypeCorrectness == Spec => []TypeOK
BY InitType, NextType, PTL DEF Spec
-----------------------------------------------------------------------------
(* The file.  A detached process that is alone with the file owns it from  *)
(* the bind() on, whoever left one behind.                                 *)

Sole(p) == \A q \in Process \ {p} : state[q] = "unborn"
Bound == {"looping", "serving", "ended", "deleted", "closed"}
Owns(p) == asService[p] => /\ state[p] = "unlinked" => file = None
                           /\ state[p] \in Bound => file = p
FileInv == \A p \in Process : Sole(p) => Owns(p)

LEMMA RunsFile ==
    ASSUME TypeOK, FileInv, NEW p \in Process, Runs(p) \/ killed(p)
    PROVE  FileInv'
<1>1. state[p] # "unborn" /\ state' \in [Process -> State] /\ state'[p] # "unborn"
      /\ \A q \in Process : q # p => state'[q] = state[q]
      BY RunsType DEF Runs, unlink, bind, slotStart, endLoop, deleteApp, closeSocket, close,
                      killed, Moves, EventLoop, Alive, TypeOK
<1>2. Owns(p) => Owns(p)'
  <2>. SUFFICES ASSUME Owns(p) PROVE Owns(p)'
       OBVIOUS
  <2>1. CASE unlink(p)
        BY <2>1 DEF unlink, Moves, TypeOK, Owns, Bound
  <2>2. CASE bind(p)
        BY <2>2 DEF bind, Moves, TypeOK, Owns, Bound
  <2>3. CASE slotStart(p)
        BY <2>3 DEF slotStart, Moves, TypeOK, Owns, Bound
  <2>4. CASE endLoop(p)
        BY <2>4 DEF endLoop, EventLoop, TypeOK, Owns, Bound
  <2>5. CASE deleteApp(p)
        BY <2>5 DEF deleteApp, Moves, TypeOK, Owns, Bound
  <2>6. CASE closeSocket(p)
        BY <2>6 DEF closeSocket, Moves, TypeOK, Owns, Bound
  <2>7. CASE close(p)
        BY <2>7 DEF close, Moves, TypeOK, Owns, Bound
  <2>8. CASE killed(p)
        BY <2>8 DEF killed, TypeOK, Owns, Bound
  <2>. QED  BY <2>1, <2>2, <2>3, <2>4, <2>5, <2>6, <2>7, <2>8 DEF Runs
<1>3. ASSUME NEW q \in Process, Sole(q)' PROVE Owns(q)'
  <2>1. q = p
        BY <1>1, <1>3 DEF Sole
  <2>2. Sole(p)
        BY <1>1, <1>3, <2>1 DEF Sole
  <2>. QED  BY <1>2, <2>1, <2>2 DEF FileInv
<1>. QED  BY <1>3 DEF FileInv

LEMMA CommandFile ==
    ASSUME TypeOK, FileInv, NEW c \in Command,
           exec(c) \/ Continues(c) \/ \E p \in Process : slotReady(p, c)
    PROVE  FileInv'
<1>1. CASE UNCHANGED <<state, asService, file>>
      BY <1>1 DEF FileInv, Sole, Owns
<1>2. ASSUME NEW p \in Process, startDetached(c, p) PROVE FileInv'
  <2>1. /\ state' = [state EXCEPT ![p] = IF verb[c] = "start" THEN "born" ELSE "looping"]
        /\ asService' = [asService EXCEPT ![p] = verb[c] = "start"]
        BY <1>2 DEF startDetached
  <2>2. Owns(p)'
        BY <2>1 DEF TypeOK, Owns, Bound
  <2>3. \A q \in Process : Sole(q)' => q = p
        BY <2>1 DEF TypeOK, Sole
  <2>. QED  BY <2>2, <2>3 DEF FileInv
<1>. QED  BY <1>1, <1>2 DEF exec, Continues, connectTo, disconnected, slotReady, serviceVars

(* A command finds the only process of the service there ever was, also    *)
(* after one that left its file behind (qtunixserversocket.cpp:72).        *)
THEOREM SoleSeen == Spec => []SoleIsSeen
<1>1. Init => TypeOK /\ FileInv
      BY InitType DEF Init, FileInv, Owns
<1>2. TypeOK /\ FileInv /\ [Next]_vars => TypeOK' /\ FileInv'
  <2>. SUFFICES ASSUME TypeOK, FileInv, [Next]_vars PROVE FileInv'
       BY NextType
  <2>1. CASE UNCHANGED vars
        BY <2>1 DEF FileInv, Sole, Owns, vars, serviceVars
  <2>. QED  BY <2>1, RunsFile, CommandFile DEF Next
<1>3. FileInv => SoleIsSeen
      BY DEF FileInv, Sole, Owns, Bound, SoleIsSeen, Seen, Serving
<1>. QED  BY <1>1, <1>2, <1>3, PTL DEF Spec

-----------------------------------------------------------------------------
(* The port.  A process that finds it taken has called quit().             *)

PortInv == \A p \in Process :
              state[p] = "serving" => port = p \/ quit[p]

LEMMA RunsPort ==
    ASSUME TypeOK, PortInv, NEW p \in Process, Runs(p) \/ killed(p)
    PROVE  PortInv'
<1>1. CASE unlink(p) \/ closeSocket(p) \/ close(p) \/ bind(p)
      BY <1>1 DEF unlink, closeSocket, close, bind, Moves, TypeOK, PortInv
<1>2. CASE slotStart(p)
  <2>1. /\ \A q \in Process : q # p => quit'[q] = quit[q] /\ state'[q] = state[q]
        /\ port # None => quit'[p]
        BY <1>2 DEF slotStart, Moves, TypeOK
  <2>2. port' = IF port = None THEN p ELSE port
        BY <1>2 DEF slotStart
  <2>3. ASSUME NEW q \in Process, q # p, state'[q] = "serving" PROVE port' = q \/ quit'[q]
        BY <2>1, <2>2, <2>3, UnixAssumption DEF PortInv
  <2>4. port' = p \/ quit'[p]
        BY <2>1, <2>2
  <2>. QED  BY <2>3, <2>4 DEF PortInv
<1>3. CASE endLoop(p)
      BY <1>3 DEF endLoop, EventLoop, TypeOK, PortInv
<1>4. CASE deleteApp(p)
      BY <1>4 DEF deleteApp, Moves, TypeOK, PortInv
<1>5. CASE killed(p)
      BY <1>5 DEF killed, TypeOK, PortInv
<1>. QED  BY <1>1, <1>2, <1>3, <1>4, <1>5 DEF Runs

LEMMA CommandPort ==
    ASSUME TypeOK, PortInv, NEW c \in Command,
           exec(c) \/ Continues(c) \/ \E p \in Process : slotReady(p, c)
    PROVE  PortInv'
<1>1. CASE UNCHANGED <<state, port, quit>>
      BY <1>1 DEF PortInv
<1>2. ASSUME NEW p \in Process, startDetached(c, p) PROVE PortInv'
      BY <1>2 DEF startDetached, TypeOK, PortInv
<1>3. ASSUME NEW p \in Process, slotReady(p, c) PROVE PortInv'
      BY <1>3 DEF slotReady, TypeOK, PortInv
<1>. QED  BY <1>1, <1>2, <1>3 DEF exec, Continues, connectTo, disconnected, serviceVars

(* However many are started, no two serve for good: of two processes past  *)
(* their first event one at least is about to quit, which is why one       *)
(* remains in the end (main.cpp:48-52).                                    *)
ServesAlone ==
    \A p, q \in Process :
        Serving(p) /\ Serving(q) /\ ~ quit[p] /\ ~ quit[q] => p = q

THEOREM OneServes == Spec => []ServesAlone
<1>1. Init => TypeOK /\ PortInv
      BY InitType DEF Init, PortInv
<1>2. TypeOK /\ PortInv /\ [Next]_vars => TypeOK' /\ PortInv'
  <2>. SUFFICES ASSUME TypeOK, PortInv, [Next]_vars PROVE PortInv'
       BY NextType
  <2>1. CASE UNCHANGED vars
        BY <2>1 DEF PortInv, vars, serviceVars
  <2>. QED  BY <2>1, RunsPort, CommandPort DEF Next
<1>3. PortInv => ServesAlone
      BY DEF PortInv, ServesAlone, Serving
<1>. QED  BY <1>1, <1>2, <1>3, PTL DEF Spec
=============================================================================
