-------------------------------- MODULE Applet --------------------------------
(***************************************************************************)
(* The task bar applet and the service it is connected to: opennic.cpp and *)
(* opennicqueryhistorydialog.cpp of the client, the sessions of            *)
(* opennicserver.cpp, and between them opennicpacket.cpp and               *)
(* opennicnet.cpp over one TCP connection at a time.                       *)
(*                                                                         *)
(* A packet is framed by its length, but recv() takes all the bytes that   *)
(* there are once it has read a length: what has arrived behind the end of *)
(* a packet is lost.  A packet of the client's arrives whole; a reply, with *)
(* the pool and the journal in it, is two cells of toClient, the first of  *)
(* which carries the length.                                               *)
(*                                                                         *)
(* Of the settings, resolver_cache_size also stands for                    *)
(* refresh_timer_period and score_internal, which go the same way.  The    *)
(* keys that are only shown are left out, and so are message boxes.        *)
(***************************************************************************)
EXTENDS Integers, Sequences, FiniteSets, SequencesExt

CONSTANTS Sizes, Rules,   \* values of resolver_cache_size and of score_rules
          NoRules,        \* the empty text, one of Rules
          Interfaces,     \* interface_list, without repetition
          NoInterface,    \* the empty name
          Defaults,       \* what the widgets show before the first reply
          Installed,      \* the settings of the service at the start
          MaxClicks,      \* bound of what the user does,
          MaxRestarts,    \*   of restarts of either program,
          MaxUnderWay     \*   and of what is under way when a timer polls

Interface == ToSet(Interfaces)
Settings == [enabled : BOOLEAN, interface : Interface \cup {NoInterface},
             size : Sizes, rules : Rules]

ASSUME AppletAssumption ==
    /\ Interfaces # <<>> /\ NoInterface \notin Interface
    /\ NoRules \in Rules
    /\ Defaults \in Settings /\ Defaults.interface = NoInterface
    /\ Installed \in Settings
    /\ MaxClicks \in Nat /\ MaxRestarts \in Nat /\ MaxUnderWay \in Nat

VARIABLES running,        \* is the service?
          service,        \* its settings, which are also those of its file
          mAsyncMessage,  \* does it have a message for its clients?
          mSessions,      \* for each of its sessions, is the socket connected?
          connected,      \* the socket of the applet
          ui,             \* the widgets
          populated,      \* has a reply filled the list of interfaces?
          mActiveState,   \* are the buttons enabled?
          dialog,         \* a query history: "closed", "open" or "shown"
          mRXPacket,      \* Idle, Garbled, or the packet whose end is missing
          toService, toClient,
          informed,       \* history: was the applet's first reply one with all keys?
          edited,         \* history: has the user touched a setting?
          clicks, restarts

serviceVars == <<service, mAsyncMessage>>
uiVars == <<ui, populated, informed, mActiveState>>
netVars == <<mRXPacket, toService, toClient>>
userVars == <<edited, clicks>>
vars == <<running, serviceVars, mSessions, connected, uiVars, dialog, netVars,
          userVars, restarts>>

Poll(all) == [kind |-> "poll", all |-> all]
Update(u) == [kind |-> "update", settings |-> u]
ResolverHistory == [kind |-> "history"]
Unframed == [kind |-> "unframed"]
Reply(all) == [kind |-> "reply", all |-> all, settings |-> service]
AsyncMessage == [kind |-> "async"]

Idle == [kind |-> "idle"]
Garbled == [kind |-> "garbled"]
Remainder == [kind |-> "remainder"]
Cells(packet) == <<packet, Remainder>>

ClientPacket == [kind : {"poll"}, all : BOOLEAN] \cup
                [kind : {"update"}, settings : Settings] \cup
                {ResolverHistory, Unframed}
ServicePacket == [kind : {"reply"}, all : BOOLEAN, settings : Settings] \cup
                 {ResolverHistory, AsyncMessage}

TypeOK == /\ running \in BOOLEAN /\ connected \in BOOLEAN
          /\ service \in Settings /\ ui \in Settings
          /\ mAsyncMessage \in BOOLEAN
          /\ mSessions \in Seq(BOOLEAN)
          /\ populated \in BOOLEAN /\ informed \in BOOLEAN /\ mActiveState \in BOOLEAN
          /\ dialog \in {"closed", "open", "shown"}
          /\ mRXPacket \in {Idle, Garbled} \cup ServicePacket
          /\ toService \in Seq(ClientPacket)
          /\ toClient \in Seq(ServicePacket \cup {Remainder})
          /\ edited \in BOOLEAN
          /\ clicks \in 0 .. MaxClicks /\ restarts \in 0 .. MaxRestarts

Init == /\ running = TRUE /\ connected = FALSE
        /\ service = Installed /\ mAsyncMessage = FALSE
        /\ mSessions = <<>>
        /\ ui = Defaults /\ populated = FALSE /\ informed = FALSE /\ mActiveState = FALSE
        /\ dialog = "closed"
        /\ mRXPacket = Idle /\ toService = <<>> /\ toClient = <<>>
        /\ edited = FALSE /\ clicks = 0 /\ restarts = 0

-----------------------------------------------------------------------------
(* Sending. *)

(* Mutant: send() leaves the received packet as it is. *)
Sends_uncleared(packets) ==
    /\ toService' = IF connected THEN toService \o packets ELSE toService
    /\ UNCHANGED <<mRXPacket, toClient>>

(* OpenNICNet::send(true) clears both packets, and with the received one   *)
(* the state of recv().  update() does that even when it sends to nobody.  *)
Sends(packets) ==
    /\ toService' = IF connected THEN toService \o packets ELSE toService
    /\ mRXPacket' = IF packets = <<>> THEN mRXPacket ELSE Idle
    /\ UNCHANGED toClient

(* A timer polls whether or not its last poll has been answered: the       *)
(* service answers nobody while it waits for dig.                          *)
Room == Len(toService) + Len(toClient) < MaxUnderWay

Quiet == toService = <<>> /\ toClient = <<>>

newConnection == mSessions' = Append(mSessions, TRUE)

connectToService ==
    /\ ~connected
    /\ IF running
       THEN /\ connected' = TRUE /\ mActiveState' = TRUE
            /\ newConnection
            /\ toService' = <<Poll(TRUE)>> /\ toClient' = <<>> /\ mRXPacket' = Idle
       ELSE /\ mActiveState /\ mActiveState' = FALSE
            /\ UNCHANGED <<connected, mSessions, netVars>>
    /\ UNCHANGED <<running, serviceVars, ui, populated, informed, dialog, userVars, restarts>>

pollPeriodicKeys ==
    /\ connected /\ Room
    /\ Sends(<<Poll(FALSE)>>)
    /\ UNCHANGED <<running, serviceVars, mSessions, connected, uiVars, dialog, userVars, restarts>>

-----------------------------------------------------------------------------
(* The user. *)

(* A check box or a combo box that changes is an update() at once. *)
Click == clicks < MaxClicks /\ clicks' = clicks + 1

Changes(u) == /\ u # ui
              /\ Click /\ edited' = TRUE
              /\ ui' = u
              /\ UNCHANGED <<running, serviceVars, mSessions, connected, populated,
                             informed, mActiveState, dialog, restarts>>

enabledChanged ==
    LET u == [ui EXCEPT !.enabled = ~@] IN Changes(u) /\ Sends(<<Update(u)>>)

interfaceChanged ==
    /\ populated
    /\ \E i \in Interface :
         LET u == [ui EXCEPT !.interface = i] IN Changes(u) /\ Sends(<<Update(u)>>)

(* A spin box or the rules' editor waits for Apply; the editor is disabled *)
(* together with the buttons.                                              *)
EditSize == \E s \in Sizes : Changes([ui EXCEPT !.size = s]) /\ UNCHANGED netVars
EditRules == /\ mActiveState
             /\ \E r \in Rules : Changes([ui EXCEPT !.rules = r])
             /\ UNCHANGED netVars

clicked == /\ mActiveState
           /\ Click /\ edited' = TRUE
           /\ Sends(<<Update(ui)>>)
           /\ UNCHANGED <<running, serviceVars, mSessions, connected, uiVars, dialog, restarts>>

(* updateDNS(), of the button refreshNow, writes a map that has no length  *)
(* in front, and does not go through OpenNICNet.                           *)
refreshNow ==
    /\ mActiveState /\ connected
    /\ Click
    /\ toService' = Append(toService, Unframed)
    /\ UNCHANGED <<running, serviceVars, mSessions, connected, uiVars, dialog,
                   mRXPacket, toClient, edited, restarts>>

PollHistory == IF connected THEN Sends(<<ResolverHistory>>) ELSE UNCHANGED netVars

(* There are rows to click on once a reply has come. *)
cellClicked == /\ dialog = "closed" /\ populated
               /\ Click
               /\ dialog' = "open"
               /\ PollHistory
               /\ UNCHANGED <<running, serviceVars, mSessions, connected, uiVars, edited, restarts>>

dialogTimer == /\ dialog # "closed" /\ connected /\ Room
               /\ PollHistory
               /\ UNCHANGED <<running, serviceVars, mSessions, connected, uiVars, dialog,
                              userVars, restarts>>

closing == /\ dialog # "closed"
           /\ dialog' = "closed"
           /\ UNCHANGED <<running, serviceVars, mSessions, connected, uiVars, netVars,
                          userVars, restarts>>

-----------------------------------------------------------------------------
(* The service receives n packets at once and reads the first. *)

Applied(u) == [u EXCEPT !.interface = IF @ = NoInterface THEN service.interface ELSE @]

Answer(cells) == toClient' = toClient \o cells
Message(some) == IF some THEN Cells(AsyncMessage) ELSE <<>>

pollKeyValue(packet) == /\ packet.kind = "poll"
                        /\ Answer(Cells(Reply(packet.all)))
                        /\ UNCHANGED serviceVars

dataReadyUpdate(packet) ==
    /\ packet.kind = "update"
    /\ service' = Applied(packet.settings)
    /\ mAsyncMessage' = \/ mAsyncMessage
                        \/ service'.size # service.size
                        \/ service'.enabled # service.enabled
    /\ Answer(Message(mAsyncMessage'))

dataReadyHistory(packet) == /\ packet.kind = "history"
                            /\ Answer(Cells(ResolverHistory) \o Message(mAsyncMessage))
                            /\ UNCHANGED serviceVars

(* The four bytes taken for a length give a map that cannot be read. *)
Unreadable(packet) == packet.kind = "unframed" /\ UNCHANGED <<serviceVars, toClient>>

serviceReceives(n) ==
    /\ connected
    /\ LET packet == toService[1]
       IN pollKeyValue(packet) \/ dataReadyUpdate(packet) \/ dataReadyHistory(packet)
          \/ Unreadable(packet)
    /\ toService' = SubSeq(toService, n + 1, Len(toService))
    /\ UNCHANGED <<running, mSessions, connected, uiVars, dialog, mRXPacket, userVars, restarts>>

(* Mutant: the passes begin with the second session. *)
purged_butFirst(sessions) ==
    IF sessions = <<>> THEN <<>>
    ELSE <<sessions[1]>> \o SelectSeq(Tail(sessions), LAMBDA live : live)

(* purgeDeadSessions() counts up over what it removes, and so keeps the    *)
(* session that follows one it has removed, whatever its state.  A pass,   *)
(* session by session: those it has left, and is the next one kept?        *)
purges(sessions) ==
    LET purge[n \in 0 .. Len(sessions)] ==
            IF n = 0 THEN [left |-> <<>>, skip |-> FALSE]
            ELSE IF sessions[n] \/ purge[n - 1].skip
                 THEN [left |-> Append(purge[n - 1].left, sessions[n]), skip |-> FALSE]
                 ELSE [left |-> purge[n - 1].left, skip |-> TRUE]
    IN  purge

purged(sessions) == purges(sessions)[Len(sessions)].left

runOnce == /\ running /\ service.enabled
           /\ mSessions' = purged(mSessions)
           /\ UNCHANGED <<running, serviceVars, connected, uiVars, dialog, netVars,
                          userVars, restarts>>

-----------------------------------------------------------------------------
(* The applet receives: dataReady() takes the keys of a reply in           *)
(* alphabetical order, interface before interface_list, both before        *)
(* opennic_enabled, and that before the keys a periodic poll leaves out.   *)

AfterInterface(s) == IF populated /\ s.interface \in Interface
                     THEN [ui EXCEPT !.interface = s.interface] ELSE ui
AfterList(s) == IF populated THEN AfterInterface(s)
                ELSE [ui EXCEPT !.interface = Interfaces[1]]
(* Mutant: the check box does not follow the service. *)
AfterEnabled_ignored(s) == AfterList(s)

AfterEnabled(s) == [AfterList(s) EXCEPT !.enabled = s.enabled]
(* Mutant: the spin box does not follow the service. *)
AfterSettings_sizeless(s) ==
    [AfterEnabled(s) EXCEPT !.rules = IF s.rules = NoRules THEN @ ELSE s.rules]

AfterSettings(s) == [AfterEnabled(s) EXCEPT !.size = s.size,
                                            !.rules = IF s.rules = NoRules THEN @ ELSE s.rules]

(* A widget that is changed by dataReady() emits its signal, which is      *)
(* connected to update(); only the list's is blocked.                      *)
WrittenBack(s) ==
    (IF AfterInterface(s) = ui THEN <<>> ELSE <<Update(AfterInterface(s))>>) \o
    (IF s.enabled = ui.enabled THEN <<>> ELSE <<Update(AfterEnabled(s))>>)

(* Each dialog looks for records of its own resolver. *)
HistoryShown == IF dialog = "open" THEN "shown" ELSE dialog

dataReady(packet) ==
    CASE packet.kind = "reply" ->
           /\ ui' = IF packet.all THEN AfterSettings(packet.settings)
                    ELSE AfterEnabled(packet.settings)
           /\ populated' = TRUE
           /\ informed' = (informed \/ (packet.all /\ ~populated))
           /\ toService' = toService \o WrittenBack(packet.settings)
           /\ UNCHANGED dialog
      [] packet.kind = "history" ->
           /\ dialog' = HistoryShown
           /\ UNCHANGED <<ui, populated, informed, toService>>
      [] packet.kind = "async" -> UNCHANGED <<ui, populated, informed, toService, dialog>>

(* Mutant: whatever comes first is taken for the beginning of a packet. *)
recv_headless(n) ==
    IF mRXPacket = Idle
    THEN mRXPacket' = toClient[1] /\ UNCHANGED <<ui, populated, informed, toService, dialog>>
    ELSE dataReady(mRXPacket) /\ mRXPacket' = Idle

(* n cells have arrived.  Without the beginning of a packet, its text is   *)
(* read as a length, and swallows what comes until it is reached.          *)
recv(n) ==
    \/ /\ mRXPacket = Idle /\ toClient[1] # Remainder /\ n >= 2
       /\ dataReady(toClient[1])
       /\ mRXPacket' = Idle
    \/ /\ mRXPacket = Idle /\ toClient[1] # Remainder /\ n = 1
       /\ mRXPacket' = toClient[1]
       /\ UNCHANGED <<ui, populated, informed, toService, dialog>>
    \/ /\ mRXPacket \notin {Idle, Garbled}
       /\ dataReady(mRXPacket)
       /\ mRXPacket' = Idle
    \/ /\ mRXPacket = Garbled \/ (mRXPacket = Idle /\ toClient[1] = Remainder)
       /\ mRXPacket' \in {Idle, Garbled}
       /\ UNCHANGED <<ui, populated, informed, toService, dialog>>

clientReceives(n) ==
    /\ connected
    /\ recv(n)
    /\ toClient' = SubSeq(toClient, n + 1, Len(toClient))
    /\ UNCHANGED <<running, serviceVars, mSessions, connected, mActiveState, userVars, restarts>>

-----------------------------------------------------------------------------
(* Restarts.  A connection takes with it what is under way. *)

Disconnects == /\ connected' = FALSE
               /\ toService' = <<>> /\ toClient' = <<>>

(* The socket's error is RemoteHostClosedError: the buttons stay enabled. *)
ServiceStops == /\ running /\ restarts < MaxRestarts
                /\ restarts' = restarts + 1
                /\ running' = FALSE /\ mAsyncMessage' = FALSE
                /\ mSessions' = <<>>
                /\ Disconnects
                /\ UNCHANGED <<service, uiVars, dialog, mRXPacket, userVars>>

ServiceStarts == /\ ~running
                 /\ running' = TRUE
                 /\ UNCHANGED <<serviceVars, mSessions, connected, uiVars, dialog, netVars,
                                userVars, restarts>>

AppletRestarts == /\ restarts < MaxRestarts
                  /\ restarts' = restarts + 1
                  /\ ui' = Defaults /\ populated' = FALSE /\ informed' = FALSE
                  /\ mActiveState' = FALSE
                  /\ dialog' = "closed" /\ mRXPacket' = Idle
                  /\ mSessions' = [i \in DOMAIN mSessions |-> FALSE]
                  /\ Disconnects
                  /\ UNCHANGED <<running, serviceVars, userVars>>

User == \/ enabledChanged \/ interfaceChanged \/ EditSize \/ EditRules \/ clicked
        \/ refreshNow \/ cellClicked \/ closing

Next == \/ connectToService \/ pollPeriodicKeys \/ dialogTimer
        \/ User
        \/ \E n \in 1 .. Len(toService) : serviceReceives(n)
        \/ runOnce
        \/ \E n \in 1 .. Len(toClient) : clientReceives(n)
        \/ ServiceStops \/ ServiceStarts \/ AppletRestarts

Spec == Init /\ [][Next]_vars

(* Timers run and data arrive.  For the rest, the periods of the timers:   *)
(* a round trip is short for them, except while the service waits for dig, *)
(* and so the connection is quiet again and again; each at times expires   *)
(* then, and not only together with the other; and a reply to each at      *)
(* times arrives in one piece.                                             *)
ArrivesWhole(kind) ==
    /\ mRXPacket = Idle /\ Len(toClient) >= 2 /\ toClient[1].kind = kind
    /\ clientReceives(2)

Fairness == /\ []<>(connected => Quiet)
            /\ WF_vars(connectToService) /\ WF_vars(runOnce)
            /\ SF_vars(Quiet /\ pollPeriodicKeys) /\ SF_vars(Quiet /\ dialogTimer)
            /\ WF_vars(\E n \in 1 .. Len(toService) : serviceReceives(n))
            /\ WF_vars(\E n \in 1 .. Len(toClient) : clientReceives(n))
            /\ SF_vars(ArrivesWhole("reply")) /\ SF_vars(ArrivesWhole("history"))

FairSpec == Spec /\ Fairness

-----------------------------------------------------------------------------
(* An applet whose user changes nothing changes nothing (opennic.cpp:399,  *)
(* "to initialize all the values", and :553, "so we don't get a settings   *)
(* feedback loop going with the server").                                  *)
OnlyByUser == ~edited => service = Installed

(* That does hold of an applet whose first reply was the one with all keys *)
(* (opennic.cpp:455-574): what its widgets show and what their signals     *)
(* write back is what the service has, however replies are cut, merged,    *)
(* lost and late afterwards, and whatever applets before it have done.     *)
InformedChangesNothing == [][~edited /\ informed => UNCHANGED service]_vars

(* Stale and lost replies, and the write-backs of the widgets they change, *)
(* do not leave the applet and the service with different ideas of whether *)
(* OpenNIC is enabled, and where: they agree in the end and stay so while  *)
(* connected (opennic.cpp:455-574).                                        *)
Agrees == /\ ui.enabled = service.enabled
          /\ service.interface \in Interface => ui.interface = service.interface
Settles == <>[](connected => Agrees)

(* A query history that stays open is filled, though its packets share a   *)
(* connection and a receiver with all the others'                          *)
(* (opennicqueryhistorydialog.cpp:41-89).                                  *)
HistoryIsShown == dialog = "open" ~> (dialog # "open" \/ ~connected)

(* The sessions of applets that are gone are disposed of, though each pass *)
(* leaves every second one (opennicserver.cpp:385-398).                    *)
Dead == \E i \in DOMAIN mSessions : ~mSessions[i]
SessionsArePurged == Dead ~> (~Dead \/ ~service.enabled)

(* What that rests on: whatever the sessions are, the next pass, although  *)
(* it skips some, would dispose of one that is dead, if there is any, and  *)
(* of none that is connected.                                              *)
Live(sessions) == Cardinality({i \in DOMAIN sessions : sessions[i]})
PurgeIsSafe == /\ Live(purged(mSessions)) = Live(mSessions)
               /\ Dead => Len(purged(mSessions)) < Len(mSessions)
=============================================================================
