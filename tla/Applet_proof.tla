----------------------------- MODULE Applet_proof -----------------------------
(***************************************************************************)
(* Theorems about Applet for every set of sizes, rules and interfaces and  *)
(* any number of clicks, restarts and packets under way: an applet that    *)
(* has been told all and whose user only looks leaves the service as it    *)
(* is, everything keeps its type, and the purge of the sessions, although  *)
(* it skips some, comes to an end without a victim.                        *)
(*                                                                         *)
(* A reply that changes a widget makes the applet send all that its        *)
(* widgets show.  That does no harm once they show the service's settings, *)
(* of which some are only in the reply to the first poll.  The invariant   *)
(* follows the settings that are on the wire, through two sets: those of   *)
(* the updates and those of the replies under way (Wire).                  *)
(***************************************************************************)
EXTENDS Applet, SequenceTheorems, FiniteSetTheorems, WellFoundedInduction, TLAPS

(* The applet starts with the flag the service has, and without rules if   *)
(* the service has none.                                                   *)
Alike == /\ Installed.enabled = Defaults.enabled
         /\ Installed.rules = NoRules => Defaults.rules = NoRules

Cell == ServicePacket \cup {Remainder}

(* Types of what matters first; RestOK, below, has the others. *)
NetOK == /\ connected \in BOOLEAN /\ populated \in BOOLEAN /\ edited \in BOOLEAN
         /\ informed \in BOOLEAN /\ mAsyncMessage \in BOOLEAN
         /\ service \in Settings /\ ui \in Settings
         /\ mRXPacket \in {Idle, Garbled} \cup ServicePacket
         /\ toService \in Seq(ClientPacket)
         /\ toClient \in Seq(Cell)

LEMMA PacketTypes ==
    /\ \A all \in BOOLEAN : Poll(all) \in ClientPacket
    /\ \A u \in Settings : Update(u) \in ClientPacket
    /\ ResolverHistory \in ClientPacket /\ Unframed \in ClientPacket
    /\ ResolverHistory \in ServicePacket /\ AsyncMessage \in ServicePacket
    /\ Remainder \in Cell /\ ServicePacket \subseteq Cell
    /\ service \in Settings => \A all \in BOOLEAN : Reply(all) \in ServicePacket
BY DEF ClientPacket, ServicePacket, Poll, Update, ResolverHistory, Unframed, AsyncMessage,
       Cell, Remainder, Reply

LEMMA PacketKinds ==
    /\ \A p \in ClientPacket :
          /\ p.kind \in {"poll", "update", "history", "unframed"}
          /\ p.kind = "poll" => p.all \in BOOLEAN
          /\ p.kind = "update" => p.settings \in Settings
    /\ \A p \in ServicePacket :
          /\ p.kind \in {"reply", "history", "async"}
          /\ p.kind = "reply" => p.all \in BOOLEAN /\ p.settings \in Settings
BY DEF ClientPacket, ServicePacket, ResolverHistory, Unframed, AsyncMessage

(* What is left of a sequence when n of its elements are taken. *)
LEMMA Rest ==
    ASSUME NEW S, NEW s \in Seq(S), NEW n \in 1 .. Len(s)
    PROVE  LET rest == SubSeq(s, n + 1, Len(s))
           IN  /\ rest \in Seq(S) /\ Len(rest) = Len(s) - n
               /\ \A i \in DOMAIN rest : n + i \in DOMAIN s /\ rest[i] = s[n + i]
<1>. DEFINE rest == SubSeq(s, n + 1, Len(s))
<1>1. Len(s) \in Nat /\ DOMAIN s = 1 .. Len(s) /\ \A i \in 1 .. Len(s) : s[i] \in S
      BY LenProperties, ElementOfSeq
<1>2. /\ rest \in Seq(S) /\ Len(rest) = Len(s) - n
      /\ \A i \in 1 .. Len(s) - n : rest[i] = s[n + i]
  <2>. DEFINE m == Len(s)
  <2>1. m \in Nat /\ n \in 1 .. m /\ \A i \in (n + 1) .. m : s[i] \in S
        BY <1>1
  <2>. HIDE DEF m
  <2>2. /\ SubSeq(s, n + 1, m) \in Seq(S)
        /\ Len(SubSeq(s, n + 1, m)) = IF n + 1 <= m THEN m - (n + 1) + 1 ELSE 0
        /\ \A i \in 1 .. m - (n + 1) + 1 : SubSeq(s, n + 1, m)[i] = s[n + 1 + i - 1]
        BY <2>1, SubSeqProperties
  <2>3. rest = SubSeq(s, n + 1, m)
        BY DEF m
  <2>. HIDE DEF rest
  <2>4. m - (n + 1) + 1 = m - n /\ (n + 1 <= m \/ m - n = 0)
        BY <2>1
  <2>5. Len(rest) = m - n
        BY <2>1, <2>2, <2>3, <2>4
  <2>6. ASSUME NEW i \in 1 .. m - n PROVE rest[i] = s[n + i]
    <3>1. i \in 1 .. m - (n + 1) + 1 /\ n + 1 + i - 1 = n + i
          BY <2>1, <2>4
    <3>2. rest[i] = s[n + 1 + i - 1]
          BY <2>2, <2>3, <3>1
    <3>. QED  BY <3>1, <3>2
  <2>. QED  BY <2>2, <2>3, <2>5, <2>6 DEF m
<1>. HIDE DEF rest
<1>3. DOMAIN rest = 1 .. Len(s) - n
      BY <1>2, LenProperties
<1>4. \A i \in 1 .. Len(s) - n : n + i \in DOMAIN s
      BY <1>1
<1>. QED  BY <1>2, <1>3, <1>4 DEF rest

(* Every element of s \o t is one of s or of t. *)
LEMMA Concatenated ==
    ASSUME NEW S, NEW s \in Seq(S), NEW t \in Seq(S)
    PROVE  /\ s \o t \in Seq(S)
           /\ \A i \in DOMAIN (s \o t) : \/ \E j \in DOMAIN s : (s \o t)[i] = s[j]
                                         \/ \E j \in DOMAIN t : (s \o t)[i] = t[j]
<1>1. /\ Len(s) \in Nat /\ Len(t) \in Nat /\ DOMAIN s = 1 .. Len(s) /\ DOMAIN t = 1 .. Len(t)
      /\ s \o t \in Seq(S) /\ DOMAIN (s \o t) = 1 .. Len(s) + Len(t)
      BY LenProperties, ConcatProperties
<1>2. \A i \in 1 .. Len(s) + Len(t) : (s \o t)[i] = IF i <= Len(s) THEN s[i] ELSE t[i - Len(s)]
      BY ConcatProperties
<1>3. ASSUME NEW i \in 1 .. Len(s) + Len(t)
      PROVE  \/ \E j \in DOMAIN s : (s \o t)[i] = s[j]
             \/ \E j \in DOMAIN t : (s \o t)[i] = t[j]
  <2>1. CASE i <= Len(s)
        BY <1>1, <1>2, <2>1
  <2>2. CASE ~ (i <= Len(s))
    <3>1. i - Len(s) \in 1 .. Len(t)
          BY <1>1, <2>2
    <3>. QED  BY <1>1, <1>2, <2>2, <3>1
  <2>. QED  BY <2>1, <2>2
<1>. QED  BY <1>1, <1>3

LEMMA Singletons ==
    ASSUME NEW S, NEW p \in S, NEW q \in S
    PROVE  /\ <<>> \in Seq(S) /\ <<p>> \in Seq(S) /\ <<p, q>> \in Seq(S)
           /\ DOMAIN <<>> = {} /\ DOMAIN <<p>> = {1} /\ <<p>>[1] = p
           /\ DOMAIN <<p, q>> = {1, 2} /\ <<p, q>>[1] = p /\ <<p, q>>[2] = q
OBVIOUS

-----------------------------------------------------------------------------
(* Types. *)

(* What the widgets may be after a reply. *)
LEMMA WidgetTypes ==
    ASSUME NetOK, NEW s \in Settings
    PROVE  /\ AfterInterface(s) \in Settings /\ AfterEnabled(s) \in Settings
           /\ AfterSettings(s) \in Settings
           /\ WrittenBack(s) \in Seq(ClientPacket)
<1>1. AfterInterface(s) \in Settings
      BY DEF AfterInterface, NetOK, Settings
<1>2. Interfaces[1] \in Interface
      BY AppletAssumption DEF Interface, ToSet
<1>3. AfterList(s) \in Settings
      BY <1>1, <1>2 DEF AfterList, NetOK, Settings
<1>4. AfterEnabled(s) \in Settings
      BY <1>3 DEF AfterEnabled, Settings
<1>5. AfterSettings(s) \in Settings
      BY <1>4 DEF AfterSettings, Settings
<1>6. Update(AfterInterface(s)) \in ClientPacket /\ Update(AfterEnabled(s)) \in ClientPacket
      BY <1>1, <1>4, PacketTypes
<1>. DEFINE a == IF AfterInterface(s) = ui THEN <<>> ELSE <<Update(AfterInterface(s))>>
            b == IF s.enabled = ui.enabled THEN <<>> ELSE <<Update(AfterEnabled(s))>>
<1>7. a \in Seq(ClientPacket) /\ b \in Seq(ClientPacket)
      BY <1>6
<1>. HIDE DEF a, b
<1>8. a \o b \in Seq(ClientPacket)
      BY <1>7, Concatenated
<1>9. WrittenBack(s) \in Seq(ClientPacket)
      BY <1>8 DEF WrittenBack, a, b
<1>. QED  BY <1>1, <1>4, <1>5, <1>9

LEMMA ReadyTypes ==
    ASSUME NetOK, NEW p \in ServicePacket, dataReady(p)
    PROVE  /\ ui' \in Settings /\ populated' \in BOOLEAN /\ informed' \in BOOLEAN
           /\ toService' \in Seq(ClientPacket)
<1>1. CASE p.kind = "reply"
  <2>1. p.settings \in Settings
        BY <1>1, PacketKinds
  <2>2. /\ ui' = IF p.all THEN AfterSettings(p.settings) ELSE AfterEnabled(p.settings)
        /\ populated' = TRUE /\ toService' = toService \o WrittenBack(p.settings)
        /\ informed' \in BOOLEAN
        BY <1>1 DEF dataReady, NetOK
  <2>. QED  BY <2>1, <2>2, WidgetTypes, Concatenated DEF NetOK
<1>2. CASE p.kind \in {"history", "async"}
  <2>1. UNCHANGED <<ui, populated, informed, toService>>
        BY <1>2 DEF dataReady
  <2>. QED  BY <2>1 DEF NetOK
<1>. QED  BY <1>1, <1>2, PacketKinds

LEMMA SendsTypes ==
    ASSUME NetOK, NEW packets \in Seq(ClientPacket), Sends(packets)
    PROVE  /\ toService' \in Seq(ClientPacket) /\ toClient' = toClient
           /\ mRXPacket' \in {Idle, Garbled} \cup ServicePacket
BY Concatenated DEF Sends, NetOK

(* What the actions do, in the terms of NetOK. *)
LEMMA SendingTypes ==
    ASSUME NetOK,
           \/ pollPeriodicKeys \/ dialogTimer \/ enabledChanged \/ interfaceChanged
           \/ EditSize \/ EditRules \/ clicked \/ refreshNow \/ cellClicked
    PROVE  NetOK'
<1>1. CASE pollPeriodicKeys
  <2>2. Poll(FALSE) \in ClientPacket
        BY PacketTypes
  <2>1. <<Poll(FALSE)>> \in Seq(ClientPacket)
        BY <2>2, Singletons, Zenon
  <2>. QED  BY <1>1, <2>1, SendsTypes DEF pollPeriodicKeys, NetOK, serviceVars, uiVars, userVars
<1>2. ASSUME PollHistory
      PROVE  /\ toService' \in Seq(ClientPacket) /\ toClient' = toClient
             /\ mRXPacket' \in {Idle, Garbled} \cup ServicePacket
  <2>1. <<ResolverHistory>> \in Seq(ClientPacket)
        BY PacketTypes
  <2>. QED  BY <1>2, <2>1, SendsTypes DEF PollHistory, netVars, NetOK
<1>3. CASE dialogTimer
      BY <1>2, <1>3 DEF dialogTimer, NetOK, serviceVars, uiVars, userVars
<1>4. CASE cellClicked
      BY <1>2, <1>4 DEF cellClicked, NetOK, serviceVars, uiVars
<1>5. ASSUME NEW u \in Settings, Changes(u), Sends(<<Update(u)>>) \/ UNCHANGED netVars
      PROVE  NetOK'
  <2>1. <<Update(u)>> \in Seq(ClientPacket)
        BY PacketTypes
  <2>2. /\ toService' \in Seq(ClientPacket) /\ toClient' = toClient
        /\ mRXPacket' \in {Idle, Garbled} \cup ServicePacket
        BY <1>5, <2>1, SendsTypes DEF netVars, NetOK
  <2>. QED  BY <1>5, <2>2 DEF Changes, NetOK, serviceVars
<1>6. CASE enabledChanged
  <2>1. [ui EXCEPT !.enabled = ~ @] \in Settings
        BY DEF NetOK, Settings
  <2>. QED  BY <1>5, <1>6, <2>1 DEF enabledChanged
<1>7. CASE interfaceChanged
  <2>1. \A i \in Interface : [ui EXCEPT !.interface = i] \in Settings
        BY DEF NetOK, Settings
  <2>. QED  BY <1>5, <1>7, <2>1 DEF interfaceChanged
<1>8. CASE EditSize
  <2>1. \A i \in Sizes : [ui EXCEPT !.size = i] \in Settings
        BY DEF NetOK, Settings
  <2>. QED  BY <1>5, <1>8, <2>1 DEF EditSize
<1>9. CASE EditRules
  <2>1. \A i \in Rules : [ui EXCEPT !.rules = i] \in Settings
        BY DEF NetOK, Settings
  <2>. QED  BY <1>5, <1>9, <2>1 DEF EditRules
<1>10. CASE clicked
  <2>1. <<Update(ui)>> \in Seq(ClientPacket)
        BY PacketTypes DEF NetOK
  <2>. QED  BY <1>10, <2>1, SendsTypes DEF clicked, NetOK, serviceVars, uiVars
<1>11. CASE refreshNow
  <2>1. toService' = Append(toService, Unframed)
        BY <1>11 DEF refreshNow
  <2>2. toService' \in Seq(ClientPacket)
        BY <2>1, PacketTypes DEF NetOK
  <2>. QED  BY <1>11, <2>2 DEF refreshNow, NetOK, serviceVars, uiVars
<1>. QED  BY <1>1, <1>3, <1>4, <1>6, <1>7, <1>8, <1>9, <1>10, <1>11

LEMMA ServiceTypes ==
    ASSUME NetOK, NEW n \in 1 .. Len(toService), serviceReceives(n)
    PROVE  NetOK'
<1>. DEFINE p == toService[1]
<1>1. p \in ClientPacket /\ toService' \in Seq(ClientPacket)
  <2>1. toService \in Seq(ClientPacket) /\ Len(toService) \in Nat
        BY LenProperties DEF NetOK
  <2>2. 1 \in 1 .. Len(toService)
        BY <2>1
  <2>. QED  BY <2>1, <2>2, Rest, ElementOfSeq DEF serviceReceives
<1>2. /\ \A q \in ServicePacket : Cells(q) \in Seq(Cell)
      /\ \A some \in BOOLEAN : Message(some) \in Seq(Cell)
      BY PacketTypes DEF Cells, Message
<1>3. \/ pollKeyValue(p) \/ dataReadyUpdate(p) \/ dataReadyHistory(p) \/ Unreadable(p)
      BY DEF serviceReceives
<1>. HIDE DEF p
<1>4. service \in Settings /\ mAsyncMessage \in BOOLEAN /\ toClient \in Seq(Cell)
      BY DEF NetOK
<1>5. ASSUME NEW cells \in Seq(Cell), Answer(cells) PROVE toClient' \in Seq(Cell)
      BY <1>4, <1>5, Concatenated DEF Answer
<1>6. service' \in Settings /\ mAsyncMessage' \in BOOLEAN /\ toClient' \in Seq(Cell)
  <2>1. CASE pollKeyValue(p)
    <3>1. p.all \in BOOLEAN
          BY <1>1, <2>1, PacketKinds DEF pollKeyValue
    <3>2. Cells(Reply(p.all)) \in Seq(Cell)
          BY <1>2, <1>4, <3>1, PacketTypes
    <3>. QED  BY <1>4, <1>5, <2>1, <3>2 DEF pollKeyValue, serviceVars
  <2>2. CASE dataReadyUpdate(p)
    <3>1. p.settings \in Settings
          BY <1>1, <2>2, PacketKinds DEF dataReadyUpdate
    <3>2. service' \in Settings
          BY <1>4, <2>2, <3>1 DEF dataReadyUpdate, Applied, Settings
    <3>3. mAsyncMessage' \in BOOLEAN
          BY <1>4, <2>2 DEF dataReadyUpdate
    <3>4. Answer(Message(mAsyncMessage'))
          BY <2>2 DEF dataReadyUpdate
    <3>. QED  BY <1>2, <1>5, <3>2, <3>3, <3>4
  <2>3. CASE dataReadyHistory(p)
    <3>1. Cells(ResolverHistory) \o Message(mAsyncMessage) \in Seq(Cell)
          BY <1>2, <1>4, PacketTypes, Concatenated
    <3>. QED  BY <1>4, <1>5, <2>3, <3>1 DEF dataReadyHistory, serviceVars
  <2>4. CASE Unreadable(p)
        BY <1>4, <2>4 DEF Unreadable, serviceVars
  <2>. QED  BY <1>3, <2>1, <2>2, <2>3, <2>4
<1>. QED  BY <1>1, <1>6 DEF serviceReceives, NetOK, uiVars, userVars

LEMMA ClientTypes ==
    ASSUME NetOK, NEW n \in 1 .. Len(toClient), clientReceives(n)
    PROVE  NetOK'
<1>1. toClient[1] \in Cell /\ toClient' \in Seq(Cell)
  <2>1. toClient \in Seq(Cell) /\ Len(toClient) \in Nat
        BY LenProperties DEF NetOK
  <2>2. 1 \in 1 .. Len(toClient)
        BY <2>1
  <2>. QED  BY <2>1, <2>2, Rest, ElementOfSeq DEF clientReceives
<1>2. toClient[1] # Remainder => toClient[1] \in ServicePacket
      BY <1>1 DEF Cell
<1>3. mRXPacket \notin {Idle, Garbled} => mRXPacket \in ServicePacket
      BY DEF NetOK
<1>4. /\ ui' \in Settings /\ populated' \in BOOLEAN /\ informed' \in BOOLEAN
      /\ toService' \in Seq(ClientPacket)
      /\ mRXPacket' \in {Idle, Garbled} \cup ServicePacket
  <2>1. CASE mRXPacket = Idle /\ toClient[1] # Remainder /\ dataReady(toClient[1])
             /\ mRXPacket' = Idle
        BY <1>2, <2>1, ReadyTypes
  <2>2. CASE mRXPacket \notin {Idle, Garbled} /\ dataReady(mRXPacket) /\ mRXPacket' = Idle
        BY <1>3, <2>2, ReadyTypes
  <2>3. CASE /\ \/ mRXPacket' = toClient[1] /\ toClient[1] # Remainder
                \/ mRXPacket' \in {Idle, Garbled}
             /\ UNCHANGED <<ui, populated, informed, toService, dialog>>
        BY <1>2, <2>3 DEF NetOK
  <2>. QED  BY <2>1, <2>2, <2>3, Zenon DEF clientReceives, recv
<1>. QED  BY <1>1, <1>4 DEF clientReceives, NetOK, serviceVars, userVars

LEMMA OtherTypes ==
    ASSUME NetOK,
           \/ connectToService \/ closing \/ runOnce
           \/ ServiceStops \/ ServiceStarts \/ AppletRestarts \/ UNCHANGED vars
    PROVE  NetOK'
<1>1. CASE connectToService
  <2>1. Poll(TRUE) \in ClientPacket
        BY PacketTypes
  <2>2. <<Poll(TRUE)>> \in Seq(ClientPacket)
        BY <2>1, Singletons, Zenon
  <2>3. <<>> \in Seq(Cell)
        OBVIOUS
  <2>. QED  BY <1>1, <2>2, <2>3 DEF connectToService, NetOK, serviceVars, netVars, userVars
<1>2. CASE closing \/ runOnce \/ ServiceStarts \/ UNCHANGED vars
      BY <1>2 DEF closing, runOnce, ServiceStarts, vars, NetOK, serviceVars, uiVars, netVars,
                  userVars
<1>3. CASE ServiceStops \/ AppletRestarts
  <2>1. <<>> \in Seq(ClientPacket) /\ <<>> \in Seq(Cell) /\ Defaults \in Settings
        BY AppletAssumption
  <2>. QED  BY <1>3, <2>1
            DEF ServiceStops, AppletRestarts, Disconnects, NetOK, uiVars, userVars, serviceVars
<1>. QED  BY <1>1, <1>2, <1>3

LEMMA Typed == NetOK /\ [Next]_vars => NetOK'
BY SendingTypes, ServiceTypes, ClientTypes, OtherTypes DEF Next, User

-----------------------------------------------------------------------------
(* The invariant, as long as the user has touched nothing. *)

(* The updates under way are in U, and the settings of replies in R. *)
Updates(s, U) == \A i \in DOMAIN s : s[i].kind = "update" => s[i].settings \in U
Tells(p, R) == p.kind = "reply" => p.settings \in R
AllTell(s, R) == \A i \in DOMAIN s : Tells(s[i], R)
Replies(R) == AllTell(toClient, R) /\ Tells(mRXPacket, R)
Wire(U, R) == Updates(toService, U) /\ Replies(R)

(* All that anyone has ever shown or sent. *)
Fitting == {s \in Settings : /\ s.enabled = Defaults.enabled
                             /\ s.rules = NoRules => Defaults.rules = NoRules}

(* What changes nothing in the service, and widgets that show what it has, *)
(* perhaps but for the interface.                                          *)
Harmless == {u \in Settings : Applied(u) = service}
Shown == [ui EXCEPT !.interface = service.interface] = service

Untouched ==
    /\ service \in Fitting /\ ui \in Fitting /\ Wire(Fitting, Fitting)
    /\ ~ populated => ui = Defaults /\ ~ informed
    /\ ~ populated /\ connected => Wire({}, {service})
    /\ informed => Shown
    /\ informed /\ connected => Wire(Harmless, {service})

IInv == NetOK /\ (~ edited => Untouched)

LEMMA SendsWire ==
    ASSUME NetOK, NEW U, NEW R, Wire(U, R),
           NEW packet \in ClientPacket, packet.kind # "update", Sends(<<packet>>)
    PROVE  Wire(U, R)'
<1>1. /\ <<packet>> \in Seq(ClientPacket) /\ DOMAIN <<packet>> = {1} /\ <<packet>>[1] = packet
      BY Singletons
<1>2. Updates(toService', U)
  <2>1. toService' \in {toService \o <<packet>>, toService}
        BY DEF Sends
  <2>2. Updates(toService \o <<packet>>, U)
        BY <1>1, Concatenated DEF Wire, Updates, NetOK
  <2>. QED  BY <2>1, <2>2 DEF Wire
<1>3. toClient' = toClient /\ mRXPacket' \in {Idle, mRXPacket}
      BY DEF Sends
<1>4. Tells(mRXPacket', R)
      BY <1>3 DEF Wire, Replies, Tells, Idle
<1>. QED  BY <1>2, <1>3, <1>4 DEF Wire, Replies, Updates, AllTell, Tells

(* Timers and buttons ask. *)
LEMMA AskingWire ==
    ASSUME NetOK, NEW U, NEW R, Wire(U, R),
           pollPeriodicKeys \/ dialogTimer \/ cellClicked \/ refreshNow
    PROVE  Wire(U, R)'
<1>1. /\ Poll(FALSE) \in ClientPacket /\ Poll(FALSE).kind # "update"
      /\ ResolverHistory \in ClientPacket /\ ResolverHistory.kind # "update"
  <2>1. Poll(FALSE).kind = "poll" /\ ResolverHistory.kind = "history"
        BY DEF Poll, ResolverHistory
  <2>. QED  BY <2>1, PacketTypes
<1>2. CASE Sends(<<Poll(FALSE)>>) \/ Sends(<<ResolverHistory>>)
      BY <1>1, <1>2, SendsWire
<1>3. CASE UNCHANGED netVars
      BY <1>3 DEF netVars, Wire, Replies, Updates, AllTell, Tells
<1>4. CASE refreshNow
  <2>1. /\ toService' = Append(toService, Unframed) /\ UNCHANGED <<mRXPacket, toClient>>
        BY <1>4 DEF refreshNow
  <2>2. /\ Len(toService) \in Nat /\ DOMAIN toService = 1 .. Len(toService)
        /\ DOMAIN toService' = 1 .. Len(toService) + 1
        /\ \A i \in 1 .. Len(toService) : toService'[i] = toService[i]
        /\ toService'[Len(toService) + 1] = Unframed
        BY <2>1, LenProperties, AppendProperties DEF NetOK
  <2>3. Unframed.kind # "update"
        BY DEF Unframed
  <2>4. \A i \in 1 .. Len(toService) + 1 : i \in 1 .. Len(toService) \/ i = Len(toService) + 1
        BY <2>2
  <2>5. Updates(toService', U)
        BY <2>2, <2>3, <2>4 DEF Wire, Updates
  <2>. QED  BY <2>1, <2>5 DEF Wire, Replies, Updates, AllTell, Tells
<1>. QED  BY <1>2, <1>3, <1>4, Zenon DEF pollPeriodicKeys, dialogTimer, cellClicked, PollHistory

(* What the service answers. *)
LEMMA CellFacts ==
    ASSUME NEW R
    PROVE  /\ \A q \in ServicePacket :
                 Cells(q) \in Seq(Cell) /\ (Tells(q, R) => AllTell(Cells(q), R))
           /\ \A some \in BOOLEAN : Message(some) \in Seq(Cell) /\ AllTell(Message(some), R)
           /\ Tells(ResolverHistory, R) /\ Tells(AsyncMessage, R)
<1>1. Remainder.kind # "reply" /\ Remainder \in Cell /\ ServicePacket \subseteq Cell
      BY DEF Remainder, Cell
<1>2. Tells(Remainder, R)
      BY <1>1 DEF Tells
<1>3. ASSUME NEW q \in ServicePacket
      PROVE  Cells(q) \in Seq(Cell) /\ (Tells(q, R) => AllTell(Cells(q), R))
  <2>1. /\ <<q, Remainder>> \in Seq(Cell) /\ DOMAIN <<q, Remainder>> = {1, 2}
        /\ <<q, Remainder>>[1] = q /\ <<q, Remainder>>[2] = Remainder
        BY <1>1, Singletons
  <2>. QED  BY <1>2, <2>1 DEF Cells, AllTell
<1>4. Tells(ResolverHistory, R) /\ Tells(AsyncMessage, R)
      BY DEF Tells, ResolverHistory, AsyncMessage
<1>5. <<>> \in Seq(Cell) /\ AllTell(<<>>, R)
      BY DEF AllTell
<1>6. AsyncMessage \in ServicePacket
      BY PacketTypes
<1>7. \A some \in BOOLEAN : Message(some) \in Seq(Cell) /\ AllTell(Message(some), R)
      BY <1>3, <1>4, <1>5, <1>6 DEF Message
<1>. QED  BY <1>3, <1>4, <1>7

LEMMA TellTogether ==
    ASSUME NEW R, NEW s \in Seq(Cell), NEW t \in Seq(Cell), AllTell(s, R), AllTell(t, R)
    PROVE  s \o t \in Seq(Cell) /\ AllTell(s \o t, R)
BY Concatenated DEF AllTell

LEMMA ServiceWire ==
    ASSUME NetOK, NEW U, NEW R, Wire(U, R), service \in R,
           NEW n \in 1 .. Len(toService), serviceReceives(n)
    PROVE  /\ Wire(U, R)'
           /\ UNCHANGED service \/ \E u \in U \cap Settings : service' = Applied(u)
<1>. DEFINE p == toService[1]
<1>1. /\ UNCHANGED mRXPacket
      /\ toService' = SubSeq(toService, n + 1, Len(toService))
      /\ pollKeyValue(p) \/ dataReadyUpdate(p) \/ dataReadyHistory(p) \/ Unreadable(p)
      BY DEF serviceReceives
<1>2. 1 \in DOMAIN toService /\ p \in ClientPacket /\ toService \in Seq(ClientPacket)
  <2>1. /\ toService \in Seq(ClientPacket) /\ Len(toService) \in Nat
        /\ DOMAIN toService = 1 .. Len(toService)
        BY LenProperties DEF NetOK
  <2>2. 1 \in 1 .. Len(toService)
        BY <2>1
  <2>3. toService[1] \in ClientPacket
        BY <2>1, <2>2, ElementOfSeq
  <2>. QED  BY <2>1, <2>2, <2>3
<1>3. p.kind = "update" => p.settings \in U
      BY <1>2 DEF Wire, Updates
<1>. HIDE DEF p
<1>4. \A i \in DOMAIN toService' : n + i \in DOMAIN toService /\ toService'[i] = toService[n + i]
      BY <1>1, <1>2, Rest
<1>5. Updates(toService', U)
      BY <1>4 DEF Wire, Updates
<1>6. /\ toClient \in Seq(Cell) /\ AllTell(toClient, R) /\ service \in Settings
      /\ mAsyncMessage \in BOOLEAN
      BY DEF NetOK, Wire, Replies
<1>7. /\ AllTell(toClient', R)
      /\ UNCHANGED service \/ \E u \in U \cap Settings : service' = Applied(u)
  <2>1. CASE pollKeyValue(p)
    <3>1. p.all \in BOOLEAN
          BY <1>2, <2>1, PacketKinds DEF pollKeyValue
    <3>2. Reply(p.all) \in ServicePacket /\ Tells(Reply(p.all), R)
      <4>1. Reply(p.all) \in ServicePacket
            BY <1>6, <3>1, PacketTypes
      <4>2. Reply(p.all).settings = service
            BY DEF Reply
      <4>. QED  BY <4>1, <4>2 DEF Tells
    <3>3. Cells(Reply(p.all)) \in Seq(Cell) /\ AllTell(Cells(Reply(p.all)), R)
          BY <3>2, CellFacts
    <3>4. toClient' = toClient \o Cells(Reply(p.all)) /\ service' = service
          BY <2>1 DEF pollKeyValue, Answer, serviceVars
    <3>. QED  BY <1>6, <3>3, <3>4, TellTogether
  <2>2. CASE dataReadyUpdate(p)
    <3>1. p.settings \in U \cap Settings /\ service' = Applied(p.settings)
          BY <1>2, <1>3, <2>2, PacketKinds DEF dataReadyUpdate
    <3>2. mAsyncMessage' \in BOOLEAN /\ toClient' = toClient \o Message(mAsyncMessage')
          BY <1>6, <2>2 DEF dataReadyUpdate, Answer
    <3>3. Message(mAsyncMessage') \in Seq(Cell) /\ AllTell(Message(mAsyncMessage'), R)
          BY <3>2, CellFacts
    <3>. QED  BY <1>6, <3>1, <3>2, <3>3, TellTogether
  <2>3. CASE dataReadyHistory(p)
    <3>1. /\ Cells(ResolverHistory) \in Seq(Cell) /\ AllTell(Cells(ResolverHistory), R)
          /\ Message(mAsyncMessage) \in Seq(Cell) /\ AllTell(Message(mAsyncMessage), R)
          BY <1>6, PacketTypes, CellFacts
    <3>2. /\ toClient' = toClient \o (Cells(ResolverHistory) \o Message(mAsyncMessage))
          /\ service' = service
          BY <2>3 DEF dataReadyHistory, Answer, serviceVars
    <3>3. LET cells == Cells(ResolverHistory) \o Message(mAsyncMessage)
          IN  cells \in Seq(Cell) /\ AllTell(cells, R)
          BY <3>1, TellTogether
    <3>. QED  BY <1>6, <3>2, <3>3, TellTogether
  <2>4. CASE Unreadable(p)
        BY <1>6, <2>4 DEF Unreadable, serviceVars
  <2>. QED  BY <1>1, <2>1, <2>2, <2>3, <2>4
<1>8. Tells(mRXPacket', R)
      BY <1>1 DEF Wire, Replies
<1>. QED  BY <1>5, <1>7, <1>8 DEF Wire, Replies, Updates, AllTell, Tells

(* A reply p has come, with settings of R. *)
Takes(p, R) ==
    /\ p.settings \in R \cap Settings /\ p.all \in BOOLEAN
    /\ ui' = IF p.all THEN AfterSettings(p.settings) ELSE AfterEnabled(p.settings)
    /\ populated' = TRUE
    /\ informed' = (informed \/ (p.all /\ ~ populated))
    /\ toService' = toService \o WrittenBack(p.settings)

LEMMA ReadyTakes ==
    ASSUME NEW R, NEW p \in ServicePacket, Tells(p, R), dataReady(p)
    PROVE  UNCHANGED <<ui, populated, informed, toService>> \/ Takes(p, R)
<1>1. CASE p.kind = "reply"
      BY <1>1, PacketKinds DEF dataReady, Tells, Takes
<1>2. CASE p.kind \in {"history", "async"}
      BY <1>2 DEF dataReady
<1>. QED  BY <1>1, <1>2, PacketKinds

LEMMA ClientWire ==
    ASSUME NetOK, NEW R, Replies(R), NEW n \in 1 .. Len(toClient), clientReceives(n)
    PROVE  /\ UNCHANGED <<service, connected>> /\ Replies(R)'
           /\ UNCHANGED <<ui, populated, informed, toService>> \/ \E p : Takes(p, R)
<1>1. /\ UNCHANGED <<service, connected>> /\ recv(n)
      /\ toClient' = SubSeq(toClient, n + 1, Len(toClient))
      BY DEF clientReceives, serviceVars
<1>2. toClient \in Seq(Cell) /\ 1 \in DOMAIN toClient /\ toClient[1] \in Cell
  <2>1. toClient \in Seq(Cell) /\ Len(toClient) \in Nat /\ DOMAIN toClient = 1 .. Len(toClient)
        BY LenProperties DEF NetOK
  <2>2. 1 \in 1 .. Len(toClient)
        BY <2>1
  <2>3. toClient[1] \in Cell
        BY <2>1, <2>2, ElementOfSeq
  <2>. QED  BY <2>1, <2>2, <2>3
<1>3. Tells(toClient[1], R) /\ Tells(mRXPacket, R) /\ AllTell(toClient', R)
  <2>1. \A i \in DOMAIN toClient' : n + i \in DOMAIN toClient /\ toClient'[i] = toClient[n + i]
        BY <1>1, <1>2, Rest
  <2>. QED  BY <1>2, <2>1 DEF Replies, AllTell
<1>4. /\ toClient[1] # Remainder => toClient[1] \in ServicePacket
      /\ mRXPacket \notin {Idle, Garbled} => mRXPacket \in ServicePacket
      BY <1>2 DEF Cell, NetOK
<1>5. Tells(Idle, R) /\ Tells(Garbled, R)
      BY DEF Tells, Idle, Garbled
<1>6. /\ Tells(mRXPacket', R)
      /\ UNCHANGED <<ui, populated, informed, toService>> \/ \E p : Takes(p, R)
  <2>1. CASE toClient[1] # Remainder /\ dataReady(toClient[1]) /\ mRXPacket' = Idle
        BY <1>3, <1>4, <1>5, <2>1, ReadyTakes
  <2>2. CASE mRXPacket \notin {Idle, Garbled} /\ dataReady(mRXPacket) /\ mRXPacket' = Idle
        BY <1>3, <1>4, <1>5, <2>2, ReadyTakes
  <2>3. CASE /\ mRXPacket' = toClient[1] \/ mRXPacket' \in {Idle, Garbled}
             /\ UNCHANGED <<ui, populated, informed, toService, dialog>>
        BY <1>3, <1>5, <2>3
  <2>. QED  BY <1>1, <2>1, <2>2, <2>3, Zenon DEF recv
<1>. QED  BY <1>1, <1>3, <1>6 DEF Replies, AllTell, Tells

(* What a reply does to the widgets, by parts. *)
LEMMA AfterReply ==
    ASSUME NetOK, NEW s \in Settings
    PROVE  /\ AfterInterface(s) \in {ui, [ui EXCEPT !.interface = s.interface]}
           /\ ~ populated => AfterInterface(s) = ui
           /\ AfterEnabled(s) \in Settings /\ AfterEnabled(s).enabled = s.enabled
           /\ AfterEnabled(s).size = ui.size /\ AfterEnabled(s).rules = ui.rules
           /\ AfterSettings(s) \in Settings /\ AfterSettings(s).enabled = s.enabled
           /\ AfterSettings(s).size = s.size
           /\ AfterSettings(s).rules = IF s.rules = NoRules THEN ui.rules ELSE s.rules
<1>1. /\ AfterInterface(s) \in {ui, [ui EXCEPT !.interface = s.interface]}
      /\ ~ populated => AfterInterface(s) = ui
      BY DEF AfterInterface
<1>2. /\ AfterList(s) \in Settings
      /\ AfterList(s).size = ui.size /\ AfterList(s).rules = ui.rules
  <2>1. Interfaces[1] \in Interface
        BY AppletAssumption DEF Interface, ToSet
  <2>. QED  BY <1>1, <2>1 DEF AfterList, NetOK, Settings
<1>3. /\ AfterEnabled(s) \in Settings /\ AfterEnabled(s).enabled = s.enabled
      /\ AfterEnabled(s).size = ui.size /\ AfterEnabled(s).rules = ui.rules
      BY <1>2 DEF AfterEnabled, Settings
<1>4. /\ AfterSettings(s) \in Settings /\ AfterSettings(s).enabled = s.enabled
      /\ AfterSettings(s).size = s.size
      /\ AfterSettings(s).rules = IF s.rules = NoRules THEN ui.rules ELSE s.rules
      BY <1>3 DEF AfterSettings, Settings
<1>. QED  BY <1>1, <1>3, <1>4

(* What they send back is among what they show, or nothing if nothing has  *)
(* changed.                                                                *)
LEMMA WrittenBackIsIn ==
    ASSUME NetOK, NEW s \in Settings, NEW U, Updates(toService, U),
           AfterInterface(s) = ui \/ AfterInterface(s) \in U,
           s.enabled = ui.enabled \/ AfterEnabled(s) \in U
    PROVE  Updates(toService \o WrittenBack(s), U)
<1>. DEFINE a == IF AfterInterface(s) = ui THEN <<>> ELSE <<Update(AfterInterface(s))>>
            b == IF s.enabled = ui.enabled THEN <<>> ELSE <<Update(AfterEnabled(s))>>
<1>1. ASSUME NEW u \in Settings
      PROVE  /\ <<Update(u)>> \in Seq(ClientPacket) /\ (u \in U => Updates(<<Update(u)>>, U))
             /\ <<>> \in Seq(ClientPacket) /\ Updates(<<>>, U)
  <2>1. Update(u) \in ClientPacket /\ Update(u).settings = u
        BY PacketTypes DEF Update
  <2>2. /\ <<Update(u)>> \in Seq(ClientPacket) /\ DOMAIN <<Update(u)>> = {1}
        /\ <<Update(u)>>[1] = Update(u)
        /\ <<>> \in Seq(ClientPacket) /\ DOMAIN <<>> = {}
        BY <2>1, Singletons
  <2>. QED  BY <2>1, <2>2 DEF Updates
<1>2. AfterInterface(s) \in Settings /\ AfterEnabled(s) \in Settings
      BY WidgetTypes
<1>3. a \in Seq(ClientPacket) /\ Updates(a, U)
      BY <1>1, <1>2
<1>4. b \in Seq(ClientPacket) /\ Updates(b, U)
      BY <1>1, <1>2
<1>5. WrittenBack(s) = a \o b
      BY DEF WrittenBack
<1>. HIDE DEF a, b
<1>6. ASSUME NEW x \in Seq(ClientPacket), NEW y \in Seq(ClientPacket),
             Updates(x, U), Updates(y, U)
      PROVE  x \o y \in Seq(ClientPacket) /\ Updates(x \o y, U)
      BY <1>6, Concatenated DEF Updates
<1>. QED  BY <1>3, <1>4, <1>5, <1>6 DEF NetOK

LEMMA Unchanging == Untouched /\ UNCHANGED <<service, ui, populated, informed, connected>>
                       => /\ Harmless' = Harmless
                          /\ Shown => Shown'
                          /\ ui' \in Fitting /\ service' \in Fitting
BY DEF Untouched, Harmless, Applied, Shown, Fitting

LEMMA AsksUntouched ==
    ASSUME NetOK, Untouched, pollPeriodicKeys \/ dialogTimer \/ cellClicked \/ refreshNow
    PROVE  Untouched'
<1>1. UNCHANGED <<service, ui, populated, informed, connected>>
      BY DEF pollPeriodicKeys, dialogTimer, cellClicked, refreshNow, serviceVars, uiVars
<1>2. PICK F, H, c : F = Fitting /\ H = Harmless /\ c = service
      OBVIOUS
<1>3. Wire(F, F)'
      BY <1>2, AskingWire DEF Untouched
<1>4. ~ populated /\ connected => Wire({}, {c})'
      BY <1>2, AskingWire DEF Untouched
<1>5. informed /\ connected => Wire(H, {c})'
      BY <1>2, AskingWire DEF Untouched
<1>6. F = Fitting' /\ H = Harmless' /\ c = service' /\ (Shown => Shown')
      BY <1>1, <1>2, Unchanging DEF Fitting
<1>7. ui' \in Fitting /\ service' \in Fitting
      BY <1>1, Unchanging
<1>. QED  BY <1>1, <1>3, <1>4, <1>5, <1>6, <1>7, Zenon DEF Untouched

LEMMA ServiceUntouched ==
    ASSUME NetOK, Untouched, NEW n \in 1 .. Len(toService), serviceReceives(n)
    PROVE  Untouched' /\ (informed => UNCHANGED service)
<1>1. connected /\ UNCHANGED <<ui, populated, informed, connected>>
      BY DEF serviceReceives, uiVars
<1>2. PICK F, H, c : F = Fitting /\ H = Harmless /\ c = service
      OBVIOUS
<1>3. /\ Wire(F, F)'
      /\ UNCHANGED service \/ \E u \in F \cap Settings : service' = Applied(u)
      BY <1>2, ServiceWire DEF Untouched
<1>4. service' \in Fitting
      BY <1>2, <1>3 DEF Untouched, Fitting, Applied, Settings
<1>5. ASSUME ~ populated PROVE Wire({}, {c})' /\ UNCHANGED service
  <2>1. Wire({}, {c}) /\ service \in {c}
        BY <1>1, <1>2, <1>5 DEF Untouched
  <2>. QED  BY <2>1, ServiceWire
<1>6. ASSUME informed PROVE Wire(H, {c})' /\ UNCHANGED service
  <2>1. Wire(H, {c}) /\ service \in {c}
        BY <1>1, <1>2, <1>6 DEF Untouched
  <2>2. Wire(H, {c})' /\ (UNCHANGED service \/ \E u \in H \cap Settings : service' = Applied(u))
        BY <2>1, ServiceWire
  <2>. QED  BY <1>2, <2>2 DEF Harmless
<1>7. informed => H = Harmless' /\ c = service' /\ Shown'
      BY <1>1, <1>2, <1>6, Unchanging DEF Untouched
<1>8. ~ populated => ui' = Defaults /\ ~ informed' /\ c = service'
      BY <1>1, <1>2, <1>5 DEF Untouched
<1>9. ui' \in Fitting /\ F = Fitting
      BY <1>1, <1>2 DEF Untouched
<1>. QED  BY <1>1, <1>3, <1>4, <1>5, <1>6, <1>7, <1>8, <1>9, Zenon DEF Untouched

(* The first reply is all that an applet without widgets filled can act on; *)
(* if it has all the keys, they show what the service has from then on.    *)
LEMMA TakesUntouched ==
    ASSUME NetOK, Untouched, connected, NEW p, Takes(p, Fitting),
           ~ populated \/ informed => p.settings = service,
           UNCHANGED <<service, connected>>, Replies(Fitting)',
           NEW c, c = service, ~ populated \/ informed => Replies({c})'
    PROVE  Untouched'
<1>. DEFINE s == p.settings
<1>1. /\ s \in Fitting /\ s \in Settings /\ p.all \in BOOLEAN /\ ui \in Settings
      /\ service \in Settings
      /\ ui' = IF p.all THEN AfterSettings(s) ELSE AfterEnabled(s)
      /\ populated' = TRUE /\ informed' = (informed \/ (p.all /\ ~ populated))
      /\ toService' = toService \o WrittenBack(s)
      BY DEF Takes, Fitting, NetOK
<1>2. ~ populated \/ informed => s = c /\ s = service
      OBVIOUS
<1>. HIDE DEF s
<1>3. /\ AfterInterface(s) \in {ui, [ui EXCEPT !.interface = s.interface]}
      /\ ~ populated => AfterInterface(s) = ui
      /\ AfterEnabled(s) \in Settings /\ AfterEnabled(s).enabled = s.enabled
      /\ AfterEnabled(s).size = ui.size /\ AfterEnabled(s).rules = ui.rules
      /\ AfterSettings(s) \in Settings /\ AfterSettings(s).enabled = s.enabled
      /\ AfterSettings(s).size = s.size
      /\ AfterSettings(s).rules = IF s.rules = NoRules THEN ui.rules ELSE s.rules
      BY <1>1, AfterReply
<1>4. /\ ui \in Fitting /\ s.enabled = Defaults.enabled /\ ui.enabled = Defaults.enabled
      /\ s.rules = NoRules => Defaults.rules = NoRules
      /\ ui.rules = NoRules => Defaults.rules = NoRules
      BY <1>1 DEF Untouched, Fitting
<1>5. AfterInterface(s) \in Settings
      BY <1>1, WidgetTypes
<1>6. AfterInterface(s) \in Fitting /\ AfterEnabled(s) \in Fitting /\ ui' \in Fitting
  <2>1. AfterInterface(s).enabled = ui.enabled /\ AfterInterface(s).rules = ui.rules
        BY <1>1, <1>3 DEF Settings
  <2>. QED  BY <1>1, <1>3, <1>4, <1>5, <2>1 DEF Fitting
<1>7. Updates(toService', Fitting)
  <2>1. Updates(toService, Fitting)
        BY DEF Untouched, Wire
  <2>. QED  BY <1>1, <1>6, <2>1, WrittenBackIsIn
<1>8. CASE ~ informed /\ (populated \/ ~ p.all)
      BY <1>1, <1>6, <1>7, <1>8 DEF Untouched, Wire, Fitting
<1>9. ASSUME informed \/ (~ populated /\ p.all)
      PROVE  /\ Shown' /\ Updates(toService', Harmless)
  <2>1. s = service
        BY <1>2, <1>9
  <2>2. CASE informed
    <3>1. ui.enabled = s.enabled /\ ui.size = s.size /\ ui.rules = s.rules
          BY <1>1, <2>1, <2>2 DEF Untouched, Shown, Settings
    <3>2. AfterInterface(s) = ui \/ AfterInterface(s) = s
          BY <1>1, <1>3, <3>1 DEF Settings
    <3>3. s \in Harmless
          BY <1>1, <2>1 DEF Harmless, Applied, Settings
    <3>4. Updates(toService, Harmless)
          BY <2>2 DEF Untouched, Wire
    <3>5. Updates(toService \o WrittenBack(s), Harmless)
          BY <1>1, <3>1, <3>2, <3>3, <3>4, WrittenBackIsIn
    <3>6. ui' \in Settings /\ ui'.enabled = s.enabled /\ ui'.size = s.size /\ ui'.rules = s.rules
          BY <1>1, <1>3, <3>1
    <3>7. [ui' EXCEPT !.interface = s.interface] = s
          BY <1>1, <3>6 DEF Settings
    <3>. QED  BY <1>1, <2>1, <3>5, <3>7 DEF Shown
  <2>3. CASE ~ populated /\ p.all
    <3>1. ui = Defaults /\ AfterInterface(s) = ui /\ s.enabled = ui.enabled
          BY <1>3, <1>4, <2>3 DEF Untouched
    <3>2. Updates(toService, {})
          BY <2>3 DEF Untouched, Wire
    <3>3. Updates(toService \o WrittenBack(s), {})
          BY <1>1, <3>1, <3>2, WrittenBackIsIn
    <3>4. Updates(toService', Harmless)
          BY <1>1, <3>3 DEF Updates
    <3>5. AfterSettings(s).rules = s.rules
          BY <1>3, <1>4, <3>1
    <3>6. ui' \in Settings /\ ui'.enabled = s.enabled /\ ui'.size = s.size /\ ui'.rules = s.rules
          BY <1>1, <1>3, <2>3, <3>5
    <3>7. [ui' EXCEPT !.interface = s.interface] = s
          BY <1>1, <3>6 DEF Settings
    <3>. QED  BY <2>1, <3>4, <3>7 DEF Shown
  <2>. QED  BY <1>9, <2>2, <2>3
<1>10. CASE informed \/ (~ populated /\ p.all)
  <2>1. Harmless' = Harmless
        BY DEF Harmless, Applied
  <2>2. Shown' /\ Wire(Harmless, {service})'
    <3>1. Replies({c})' /\ c = service'
          BY <1>10
    <3>2. Replies({service})'
          BY <3>1 DEF Replies, AllTell, Tells
    <3>3. Updates(toService, Harmless)'
          BY <1>9, <1>10, <2>1 DEF Updates
    <3>. QED  BY <1>9, <1>10, <3>2, <3>3 DEF Wire
  <2>. QED  BY <1>1, <1>6, <1>7, <2>2 DEF Untouched, Wire, Fitting
<1>. QED  BY <1>8, <1>10

LEMMA ClientUntouched ==
    ASSUME NetOK, Untouched, NEW n \in 1 .. Len(toClient), clientReceives(n)
    PROVE  Untouched'
<1>1. PICK F, H, c : F = Fitting /\ H = Harmless /\ c = service
      OBVIOUS
<1>2. connected
      BY DEF clientReceives
<1>3. /\ UNCHANGED <<service, connected>> /\ Replies(F)'
      /\ UNCHANGED <<ui, populated, informed, toService>> \/ \E p : Takes(p, F)
      BY <1>1, ClientWire DEF Untouched, Wire
<1>4. ASSUME ~ populated \/ informed
      PROVE  /\ Replies({c})'
             /\ UNCHANGED <<ui, populated, informed, toService>> \/ \E p : Takes(p, {c})
  <2>1. Replies({c})
        BY <1>1, <1>2, <1>4 DEF Untouched, Wire
  <2>. QED  BY <2>1, ClientWire
<1>5. CASE UNCHANGED <<ui, populated, informed, toService>>
  <2>1. UNCHANGED <<service, ui, populated, informed, connected>>
        BY <1>3, <1>5
  <2>2. H = Harmless' /\ c = service' /\ (Shown => Shown') /\ ui' \in Fitting /\ service' \in Fitting
        BY <1>1, <2>1, Unchanging
  <2>3. /\ Updates(toService', F)
        /\ ~ populated => Updates(toService', {})
        /\ informed => Updates(toService', H)
        BY <1>1, <1>2, <1>5 DEF Untouched, Wire
  <2>4. /\ Wire(F, F)'
        /\ ~ populated => Wire({}, {c})'
        /\ informed => Wire(H, {c})'
        BY <1>3, <1>4, <2>3 DEF Wire
  <2>. QED  BY <1>1, <1>2, <2>1, <2>2, <2>4, Zenon DEF Untouched
<1>6. CASE ~ UNCHANGED <<ui, populated, informed, toService>>
  <2>1. PICK p : Takes(p, F) /\ (~ populated \/ informed => Takes(p, {c}))
    <3>1. CASE ~ populated \/ informed
      <4>1. PICK p : Takes(p, {c})
            BY <1>4, <1>6, <3>1
      <4>2. c \in F
            BY <1>1 DEF Untouched
      <4>3. Takes(p, F)
            BY <4>1, <4>2 DEF Takes
      <4>. QED  BY <4>1, <4>3
    <3>2. CASE ~ (~ populated \/ informed)
          BY <1>3, <1>6, <3>2
    <3>. QED  BY <3>1, <3>2
  <2>2. ~ populated \/ informed => p.settings = service
        BY <1>1, <2>1 DEF Takes
  <2>. QED  BY <1>1, <1>2, <1>3, <1>4, <2>1, <2>2, TakesUntouched
<1>. QED  BY <1>5, <1>6

(* Connections come and go. *)
LEMMA ConnectionUntouched ==
    ASSUME NetOK, Untouched, connectToService \/ ServiceStops \/ AppletRestarts
    PROVE  Untouched'
<1>1. ASSUME NEW U, NEW R
      PROVE  Updates(<<>>, U) /\ AllTell(<<>>, R) /\ Tells(Idle, R) /\ Updates(<<Poll(TRUE)>>, U)
  <2>1. Updates(<<>>, U) /\ AllTell(<<>>, R) /\ Tells(Idle, R)
        BY DEF Updates, AllTell, Tells, Idle
  <2>2. DOMAIN <<Poll(TRUE)>> = {1} /\ <<Poll(TRUE)>>[1] = Poll(TRUE) /\ Poll(TRUE).kind = "poll"
        BY DEF Poll
  <2>. QED  BY <2>1, <2>2 DEF Updates
<1>2. CASE connectToService /\ running
  <2>1. /\ toService' = <<Poll(TRUE)>> /\ toClient' = <<>> /\ mRXPacket' = Idle
        /\ UNCHANGED <<service, ui, populated, informed>>
        BY <1>2 DEF connectToService, serviceVars
  <2>2. \A U, R : Wire(U, R)'
        BY <1>1, <2>1 DEF Wire, Replies, Updates, AllTell, Tells
  <2>. QED  BY <2>1, <2>2 DEF Untouched, Shown
<1>3. CASE connectToService /\ ~ running
  <2>1. UNCHANGED <<service, ui, populated, informed, connected, toService, toClient, mRXPacket>>
        BY <1>3 DEF connectToService, serviceVars, netVars
  <2>. QED  BY <2>1 DEF Untouched, Wire, Replies, Updates, AllTell, Tells, Shown, Harmless, Applied
<1>4. CASE ServiceStops
  <2>1. /\ ~ connected' /\ toService' = <<>> /\ toClient' = <<>>
        /\ UNCHANGED <<service, ui, populated, informed, mRXPacket>>
        BY <1>4 DEF ServiceStops, Disconnects, uiVars
  <2>2. Wire(Fitting, Fitting)'
    <3>1. Tells(mRXPacket, Fitting)
          BY DEF Untouched, Wire, Replies
    <3>. QED  BY <1>1, <2>1, <3>1 DEF Wire, Replies, Updates, AllTell, Tells
  <2>. QED  BY <2>1, <2>2 DEF Untouched, Shown
<1>5. CASE AppletRestarts
  <2>1. /\ ~ connected' /\ toService' = <<>> /\ toClient' = <<>> /\ mRXPacket' = Idle
        /\ service' = service /\ ui' = Defaults /\ populated' = FALSE /\ informed' = FALSE
        BY <1>5 DEF AppletRestarts, Disconnects, serviceVars
  <2>2. Wire(Fitting, Fitting)'
        BY <1>1, <2>1 DEF Wire, Replies, Updates, AllTell, Tells
  <2>3. Defaults \in Fitting
        BY AppletAssumption DEF Fitting
  <2>. QED  BY <2>1, <2>2, <2>3 DEF Untouched
<1>. QED  BY <1>2, <1>3, <1>4, <1>5

LEMMA OthersUntouched ==
    ASSUME NetOK, Untouched, closing \/ runOnce \/ ServiceStarts \/ UNCHANGED vars
    PROVE  Untouched'
<1>1. UNCHANGED <<service, ui, populated, informed, connected, toService, toClient, mRXPacket>>
      BY DEF closing, runOnce, ServiceStarts, vars, serviceVars, uiVars, netVars
<1>. QED  BY <1>1 DEF Untouched, Wire, Replies, Updates, AllTell, Tells, Shown, Harmless, Applied

(* For a service that was installed with the applet's own idea of the      *)
(* enabled flag: an applet whose first reply had all the keys, and whose   *)
(* user touches no setting, changes none of the service's, through any     *)
(* number of polls, of replies that are cut, merged, lost or late, and of  *)
(* restarts of either, and whatever applets before it did that were not so *)
(* lucky (opennic.cpp:399 and :553).                                       *)
THEOREM InformedIsHarmless == Alike /\ Spec => InformedChangesNothing
<1>. SUFFICES ASSUME Alike PROVE Spec => InformedChangesNothing
     OBVIOUS
<1>1. Init => IInv
  <2>. SUFFICES ASSUME Init PROVE IInv
       OBVIOUS
  <2>1. <<>> \in Seq(ClientPacket) /\ <<>> \in Seq(Cell)
        OBVIOUS
  <2>2. NetOK
        BY <2>1, AppletAssumption DEF Init, NetOK
  <2>3. service \in Fitting /\ ui \in Fitting
        BY AppletAssumption DEF Init, Fitting, Alike
  <2>4. Wire(Fitting, Fitting)
        BY DEF Init, Wire, Replies, Updates, AllTell, Tells, Idle
  <2>. QED  BY <2>2, <2>3, <2>4 DEF Init, Untouched, IInv
<1>2. IInv /\ [Next]_vars => IInv' /\ (~ edited /\ informed => UNCHANGED service)
  <2>. SUFFICES ASSUME NetOK, [Next]_vars, ~ edited => Untouched
                PROVE  /\ ~ edited' => Untouched'
                       /\ ~ edited /\ informed => UNCHANGED service
       BY Typed DEF IInv
  <2>1. CASE \E n \in 1 .. Len(toService) : serviceReceives(n)
    <3>1. edited' = edited
          BY <2>1 DEF serviceReceives, userVars
    <3>. QED  BY <2>1, <3>1, ServiceUntouched
  <2>2. CASE enabledChanged \/ interfaceChanged \/ EditSize \/ EditRules \/ clicked
    <3>1. edited' /\ service' = service
          BY <2>2, Zenon DEF enabledChanged, interfaceChanged, EditSize, EditRules, clicked, Changes,
                             serviceVars
    <3>. QED  BY <3>1
  <2>. DEFINE others == \/ connectToService \/ pollPeriodicKeys \/ dialogTimer
                        \/ refreshNow \/ cellClicked \/ closing \/ runOnce
                        \/ \E n \in 1 .. Len(toClient) : clientReceives(n)
                        \/ ServiceStops \/ ServiceStarts \/ AppletRestarts \/ UNCHANGED vars
  <2>3. CASE others
    <3>1. edited' = edited /\ service' = service
          BY <2>3, Zenon DEF connectToService, pollPeriodicKeys, dialogTimer, refreshNow,
             cellClicked, closing, runOnce, clientReceives, ServiceStops, ServiceStarts,
             AppletRestarts, serviceVars, userVars, vars
    <3>2. Untouched => Untouched'
          BY <2>3, AsksUntouched, ClientUntouched, ConnectionUntouched, OthersUntouched
    <3>. QED  BY <3>1, <3>2
  <2>. QED  BY <2>1, <2>2, <2>3, Zenon DEF Next, User
<1>3. IInv /\ [Next]_vars => [~ edited /\ informed => UNCHANGED service]_vars
      BY <1>2
<1>. QED  BY <1>1, <1>2, <1>3, PTL DEF Spec, InformedChangesNothing
-----------------------------------------------------------------------------
(* Induction and recursion on numbers, from the library's theorem that < is *)
(* well-founded, with sets in the place of predicates.                      *)

LEMMA NotLessIsLeast ==
    ASSUME NEW T, T \subseteq Nat, NEW R, NEW x \in T, \A y \in T : <<y, x>> \notin R,
           \A a, b \in Nat : <<b, a>> \in R <=> b < a
    PROVE  \E n \in T : \A m \in T : n <= m
<1>1. \A m \in T : x <= m
  <2>1. TAKE m \in T
  <2>2. ~ (m < x)
        OBVIOUS
  <2>. QED  BY <2>2
<1>. QED  BY <1>1

LEMMA LeastNumber ==
    ASSUME NEW T, T \subseteq Nat, T # {}
    PROVE  \E n \in T : \A m \in T : n <= m
<1> DEFINE R == OpToRel(<, Nat)
<1>1. IsWellFoundedOn(R, Nat)
      BY NatLessThanWellFounded
<1>2. \A a, b \in Nat : <<b, a>> \in R <=> b < a
      BY DEF OpToRel
<1> HIDE DEF R
<1>3. \E x \in T : \A y \in T : <<y, x>> \notin R
      BY <1>1, WFMin, Zenon
<1>. QED  BY <1>2, <1>3, NotLessIsLeast, Zenon

(* What holds of 0, and of a number when of the one before, holds up to N. *)
LEMMA InductionTo ==
    ASSUME NEW N \in Nat, NEW T, 0 \in T, \A n \in 1 .. N : n - 1 \in T => n \in T
    PROVE  \A n \in 0 .. N : n \in T
<1> DEFINE U == {n \in 0 .. N : n \notin T}
<1>1. SUFFICES ASSUME U # {} PROVE FALSE
      OBVIOUS
<1>2. PICK n \in U : \A m \in U : n <= m
  <2>1. U \subseteq Nat
        OBVIOUS
  <2> HIDE DEF U
  <2>. QED  BY <1>1, <2>1, LeastNumber, Zenon
<1>3. n \in 1 .. N /\ n \notin T
      OBVIOUS
<1>4. n - 1 \in 0 .. N /\ ~ (n <= n - 1)
      BY <1>3
<1>5. n - 1 \in T
      BY <1>2, <1>4
<1>. QED  BY <1>3, <1>5

(* A function on 0 .. n whose value at 0 is a, and at k what step makes of *)
(* its value before.                                                       *)
Recursive(g, n, S, a, step) ==
    /\ g \in [0 .. n -> S] /\ g[0] = a
    /\ \A k \in 1 .. n : g[k] = step[k][g[k - 1]]

LEMMA RecursionExists ==
    ASSUME NEW S, NEW a \in S, NEW N \in Nat, NEW step \in [1 .. N -> [S -> S]]
    PROVE  \E g : Recursive(g, N, S, a, step)
<1> DEFINE T == {n \in 0 .. N : \E g : Recursive(g, n, S, a, step)}
<1>1. 0 \in T
  <2> DEFINE g == [k \in 0 .. 0 |-> a]
  <2>1. Recursive(g, 0, S, a, step)
        BY DEF Recursive
  <2>. QED  BY <2>1
<1>2. ASSUME NEW n \in 1 .. N, n - 1 \in T
      PROVE  n \in T
  <2>1. PICK f : Recursive(f, n - 1, S, a, step)
        BY <1>2
  <2> DEFINE g == [k \in 0 .. n |-> IF k = n THEN step[n][f[n - 1]] ELSE f[k]]
  <2>2. f[n - 1] \in S /\ step[n][f[n - 1]] \in S
        BY <2>1 DEF Recursive
  <2>3. g \in [0 .. n -> S] /\ g[0] = a
        BY <2>1, <2>2 DEF Recursive
  <2>4. ASSUME NEW k \in 1 .. n
        PROVE  g[k] = step[k][g[k - 1]]
    <3>1. CASE k = n
          BY <3>1
    <3>2. CASE k # n
      <4>1. k \in 1 .. n - 1 /\ k - 1 \in 0 .. n - 1 /\ k - 1 # n
            BY <3>2
      <4>2. f[k] = step[k][f[k - 1]]
            BY <2>1, <4>1 DEF Recursive
      <4>. QED  BY <3>2, <4>1, <4>2
    <3>. QED  BY <3>1, <3>2
  <2>5. Recursive(g, n, S, a, step)
        BY <2>3, <2>4 DEF Recursive
  <2>. QED  BY <2>5
<1>3. N \in T
  <2> HIDE DEF T
  <2>1. \A n \in 0 .. N : n \in T
        BY <1>1, <1>2, InductionTo
  <2>. QED  BY <2>1
<1>. QED  BY <1>3

-----------------------------------------------------------------------------
(* A pass over the sessions, session by session. *)

LEMMA PurgesEquation ==
    ASSUME NEW s \in Seq(BOOLEAN)
    PROVE  purges(s) =
               [n \in 0 .. Len(s) |->
                   IF n = 0 THEN [left |-> <<>>, skip |-> FALSE]
                   ELSE IF s[n] \/ purges(s)[n - 1].skip
                        THEN [left |-> Append(purges(s)[n - 1].left, s[n]), skip |-> FALSE]
                        ELSE [left |-> purges(s)[n - 1].left, skip |-> TRUE]]
<1> DEFINE N == Len(s)
           S == [left : Seq(BOOLEAN), skip : BOOLEAN]
           a == [left |-> <<>>, skip |-> FALSE]
           Pass(p, n) == IF s[n] \/ p.skip
                         THEN [left |-> Append(p.left, s[n]), skip |-> FALSE]
                         ELSE [left |-> p.left, skip |-> TRUE]
           F(f) == [n \in 0 .. N |-> IF n = 0 THEN a ELSE Pass(f[n - 1], n)]
           step == [n \in 1 .. N |-> [p \in S |-> Pass(p, n)]]
<1>1. N \in Nat /\ a \in S
      OBVIOUS
<1>2. ASSUME NEW n \in 1 .. N, NEW p \in S
      PROVE  Pass(p, n) \in S
  <2>1. s[n] \in BOOLEAN /\ p.left \in Seq(BOOLEAN)
        BY ElementOfSeq
  <2>2. Append(p.left, s[n]) \in Seq(BOOLEAN)
        BY <2>1, AppendProperties
  <2>. QED  BY <2>1, <2>2
<1> HIDE DEF N, S, a, Pass
<1>3. step \in [1 .. N -> [S -> S]] /\ \A n \in 1 .. N, p \in S : step[n][p] = Pass(p, n)
      BY <1>2
<1> HIDE DEF step
<1>4. PICK f : Recursive(f, N, S, a, step)
      BY <1>1, <1>3, RecursionExists
<1>5. \A n \in 1 .. N : f[n] = Pass(f[n - 1], n)
  <2>1. TAKE n \in 1 .. N
  <2>2. n - 1 \in 0 .. N
        BY <1>1
  <2>. QED  BY <1>3, <1>4, <2>2 DEF Recursive
<1>6. f = F(f)
      BY <1>1, <1>4, <1>5 DEF Recursive
<1>7. purges(s) = CHOOSE g : g = F(g)
      BY DEF purges, Pass, N, a
<1> HIDE DEF F
<1>8. purges(s) = F(purges(s))
      BY <1>6, <1>7
<1>. QED  BY <1>8 DEF F, Pass, N, a

(* How many of the first n sessions are connected. *)
LiveTo(s, n) == {i \in 1 .. n : s[i]}

LEMMA LiveToGrows ==
    ASSUME NEW s \in Seq(BOOLEAN), NEW n \in 1 .. Len(s)
    PROVE  /\ IsFiniteSet(LiveTo(s, n - 1)) /\ Cardinality(LiveTo(s, n - 1)) \in Nat
           /\ Cardinality(LiveTo(s, n)) =
                  Cardinality(LiveTo(s, n - 1)) + (IF s[n] THEN 1 ELSE 0)
<1>1. IsFiniteSet(LiveTo(s, n - 1))
  <2>1. IsFiniteSet(1 .. n - 1)
        BY FS_Interval
  <2>2. LiveTo(s, n - 1) \in SUBSET (1 .. n - 1)
        BY DEF LiveTo
  <2>. QED  BY <2>1, <2>2, FS_Subset
<1>2. Cardinality(LiveTo(s, n - 1)) \in Nat
      BY <1>1, FS_CardinalityType
<1>3. \A i \in 1 .. n : i \in 1 .. n - 1 \/ i = n
      OBVIOUS
<1>4. n \notin LiveTo(s, n - 1)
      BY DEF LiveTo
<1>5. CASE s[n]
  <2>1. LiveTo(s, n) = LiveTo(s, n - 1) \cup {n}
        BY <1>3, <1>5 DEF LiveTo
  <2>2. Cardinality(LiveTo(s, n - 1) \cup {n}) = Cardinality(LiveTo(s, n - 1)) + 1
        BY <1>1, <1>4, FS_AddElement
  <2>. QED  BY <1>1, <1>2, <1>5, <2>1, <2>2
<1>6. CASE ~ s[n]
  <2>1. LiveTo(s, n) = LiveTo(s, n - 1)
        BY <1>3, <1>6 DEF LiveTo
  <2>. QED  BY <1>1, <1>2, <1>6, <2>1
<1>. QED  BY <1>5, <1>6

LEMMA LiveOfAppended ==
    ASSUME NEW s \in Seq(BOOLEAN), NEW b \in BOOLEAN
    PROVE  Live(Append(s, b)) = Live(s) + (IF b THEN 1 ELSE 0)
<1> DEFINE t == Append(s, b)
<1>1. /\ t \in Seq(BOOLEAN) /\ Len(t) = Len(s) + 1 /\ Len(s) \in Nat
      /\ \A i \in 1 .. Len(s) : t[i] = s[i]
      /\ t[Len(s) + 1] = b
      BY AppendProperties
<1> HIDE DEF t
<1>2. DOMAIN t = 1 .. Len(t) /\ DOMAIN s = 1 .. Len(s) /\ Len(t) \in 1 .. Len(t)
      BY <1>1
<1>3. Live(t) = Cardinality(LiveTo(t, Len(t))) /\ Live(s) = Cardinality(LiveTo(s, Len(s)))
      BY <1>2 DEF Live, LiveTo
<1>4. LiveTo(t, Len(t) - 1) = LiveTo(s, Len(s))
      BY <1>1 DEF LiveTo
<1>5. Cardinality(LiveTo(t, Len(t))) =
          Cardinality(LiveTo(t, Len(t) - 1)) + (IF t[Len(t)] THEN 1 ELSE 0)
      BY <1>1, <1>2, LiveToGrows
<1>. QED  BY <1>1, <1>3, <1>4, <1>5 DEF t

(* What a pass has done when it has come to session n. *)
Passed(s, n, p) ==
    /\ p.left \in Seq(BOOLEAN) /\ p.skip \in BOOLEAN
    /\ Len(p.left) <= n
    /\ Live(p.left) = Cardinality(LiveTo(s, n))
    /\ p.skip \/ (\E i \in 1 .. n : ~ s[i]) => Len(p.left) < n

LEMMA PassStep ==
    ASSUME NEW s \in Seq(BOOLEAN), NEW n \in 1 .. Len(s), NEW p, NEW q,
           Passed(s, n - 1, p),
           q = IF s[n] \/ p.skip THEN [left |-> Append(p.left, s[n]), skip |-> FALSE]
                                 ELSE [left |-> p.left, skip |-> TRUE]
    PROVE  Passed(s, n, q)
<1>1. /\ p.left \in Seq(BOOLEAN) /\ p.skip \in BOOLEAN /\ Len(p.left) <= n - 1
      /\ Live(p.left) = Cardinality(LiveTo(s, n - 1))
      /\ p.skip \/ (\E i \in 1 .. n - 1 : ~ s[i]) => Len(p.left) < n - 1
      BY DEF Passed
<1>2. s[n] \in BOOLEAN /\ Len(p.left) \in Nat
      BY <1>1, ElementOfSeq
<1>3. /\ Cardinality(LiveTo(s, n - 1)) \in Nat
      /\ Cardinality(LiveTo(s, n)) =
             Cardinality(LiveTo(s, n - 1)) + (IF s[n] THEN 1 ELSE 0)
      BY LiveToGrows
<1>4. (\E i \in 1 .. n : ~ s[i]) <=> (~ s[n] \/ \E i \in 1 .. n - 1 : ~ s[i])
  <2>1. \A i \in 1 .. n : i \in 1 .. n - 1 \/ i = n
        OBVIOUS
  <2>2. n \in 1 .. n /\ \A i \in 1 .. n - 1 : i \in 1 .. n
        OBVIOUS
  <2>. QED  BY <2>1, <2>2
<1>5. CASE s[n] \/ p.skip
  <2>1. q.left = Append(p.left, s[n]) /\ q.skip = FALSE
        BY <1>5
  <2>2. q.left \in Seq(BOOLEAN) /\ Len(q.left) = Len(p.left) + 1
    <3>1. /\ Append(p.left, s[n]) \in Seq(BOOLEAN)
          /\ Len(Append(p.left, s[n])) = Len(p.left) + 1
          BY <1>1, <1>2, AppendProperties
    <3>. QED  BY <2>1, <3>1
  <2>3. Live(q.left) = Cardinality(LiveTo(s, n))
        BY <1>1, <1>2, <1>3, <2>1, LiveOfAppended
  <2>4. (\E i \in 1 .. n : ~ s[i]) => Len(p.left) < n - 1
        BY <1>1, <1>4, <1>5
  <2>5. Len(q.left) <= n /\ ((\E i \in 1 .. n : ~ s[i]) => Len(q.left) < n)
        BY <1>1, <1>2, <2>2, <2>4
  <2>. QED  BY <2>1, <2>2, <2>3, <2>5 DEF Passed
<1>6. CASE ~ (s[n] \/ p.skip)
  <2>1. q.left = p.left /\ q.skip = TRUE
        BY <1>6
  <2>2. Live(q.left) = Cardinality(LiveTo(s, n))
        BY <1>1, <1>3, <1>6, <2>1
  <2>3. Len(q.left) < n /\ Len(q.left) <= n
        BY <1>1, <1>2, <2>1
  <2>. QED  BY <1>1, <2>1, <2>2, <2>3 DEF Passed
<1>. QED  BY <1>5, <1>6

LEMMA PurgePasses ==
    ASSUME NEW s \in Seq(BOOLEAN)
    PROVE  /\ purged(s) \in Seq(BOOLEAN)
           /\ Live(purged(s)) = Live(s)
           /\ (\E i \in DOMAIN s : ~ s[i]) => Len(purged(s)) < Len(s)
<1> DEFINE N == Len(s)
           p == purges(s)
           T == {n \in 0 .. N : Passed(s, n, p[n])}
<1>1. N \in Nat /\ DOMAIN s = 1 .. N
      BY LenProperties
<1>2. /\ p[0] = [left |-> <<>>, skip |-> FALSE]
      /\ \A n \in 1 .. N :
            p[n] = IF s[n] \/ p[n - 1].skip
                   THEN [left |-> Append(p[n - 1].left, s[n]), skip |-> FALSE]
                   ELSE [left |-> p[n - 1].left, skip |-> TRUE]
  <2> HIDE DEF p, N
  <2>1. /\ purges(s)[0] = [left |-> <<>>, skip |-> FALSE]
        /\ \A n \in 1 .. Len(s) :
              purges(s)[n] = IF s[n] \/ purges(s)[n - 1].skip
                     THEN [left |-> Append(purges(s)[n - 1].left, s[n]), skip |-> FALSE]
                     ELSE [left |-> purges(s)[n - 1].left, skip |-> TRUE]
    <3> DEFINE g == purges(s)
    <3>1. g = [n \in 0 .. Len(s) |->
                  IF n = 0 THEN [left |-> <<>>, skip |-> FALSE]
                  ELSE IF s[n] \/ g[n - 1].skip
                       THEN [left |-> Append(g[n - 1].left, s[n]), skip |-> FALSE]
                       ELSE [left |-> g[n - 1].left, skip |-> TRUE]]
          BY PurgesEquation
    <3> HIDE DEF g
    <3>2. 0 \in 0 .. Len(s) /\ \A n \in 1 .. Len(s) : n \in 0 .. Len(s) /\ n # 0
          BY <1>1 DEF N
    <3>3. g[0] = [left |-> <<>>, skip |-> FALSE]
          BY <3>1, <3>2
    <3>4. ASSUME NEW n \in 1 .. Len(s)
          PROVE  g[n] = IF s[n] \/ g[n - 1].skip
                        THEN [left |-> Append(g[n - 1].left, s[n]), skip |-> FALSE]
                        ELSE [left |-> g[n - 1].left, skip |-> TRUE]
          BY <3>1, <3>2
    <3>. QED  BY <3>3, <3>4, Zenon DEF g
  <2>. QED  BY <2>1, Zenon DEF p, N
<1> HIDE DEF p
<1>3. 0 \in T
  <2>1. LiveTo(s, 0) = {} /\ Live(<<>>) = Cardinality({})
        BY DEF LiveTo, Live
  <2>2. p[0].left = <<>> /\ p[0].skip = FALSE
        BY <1>2
  <2>3. <<>> \in Seq(BOOLEAN) /\ Len(<<>>) <= 0 /\ ~ \E i \in 1 .. 0 : ~ s[i]
        OBVIOUS
  <2>4. Passed(s, 0, p[0])
        BY <2>1, <2>2, <2>3 DEF Passed
  <2>. QED  BY <1>1, <2>4
<1>4. ASSUME NEW n \in 1 .. N, n - 1 \in T
      PROVE  n \in T
  <2>1. Passed(s, n - 1, p[n - 1])
        BY <1>4
  <2>2. Passed(s, n, p[n])
        BY <1>2, <2>1, PassStep
  <2>. QED  BY <1>1, <2>2
<1>5. N \in T
  <2> HIDE DEF T, N
  <2>1. \A n \in 0 .. N : n \in T
        BY <1>1, <1>3, <1>4, InductionTo
  <2>. QED  BY <1>1, <2>1
<1>6. Passed(s, N, p[N])
      BY <1>5
<1>7. Live(s) = Cardinality(LiveTo(s, N))
      BY <1>1 DEF Live, LiveTo
<1>8. purged(s) = p[N].left
      BY DEF purged, p
<1>. QED  BY <1>1, <1>6, <1>7, <1>8 DEF Passed

-----------------------------------------------------------------------------
(* What Typed leaves out: sessions, dialog and counters. *)

RestOK == /\ running \in BOOLEAN /\ mActiveState \in BOOLEAN
          /\ mSessions \in Seq(BOOLEAN)
          /\ dialog \in {"closed", "open", "shown"}
          /\ clicks \in 0 .. MaxClicks /\ restarts \in 0 .. MaxRestarts

LEMMA TypeOKIs == TypeOK <=> NetOK /\ RestOK
BY DEF TypeOK, NetOK, RestOK, Cell

LEMMA UserRest ==
    ASSUME RestOK, User
    PROVE  RestOK'
<1>1. ASSUME Click
      PROVE  clicks' \in 0 .. MaxClicks
      BY <1>1, AppletAssumption DEF Click, RestOK
<1>2. ASSUME NEW u, Changes(u)
      PROVE  RestOK'
      BY <1>1, <1>2 DEF Changes, RestOK
<1>3. CASE enabledChanged \/ interfaceChanged \/ EditSize \/ EditRules
      BY <1>2, <1>3 DEF enabledChanged, interfaceChanged, EditSize, EditRules
<1>4. CASE clicked
      BY <1>1, <1>4 DEF clicked, RestOK, uiVars
<1>5. CASE refreshNow
      BY <1>1, <1>5 DEF refreshNow, RestOK, uiVars
<1>6. CASE cellClicked
      BY <1>1, <1>6 DEF cellClicked, RestOK, uiVars
<1>7. CASE closing
      BY <1>7 DEF closing, RestOK, uiVars, userVars
<1>. QED  BY <1>3, <1>4, <1>5, <1>6, <1>7 DEF User

LEMMA NetworkRest ==
    ASSUME NetOK, RestOK,
           \/ pollPeriodicKeys \/ dialogTimer
           \/ \E n \in 1 .. Len(toService) : serviceReceives(n)
           \/ \E n \in 1 .. Len(toClient) : clientReceives(n)
    PROVE  RestOK'
<1>1. CASE pollPeriodicKeys \/ dialogTimer
      BY <1>1 DEF pollPeriodicKeys, dialogTimer, RestOK, uiVars, userVars
<1>2. CASE \E n \in 1 .. Len(toService) : serviceReceives(n)
      BY <1>2 DEF serviceReceives, RestOK, uiVars, userVars
<1>3. ASSUME NEW n \in 1 .. Len(toClient), clientReceives(n)
      PROVE  RestOK'
  <2>1. ASSUME NEW packet \in ServicePacket, dataReady(packet)
        PROVE  dialog' \in {"closed", "open", "shown"}
    <3>1. CASE packet.kind = "reply"
          BY <2>1, <3>1 DEF dataReady, RestOK
    <3>2. CASE packet.kind = "history"
          BY <2>1, <3>2 DEF dataReady, HistoryShown, RestOK
    <3>3. CASE packet.kind = "async"
          BY <2>1, <3>3 DEF dataReady, RestOK
    <3>. QED  BY <3>1, <3>2, <3>3, PacketKinds
  <2>2. toClient[1] \in Cell
        BY <1>3, ElementOfSeq DEF NetOK
  <2>3. dialog' \in {"closed", "open", "shown"}
    <3>1. recv(n)
          BY <1>3 DEF clientReceives
    <3>2. CASE dataReady(toClient[1]) /\ toClient[1] # Remainder
          BY <2>1, <2>2, <3>2 DEF Cell
    <3>3. CASE dataReady(mRXPacket) /\ mRXPacket \notin {Idle, Garbled}
          BY <2>1, <3>3 DEF NetOK
    <3>4. CASE UNCHANGED <<ui, populated, informed, toService, dialog>>
          BY <3>4 DEF RestOK
    <3>. QED  BY <3>1, <3>2, <3>3, <3>4, Zenon DEF recv
  <2>. QED  BY <1>3, <2>3 DEF clientReceives, RestOK, userVars
<1>. QED  BY <1>1, <1>2, <1>3

LEMMA ConnectionRest ==
    ASSUME RestOK, connectToService \/ runOnce \/ ServiceStops \/ ServiceStarts \/ AppletRestarts
    PROVE  RestOK'
<1>1. CASE connectToService
  <2>1. Append(mSessions, TRUE) \in Seq(BOOLEAN)
    <3>1. TRUE \in BOOLEAN /\ mSessions \in Seq(BOOLEAN)
          BY DEF RestOK
    <3>. QED  BY <3>1, AppendProperties, Zenon
  <2>. QED  BY <1>1, <2>1 DEF connectToService, newConnection, RestOK, userVars
<1>2. CASE runOnce
      BY <1>2, PurgePasses DEF runOnce, RestOK, uiVars, userVars
<1>3. CASE ServiceStops
  <2>1. <<>> \in Seq(BOOLEAN)
        OBVIOUS
  <2>2. restarts' \in 0 .. MaxRestarts
        BY <1>3, AppletAssumption DEF ServiceStops, RestOK
  <2>3. running' = FALSE /\ mSessions' = <<>>
        /\ UNCHANGED <<mActiveState, dialog, clicks>>
        BY <1>3 DEF ServiceStops, uiVars, userVars
  <2>. QED  BY <2>1, <2>2, <2>3 DEF RestOK
<1>4. CASE ServiceStarts
      BY <1>4 DEF ServiceStarts, RestOK, uiVars, userVars
<1>5. CASE AppletRestarts
  <2>1. [i \in DOMAIN mSessions |-> FALSE] \in Seq(BOOLEAN)
    <3>1. Len(mSessions) \in Nat /\ DOMAIN mSessions = 1 .. Len(mSessions)
          BY LenProperties DEF RestOK
    <3>2. [i \in 1 .. Len(mSessions) |-> FALSE] \in Seq(BOOLEAN)
          BY <3>1, IsASeq
    <3>. QED  BY <3>1, <3>2
  <2>2. restarts' \in 0 .. MaxRestarts
        BY <1>5, AppletAssumption DEF AppletRestarts, RestOK
  <2>3. mActiveState' = FALSE /\ dialog' = "closed" /\ UNCHANGED <<running, clicks>>
        BY <1>5 DEF AppletRestarts, userVars
  <2>4. mSessions' \in Seq(BOOLEAN)
        BY <1>5, <2>1 DEF AppletRestarts
  <2>. QED  BY <2>2, <2>3, <2>4 DEF RestOK
<1>. QED  BY <1>1, <1>2, <1>3, <1>4, <1>5

(* Packets, settings, sessions and counters keep their types, for any      *)
(* number of sessions and of packets under way.                            *)
THEOREM TypeCorrectness == Spec => []TypeOK
<1>1. Init => TypeOK
  <2> SUFFICES ASSUME Init PROVE TypeOK
      OBVIOUS
  <2>1. <<>> \in Seq(BOOLEAN) /\ <<>> \in Seq(ClientPacket) /\ <<>> \in Seq(Cell)
        OBVIOUS
  <2>2. clicks \in 0 .. MaxClicks /\ restarts \in 0 .. MaxRestarts
        BY AppletAssumption DEF Init
  <2>3. RestOK
        BY <2>1, <2>2 DEF Init, RestOK
  <2>4. service \in Settings /\ ui \in Settings
        BY AppletAssumption DEF Init
  <2>5. NetOK
        BY <2>1, <2>4 DEF Init, NetOK
  <2>. QED  BY <2>3, <2>5, TypeOKIs
<1>2. TypeOK /\ [Next]_vars => TypeOK'
  <2>1. ASSUME TypeOK, UNCHANGED vars
        PROVE  RestOK'
        BY <2>1, TypeOKIs DEF vars, RestOK, uiVars, userVars
  <2>2. ASSUME TypeOK, Next
        PROVE  RestOK'
        BY <2>2, TypeOKIs, UserRest, NetworkRest, ConnectionRest DEF Next
  <2>3. ASSUME TypeOK, [Next]_vars
        PROVE  NetOK'
        BY <2>3, TypeOKIs, Typed
  <2>4. NetOK' /\ RestOK' => TypeOK'
        BY DEF TypeOK, NetOK, RestOK, Cell
  <2>. QED  BY <2>1, <2>2, <2>3, <2>4
<1>. QED  BY <1>1, <1>2, PTL DEF Spec

(* However many sessions there are, a pass of the purge, which skips one   *)
(* after each that it disposes of, shortens the list if one is dead and    *)
(* leaves as many connected ones as there were.                            *)
THEOREM PurgeIsSound == Spec => []PurgeIsSafe
<1>1. TypeOK => PurgeIsSafe
      BY PurgePasses DEF TypeOK, Dead, PurgeIsSafe
<1>. QED  BY <1>1, TypeCorrectness, PTL
=============================================================================
