------------------------- MODULE ChatWidget_proofs -------------------------
(* Proofs about the chat widget of the web client, for any number of         *)
(* projects, of calls in flight and of sessions, and for a user who waits    *)
(* for what was asked (Patient): the widget shows one project, and a closed  *)
(* widget holds no lock but the ones it lost sight of.                       *)
EXTENDS ChatWidget, FiniteSetTheorems, TLAPS

Kinds == {"check", "acquire", "release", "heartbeat", "history"}
Serious == Kinds \ {"heartbeat"}     \* what a patient user waits for
OfLock == {"check", "acquire", "release"}
Begun == DOMAIN sessionOf
Is(i, kinds) == calls[i].kind \in kinds

CallRecords ==
    [kind : Kinds, project : Projects, session : Nat, served : BOOLEAN, found : Nat]
Widgets ==
    [project : Projects \cup {NoProject}, session : Nat,
     status : {"disconnected", "acquiring", "connected", "error"},
     messages : SUBSET Projects, turns : Projects \cup {NoProject}]

ChatType ==
    /\ widget \in Widgets
    /\ streaming \in Projects \cup {NoProject}
    /\ stored \in [1..MaxSessions -> SUBSET Projects]
    /\ calls \in [CallSlots -> CallRecords \cup {NoCall}]
    /\ held \in [Projects -> Nat]
    /\ moved \in BOOLEAN

(* The bridge: sessions are numbered as they begin, and belong to a project. *)
BridgeInv ==
    /\ Cardinality(Begun) \in 0..MaxSessions /\ Begun = 1..Cardinality(Begun)
    /\ \A n \in Begun : sessionOf[n] \in Projects
    /\ ours \subseteq Begun
    /\ \A p \in Projects : held[p] # 0 => held[p] \in Begun /\ sessionOf[held[p]] = p
    /\ \A i \in CallSlots : Is(i, Kinds) /\ calls[i].served /\ calls[i].found # 0 =>
          calls[i].found \in Begun /\ sessionOf[calls[i].found] = calls[i].project

(* A patient user has asked for one thing about the lock at a time, about    *)
(* the project the widget shows, and for nothing else while it is released.  *)
CallInv ==
    /\ \A i \in CallSlots : Is(i, Serious) => IsOpen /\ calls[i].project = widget.project
    /\ \A i, j \in CallSlots : Is(i, OfLock) /\ Is(j, OfLock) => i = j
    /\ \A i, j \in CallSlots : Is(i, {"release"}) /\ Is(j, Serious) => i = j
    /\ \A i \in CallSlots : Is(i, {"check", "acquire"}) => widget.status # "connected"
    /\ \A i \in CallSlots : Is(i, {"release"}) /\ calls[i].served => held[calls[i].project] \notin ours

(* What is shown, streamed and stored is of one project.                     *)
ShowInv ==
    /\ widget.session # 0 => widget.session \in Begun
    /\ widget.status = "connected" =>
          IsOpen /\ widget.session # 0 /\ sessionOf[widget.session] = widget.project
    /\ ~IsOpen => streaming = NoProject /\ widget.messages = {}
    /\ \A n \in 1..MaxSessions : stored[n] # {} => n \in Begun
    /\ ~moved =>
          /\ widget.messages \subseteq {widget.project}
          /\ IsOpen => widget.turns \in {NoProject, widget.project}
          /\ streaming \in {NoProject, widget.project}
          /\ \A n \in 1..MaxSessions : stored[n] # {} => stored[n] = {sessionOf[n]}

(* A lock of the user's is lost sight of, or is the lock of the project that *)
(* is shown: the widget is connected, or a call is about to tell it.         *)
Told(p) ==
    \E i \in CallSlots :
        Is(i, {"check", "acquire"}) /\ (calls[i].served => calls[i].found = held[p])

LocksInv ==
    \A p \in Projects : held[p] \in ours /\ p \notin left =>
        widget.project = p /\ (widget.status = "connected" \/ Told(p))

ChatInv == ChatType /\ BridgeInv /\ CallInv /\ ShowInv /\ LocksInv
-----------------------------------------------------------------------------
(* What a slot can hold, and which slots are in flight.                      *)
LEMMA SlotsHold ==
    ASSUME ChatType, NEW i \in CallSlots
    PROVE  /\ i \in InFlight <=> calls[i] # NoCall
           /\ calls[i] # NoCall => calls[i] \in CallRecords
           /\ calls[i] # NoCall <=> Is(i, Kinds)
           /\ ~Is(i, Kinds) => calls[i] = NoCall /\ calls[i].kind = "none"
BY SMTT(30) DEF ChatType, InFlight, Is, Kinds, CallRecords, NoCall

(* A call that is made is a call of its kind, not served. *)
LEMMA CallMade ==
    ASSUME NEW kind \in Kinds, NEW p \in Projects, NEW n \in Nat
    PROVE  /\ Call(kind, p, n) \in CallRecords
           /\ Call(kind, p, n).kind = kind /\ Call(kind, p, n).project = p
           /\ ~Call(kind, p, n).served
BY DEF Call, CallRecords

(* A call takes a slot that was free. *)
LEMMA AskTakesFree ==
    ASSUME ChatType, NEW c, Ask(c)
    PROVE  \E i \in CallSlots :
               /\ calls[i] = NoCall /\ calls' = [calls EXCEPT ![i] = c]
               /\ \A j \in CallSlots : calls'[j] = IF j = i THEN c ELSE calls[j]
BY SlotsHold DEF Ask, ChatType

LEMMA AskBothTakesFree ==
    ASSUME ChatType, NEW c, NEW d, AskBoth(c, d)
    PROVE  \E i, j \in CallSlots :
               /\ i # j /\ calls[i] = NoCall /\ calls[j] = NoCall
               /\ calls' = [calls EXCEPT ![i] = c, ![j] = d]
               /\ \A k \in CallSlots :
                     calls'[k] = IF k = i THEN c ELSE IF k = j THEN d ELSE calls[k]
<1>1. PICK i \in CallSlots \ InFlight, j \in CallSlots \ InFlight :
          i < j /\ calls' = [calls EXCEPT ![i] = c, ![j] = d]
  BY DEF AskBoth
<1>2. i # j
  BY <1>1 DEF CallSlots
<1>3. calls[i] = NoCall /\ calls[j] = NoCall
  BY SlotsHold
<1> QED
  BY <1>1, <1>2, <1>3 DEF ChatType

(* A patient user asks when nothing is under way but heartbeats. *)
LEMMA QuietSlots ==
    ASSUME ChatType, Patient, Quiet, NEW i \in CallSlots
    PROVE  ~Is(i, Serious)
<1>1. Asked({"check", "acquire", "release", "history"}) = {}
  BY DEF Quiet
<1> QED
  BY <1>1, SlotsHold DEF Asked, Is, Serious, Kinds

(* With the bridge as it was, no answer is given by a step that only makes   *)
(* and drops calls.                                                          *)
LEMMA BridgeKept ==
    ASSUME BridgeInv, UNCHANGED bridge,
           \A i \in CallSlots : calls'[i].served /\ Is(i, Kinds)' => calls'[i] = calls[i]
    PROVE  BridgeInv'
BY DEF BridgeInv, bridge, Is, Begun

(* What Render stores is of the session's project, when what it shows is.    *)
LEMMA RenderStores ==
    ASSUME ChatType, BridgeInv, ShowInv, UNCHANGED sessionOf,
           NEW w \in Widgets, Render(w), w.session # 0 => w.session \in Begun,
           moved => moved', moved' \/ w.messages \subseteq {w.project}
    PROVE  /\ widget' = w
           /\ stored' \in [1..MaxSessions -> SUBSET Projects]
           /\ \A n \in 1..MaxSessions : stored'[n] # {} => n \in Begun'
           /\ ~moved' => \A n \in 1..MaxSessions : stored'[n] # {} => stored'[n] = {sessionOf'[n]}
<1>1. w.messages \in SUBSET Projects /\ w.session \in Nat
  BY DEF Widgets
<1>2. stored' \in [1..MaxSessions -> SUBSET Projects]
  BY <1>1 DEF Render, ChatType
<1>3. \A n \in 1..MaxSessions :
         \/ stored'[n] = stored[n]
         \/ n = w.session /\ stored'[n] = w.messages /\ sessionOf[n] = w.project /\ n # 0
  BY DEF Render, ChatType
<1>4. ASSUME NEW n \in 1..MaxSessions, stored'[n] # {}
      PROVE  n \in Begun' /\ (~moved' => stored'[n] = {sessionOf'[n]})
  <2>1. CASE stored'[n] = stored[n]
    BY <1>4, <2>1 DEF ShowInv, Begun
  <2>2. CASE n = w.session /\ stored'[n] = w.messages /\ sessionOf[n] = w.project /\ n # 0
    BY <1>4, <2>2 DEF Begun
  <2> QED
    BY <1>3, <2>1, <2>2
<1> QED
  BY <1>2, <1>4 DEF Render

LEMMA ClearStores ==
    ASSUME ChatType, ShowInv, UNCHANGED <<sessionOf, moved>>, NEW p, NEW n, Clear(p, n)
    PROVE  /\ widget' \in Widgets /\ streaming' = NoProject
           /\ stored' \in [1..MaxSessions -> SUBSET Projects]
           /\ ShowInv' /\ ~IsOpen' /\ widget'.status = "disconnected"
<1>1. /\ widget' = [project |-> NoProject, session |-> 0, status |-> "disconnected",
                    messages |-> {}, turns |-> widget.turns]
      /\ widget.turns \in Projects \cup {NoProject}
  BY DEF Clear, Closed, ChatType, Widgets
<1>2. widget' \in Widgets
  BY <1>1 DEF Widgets
<1>3. \A m \in 1..MaxSessions : stored'[m] = stored[m] \/ stored'[m] = {}
  BY DEF Clear, ChatType
<1>4. ~IsOpen'
  BY <1>1 DEF IsOpen
<1>5. stored' \in [1..MaxSessions -> SUBSET Projects] /\ streaming' = NoProject
  BY DEF Clear, ChatType
<1>6. ASSUME NEW m \in 1..MaxSessions, stored'[m] # {}
      PROVE  m \in Begun' /\ (~moved' => stored'[m] = {sessionOf'[m]})
  BY <1>3, <1>6 DEF ShowInv, Begun
<1>7. ShowInv'
  BY <1>1, <1>4, <1>5, <1>6 DEF ShowInv
<1> QED
  BY <1>1, <1>2, <1>4, <1>5, <1>7
-----------------------------------------------------------------------------
(* The user: each step keeps the invariant. *)
LEMMA OpenKeeps ==
    ASSUME Patient, ChatInv, NEW p \in Projects, Open(p)
    PROVE  ChatInv'
<1> USE DEF ChatInv
<1> DEFINE c == Call("check", p, 0)
           d == Call("history", p, 0)
<1>1. PICK i \in CallSlots, j \in CallSlots :
         /\ i # j
         /\ calls' = [calls EXCEPT ![i] = c, ![j] = d]
         /\ \A k \in CallSlots : calls'[k] = IF k = i THEN c ELSE IF k = j THEN d ELSE calls[k]
  BY AskBothTakesFree DEF Open
<1>2. \A k \in CallSlots : ~Is(k, Serious)
  BY QuietSlots DEF Open
<1>3. /\ c \in CallRecords /\ c.kind = "check" /\ c.project = p /\ ~c.served
      /\ d \in CallRecords /\ d.kind = "history" /\ d.project = p /\ ~d.served
  BY CallMade DEF Kinds
<1>4. p # NoProject
  BY ChatConstants
<1> DEFINE w == [widget EXCEPT !.project = p, !.status = "acquiring", !.turns = NoProject]
<1>5. /\ w \in Widgets /\ w.project = p /\ w.status = "acquiring" /\ w.turns = NoProject
      /\ w.session = widget.session /\ w.messages = widget.messages
  BY DEF ChatType, Widgets
<1>6. moved => moved'
  BY DEF Open
<1>7. moved' \/ (widget.messages \subseteq {p} /\ streaming \in {NoProject, p})
  BY DEF Open, ShowInv, IsOpen
<1>8. /\ widget' = w
      /\ stored' \in [1..MaxSessions -> SUBSET Projects]
      /\ \A n \in 1..MaxSessions : stored'[n] # {} => n \in Begun'
      /\ ~moved' => \A n \in 1..MaxSessions : stored'[n] # {} => stored'[n] = {sessionOf'[n]}
  <2>1. Render(w) /\ UNCHANGED sessionOf
    BY DEF Open, bridge
  <2>2. w.session # 0 => w.session \in Begun
    BY <1>5 DEF ShowInv
  <2> HIDE DEF w
  <2> QED
    BY <2>1, <2>2, <1>5, <1>6, <1>7, RenderStores
<1> HIDE DEF w, c, d
<1>a. ChatType'
  BY <1>1, <1>3, <1>5, <1>8 DEF ChatType, Open, bridge
<1>b. BridgeInv'
  <2>1. \A k \in CallSlots : calls'[k].served => calls'[k] = calls[k]
    BY <1>1, <1>3
  <2> QED
    BY <2>1, BridgeKept DEF Open
<1>c. CallInv'
  <2>1. /\ \A k \in CallSlots : Is(k, Serious)' => k = i \/ k = j
        /\ \A k \in CallSlots : Is(k, OfLock)' => k = i
        /\ \A k \in CallSlots : ~Is(k, {"release"})'
    BY <1>1, <1>2, <1>3 DEF Is, Serious, Kinds, OfLock
  <2>2. calls'[i].project = p /\ calls'[j].project = p
    BY <1>1, <1>3
  <2>3. IsOpen' /\ widget'.project = p /\ widget'.status = "acquiring"
    BY <1>4, <1>5, <1>8 DEF IsOpen
  <2> QED
    BY <2>1, <2>2, <2>3 DEF CallInv
<1>d. ShowInv'
  BY <1>4, <1>5, <1>7, <1>8 DEF ShowInv, IsOpen, Open, bridge, Begun
<1>e. LocksInv'
  <2>1. Is(i, {"check", "acquire"})' /\ ~calls'[i].served
    BY <1>1, <1>3 DEF Is
  <2>2. ASSUME NEW q \in Projects, held'[q] \in ours', q \notin left'
        PROVE  widget'.project = q
    BY <2>2, <1>5, <1>8, ChatConstants DEF LocksInv, Open, bridge
  <2> QED
    BY <2>1, <2>2 DEF LocksInv, Told
<1> QED
  BY <1>a, <1>b, <1>c, <1>d, <1>e

LEMMA RetryConnectionKeeps ==
    ASSUME Patient, ChatInv, RetryConnection
    PROVE  ChatInv'
<1> USE DEF ChatInv
<1> DEFINE c == Call("check", widget.project, 0)
<1>0. widget.project \in Projects
  BY DEF RetryConnection, IsOpen, ChatType, Widgets
<1>1. PICK i \in CallSlots :
         /\ calls' = [calls EXCEPT ![i] = c]
         /\ \A j \in CallSlots : calls'[j] = IF j = i THEN c ELSE calls[j]
  BY AskTakesFree DEF RetryConnection
<1>2. \A k \in CallSlots : ~Is(k, Serious)
  BY QuietSlots DEF RetryConnection
<1>3. /\ c \in CallRecords /\ c.kind = "check" /\ c.project = widget.project /\ ~c.served
  BY <1>0, CallMade DEF Kinds
<1> DEFINE w == [widget EXCEPT !.status = "acquiring"]
<1>5. /\ w \in Widgets /\ w.project = widget.project /\ w.status = "acquiring"
      /\ w.turns = widget.turns /\ w.session = widget.session /\ w.messages = widget.messages
  BY DEF ChatType, Widgets
<1>8. /\ widget' = w
      /\ stored' \in [1..MaxSessions -> SUBSET Projects]
      /\ \A n \in 1..MaxSessions : stored'[n] # {} => n \in Begun'
      /\ ~moved' => \A n \in 1..MaxSessions : stored'[n] # {} => stored'[n] = {sessionOf'[n]}
  <2>1. Render(w) /\ UNCHANGED <<sessionOf, moved>>
    BY DEF RetryConnection, bridge
  <2>2. /\ w.session # 0 => w.session \in Begun
        /\ moved \/ w.messages \subseteq {w.project}
    BY <1>5 DEF ShowInv
  <2> HIDE DEF w
  <2> QED
    BY <2>1, <2>2, <1>5, RenderStores
<1> HIDE DEF w, c
<1>a. ChatType'
  BY <1>1, <1>3, <1>5, <1>8 DEF ChatType, RetryConnection, bridge
<1>b. BridgeInv'
  BY <1>1, <1>3, BridgeKept DEF RetryConnection
<1>c. CallInv'
  BY <1>1, <1>2, <1>3, <1>5, <1>8 DEF CallInv, Is, Serious, Kinds, OfLock, IsOpen, RetryConnection
<1>d. ShowInv'
  BY <1>5, <1>8 DEF ShowInv, IsOpen, RetryConnection, bridge, Begun
<1>e. LocksInv'
  BY <1>1, <1>3, <1>5, <1>8 DEF LocksInv, Told, Is, RetryConnection, bridge
<1> QED
  BY <1>a, <1>b, <1>c, <1>d, <1>e

LEMMA CloseKeeps ==
    ASSUME Patient, ChatInv, Close
    PROVE  ChatInv'
<1> USE DEF ChatInv
<1>0. \A k \in CallSlots : ~Is(k, Serious)
  BY QuietSlots DEF Close
<1>1. CASE widget.status = "connected"
  <2> DEFINE c == Call("release", widget.project, widget.session)
  <2>1. widget.project \in Projects /\ widget.session \in Nat /\ IsOpen
    BY DEF Close, IsOpen, ChatType, Widgets
  <2>2. Ask(c) /\ UNCHANGED <<widget, streaming, stored, bridge, left, moved>>
    BY <1>1 DEF Close
  <2>3. /\ c \in CallRecords /\ c.kind = "release" /\ c.project = widget.project /\ ~c.served
    BY <2>1, CallMade DEF Kinds
  <2> HIDE DEF c
  <2>4. PICK i \in CallSlots :
           /\ calls' = [calls EXCEPT ![i] = c]
           /\ \A j \in CallSlots : calls'[j] = IF j = i THEN c ELSE calls[j]
    BY <2>2, AskTakesFree
  <2>5. UNCHANGED <<widget, streaming, stored, held, ours, sessionOf, left, moved>>
    BY <2>2 DEF bridge
  <2>a. ChatType'
    BY <2>3, <2>4, <2>5 DEF ChatType
  <2>b. BridgeInv'
    BY <2>2, <2>3, <2>4, BridgeKept
  <2>c. CallInv'
    <3>1. /\ \A k \in CallSlots : Is(k, Serious)' => k = i
          /\ \A k \in CallSlots : Is(k, OfLock)' => k = i
          /\ \A k \in CallSlots : Is(k, {"release"})' => k = i
          /\ \A k \in CallSlots : ~Is(k, {"check", "acquire"})'
      BY <1>0, <2>3, <2>4 DEF Is, Serious, Kinds, OfLock
    <3>2. IsOpen' /\ calls'[i].project = widget'.project /\ ~calls'[i].served
      BY <2>1, <2>3, <2>4, <2>5 DEF IsOpen
    <3> QED
      BY <3>1, <3>2 DEF CallInv
  <2>d. ShowInv'
    BY <2>5 DEF ShowInv, IsOpen, Begun
  <2>e. LocksInv'
    BY <1>1, <2>5 DEF LocksInv
  <2> QED
    BY <2>a, <2>b, <2>c, <2>d, <2>e
<1>2. CASE widget.status # "connected"
  <2>1. /\ Clear(widget.project, widget.session)
        /\ UNCHANGED <<calls, held, ours, sessionOf, left, moved>>
    BY <1>2 DEF Close, bridge
  <2>2. /\ widget' \in Widgets /\ streaming' = NoProject
        /\ stored' \in [1..MaxSessions -> SUBSET Projects]
        /\ ShowInv'
    BY <2>1, ClearStores
  <2>a. ChatType'
    BY <2>1, <2>2 DEF ChatType
  <2>b. BridgeInv'
    BY <2>1, BridgeKept DEF bridge
  <2>c. CallInv'
    BY <1>0, <2>1 DEF CallInv, Is, Serious, Kinds, OfLock
  <2>e. LocksInv'
    BY <1>0, <1>2, <2>1 DEF LocksInv, Told, Is, Serious, Kinds
  <2> QED
    BY <2>2, <2>a, <2>b, <2>c, <2>e
<1> QED
  BY <1>1, <1>2

LEMMA AskBeatKeeps ==
    ASSUME Patient, ChatInv, AskBeat
    PROVE  ChatInv'
<1> USE DEF ChatInv
<1> DEFINE c == Call("heartbeat", widget.project, widget.session)
<1>1. Ask(c) /\ UNCHANGED <<widget, streaming, stored, bridge, left, moved>>
  BY DEF AskBeat
<1>2. widget.project \in Projects /\ widget.session \in Nat
  BY DEF AskBeat, IsOpen, ChatType, Widgets
<1>3. c \in CallRecords /\ c.kind = "heartbeat" /\ ~c.served
  BY <1>2, CallMade DEF Kinds
<1> HIDE DEF c
<1>4. PICK i \in CallSlots :
         /\ calls[i] = NoCall /\ calls' = [calls EXCEPT ![i] = c]
         /\ \A j \in CallSlots : calls'[j] = IF j = i THEN c ELSE calls[j]
  BY <1>1, AskTakesFree
<1>5. UNCHANGED <<widget, streaming, stored, held, ours, sessionOf, left, moved>>
  BY <1>1 DEF bridge
<1>6. /\ ~Is(i, Serious)' /\ ~Is(i, OfLock)' /\ ~Is(i, {"release"})' /\ ~Is(i, {"check", "acquire"})'
      /\ calls[i].kind = "none"
      /\ \A j \in CallSlots : j # i => calls'[j] = calls[j]
  BY <1>3, <1>4 DEF Is, Serious, Kinds, OfLock, NoCall
<1>a. ChatType'
  BY <1>3, <1>4, <1>5 DEF ChatType
<1>b. BridgeInv'
  BY <1>1, <1>3, <1>4, BridgeKept
<1>c. CallInv'
  BY <1>5, <1>6 DEF CallInv, Is, IsOpen
<1>d. ShowInv'
  BY <1>5 DEF ShowInv, IsOpen, Begun
<1>e. LocksInv'
  BY <1>5, <1>6 DEF LocksInv, Told, Is
<1> QED
  BY <1>a, <1>b, <1>c, <1>d, <1>e

(* A message is added about the project shown, or about the one streamed. *)
LEMMA MessageKeeps ==
    ASSUME ChatInv, NEW q \in Projects, IsOpen, moved \/ q = widget.project,
           Render([widget EXCEPT !.messages = @ \cup {q}]),
           streaming' \in {streaming, widget.project},
           UNCHANGED <<calls, held, ours, sessionOf, left, moved>>
    PROVE  ChatInv'
<1> USE DEF ChatInv
<1> DEFINE w == [widget EXCEPT !.messages = @ \cup {q}]
<1>1. /\ w \in Widgets /\ w.project = widget.project /\ w.status = widget.status
      /\ w.turns = widget.turns /\ w.session = widget.session
      /\ w.messages = widget.messages \cup {q}
  BY DEF ChatType, Widgets
<1>2. moved \/ w.messages \subseteq {w.project}
  BY <1>1 DEF ShowInv
<1>3. /\ widget' = w
      /\ stored' \in [1..MaxSessions -> SUBSET Projects]
      /\ \A n \in 1..MaxSessions : stored'[n] # {} => n \in Begun'
      /\ ~moved' => \A n \in 1..MaxSessions : stored'[n] # {} => stored'[n] = {sessionOf'[n]}
  <2>1. Render(w)
    OBVIOUS
  <2>2. w.session # 0 => w.session \in Begun
    BY <1>1 DEF ShowInv
  <2> HIDE DEF w
  <2> QED
    BY <2>1, <2>2, <1>1, <1>2, RenderStores
<1> HIDE DEF w
<1>a. ChatType'
  BY <1>1, <1>3 DEF ChatType, Widgets
<1>b. BridgeInv'
  BY BridgeKept DEF bridge
<1>c. CallInv'
  BY <1>1, <1>3 DEF CallInv, Is, IsOpen
<1>d. ShowInv'
  BY <1>1, <1>2, <1>3 DEF ShowInv, IsOpen, Begun
<1>e. LocksInv'
  BY <1>1, <1>3 DEF LocksInv, Told, Is
<1> QED
  BY <1>a, <1>b, <1>c, <1>d, <1>e

LEMMA SendMessageKeeps ==
    ASSUME ChatInv, SendMessage
    PROVE  ChatInv'
<1>1. widget.project \in Projects
  BY DEF SendMessage, IsOpen, ChatInv, ChatType, Widgets
<1> QED
  BY <1>1, MessageKeeps DEF SendMessage, bridge

LEMMA StreamEventKeeps ==
    ASSUME ChatInv, StreamEvent
    PROVE  ChatInv'
<1>1. streaming \in Projects /\ IsOpen /\ (moved \/ streaming = widget.project)
  BY DEF StreamEvent, ChatInv, ChatType, ShowInv
<1>2. UNCHANGED <<calls, held, ours, sessionOf, left, moved>>
  BY DEF StreamEvent, bridge
<1>3. CASE Render([widget EXCEPT !.messages = @ \cup {streaming}]) /\ UNCHANGED streaming
  BY <1>1, <1>2, <1>3, MessageKeeps
<1>4. CASE streaming' = NoProject /\ UNCHANGED <<widget, stored>>
  <2> USE DEF ChatInv
  <2>a. ChatType'
    BY <1>2, <1>4 DEF ChatType
  <2>b. BridgeInv'
    BY <1>2, BridgeKept DEF bridge
  <2>c. CallInv'
    BY <1>2, <1>4 DEF CallInv, Is, IsOpen
  <2>d. ShowInv'
    BY <1>2, <1>4 DEF ShowInv, IsOpen, Begun
  <2>e. LocksInv'
    BY <1>2, <1>4 DEF LocksInv, Told, Is
  <2> QED
    BY <2>a, <2>b, <2>c, <2>d, <2>e
<1> QED
  BY <1>3, <1>4 DEF StreamEvent

LEMMA UnloadKeeps ==
    ASSUME ChatInv, Unload
    PROVE  ChatInv'
<1> USE DEF ChatInv
<1>1. /\ widget' = Closed /\ streaming' = NoProject
      /\ calls' = [i \in CallSlots |-> NoCall]
      /\ left' = left \cup {p \in Projects : held'[p] \in ours}
      /\ UNCHANGED <<stored, ours, sessionOf, moved>>
  BY DEF Unload
<1>2. Closed \in Widgets /\ Closed.project = NoProject /\ Closed.session = 0
      /\ Closed.status = "disconnected" /\ Closed.messages = {}
  BY DEF Closed, Widgets
<1>3. held' \in [Projects -> Nat] /\ \A p \in Projects : held'[p] \in {held[p], 0}
  BY DEF Unload, ChatType
<1>4. \A i \in CallSlots : calls'[i].kind = "none"
  BY <1>1 DEF NoCall
<1>a. ChatType'
  BY <1>1, <1>2, <1>3 DEF ChatType
<1>b. BridgeInv'
  BY <1>1, <1>3, <1>4 DEF BridgeInv, Is, Kinds, Begun
<1>c. CallInv'
  BY <1>4 DEF CallInv, Is, Serious, Kinds, OfLock
<1>d. ShowInv'
  BY <1>1, <1>2 DEF ShowInv, IsOpen, Begun
<1>e. LocksInv'
  BY <1>1 DEF LocksInv
<1> QED
  BY <1>a, <1>b, <1>c, <1>d, <1>e
-----------------------------------------------------------------------------
(* The bridge. *)
LEMMA EndSessionKeeps ==
    ASSUME ChatInv, NEW p \in Projects, EndSession(p)
    PROVE  ChatInv'
<1> USE DEF ChatInv
<1>1. /\ held' = [held EXCEPT ![p] = 0]
      /\ UNCHANGED <<widget, streaming, stored, calls, ours, sessionOf, left, moved>>
  BY DEF EndSession
<1>2. 0 \notin ours
  BY DEF BridgeInv
<1>3. /\ held' \in [Projects -> Nat]
      /\ \A q \in Projects : held'[q] = IF q = p THEN 0 ELSE held[q]
  BY <1>1 DEF ChatType
<1>4. \A q : held'[q] \in ours => held'[q] = held[q]
  BY <1>1, <1>2, <1>3 DEF ChatType
<1>a. ChatType'
  BY <1>1, <1>3 DEF ChatType
<1>b. BridgeInv'
  BY <1>1, <1>3 DEF BridgeInv, Is, Begun
<1>c. CallInv'
  BY <1>1, <1>4 DEF CallInv, Is, IsOpen
<1>d. ShowInv'
  BY <1>1 DEF ShowInv, IsOpen, Begun
<1>e. LocksInv'
  BY <1>1, <1>4 DEF LocksInv, Told, Is
<1> QED
  BY <1>a, <1>b, <1>c, <1>d, <1>e

(* A session that begins has the next number, and is of its project. *)
LEMMA SessionBegins ==
    ASSUME ChatType, BridgeInv, NEW p \in Projects, BeginSession(p)
    PROVE  \E n \in Nat \ {0} :
               /\ n \notin Begun /\ n \notin ours
               /\ Begun' = Begun \cup {n} /\ sessionOf'[n] = p
               /\ \A m \in Begun : sessionOf'[m] = sessionOf[m]
               /\ Cardinality(Begun') \in 0..MaxSessions /\ Begun' = 1..Cardinality(Begun')
               /\ held' \in [Projects -> Nat]
               /\ \A q \in Projects : held'[q] = IF q = p THEN n ELSE held[q]
<1> DEFINE k == Cardinality(Begun)
           n == k + 1
<1>1. k \in 0..MaxSessions /\ Begun = 1..k /\ ours \subseteq Begun
  BY DEF BridgeInv
<1>2. k < MaxSessions /\ MaxSessions \in Nat
  BY ChatConstants DEF BeginSession, Begun
<1>3. /\ sessionOf' = [m \in 1..n |-> IF m = n THEN p ELSE sessionOf[m]]
      /\ held' = [held EXCEPT ![p] = n]
  BY DEF BeginSession, Begun
<1> HIDE DEF k
<1>4. n \in Nat \ {0} /\ n \notin Begun /\ n \notin ours /\ n \in 0..MaxSessions
  BY <1>1, <1>2
<1>5. Begun' = 1..n
  BY <1>3 DEF Begun
<1>6. Cardinality(1..n) = n
  BY <1>4, FS_Interval
<1>7. Begun' = Begun \cup {n}
  BY <1>1, <1>4, <1>5
<1>8. sessionOf'[n] = p /\ \A m \in Begun : sessionOf'[m] = sessionOf[m]
  BY <1>1, <1>3, <1>4
<1>9. held' \in [Projects -> Nat] /\ \A q \in Projects : held'[q] = IF q = p THEN n ELSE held[q]
  BY <1>3, <1>4 DEF ChatType
<1> HIDE DEF n
<1> QED
  BY <1>4, <1>5, <1>6, <1>7, <1>8, <1>9

(* A session that begins for one who does not wait for it disturbs nothing   *)
(* that is shown.                                                            *)
LEMMA BegunShows ==
    ASSUME ShowInv, NEW n, n \notin Begun, Begun' = Begun \cup {n},
           \A m \in Begun : sessionOf'[m] = sessionOf[m],
           UNCHANGED <<widget, streaming, stored, moved>>
    PROVE  ShowInv'
BY DEF ShowInv, IsOpen

LEMMA BegunBridge ==
    ASSUME BridgeInv, NEW p \in Projects, NEW n, n \notin Begun,
           Begun' = Begun \cup {n}, sessionOf'[n] = p,
           \A m \in Begun : sessionOf'[m] = sessionOf[m],
           Cardinality(Begun') \in 0..MaxSessions, Begun' = 1..Cardinality(Begun'),
           \A q \in Projects : held'[q] = IF q = p THEN n ELSE held[q],
           ours' \subseteq ours \cup {n},
           \A i \in CallSlots : Is(i, Kinds)' /\ calls'[i].served =>
              calls'[i] = calls[i] \/ (calls'[i].found = n /\ calls'[i].project = p)
    PROVE  BridgeInv'
<1>1. \A m \in Begun' : sessionOf'[m] \in Projects
  BY DEF BridgeInv
<1>2. ours' \subseteq Begun'
  BY DEF BridgeInv
<1>3. \A q \in Projects : held'[q] # 0 => held'[q] \in Begun' /\ sessionOf'[held'[q]] = q
  BY DEF BridgeInv
<1>4. ASSUME NEW i \in CallSlots, Is(i, Kinds)', calls'[i].served, calls'[i].found # 0
      PROVE  calls'[i].found \in Begun' /\ sessionOf'[calls'[i].found] = calls'[i].project
  <2>1. CASE calls'[i] = calls[i]
    <3>1. calls[i].found \in Begun /\ sessionOf[calls[i].found] = calls[i].project
      BY <1>4, <2>1 DEF BridgeInv, Is
    <3> QED
      BY <2>1, <3>1
  <2>2. CASE calls'[i].found = n /\ calls'[i].project = p
    BY <2>2
  <2> QED
    BY <1>4, <2>1, <2>2
<1> QED
  BY <1>1, <1>2, <1>3, <1>4 DEF BridgeInv

LEMMA OtherTakesKeeps ==
    ASSUME ChatInv, NEW p \in Projects, OtherTakes(p)
    PROVE  ChatInv'
<1> USE DEF ChatInv
<1>0. BeginSession(p) /\ UNCHANGED <<widget, streaming, stored, calls, ours, left, moved>>
  BY DEF OtherTakes
<1>1. PICK n \in Nat \ {0} :
         /\ n \notin Begun /\ n \notin ours
         /\ Begun' = Begun \cup {n} /\ sessionOf'[n] = p
         /\ \A m \in Begun : sessionOf'[m] = sessionOf[m]
         /\ Cardinality(Begun') \in 0..MaxSessions /\ Begun' = 1..Cardinality(Begun')
         /\ held' \in [Projects -> Nat]
         /\ \A q \in Projects : held'[q] = IF q = p THEN n ELSE held[q]
  BY <1>0, SessionBegins
<1>2. \A i \in CallSlots : Is(i, Kinds) => calls[i].project \in Projects
  BY SlotsHold DEF CallRecords
<1>a. ChatType'
  BY <1>0, <1>1 DEF ChatType
<1>b. BridgeInv'
  BY <1>0, <1>1, BegunBridge
<1>c. CallInv'
  <2>1. ASSUME NEW i \in CallSlots, Is(i, {"release"}), calls[i].served
        PROVE  held'[calls[i].project] \notin ours
    BY <1>1, <1>2, <2>1 DEF CallInv, Is, Kinds
  <2> QED
    BY <1>0, <2>1 DEF CallInv, Is, IsOpen
<1>d. ShowInv'
  BY <1>0, <1>1, BegunShows
<1>e. LocksInv'
  BY <1>0, <1>1 DEF LocksInv, Told, Is
<1> QED
  BY <1>a, <1>b, <1>c, <1>d, <1>e

(* A call that is served finds the session its project has then. *)
LEMMA ServedHolds ==
    ASSUME ChatType, NEW i \in CallSlots, Serve(i), held' \in [Projects -> Nat]
    PROVE  /\ calls[i] \in CallRecords /\ ~calls[i].served
           /\ calls' \in [CallSlots -> CallRecords \cup {NoCall}]
           /\ \A j \in CallSlots : j # i => calls'[j] = calls[j]
           /\ \A j \in CallSlots : calls'[j].kind = calls[j].kind /\ calls'[j].project = calls[j].project
           /\ calls'[i].served /\ calls'[i].found = held'[calls[i].project]
<1>1. calls[i] \in CallRecords /\ ~calls[i].served
  BY SlotsHold DEF Serve
<1>2. calls' = [calls EXCEPT ![i] = [@ EXCEPT !.served = TRUE, !.found = held'[calls[i].project]]]
  BY DEF Serve
<1> DEFINE c == [calls[i] EXCEPT !.served = TRUE, !.found = held'[calls[i].project]]
<1>3. /\ c \in CallRecords /\ c.kind = calls[i].kind /\ c.project = calls[i].project
      /\ c.served = TRUE /\ c.found = held'[calls[i].project]
  BY <1>1 DEF CallRecords
<1>4. calls'[i] = c /\ \A j \in CallSlots : j # i => calls'[j] = calls[j]
  BY <1>2 DEF ChatType
<1>5. calls' \in [CallSlots -> CallRecords \cup {NoCall}]
  BY <1>2, <1>3 DEF ChatType
<1> HIDE DEF c
<1> QED
  BY <1>1, <1>3, <1>4, <1>5

LEMMA ServeKeeps ==
    ASSUME ChatInv, NEW i \in CallSlots, Serve(i)
    PROVE  ChatInv'
<1> USE DEF ChatInv
<1> DEFINE p == calls[i].project
<1>0. /\ UNCHANGED <<widget, streaming, stored, moved>>
      /\ left' = IF calls[i].kind = "release" THEN left \ {p} ELSE left
  BY DEF Serve
<1>1. /\ calls[i] \in CallRecords /\ p \in Projects /\ Is(i, Kinds)
  BY SlotsHold DEF Serve, CallRecords, Is
<1>2. ASSUME held' \in [Projects -> Nat],
             \A j \in CallSlots : Is(j, {"release"}) /\ (j = i \/ calls[j].served) =>
                held'[calls[j].project] \notin ours'
      PROVE  ChatType' /\ CallInv'
  <2>1. /\ calls' \in [CallSlots -> CallRecords \cup {NoCall}]
        /\ \A j \in CallSlots : calls'[j].kind = calls[j].kind /\ calls'[j].project = calls[j].project
        /\ \A j \in CallSlots : j # i => calls'[j] = calls[j]
    BY <1>2, ServedHolds
  <2>2. ChatType'
    BY <1>0, <1>2, <2>1 DEF ChatType
  <2>3. \A j \in CallSlots : Is(j, {"release"})' /\ calls'[j].served =>
           held'[calls'[j].project] \notin ours'
    BY <1>2, <2>1 DEF Is
  <2>4. CallInv'
    BY <1>0, <2>1, <2>3 DEF CallInv, Is, IsOpen
  <2> QED
    BY <2>2, <2>4
<1>3. CASE calls[i].kind = "acquire" /\ BeginSession(p) /\ ours' = ours \cup {held'[p]}
  <2>1. PICK n \in Nat \ {0} :
           /\ n \notin Begun /\ n \notin ours
           /\ Begun' = Begun \cup {n} /\ sessionOf'[n] = p
           /\ \A m \in Begun : sessionOf'[m] = sessionOf[m]
           /\ Cardinality(Begun') \in 0..MaxSessions /\ Begun' = 1..Cardinality(Begun')
           /\ held' \in [Projects -> Nat]
           /\ \A q \in Projects : held'[q] = IF q = p THEN n ELSE held[q]
    BY <1>1, <1>3, SessionBegins
  <2>2. /\ \A j \in CallSlots : j # i => calls'[j] = calls[j]
        /\ \A j \in CallSlots : calls'[j].kind = calls[j].kind /\ calls'[j].project = calls[j].project
        /\ calls'[i].served /\ calls'[i].found = n
    BY <1>1, <2>1, ServedHolds
  <2>3. \A j \in CallSlots : ~Is(j, {"release"})
    BY <1>3 DEF CallInv, Is, Serious, Kinds
  <2>4. widget.project = p
    BY <1>3 DEF CallInv, Is, Serious, Kinds
  <2>a. ChatType' /\ CallInv'
    BY <1>2, <2>1, <2>3
  <2>5. ours' = ours \cup {n}
    BY <1>1, <1>3, <2>1
  <2>b. BridgeInv'
    <3>1. \A j \in CallSlots : calls'[j] = calls[j] \/ (calls'[j].found = n /\ calls'[j].project = p)
      BY <2>2
    <3>2. BridgeInv /\ p \in Projects
      BY <1>1
    <3> HIDE DEF p, ChatInv
    <3> QED
      BY <2>1, <2>5, <3>1, <3>2, BegunBridge
  <2>d. ShowInv'
    BY <1>0, <2>1, BegunShows
  <2>e. LocksInv'
    <3>1. ASSUME NEW q \in Projects, held'[q] \in ours', q \notin left'
          PROVE  q = p
      <4>1. CASE q # p
        <5>1. held[q] \in ours
          BY <2>1, <2>5, <3>1, <4>1 DEF BridgeInv, ChatType
        <5>2. q \notin left
          BY <1>0, <1>3, <3>1
        <5> QED
          BY <2>4, <5>1, <5>2 DEF LocksInv
      <4> QED
        BY <4>1
    <3>2. Is(i, {"check", "acquire"})' /\ calls'[i].found = held'[p]
      BY <1>1, <1>3, <2>1, <2>2 DEF Is
    <3> QED
      BY <1>0, <2>4, <3>1, <3>2 DEF LocksInv, Told
  <2> QED
    BY <2>a, <2>b, <2>d, <2>e
<1>4. CASE calls[i].kind = "release" /\ held' = [held EXCEPT ![p] = 0] /\ UNCHANGED <<ours, sessionOf>>
  <2>1. /\ held' \in [Projects -> Nat]
        /\ \A q \in Projects : held'[q] = IF q = p THEN 0 ELSE held[q]
    BY <1>4 DEF ChatType
  <2>2. 0 \notin ours
    BY DEF BridgeInv
  <2>3. \A j \in CallSlots : Is(j, {"release"}) => j = i
    BY <1>4 DEF CallInv, Is, OfLock
  <2>4. widget.project = p /\ \A j \in CallSlots : ~Is(j, {"check", "acquire"})
    BY <1>4 DEF CallInv, Is, Serious, Kinds
  <2>5. /\ \A j \in CallSlots : j # i => calls'[j] = calls[j]
        /\ calls'[i].found = 0
    BY <1>1, <2>1, ServedHolds
  <2>a. ChatType' /\ CallInv'
    BY <1>1, <1>2, <1>4, <2>1, <2>2, <2>3
  <2>b. BridgeInv'
    BY <1>4, <2>1, <2>5 DEF BridgeInv, Is, Begun
  <2>d. ShowInv'
    BY <1>0, <1>4 DEF ShowInv, IsOpen, Begun
  <2>e. LocksInv'
    <3>1. SUFFICES ASSUME NEW q \in Projects, held'[q] \in ours', q \notin left'
                   PROVE  widget'.project = q /\ widget'.status = "connected"
      BY DEF LocksInv
    <3>2. held[q] \in ours /\ q # p
      BY <1>4, <2>1, <2>2, <3>1
    <3>3. q \notin left
      BY <1>0, <3>1, <3>2
    <3> QED
      BY <2>4, <3>2, <3>3 DEF LocksInv
  <2> QED
    BY <2>a, <2>b, <2>d, <2>e
<1>5. CASE /\ UNCHANGED bridge
           /\ \/ calls[i].kind \in {"check", "history", "heartbeat", "acquire"}
              \/ calls[i].kind = "release" /\ held[p] \notin ours
  <2>0. UNCHANGED <<held, ours, sessionOf>>
    BY <1>5 DEF bridge
  <2>1. /\ \A j \in CallSlots : j # i => calls'[j] = calls[j]
        /\ \A j \in CallSlots : calls'[j].kind = calls[j].kind /\ calls'[j].project = calls[j].project
        /\ calls'[i].served /\ calls'[i].found = held[p]
    BY <1>1, <2>0, ServedHolds DEF ChatType
  <2>a. ChatType' /\ CallInv'
    <3>1. ASSUME NEW j \in CallSlots, Is(j, {"release"}), j = i \/ calls[j].served
          PROVE  held'[calls[j].project] \notin ours'
      BY <1>5, <2>0, <3>1 DEF CallInv, Is
    <3>2. held' \in [Projects -> Nat]
      BY <2>0 DEF ChatType
    <3> QED
      BY <1>2, <3>1, <3>2
  <2>b. BridgeInv'
    <3>1. ASSUME NEW j \in CallSlots, Is(j, Kinds)', calls'[j].served, calls'[j].found # 0
          PROVE  calls'[j].found \in Begun /\ sessionOf[calls'[j].found] = calls'[j].project
      BY <1>1, <2>1, <3>1 DEF BridgeInv, Is
    <3> QED
      BY <2>0, <3>1 DEF BridgeInv, Begun
  <2>d. ShowInv'
    BY <1>0, <2>0 DEF ShowInv, IsOpen, Begun
  <2>e. LocksInv'
    <3>1. SUFFICES ASSUME NEW q \in Projects, held[q] \in ours, q \notin left'
                   PROVE  widget'.project = q /\ (widget'.status = "connected" \/ Told(q)')
      BY <2>0 DEF LocksInv
    <3>2. CASE calls[i].kind = "release"
      <4>1. q \notin left
        BY <1>0, <1>5, <3>1, <3>2
      <4>2. \A j \in CallSlots : ~Is(j, {"check", "acquire"})
        BY <3>2 DEF CallInv, Is, Serious, Kinds
      <4> QED
        BY <1>0, <3>1, <4>1, <4>2 DEF LocksInv, Told
    <3>3. CASE calls[i].kind # "release"
      <4>1. widget.project = q /\ (widget.status = "connected" \/ Told(q))
        BY <1>0, <3>1, <3>3 DEF LocksInv
      <4>2. Is(i, {"check", "acquire"}) => p = widget.project
        BY DEF CallInv, Is, Serious, Kinds
      <4>3. Told(q) => Told(q)'
        BY <2>0, <2>1, <4>1, <4>2 DEF Told, Is
      <4> QED
        BY <1>0, <4>1, <4>3
    <3> QED
      BY <3>2, <3>3
  <2> QED
    BY <2>a, <2>b, <2>d, <2>e
<1> QED
  BY <1>3, <1>4, <1>5 DEF Serve
-----------------------------------------------------------------------------
(* The answers. *)
LEMMA DoneFrees ==
    ASSUME ChatType, BridgeInv, NEW i \in CallSlots, Done(i), UNCHANGED bridge
    PROVE  /\ calls' \in [CallSlots -> CallRecords \cup {NoCall}]
           /\ calls'[i].kind = "none"
           /\ \A j \in CallSlots : j # i => calls'[j] = calls[j]
           /\ BridgeInv'
<1>1. /\ calls' \in [CallSlots -> CallRecords \cup {NoCall}]
      /\ calls'[i].kind = "none"
      /\ \A j \in CallSlots : j # i => calls'[j] = calls[j]
  BY DEF Done, ChatType, NoCall
<1>2. \A j \in CallSlots : Is(j, Kinds)' => calls'[j] = calls[j]
  BY <1>1 DEF Is, Kinds
<1> QED
  BY <1>1, <1>2, BridgeKept

(* The connection failed: no lock is left that the widget had not lost.      *)
LEMMA FailedKeeps ==
    ASSUME ChatInv, NEW i \in CallSlots, Render(Failed), Done(i),
           UNCHANGED <<streaming, bridge, moved>>,
           \A q \in Projects : held[q] \in ours => q \in left'
    PROVE  ChatInv'
<1> USE DEF ChatInv
<1>1. /\ Failed \in Widgets /\ Failed.project = widget.project /\ Failed.status = "error"
      /\ Failed.turns = widget.turns /\ Failed.session = 0 /\ Failed.messages = widget.messages
  BY DEF Failed, ChatType, Widgets
<1>2. UNCHANGED <<held, ours, sessionOf>>
  BY DEF bridge
<1>3. /\ widget' = Failed
      /\ stored' \in [1..MaxSessions -> SUBSET Projects]
      /\ \A n \in 1..MaxSessions : stored'[n] # {} => n \in Begun'
      /\ ~moved' => \A n \in 1..MaxSessions : stored'[n] # {} => stored'[n] = {sessionOf'[n]}
  <2>1. moved \/ Failed.messages \subseteq {Failed.project}
    BY <1>1 DEF ShowInv
  <2> QED
    BY <1>1, <1>2, <2>1, RenderStores
<1>4. /\ calls' \in [CallSlots -> CallRecords \cup {NoCall}]
      /\ calls'[i].kind = "none"
      /\ \A j \in CallSlots : j # i => calls'[j] = calls[j]
      /\ BridgeInv'
  BY DoneFrees
<1>a. ChatType'
  BY <1>1, <1>2, <1>3, <1>4 DEF ChatType
<1>c. CallInv'
  <2>1. \A j \in CallSlots, K \in {Serious, OfLock, {"release"}, {"check", "acquire"}} :
           Is(j, K)' => j # i /\ Is(j, K)
    BY <1>4 DEF Is, Serious, Kinds, OfLock
  <2> QED
    BY <1>1, <1>2, <1>3, <1>4, <2>1 DEF CallInv, IsOpen
<1>d. ShowInv'
  BY <1>1, <1>2, <1>3 DEF ShowInv, IsOpen, Begun
<1>e. LocksInv'
  BY <1>2 DEF LocksInv
<1> QED
  BY <1>4, <1>a, <1>c, <1>d, <1>e

(* The user's own session was found or begun, of the project that is shown.  *)
LEMMA ConnectedKeeps ==
    ASSUME ChatInv, NEW i \in CallSlots, Is(i, {"check", "acquire"}),
           calls[i].served, calls[i].found \in ours, Done(i),
           UNCHANGED <<streaming, bridge, left, moved>>,
           NEW w \in Widgets, Render(w), w.project = widget.project, w.turns = widget.turns,
           w.session = calls[i].found, w.status = "connected",
           moved \/ w.messages \subseteq {sessionOf[calls[i].found]}
    PROVE  ChatInv'
<1> USE DEF ChatInv
<1>1. /\ w.session \in Begun /\ w.session # 0
      /\ IsOpen /\ sessionOf[w.session] = widget.project
  BY DEF BridgeInv, CallInv, Is, Serious, Kinds
<1>2. UNCHANGED <<held, ours, sessionOf>>
  BY DEF bridge
<1>3. /\ widget' = w
      /\ stored' \in [1..MaxSessions -> SUBSET Projects]
      /\ \A n \in 1..MaxSessions : stored'[n] # {} => n \in Begun'
      /\ ~moved' => \A n \in 1..MaxSessions : stored'[n] # {} => stored'[n] = {sessionOf'[n]}
  BY <1>1, <1>2, RenderStores
<1>4. /\ calls' \in [CallSlots -> CallRecords \cup {NoCall}]
      /\ calls'[i].kind = "none"
      /\ \A j \in CallSlots : j # i => calls'[j] = calls[j]
      /\ BridgeInv'
  BY DoneFrees
<1>a. ChatType'
  BY <1>2, <1>3, <1>4 DEF ChatType
<1>c. CallInv'
  <2>1. \A j \in CallSlots, K \in {Serious, OfLock, {"release"}, {"check", "acquire"}} :
           Is(j, K)' => j # i /\ Is(j, K)
    BY <1>4 DEF Is, Serious, Kinds, OfLock
  <2>2. \A j \in CallSlots : Is(j, {"check", "acquire"}) => j = i
    BY DEF CallInv, Is, OfLock
  <2> QED
    BY <1>1, <1>2, <1>3, <1>4, <2>1, <2>2 DEF CallInv, IsOpen
<1>d. ShowInv'
  BY <1>1, <1>2, <1>3 DEF ShowInv, IsOpen, Begun
<1>e. LocksInv'
  BY <1>2, <1>3 DEF LocksInv
<1> QED
  BY <1>4, <1>a, <1>c, <1>d, <1>e

LEMMA LockCheckedKeeps ==
    ASSUME ChatInv, NEW i \in CallSlots, calls[i].served, LockChecked(i),
           UNCHANGED <<bridge, moved>>
    PROVE  ChatInv'
<1> USE DEF ChatInv
<1> DEFINE n == calls[i].found
           p == calls[i].project
<1>0. /\ Is(i, {"check", "acquire"}) /\ Is(i, Kinds) /\ UNCHANGED <<streaming, left>>
      /\ UNCHANGED <<held, ours, sessionOf>>
  BY DEF LockChecked, Is, Kinds, bridge
<1>1. /\ \A j \in CallSlots : Is(j, {"check", "acquire"}) => j = i
      /\ IsOpen /\ p = widget.project /\ widget.status # "connected"
  BY <1>0 DEF CallInv, Is, OfLock, Serious, Kinds
<1>2. calls[i] \in CallRecords /\ p \in Projects /\ n \in Nat
  BY <1>0, SlotsHold DEF CallRecords
<1>3. \A q \in Projects : held[q] \in ours /\ q \notin left => n = held[q]
  BY <1>1 DEF LocksInv, Told
<1>4. CASE n # 0 /\ n \notin ours /\ Render(Failed) /\ Done(i)
  <2>1. \A q \in Projects : held[q] \in ours => q \in left'
    BY <1>0, <1>3, <1>4
  <2> QED
    BY <1>0, <1>4, <2>1, FailedKeeps
<1>5. CASE n \in ours /\ Render([Connected(n) EXCEPT !.messages = stored[n]]) /\ Done(i)
  <2> DEFINE w == [Connected(n) EXCEPT !.messages = stored[n]]
  <2>1. n \in 1..MaxSessions
    BY <1>5, ChatConstants DEF BridgeInv
  <2>2. /\ w \in Widgets /\ w.project = widget.project /\ w.turns = widget.turns
        /\ w.session = n /\ w.status = "connected" /\ w.messages = stored[n]
    BY <1>2, <2>1 DEF Connected, ChatType, Widgets
  <2>3. moved \/ w.messages \subseteq {sessionOf[n]}
    BY <2>1, <2>2 DEF ShowInv
  <2>4. Render(w)
    BY <1>5
  <2> HIDE DEF w
  <2> QED
    BY <1>0, <1>5, <2>2, <2>3, <2>4, ConnectedKeeps
<1>6. CASE /\ n = 0
           /\ calls' = [calls EXCEPT ![i] = Call("acquire", p, 0)]
           /\ UNCHANGED <<widget, stored>>
  <2> DEFINE c == Call("acquire", p, 0)
  <2>1. c \in CallRecords /\ c.kind = "acquire" /\ c.project = p /\ ~c.served
    BY <1>2, CallMade DEF Kinds
  <2>2. calls' = [calls EXCEPT ![i] = c]
    BY <1>6
  <2> HIDE DEF c
  <2>3. \A j \in CallSlots : calls'[j] = IF j = i THEN c ELSE calls[j]
    BY <2>2 DEF ChatType
  <2>a. ChatType'
    BY <1>0, <1>6, <2>1, <2>2 DEF ChatType
  <2>b. BridgeInv'
    BY <2>1, <2>3, BridgeKept
  <2>c. CallInv'
    <3>1. \A j \in CallSlots, K \in {Serious, OfLock, {"release"}, {"check", "acquire"}} :
             Is(j, K)' => Is(j, K) /\ calls'[j].project = calls[j].project
      BY <1>0, <2>1, <2>3 DEF Is, Serious, Kinds, OfLock
    <3>2. \A j \in CallSlots : Is(j, {"release"})' => calls'[j] = calls[j]
      BY <2>1, <2>3 DEF Is
    <3> QED
      BY <1>0, <1>6, <3>1, <3>2 DEF CallInv, IsOpen
  <2>d. ShowInv'
    BY <1>0, <1>6 DEF ShowInv, IsOpen, Begun
  <2>e. LocksInv'
    <3>1. Is(i, {"check", "acquire"})' /\ ~calls'[i].served
      BY <2>1, <2>3 DEF Is
    <3> QED
      BY <1>0, <1>6, <3>1 DEF LocksInv, Told
  <2> QED
    BY <2>a, <2>b, <2>c, <2>d, <2>e
<1> QED
  BY <1>4, <1>5, <1>6 DEF LockChecked

LEMMA LockAcquiredKeeps ==
    ASSUME ChatInv, NEW i \in CallSlots, calls[i].served, LockAcquired(i),
           UNCHANGED <<bridge, moved>>
    PROVE  ChatInv'
<1> USE DEF ChatInv
<1> DEFINE n == calls[i].found
<1>0. /\ Is(i, {"check", "acquire"}) /\ Is(i, Kinds) /\ Done(i) /\ UNCHANGED <<streaming, left>>
      /\ UNCHANGED <<held, ours, sessionOf>>
  BY DEF LockAcquired, Is, Kinds, bridge
<1>1. /\ \A j \in CallSlots : Is(j, {"check", "acquire"}) => j = i
      /\ IsOpen /\ calls[i].project = widget.project /\ widget.status # "connected"
  BY <1>0 DEF CallInv, Is, OfLock, Serious, Kinds
<1>2. n \in Nat
  BY <1>0, SlotsHold DEF CallRecords
<1>3. \A q \in Projects : held[q] \in ours /\ q \notin left => n = held[q]
  BY <1>1 DEF LocksInv, Told
<1>4. CASE n \notin ours
  <2>1. \A q \in Projects : held[q] \in ours => q \in left'
    BY <1>0, <1>3, <1>4
  <2>2. Render(Failed)
    BY <1>4 DEF LockAcquired
  <2> QED
    BY <1>0, <2>1, <2>2, FailedKeeps
<1>5. CASE n \in ours
  <2> DEFINE w == Connected(n)
  <2>1. /\ w \in Widgets /\ w.project = widget.project /\ w.turns = widget.turns
        /\ w.session = n /\ w.status = "connected" /\ w.messages = widget.messages
    BY <1>2 DEF Connected, ChatType, Widgets
  <2>2. sessionOf[n] = widget.project
    BY <1>0, <1>1, <1>5 DEF BridgeInv
  <2>3. moved \/ w.messages \subseteq {sessionOf[n]}
    BY <2>1, <2>2 DEF ShowInv
  <2>4. Render(w)
    BY <1>5 DEF LockAcquired
  <2> HIDE DEF w
  <2> QED
    BY <1>0, <1>5, <2>1, <2>3, <2>4, ConnectedKeeps
<1> QED
  BY <1>4, <1>5

(* The widget was closed, with the release served or lost. *)
LEMMA ClosedKeeps ==
    ASSUME ChatInv, NEW i \in CallSlots, Is(i, {"release"}), Done(i),
           Clear(calls[i].project, calls[i].session), UNCHANGED <<bridge, moved>>,
           \A q \in Projects : held[q] \in ours => q \in left'
    PROVE  ChatInv'
<1> USE DEF ChatInv
<1>1. UNCHANGED <<held, ours, sessionOf>>
  BY DEF bridge
<1>2. /\ widget' \in Widgets /\ streaming' = NoProject
      /\ stored' \in [1..MaxSessions -> SUBSET Projects]
      /\ ShowInv'
  BY <1>1, ClearStores
<1>3. /\ calls' \in [CallSlots -> CallRecords \cup {NoCall}]
      /\ calls'[i].kind = "none"
      /\ \A j \in CallSlots : j # i => calls'[j] = calls[j]
      /\ BridgeInv'
  BY DoneFrees
<1>a. ChatType'
  BY <1>1, <1>2, <1>3 DEF ChatType
<1>c. CallInv'
  <2>1. \A j \in CallSlots : Is(j, Serious) => j = i
    BY DEF CallInv
  <2>2. \A j \in CallSlots : ~Is(j, Serious)'
    BY <1>3, <2>1 DEF Is, Serious, Kinds
  <2> QED
    BY <2>2 DEF CallInv, Is, Serious, Kinds, OfLock
<1>e. LocksInv'
  BY <1>1 DEF LocksInv
<1> QED
  BY <1>2, <1>3, <1>a, <1>c, <1>e

LEMMA LockReleasedKeeps ==
    ASSUME ChatInv, NEW i \in CallSlots, calls[i].served, LockReleased(i),
           UNCHANGED <<bridge, moved>>
    PROVE  ChatInv'
<1>1. Is(i, {"release"}) /\ Done(i) /\ Clear(calls[i].project, calls[i].session) /\ left' = left
  BY DEF LockReleased, Is
<1>2. /\ calls[i].project = widget.project /\ held[calls[i].project] \notin ours
      /\ \A j \in CallSlots : ~Is(j, {"check", "acquire"})
  BY <1>1 DEF ChatInv, CallInv, Is, Serious, Kinds
<1>3. \A q \in Projects : held[q] \in ours => q \in left'
  BY <1>1, <1>2 DEF ChatInv, LocksInv, Told
<1> QED
  BY <1>1, <1>3, ClosedKeeps

(* A heartbeat that changes nothing, and a history, but for the turns shown. *)
LEMMA TurnsKeep ==
    ASSUME ChatInv, NEW i \in CallSlots, ~Is(i, OfLock), Done(i),
           UNCHANGED <<streaming, bridge, moved>>, left \subseteq left',
           NEW q \in {NoProject, widget.project, widget.turns},
           \/ UNCHANGED <<widget, stored>>
           \/ Render([widget EXCEPT !.turns = q])
    PROVE  ChatInv'
<1> USE DEF ChatInv
<1> DEFINE w == [widget EXCEPT !.turns = q]
<1>1. /\ w \in Widgets /\ w.project = widget.project /\ w.turns = q /\ w.status = widget.status
      /\ w.session = widget.session /\ w.messages = widget.messages
  BY DEF ChatType, Widgets
<1>2. UNCHANGED <<held, ours, sessionOf>>
  BY DEF bridge
<1>3. /\ widget' \in {widget, w}
      /\ stored' \in [1..MaxSessions -> SUBSET Projects]
      /\ \A n \in 1..MaxSessions : stored'[n] # {} => n \in Begun'
      /\ ~moved' => \A n \in 1..MaxSessions : stored'[n] # {} => stored'[n] = {sessionOf'[n]}
  <2>1. CASE UNCHANGED <<widget, stored>>
    BY <1>2, <2>1 DEF ChatType, ShowInv, Begun
  <2>2. CASE Render(w)
    <3>1. /\ w.session # 0 => w.session \in Begun
          /\ moved \/ w.messages \subseteq {w.project}
      BY <1>1 DEF ShowInv
    <3> HIDE DEF w
    <3> QED
      BY <1>1, <1>2, <2>2, <3>1, RenderStores
  <2> QED
    BY <2>1, <2>2
<1> HIDE DEF w
<1>4. /\ calls' \in [CallSlots -> CallRecords \cup {NoCall}]
      /\ calls'[i].kind = "none"
      /\ \A j \in CallSlots : j # i => calls'[j] = calls[j]
      /\ BridgeInv'
  BY DoneFrees
<1>5. /\ widget' \in Widgets /\ widget'.project = widget.project /\ widget'.status = widget.status
      /\ widget'.session = widget.session /\ widget'.messages = widget.messages
      /\ widget'.turns \in {NoProject, widget.project, widget.turns}
  BY <1>1, <1>3 DEF ChatType
<1>a. ChatType'
  BY <1>2, <1>3, <1>4, <1>5 DEF ChatType
<1>c. CallInv'
  <2>1. \A j \in CallSlots, K \in {Serious, OfLock, {"release"}, {"check", "acquire"}} :
           Is(j, K)' => j # i /\ Is(j, K)
    BY <1>4 DEF Is, Serious, Kinds, OfLock
  <2> QED
    BY <1>2, <1>4, <1>5, <2>1 DEF CallInv, IsOpen
<1>d. ShowInv'
  BY <1>2, <1>3, <1>5 DEF ShowInv, IsOpen, Begun
<1>e. LocksInv'
  <2>1. \A j \in CallSlots : Is(j, {"check", "acquire"}) => j # i
    BY DEF Is, OfLock
  <2>2. \A r \in Projects : Told(r) => Told(r)'
    BY <1>2, <1>4, <2>1 DEF Told, Is
  <2> QED
    BY <1>2, <1>5, <2>2 DEF LocksInv
<1> QED
  BY <1>4, <1>a, <1>c, <1>d, <1>e

LEMMA BeatKeeps ==
    ASSUME ChatInv, NEW i \in CallSlots, Beat(i), UNCHANGED <<bridge, moved>>
    PROVE  ChatInv'
<1>0. ~Is(i, OfLock) /\ Done(i) /\ UNCHANGED streaming
  BY DEF Beat, Is, OfLock
<1>1. CASE UNCHANGED <<widget, stored, left>>
  BY <1>0, <1>1, TurnsKeep
<1>2. CASE /\ Render(Failed)
           /\ left' = IF IsOpen /\ held[widget.project] \in ours
                      THEN left \cup {widget.project} ELSE left
  <2>1. \A q \in Projects : held[q] \in ours => q \in left'
    BY <1>2, ChatConstants DEF ChatInv, LocksInv, IsOpen
  <2> QED
    BY <1>0, <1>2, <2>1, FailedKeeps
<1> QED
  BY <1>1, <1>2 DEF Beat

LEMMA HistoryFetchedKeeps ==
    ASSUME ChatInv, NEW i \in CallSlots, HistoryFetched(i), UNCHANGED <<bridge, moved>>
    PROVE  ChatInv'
<1>1. ~Is(i, OfLock) /\ Is(i, Serious) /\ Done(i) /\ UNCHANGED <<streaming, left>>
  BY DEF HistoryFetched, Is, OfLock, Serious, Kinds
<1>2. calls[i].project = widget.project
  BY <1>1 DEF ChatInv, CallInv
<1>3. Render([widget EXCEPT !.turns = calls[i].project])
  BY DEF HistoryFetched
<1> QED
  BY <1>1, <1>2, <1>3, TurnsKeep

LEMMA DeliverKeeps ==
    ASSUME ChatInv, NEW i \in CallSlots, Deliver(i)
    PROVE  ChatInv'
BY LockCheckedKeeps, LockAcquiredKeeps, LockReleasedKeeps, BeatKeeps, HistoryFetchedKeeps
   DEF Deliver

LEMMA LostKeeps ==
    ASSUME ChatInv, NEW i \in CallSlots, Lost(i)
    PROVE  ChatInv'
<1>0. Done(i) /\ UNCHANGED <<bridge, moved>> /\ left \subseteq left'
  BY DEF Lost
<1>1. ASSUME Is(i, OfLock)
      PROVE  \A q \in Projects : held[q] \in ours => q \in left'
  <2>1. calls[i].project = widget.project /\ calls[i].kind # "heartbeat"
    BY <1>1 DEF ChatInv, CallInv, Is, OfLock, Serious, Kinds
  <2>2. \A q \in Projects : held[q] \in ours /\ q \notin left => q = calls[i].project
    BY <2>1 DEF ChatInv, LocksInv
  <2> QED
    BY <2>1, <2>2 DEF Lost
<1>2. CASE calls[i].kind \in {"check", "acquire"} /\ Render(Failed) /\ UNCHANGED streaming
  BY <1>0, <1>1, <1>2, FailedKeeps DEF Is, OfLock
<1>3. CASE calls[i].kind = "release" /\ Clear(calls[i].project, calls[i].session)
  BY <1>0, <1>1, <1>3, ClosedKeeps DEF Is, OfLock
<1>4. CASE calls[i].kind = "heartbeat" /\ UNCHANGED <<widget, streaming, stored>>
  BY <1>0, <1>4, TurnsKeep DEF Is, OfLock
<1>5. CASE /\ calls[i].kind = "history" /\ UNCHANGED streaming
           /\ Render([widget EXCEPT !.turns = NoProject])
  BY <1>0, <1>5, TurnsKeep DEF Is, OfLock
<1> QED
  BY <1>2, <1>3, <1>4, <1>5 DEF Lost
-----------------------------------------------------------------------------
LEMMA ChatStarts ==
    ASSUME ChatInit
    PROVE  ChatInv
<1> USE DEF ChatInit
<1>1. \A i \in CallSlots : calls[i] = NoCall /\ calls[i].kind = "none"
  BY DEF NoCall
<1>2. ChatType
  BY DEF ChatType, Closed, Widgets
<1>3. Begun = {} /\ Cardinality(Begun) = 0
  BY FS_EmptySet DEF Begun
<1>4. BridgeInv
  BY <1>1, <1>3, ChatConstants DEF BridgeInv, Is, Kinds
<1>5. CallInv
  BY <1>1 DEF CallInv, Is, Serious, Kinds, OfLock
<1>6. ShowInv
  BY DEF ShowInv, Closed, IsOpen
<1>7. LocksInv
  BY DEF LocksInv
<1> QED
  BY <1>2, <1>4, <1>5, <1>6, <1>7 DEF ChatInv

LEMMA ChatSteps ==
    ASSUME Patient, ChatInv, [ChatNext]_chatVars
    PROVE  ChatInv'
<1>1. CASE ChatNext
  BY <1>1, OpenKeeps, RetryConnectionKeeps, CloseKeeps, AskBeatKeeps, SendMessageKeeps,
     StreamEventKeeps, UnloadKeeps, EndSessionKeeps, OtherTakesKeeps, ServeKeeps,
     DeliverKeeps, LostKeeps DEF ChatNext
<1>2. CASE UNCHANGED chatVars
  <2>1. UNCHANGED <<widget, streaming, stored, calls, held, ours, sessionOf, left, moved>>
    BY <1>2 DEF chatVars
  <2> QED
    BY <2>1 DEF ChatInv, ChatType, BridgeInv, CallInv, ShowInv, LocksInv, Told, Is, IsOpen, Begun
<1> QED
  BY <1>1, <1>2

(* A connected widget that was never opened over another project shows the   *)
(* session, the messages and the history of the project in its title,        *)
(* whatever the bridge does and whichever calls are lost, for a user who     *)
(* waits for what was asked: the answers of two projects are never under way *)
(* at the same time.                                                         *)
THEOREM OneProjectIsShown == Patient => (ChatSpec => []ShowsOneProject)
<1> SUFFICES ASSUME Patient PROVE ChatSpec => []ShowsOneProject
  OBVIOUS
<1>1. ChatInit => ChatInv
  BY ChatStarts
<1>2. ChatInv /\ [ChatNext]_chatVars => ChatInv'
  BY ChatSteps
<1>3. ChatInv => ShowsOneProject
  BY DEF ChatInv, ShowInv, ShowsOneProject
<1> QED
  BY <1>1, <1>2, <1>3, PTL DEF ChatSpec

(* releaseAndClose leaves no lock behind: when the widget is closed and      *)
(* nothing is under way, a lock this user still has is one the widget was    *)
(* moved away from or lost sight of, for a user who waits for what was asked.*)
THEOREM CloseReleases == Patient => (ChatSpec => []ClosedHoldsNoLock)
<1> SUFFICES ASSUME Patient PROVE ChatSpec => []ClosedHoldsNoLock
  OBVIOUS
<1>1. ChatInit => ChatInv
  BY ChatStarts
<1>2. ChatInv /\ [ChatNext]_chatVars => ChatInv'
  BY ChatSteps
<1>3. ChatInv => ClosedHoldsNoLock
  BY ChatConstants DEF ChatInv, LocksInv, IsOpen, ClosedHoldsNoLock
<1> QED
  BY <1>1, <1>2, <1>3, PTL DEF ChatSpec
=============================================================================
