----------------------------- MODULE ChatWidget -----------------------------
(* The architect chat of the web client: one widget that acquires the lock   *)
(* of a project through the bridge, watches it with heartbeats and releases  *)
(* it when it is closed.  A call to the bridge is asked, served and answered *)
(* at three different times, and its callback writes to whatever the widget  *)
(* has become by then.  The bridge is external: it keeps one session for     *)
(* each project, this user's or another's.                                   *)
EXTENDS Integers, FiniteSets

CONSTANTS Projects,
          MaxCalls,      \* bound on the calls in flight at one time
          MaxSessions,   \* bound on the sessions the bridge ever begins
          Patient        \* the user waits for what was asked before asking for more

NoProject == "no project"

ASSUME ChatConstants ==
    /\ NoProject \notin Projects
    /\ MaxCalls \in Nat \ {0} /\ MaxSessions \in Nat /\ Patient \in BOOLEAN

NoCall == [kind |-> "none"]
CallSlots == 1..MaxCalls

VARIABLES widget,      \* the React state; messages and turns are kept as the projects they are about
          streaming,   \* the project whose answer is being streamed
          stored,      \* localStorage: the messages kept for each session
          calls,       \* the calls in flight
          held,        \* of each project, the session the bridge has, or 0
          ours,        \* the sessions that are this user's
          sessionOf,   \* the project of each session begun so far
          left,        \* projects whose lock the widget lost sight of without releasing it
          moved        \* the widget was opened over another project

chatVars == <<widget, streaming, stored, calls, held, ours, sessionOf, left, moved>>
bridge == <<held, ours, sessionOf>>

Closed == [project |-> NoProject, session |-> 0, status |-> "disconnected",
           messages |-> {}, turns |-> NoProject]
IsOpen == widget.project # NoProject
InFlight == {i \in CallSlots : calls[i] # NoCall}
Asked(kinds) == {i \in InFlight : calls[i].kind \in kinds}
Quiet == Patient => Asked({"check", "acquire", "release", "history"}) = {}

ChatInit ==
    /\ widget = Closed /\ streaming = NoProject
    /\ stored = [n \in 1..MaxSessions |-> {}]
    /\ calls = [i \in CallSlots |-> NoCall]
    /\ held = [p \in Projects |-> 0] /\ ours = {} /\ sessionOf = <<>>
    /\ left = {} /\ moved = FALSE

(* setState, with the effect that stores the messages.  What is stored under *)
(* a session of another project is under a key that is never read again.     *)
Render(w) ==
    /\ widget' = w
    /\ stored' = IF w.messages # {} /\ w.session # 0 /\ sessionOf[w.session] = w.project
                 THEN [stored EXCEPT ![w.session] = w.messages] ELSE stored

Call(kind, p, n) == [kind |-> kind, project |-> p, session |-> n, served |-> FALSE, found |-> 0]

(* Calls take the first free slots. *)
Ask(c) ==
    \E i \in CallSlots \ InFlight :
        /\ \A j \in CallSlots \ InFlight : i <= j
        /\ calls' = [calls EXCEPT ![i] = c]

AskBoth(c, d) ==
    \E i, j \in CallSlots \ InFlight :
        /\ i < j /\ \A k \in CallSlots \ InFlight : k = i \/ j <= k
        /\ calls' = [calls EXCEPT ![i] = c, ![j] = d]

Done(i) == calls' = [calls EXCEPT ![i] = NoCall]
Failed == [widget EXCEPT !.status = "error", !.session = 0]
Connected(n) == [widget EXCEPT !.status = "connected", !.session = n]
-----------------------------------------------------------------------------
(* open: a project is shown, over another one perhaps, its lock is looked    *)
(* for and its history is fetched.                                           *)
Open(p) ==
    /\ Quiet
    /\ AskBoth(Call("check", p, 0), Call("history", p, 0))
    /\ Render([widget EXCEPT !.project = p, !.status = "acquiring", !.turns = NoProject])
    /\ left' = left \cup ({widget.project} \ {NoProject, p})
    /\ moved' = (moved \/ widget.project \notin {NoProject, p})
    /\ UNCHANGED <<streaming, bridge>>

RetryConnection ==
    /\ Quiet /\ IsOpen /\ widget.status = "error"
    /\ Ask(Call("check", widget.project, 0))
    /\ Render([widget EXCEPT !.status = "acquiring"])
    /\ UNCHANGED <<streaming, bridge, left, moved>>

(* Without the reset of the messages. *)
ClearKeepingMessages(p, n) ==
    /\ stored' = IF n # 0 /\ sessionOf[n] = p THEN [stored EXCEPT ![n] = {}] ELSE stored
    /\ widget' = [Closed EXCEPT !.turns = widget.turns, !.messages = widget.messages]
    /\ streaming' = NoProject

(* The end of releaseAndClose: the messages of the session it began with are *)
(* removed, the stream is cancelled and the state reset.                     *)
Clear(p, n) ==
    /\ stored' = IF n # 0 /\ sessionOf[n] = p THEN [stored EXCEPT ![n] = {}] ELSE stored
    /\ widget' = [Closed EXCEPT !.turns = widget.turns]
    /\ streaming' = NoProject

(* Without the release. *)
CloseAtOnce ==
    /\ Quiet /\ IsOpen
    /\ Clear(widget.project, widget.session)
    /\ UNCHANGED <<calls, bridge, left, moved>>

(* releaseAndClose: with a connection the lock is released first. *)
Close ==
    /\ Quiet /\ IsOpen
    /\ \/ /\ widget.status = "connected"
          /\ Ask(Call("release", widget.project, widget.session))
          /\ UNCHANGED <<widget, streaming, stored>>
       \/ /\ widget.status # "connected"
          /\ Clear(widget.project, widget.session)
          /\ UNCHANGED calls
    /\ UNCHANGED <<bridge, left, moved>>

(* useLockHeartbeat, while the widget is connected. *)
AskBeat ==
    /\ IsOpen /\ widget.status = "connected" /\ Asked({"heartbeat"}) = {}
    /\ Ask(Call("heartbeat", widget.project, widget.session))
    /\ UNCHANGED <<widget, streaming, stored, bridge, left, moved>>

(* sendMessage: the stream of an earlier answer is aborted. *)
SendMessage ==
    /\ IsOpen
    /\ Render([widget EXCEPT !.messages = @ \cup {widget.project}])
    /\ streaming' = widget.project
    /\ UNCHANGED <<calls, bridge, left, moved>>

(* handleStreamEvent appends to the messages that are there; cancelStream    *)
(* and the end of the answer stop it.                                        *)
StreamEvent ==
    /\ streaming # NoProject
    /\ \/ Render([widget EXCEPT !.messages = @ \cup {streaming}]) /\ UNCHANGED streaming
       \/ streaming' = NoProject /\ UNCHANGED <<widget, stored>>
    /\ UNCHANGED <<calls, bridge, left, moved>>

(* beforeunload: the page goes, with a release nobody waits for. *)
Unload ==
    /\ widget' = Closed /\ streaming' = NoProject
    /\ calls' = [i \in CallSlots |-> NoCall]
    /\ \/ /\ IsOpen /\ widget.status = "connected" /\ held[widget.project] \in ours
          /\ held' = [held EXCEPT ![widget.project] = 0]
       \/ UNCHANGED held
    /\ left' = left \cup {p \in Projects : held'[p] \in ours}
    /\ UNCHANGED <<stored, ours, sessionOf, moved>>
-----------------------------------------------------------------------------
(* The bridge: it ends sessions, gives locks to others, and answers a call   *)
(* with what it finds then.                                                  *)
EndSession(p) ==
    /\ held[p] # 0
    /\ held' = [held EXCEPT ![p] = 0]
    /\ UNCHANGED <<widget, streaming, stored, calls, ours, sessionOf, left, moved>>

BeginSession(p) ==
    /\ Cardinality(DOMAIN sessionOf) < MaxSessions
    /\ LET n == Cardinality(DOMAIN sessionOf) + 1 IN
       /\ sessionOf' = [m \in 1..n |-> IF m = n THEN p ELSE sessionOf[m]]
       /\ held' = [held EXCEPT ![p] = n]

OtherTakes(p) ==
    /\ held[p] = 0
    /\ BeginSession(p)
    /\ UNCHANGED <<widget, streaming, stored, calls, ours, left, moved>>

Serve(i) ==
    /\ i \in InFlight /\ ~calls[i].served
    /\ LET p == calls[i].project IN
       /\ \/ /\ calls[i].kind = "acquire" /\ held[p] = 0
             /\ BeginSession(p)
             /\ ours' = ours \cup {held'[p]}
          \/ /\ calls[i].kind = "release" /\ held[p] \in ours
             /\ held' = [held EXCEPT ![p] = 0]
             /\ UNCHANGED <<ours, sessionOf>>
          \/ calls[i].kind \in {"check", "history", "heartbeat"} /\ UNCHANGED bridge
          \/ calls[i].kind = "acquire" /\ held[p] # 0 /\ UNCHANGED bridge
          \/ calls[i].kind = "release" /\ held[p] \notin ours /\ UNCHANGED bridge
       /\ calls' = [calls EXCEPT ![i].served = TRUE, ![i].found = held'[p]]
    /\ left' = IF calls[i].kind = "release" THEN left \ {calls[i].project} ELSE left
    /\ UNCHANGED <<widget, streaming, stored, moved>>
-----------------------------------------------------------------------------
(* acquireSession after checkLock: a conflict, a reconnection to the user's  *)
(* own session with the messages stored for it, or a lock to acquire.        *)
LockChecked(i) ==
    /\ calls[i].kind = "check"
    /\ LET n == calls[i].found
           p == calls[i].project IN
       \/ n # 0 /\ n \notin ours /\ Render(Failed) /\ Done(i)
       \/ n \in ours /\ Render([Connected(n) EXCEPT !.messages = stored[n]]) /\ Done(i)
       \/ /\ n = 0
          /\ calls' = [calls EXCEPT ![i] = Call("acquire", p, 0)]
          /\ UNCHANGED <<widget, stored>>
    /\ UNCHANGED <<streaming, left>>

LockAcquired(i) ==
    /\ calls[i].kind = "acquire"
    /\ Render(IF calls[i].found \in ours THEN Connected(calls[i].found) ELSE Failed)
    /\ Done(i)
    /\ UNCHANGED <<streaming, left>>

LockReleased(i) ==
    /\ calls[i].kind = "release"
    /\ Clear(calls[i].project, calls[i].session)
    /\ Done(i)
    /\ UNCHANGED left

(* Without the callbacks of useLockHeartbeat. *)
BeatUnheeded(i) ==
    /\ calls[i].kind = "heartbeat"
    /\ Done(i)
    /\ UNCHANGED <<widget, streaming, stored, left>>

(* onExpired and onConflict disconnect whatever the widget shows by now. *)
Beat(i) ==
    /\ calls[i].kind = "heartbeat"
    /\ \/ calls[i].found = calls[i].session /\ UNCHANGED <<widget, stored, left>>
       \/ /\ calls[i].found # calls[i].session
          /\ Render(Failed)
          /\ left' = IF IsOpen /\ held[widget.project] \in ours
                     THEN left \cup {widget.project} ELSE left
    /\ Done(i)
    /\ UNCHANGED streaming

HistoryFetched(i) ==
    /\ calls[i].kind = "history"
    /\ Render([widget EXCEPT !.turns = calls[i].project])
    /\ Done(i)
    /\ UNCHANGED <<streaming, left>>

Deliver(i) ==
    /\ i \in InFlight /\ calls[i].served
    /\ LockChecked(i) \/ LockAcquired(i) \/ LockReleased(i) \/ Beat(i) \/ HistoryFetched(i)
    /\ UNCHANGED <<bridge, moved>>

(* The request or its answer is lost.  A release is best effort, a heartbeat *)
(* or a history that failed is passed over.                                  *)
Lost(i) ==
    /\ i \in InFlight
    /\ \/ /\ calls[i].kind \in {"check", "acquire"}
          /\ Render(Failed)
          /\ UNCHANGED streaming
       \/ /\ calls[i].kind = "release"
          /\ Clear(calls[i].project, calls[i].session)
       \/ /\ calls[i].kind = "heartbeat"
          /\ UNCHANGED <<widget, streaming, stored>>
       \/ /\ calls[i].kind = "history"
          /\ Render([widget EXCEPT !.turns = NoProject])
          /\ UNCHANGED streaming
    /\ left' = IF held[calls[i].project] \in ours /\ calls[i].kind # "heartbeat"
               THEN left \cup {calls[i].project} ELSE left
    /\ Done(i)
    /\ UNCHANGED <<bridge, moved>>

ChatNext ==
    \/ RetryConnection \/ Close \/ AskBeat \/ SendMessage \/ StreamEvent \/ Unload
    \/ \E p \in Projects : Open(p) \/ EndSession(p) \/ OtherTakes(p)
    \/ \E i \in CallSlots : Serve(i) \/ Deliver(i) \/ Lost(i)

ServeBeat == \E i \in Asked({"heartbeat"}) : Serve(i)
DeliverBeat == \E i \in Asked({"heartbeat"}) : Deliver(i)

(* The interval keeps asking, and some heartbeat comes back. *)
ChatFairness ==
    WF_chatVars(AskBeat) /\ SF_chatVars(ServeBeat) /\ SF_chatVars(DeliverBeat)

ChatSpec == ChatInit /\ [][ChatNext]_chatVars
FairChatSpec == ChatSpec /\ ChatFairness
-----------------------------------------------------------------------------
(* A connected widget shows the session, the messages and the history of the *)
(* project in its title, as long as it was never opened over another one:    *)
(* open clears the turns and leaves the messages and the stream as they are. *)
ShowsOneProject ==
    IsOpen /\ ~moved =>
        /\ widget.status = "connected" => sessionOf[widget.session] = widget.project
        /\ widget.messages \subseteq {widget.project}
        /\ widget.turns \in {NoProject, widget.project}

(* When the widget is closed and no call is under way the user holds no lock *)
(* but of projects the widget was moved away from, or lost sight of because  *)
(* the page went, an answer was lost or a heartbeat came late: "Release      *)
(* lock, clear everything, close widget".                                    *)
ClosedHoldsNoLock ==
    ~IsOpen /\ InFlight = {} => \A p \in Projects : held[p] \in ours => p \in left

(* A widget that believes it is connected to a session the bridge has ended  *)
(* finds out.                                                                *)
Deceived == IsOpen /\ widget.status = "connected" /\ held[widget.project] # widget.session
LostLockNoticed == Deceived ~> ~Deceived
=============================================================================
