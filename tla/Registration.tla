---------------------------- MODULE Registration ----------------------------
(* Agent registration: an upsert by name in statements of their own.  The    *)
(* name of an agent is not unique in the database, the agent, its user, its  *)
(* token, the link between them and the service profile are written one      *)
(* after the other, and a request may die between any two.                   *)
EXTENDS Integers, Sequences

CONSTANTS Registrants,   \* requests to register
          Legacy,        \* agents registered before the link and the profile were introduced
          NameOf         \* the name each request gives and each of these agents has

AgentIds == Registrants \cup Legacy

ASSUME RegistrationConstants == DOMAIN NameOf = AgentIds /\ Registrants \cap Legacy = {}

NoAgent == "none"

VARIABLES step,      \* of each request: the statement it comes to next
          mine,      \* the agent it found or created
          agents,    \* the agents, oldest first, named after the request that created them
          users,     \* the agents whose user exists
          tokens,    \* the agents whose token exists
          linked,    \* the agents whose row points at their user
          profile,   \* the type in the profile of each agent's user, or "none"
          retyped,   \* agents whose profile staff have changed
          troubled   \* names with a registration that died, or overlapped another

registrationVars == <<step, mine, agents, users, tokens, linked, profile, retyped, troubled>>
rows == <<agents, users, tokens, linked, profile>>

UserTypes == {"human", "agent", "service"}
Busy(r) == step[r] \notin {"idle", "answered", "failed"}
Named(n) == {i \in 1..Len(agents) : NameOf[agents[i]] = n}

RegistrationInit ==
    /\ step = [r \in Registrants |-> "idle"] /\ mine = [r \in Registrants |-> NoAgent]
    /\ \E old \in {<<>>} \cup {<<a>> : a \in Legacy} :
          agents = old /\ users = {old[i] : i \in DOMAIN old} /\ tokens = users
    /\ linked = {}
    /\ profile = [a \in AgentIds |-> "none"] /\ retyped = {} /\ troubled = {}

Go(r, s) == step' = [step EXCEPT ![r] = s]

(* Without the look for an agent of that name. *)
FindNothing(r) ==
    /\ step[r] = "idle"
    /\ Go(r, "agent")
    /\ UNCHANGED <<mine, rows, retyped, troubled>>

(* AgentViewSet.create begins: the newest agent of that name, if there is one. *)
Find(r) ==
    /\ step[r] = "idle"
    /\ \/ Named(NameOf[r]) = {} /\ Go(r, "agent") /\ UNCHANGED mine
       \/ \E i \in Named(NameOf[r]) :
            /\ \A j \in Named(NameOf[r]) : j <= i
            /\ mine' = [mine EXCEPT ![r] = agents[i]]
            /\ Go(r, "refresh")
    /\ troubled' = IF \E q \in Registrants : Busy(q) /\ NameOf[q] = NameOf[r]
                   THEN troubled \cup {NameOf[r]} ELSE troubled
    /\ UNCHANGED <<rows, retyped>>

(* The agent exists: its user and its token must too, a missing link is     *)
(* repaired.                                                                 *)
Refresh(r) ==
    /\ step[r] = "refresh"
    /\ \/ /\ mine[r] \in users \cap tokens
          /\ linked' = linked \cup {mine[r]}
          /\ Go(r, "profile")
       \/ /\ mine[r] \notin users \cap tokens
          /\ Go(r, "failed")
          /\ UNCHANGED linked
    /\ UNCHANGED <<mine, agents, users, tokens, profile, retyped, troubled>>

CreateAgent(r) ==
    /\ step[r] = "agent"
    /\ agents' = Append(agents, r)
    /\ mine' = [mine EXCEPT ![r] = r]
    /\ Go(r, "user")
    /\ UNCHANGED <<users, tokens, linked, profile, retyped, troubled>>

CreateUser(r) ==
    /\ step[r] = "user"
    /\ users' = users \cup {mine[r]}
    /\ Go(r, "token")
    /\ UNCHANGED <<mine, agents, tokens, linked, profile, retyped, troubled>>

CreateToken(r) ==
    /\ step[r] = "token"
    /\ tokens' = tokens \cup {mine[r]}
    /\ Go(r, "link")
    /\ UNCHANGED <<mine, agents, users, linked, profile, retyped, troubled>>

LinkUser(r) ==
    /\ step[r] = "link"
    /\ linked' = linked \cup {mine[r]}
    /\ Go(r, "profile")
    /\ UNCHANGED <<mine, agents, users, tokens, profile, retyped, troubled>>

(* The get_or_create of ensure_service_profile alone. *)
create_service_profile(r) ==
    /\ step[r] = "profile"
    /\ profile' = [profile EXCEPT ![mine[r]] = IF @ = "none" THEN "service" ELSE @]
    /\ Go(r, "answered")
    /\ UNCHANGED <<mine, agents, users, tokens, linked, retyped, troubled>>

ensure_service_profile(r) ==
    /\ step[r] = "profile"
    /\ profile' = [profile EXCEPT ![mine[r]] = "service"]
    /\ Go(r, "answered")
    /\ UNCHANGED <<mine, agents, users, tokens, linked, retyped, troubled>>

(* The agent asks who it is with a token it was given: a profile that is not *)
(* there is created, and a user without a password becomes an "agent".       *)
get_or_create_profile(a) ==
    /\ a \in tokens /\ profile[a] = "none"
    /\ a \in Legacy \/ \E r \in Registrants : step[r] = "answered" /\ mine[r] = a
    /\ profile' = [profile EXCEPT ![a] = "agent"]
    /\ UNCHANGED <<step, mine, agents, users, tokens, linked, retyped, troubled>>

(* Staff change the type of a user. *)
update_user_type(a) ==
    /\ a \in users
    /\ \E t \in UserTypes : profile' = [profile EXCEPT ![a] = t]
    /\ retyped' = retyped \cup {a}
    /\ UNCHANGED <<step, mine, agents, users, tokens, linked, troubled>>

Interrupt(r) ==
    /\ Busy(r)
    /\ Go(r, "failed")
    /\ troubled' = troubled \cup {NameOf[r]}
    /\ UNCHANGED <<mine, rows, retyped>>

RegistrationNext ==
    \/ \E r \in Registrants :
        \/ Find(r) \/ Refresh(r) \/ CreateAgent(r) \/ CreateUser(r) \/ CreateToken(r)
        \/ LinkUser(r) \/ ensure_service_profile(r) \/ Interrupt(r)
    \/ \E a \in AgentIds : get_or_create_profile(a) \/ update_user_type(a)

RegistrationSpec == RegistrationInit /\ [][RegistrationNext]_registrationVars
-----------------------------------------------------------------------------
(* An agent that was given its token can work: its row points at its user,   *)
(* and its role is that of a fleet agent unless staff have chosen another,   *)
(* whichever path of the upsert answered and whoever looked at the profile.  *)
AnsweredCanWork ==
    \A r \in Registrants : step[r] = "answered" =>
        /\ mine[r] \in users \cap tokens \cap linked
        /\ profile[mine[r]] = "service" \/ mine[r] \in retyped

(* There are two agents of one name, or a registration that is refused its   *)
(* token, only when registrations of that name overlapped or one died        *)
(* halfway: agents/views.py keeps the name unique by looking first.          *)
OneAgentPerName ==
    \A n \in {NameOf[r] : r \in Registrants} \ troubled :
        /\ \A i, j \in Named(n) : i = j
        /\ \A r \in Registrants : NameOf[r] = n => step[r] # "failed"
=============================================================================
