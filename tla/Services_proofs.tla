-------------------------- MODULE Services_proofs --------------------------
(* Proofs about the services around the task lifecycle: the Idempotency-Key  *)
(* middleware, agent registration, the declarations of secret variables, the *)
(* event stream and recent accesses.  Each section is about one module.      *)
EXTENDS EventStream, Idempotency, Registration, Recents, ProjectVariables,
        FiniteSetTheorems, TLAPS

-----------------------------------------------------------------------------
(* Idempotency: how often a request repeated under one key takes effect.     *)

Phases == {"unsent", "sent", "handling", "storing", "busy", "done"}

KeyType ==
    /\ phase \in [Attempts -> Phases]
    /\ answer \in Nat /\ effects \in Nat
    /\ overlaps \in Nat /\ lost \in Nat /\ expired \in Nat

In(p) == {i \in Attempts : phase[i] = p}
Count(p) == Cardinality(In(p))

(* The effects there are and may yet be: an attempt past the look-up may     *)
(* take effect, and so may each that has still to look when the cache is     *)
(* empty; when it is not, all of those but one once the answer expires.      *)
Possible ==
    effects + Count("handling")
      + IF answer = 0 THEN Count("sent")
        ELSE IF Count("sent") = 0 THEN 0 ELSE Count("sent") - 1

(* One for each fault, and the one that is stored or under way.              *)
Allowed ==
    overlaps + lost + expired + IF answer # 0 \/ Running # {} THEN 1 ELSE 0

KeyInv ==
    /\ KeyType
    /\ Count("storing") > 0 => effects > 0
    /\ Possible <= Allowed

Tally ==
    /\ \A p : IsFiniteSet(In(p)) /\ Count(p) \in Nat
    /\ Running = {} <=> Count("sent") + Count("handling") + Count("storing") = 0

LEMMA Counts == Tally
  <1>. USE DEF Tally
  <1>1. IsFiniteSet(Attempts)
    BY FS_Interval, IdempotencyConstants DEF Attempts
  <1>2. \A p : In(p) \in SUBSET Attempts
    BY DEF In
  <1>3. ASSUME NEW p PROVE IsFiniteSet(In(p)) /\ Count(p) \in Nat
    BY <1>1, <1>2, FS_Subset, FS_CardinalityType DEF Count
  <1>4. \A p : Count(p) = 0 <=> In(p) = {}
    BY <1>3, FS_EmptySet DEF Count
  <1>5. Running = {} <=> In("sent") = {} /\ In("handling") = {} /\ In("storing") = {}
    BY DEF Running, In
  <1>. QED  BY <1>3, <1>4, <1>5

LEMMA CountsNext == Tally'
  BY Counts, PTL

(* One attempt changes its phase: the counts follow.                         *)
LEMMA PhaseChange ==
  ASSUME KeyType, NEW i \in Attempts, NEW p \in Phases,
         phase' = [phase EXCEPT ![i] = p], NEW q \in Phases
  PROVE  /\ phase[i] = p => Count(q)' = Count(q)
         /\ phase[i] # p =>
              /\ q = p => Count(q)' = Count(q) + 1
              /\ q = phase[i] => Count(q)' = Count(q) - 1
              /\ q # p /\ q # phase[i] => Count(q)' = Count(q)
  <1>1. IsFiniteSet(In(q)) /\ Count(q) \in Nat
    BY Counts DEF Tally
  <1>2. CASE phase[i] = p
    <2>1. In(q)' = In(q)
      BY <1>2 DEF In, KeyType
    <2>. QED  BY <1>2, <2>1 DEF Count
  <1>3. CASE phase[i] # p /\ q = p
    <2>1. In(q)' = In(q) \cup {i} /\ i \notin In(q)
      BY <1>3 DEF In, KeyType
    <2>2. Cardinality(In(q) \cup {i}) = Cardinality(In(q)) + 1
      BY <1>1, <2>1, FS_AddElement
    <2>3. Count(q)' = Count(q) + 1
      BY <2>1, <2>2 DEF Count
    <2>. QED  BY <1>3, <2>3
  <1>4. CASE phase[i] # p /\ q = phase[i]
    <2>1. In(q)' = In(q) \ {i} /\ i \in In(q)
      BY <1>4 DEF In, KeyType
    <2>2. Cardinality(In(q) \ {i}) = Cardinality(In(q)) - 1
      BY <1>1, <2>1, FS_RemoveElement
    <2>3. Count(q)' = Count(q) - 1
      BY <2>1, <2>2 DEF Count
    <2>. QED  BY <1>4, <2>3
  <1>5. CASE phase[i] # p /\ q # p /\ q # phase[i]
    <2>1. In(q)' = In(q)
      BY <1>5 DEF In, KeyType
    <2>. QED  BY <1>5, <2>1 DEF Count
  <1>. QED  BY <1>2, <1>3, <1>4, <1>5

(* The counts that matter, before and after it.                              *)
LEMMA CountsFollow ==
  ASSUME KeyType, NEW i \in Attempts, NEW p \in Phases,
         phase' = [phase EXCEPT ![i] = p], phase[i] # p
  PROVE  \A q \in {"sent", "handling", "storing"} :
           /\ Count(q) \in Nat
           /\ q = p => Count(q)' = Count(q) + 1
           /\ q = phase[i] => Count(q)' = Count(q) - 1
           /\ q # p /\ q # phase[i] => Count(q)' = Count(q)
  <1>1. \A q \in {"sent", "handling", "storing"} : q \in Phases
    BY DEF Phases
  <1>. QED  BY <1>1, PhaseChange, Counts DEF Tally

LEMMA KeyInit1 == KeyInit => KeyInv
  <1>. SUFFICES ASSUME KeyInit PROVE KeyInv
    OBVIOUS
  <1>1. KeyType
    BY DEF KeyInit, KeyType, Phases
  <1>2. 1 \in Attempts
    BY IdempotencyConstants DEF Attempts
  <1>3. In("sent") = {1} /\ In("handling") = {} /\ In("storing") = {} /\ 1 \in Running
    BY <1>2 DEF KeyInit, In, Running
  <1>4. Count("sent") = 1 /\ Count("handling") = 0 /\ Count("storing") = 0
    BY <1>3, FS_EmptySet, FS_Singleton DEF Count
  <1>5. Possible <= Allowed
    BY <1>3, <1>4 DEF KeyInit, Possible, Allowed
  <1>. QED  BY <1>1, <1>4, <1>5 DEF KeyInv

LEMMA BeginKeepsKeyInv == KeyInv /\ Begin => KeyInv'
  <1>. SUFFICES ASSUME KeyInv, Begin PROVE KeyInv'
    OBVIOUS
  <1>. DEFINE k == Latest + 1
  <1>0. phase' = [phase EXCEPT ![k] = "sent"]
    BY DEF Begin
  <1>. HIDE DEF k
  <1>a. KeyType'
    <2>1. (phase \in [Attempts -> Phases])'
      BY <1>0 DEF KeyInv, KeyType, Phases
    <2>2. answer' = answer /\ effects' = effects /\ lost' = lost /\ expired' = expired
      BY DEF Begin
    <2>3. overlaps' \in Nat
      BY DEF Begin, KeyInv, KeyType
    <2>. QED  BY <2>1, <2>2, <2>3 DEF KeyInv, KeyType
  <1>t. KeyType /\ KeyType' /\ Tally /\ Tally'
    BY <1>a, Counts, CountsNext DEF KeyInv
  <1>1. CASE k \in Attempts /\ phase[k] # "sent"
    <2>1. \A q \in {"sent", "handling", "storing"} :
           /\ Count(q) \in Nat
           /\ q = "sent" => Count(q)' = Count(q) + 1
           /\ q = phase[k] => Count(q)' = Count(q) - 1
           /\ q # "sent" /\ q # phase[k] => Count(q)' = Count(q)
      BY <1>0, <1>1, <1>t, CountsFollow DEF Phases
    <2>2. Count("sent")' = Count("sent") + 1
      BY <2>1
    <2>3. /\ Count("handling")' = Count("handling") \/ Count("handling")' = Count("handling") - 1
          /\ Count("storing")' = Count("storing") \/ Count("storing")' = Count("storing") - 1
      BY <2>1
    <2>. QED  BY <1>t, <2>2, <2>3 DEF KeyInv, KeyType, Tally, Possible, Allowed, Begin
  <1>2. CASE k \notin Attempts \/ phase[k] = "sent"
    <2>1. phase' = phase
      BY <1>0, <1>2, <1>t DEF KeyType
    <2>2. \A q : Count(q)' = Count(q)
      BY <2>1 DEF Count, In
    <2>3. Running' = Running
      BY <2>1 DEF Running
    <2>. QED  BY <1>t, <2>2, <2>3 DEF KeyInv, KeyType, Tally, Possible, Allowed, Begin
  <1>. QED  BY <1>1, <1>2

LEMMA KeyStep == KeyInv /\ [KeyNext]_keyVars => KeyInv'
  <1>. SUFFICES ASSUME KeyInv, [KeyNext]_keyVars PROVE KeyInv'
    OBVIOUS
  <1>t. KeyType /\ Tally /\ Tally'
    BY Counts, CountsNext DEF KeyInv
  <1>1. CASE Retry \/ CallAgain
    BY <1>1, BeginKeepsKeyInv DEF Retry, CallAgain
  <1>2. CASE Expire
    <2>1. \A q : Count(q)' = Count(q)
      BY <1>2 DEF Expire, Count, In
    <2>2. Running' = Running
      BY <1>2 DEF Expire, Running
    <2>. QED  BY <1>2, <1>t, <2>1, <2>2 DEF KeyInv, KeyType, Tally, Possible, Allowed, Expire
  <1>3. ASSUME NEW i \in Attempts, process_request(i) PROVE KeyInv'
    <2>. DEFINE p == IF answer # 0 THEN "done" ELSE "handling"
    <2>1. p \in Phases /\ phase' = [phase EXCEPT ![i] = p] /\ phase[i] = "sent"
      BY <1>3 DEF process_request, Phases
    <2>2. /\ Count("sent")' = Count("sent") - 1
          /\ Count("handling")' = IF answer # 0 THEN Count("handling") ELSE Count("handling") + 1
          /\ Count("storing")' = Count("storing")
      BY <2>1, <1>t, CountsFollow
    <2>3. KeyType'
      BY <1>3, <2>1, <1>t DEF process_request, KeyType, faults
    <2>. QED
      BY <1>3, <1>t, <2>2, <2>3 DEF process_request, KeyInv, KeyType, Tally, Possible, Allowed, faults
  <1>4. ASSUME NEW i \in Attempts, Handle(i) PROVE KeyInv'
    <2>1. phase[i] = "handling"
      BY <1>4 DEF Handle
    <2>2. CASE effects' = effects + 1 /\ phase' = [phase EXCEPT ![i] = "storing"]
      <3>1. /\ Count("sent")' = Count("sent")
            /\ Count("handling")' = Count("handling") - 1
            /\ Count("storing")' = Count("storing") + 1
        BY <2>1, <2>2, <1>t, CountsFollow DEF Phases
      <3>2. KeyType'
        BY <1>4, <2>2, <1>t DEF Handle, KeyType, faults, Phases
      <3>. QED
        BY <1>4, <2>2, <1>t, <3>1, <3>2 DEF Handle, KeyInv, KeyType, Tally, Possible, Allowed, faults
    <2>3. ASSUME NEW p \in {"busy", "done"}, phase' = [phase EXCEPT ![i] = p], effects' = effects
          PROVE  KeyInv'
      <3>1. /\ Count("sent")' = Count("sent")
            /\ Count("handling")' = Count("handling") - 1
            /\ Count("storing")' = Count("storing")
        BY <2>1, <2>3, <1>t, CountsFollow DEF Phases
      <3>2. KeyType'
        BY <1>4, <2>3, <1>t DEF Handle, KeyType, faults, Phases
      <3>. QED
        BY <1>4, <2>3, <1>t, <3>1, <3>2 DEF Handle, KeyInv, KeyType, Tally, Possible, Allowed, faults
    <2>. QED  BY <1>4, <2>2, <2>3 DEF Handle
  <1>5. ASSUME NEW i \in Attempts, process_response(i) PROVE KeyInv'
    <2>1. phase[i] = "storing" /\ i \in In("storing")
      BY <1>5 DEF process_response, In
    <2>2. /\ Count("sent")' = Count("sent")
          /\ Count("handling")' = Count("handling")
          /\ Count("storing")' = Count("storing") - 1
      BY <1>5, <2>1, <1>t, CountsFollow DEF process_response, Phases
    <2>3. effects > 0
      BY <2>2, <1>t DEF KeyInv, Tally
    <2>4. KeyType'
      BY <1>5, <1>t DEF process_response, KeyType, Phases
    <2>5. /\ \A q \in {"sent", "handling", "storing"} : Count(q) \in Nat
          /\ Running # {}
      BY <1>t, <2>1 DEF Tally, Running
    <2>6. CASE answer' = effects /\ lost' = lost
      <3>1. Possible' <= Possible
        BY <1>5, <1>t, <2>2, <2>3, <2>5, <2>6 DEF process_response, KeyType, Possible
      <3>2. Allowed' = Allowed
        BY <1>5, <2>3, <2>5, <2>6 DEF process_response, Allowed
      <3>3. Possible \in Int /\ Possible' \in Int /\ Allowed \in Int
        BY <1>t, <2>2, <2>4, <2>5 DEF KeyType, Possible, Allowed
      <3>4. Possible' <= Allowed'
        BY <3>1, <3>2, <3>3 DEF KeyInv
      <3>. QED  BY <1>5, <2>3, <2>4, <3>4 DEF process_response, KeyInv
    <2>7. CASE lost' = lost + 1 /\ answer' = answer
      <3>1. Possible' = Possible
        BY <1>5, <2>2, <2>7 DEF process_response, Possible
      <3>2. Allowed' >= Allowed
        BY <1>5, <1>t, <2>5, <2>7 DEF process_response, KeyType, Allowed
      <3>3. Possible \in Int /\ Allowed \in Int /\ Allowed' \in Int
        BY <1>t, <2>4, <2>5 DEF KeyType, Possible, Allowed
      <3>4. Possible' <= Allowed'
        BY <3>1, <3>2, <3>3 DEF KeyInv
      <3>. QED  BY <1>5, <2>3, <2>4, <3>4 DEF process_response, KeyInv
    <2>. QED  BY <1>5, <2>6, <2>7 DEF process_response
  <1>6. ASSUME NEW i \in Attempts, Die(i) PROVE KeyInv'
    <2>1. phase[i] \in {"sent", "handling", "storing"}
      BY <1>6 DEF Die, Running
    <2>2. \A q \in {"sent", "handling", "storing"} :
            Count(q)' = IF phase[i] = q THEN Count(q) - 1 ELSE Count(q)
      BY <1>6, <2>1, <1>t, CountsFollow DEF Die, Phases
    <2>3. KeyType'
      BY <1>6, <1>t DEF Die, KeyType, Phases
    <2>4. CASE phase[i] = "sent"
      BY <1>6, <1>t, <2>2, <2>3, <2>4 DEF Die, KeyInv, KeyType, Tally, Possible, Allowed
    <2>5. CASE phase[i] = "handling"
      BY <1>6, <1>t, <2>2, <2>3, <2>5 DEF Die, KeyInv, KeyType, Tally, Possible, Allowed
    <2>6. CASE phase[i] = "storing"
      BY <1>6, <1>t, <2>2, <2>3, <2>6 DEF Die, KeyInv, KeyType, Tally, Possible, Allowed
    <2>. QED  BY <2>1, <2>4, <2>5, <2>6
  <1>7. CASE UNCHANGED keyVars
    <2>1. \A q : Count(q)' = Count(q)
      BY <1>7 DEF keyVars, Count, In
    <2>2. Running' = Running
      BY <1>7 DEF keyVars, Running
    <2>. QED  BY <1>7, <1>t, <2>1, <2>2 DEF KeyInv, KeyType, Tally, Possible, Allowed, keyVars
  <1>. QED  BY <1>1, <1>2, <1>3, <1>4, <1>5, <1>6, <1>7 DEF KeyNext

(* OncePerFault: every effect of the handler beyond the first is accounted   *)
(* for by an overlap, a lost answer or an expiry, for any number of attempts,*)
(* retries and expiries.                                                     *)
THEOREM KeyTakesEffectOnce == KeySpec => []OncePerFault
  <1>1. KeyInv => OncePerFault
    BY Counts DEF KeyInv, KeyType, OncePerFault, Possible, Allowed, Tally
  <1>. QED  BY KeyInit1, KeyStep, <1>1, PTL DEF KeySpec

-----------------------------------------------------------------------------
(* Registration: what an agent that was answered can rely on.                *)

Steps == {"idle", "refresh", "agent", "user", "token", "link", "profile", "answered", "failed"}

RegistrationType ==
    /\ step \in [Registrants -> Steps]
    /\ DOMAIN mine = Registrants /\ DOMAIN profile = AgentIds
    /\ agents \in Seq(AgentIds)

(* What has been written by the time a request comes to each statement.      *)
Written(r) ==
    /\ step[r] \in {"refresh", "user", "token", "link", "profile", "answered"} => mine[r] \in AgentIds
    /\ step[r] \in {"token", "link", "profile", "answered"} => mine[r] \in users
    /\ step[r] \in {"link", "profile", "answered"} => mine[r] \in tokens
    /\ step[r] \in {"profile", "answered"} => mine[r] \in linked
    /\ step[r] = "answered" => profile[mine[r]] = "service" \/ mine[r] \in retyped

WrittenInv == RegistrationType /\ \A r \in Registrants : Written(r)

LEMMA WrittenStart == RegistrationInit => WrittenInv
  <1>. SUFFICES ASSUME RegistrationInit PROVE WrittenInv
    OBVIOUS
  <1>1. agents \in Seq(AgentIds)
    <2>1. agents = <<>> \/ \E a \in Legacy : agents = <<a>>
      BY DEF RegistrationInit
    <2>2. CASE agents = <<>>
      BY <2>2
    <2>3. ASSUME NEW a \in Legacy, agents = <<a>> PROVE agents \in Seq(AgentIds)
      <3>1. a \in AgentIds
        BY DEF AgentIds
      <3>. QED  BY <2>3, <3>1
    <2>. QED  BY <2>1, <2>2, <2>3
  <1>2. RegistrationType
    BY <1>1 DEF RegistrationInit, RegistrationType, Steps
  <1>3. \A r \in Registrants : step[r] = "idle"
    BY DEF RegistrationInit
  <1>. QED  BY <1>2, <1>3 DEF WrittenInv, Written

LEMMA WrittenStep == WrittenInv /\ [RegistrationNext]_registrationVars => WrittenInv'
  <1>. SUFFICES ASSUME WrittenInv, [RegistrationNext]_registrationVars PROVE WrittenInv'
    OBVIOUS
  <1>. USE DEF WrittenInv, RegistrationType, Written, rows
  <1>1. ASSUME NEW q \in Registrants, Find(q) PROVE WrittenInv'
    <2>1. \A i \in 1..Len(agents) : agents[i] \in AgentIds
      OBVIOUS
    <2>2. RegistrationType' /\ Written(q)'
      BY <1>1, <2>1 DEF Find, Go, Steps, Named
    <2>3. ASSUME NEW r \in Registrants, r # q PROVE Written(r)'
      <3>1. step'[r] = step[r] /\ mine'[r] = mine[r]
        BY <1>1, <2>3 DEF Find, Go
      <3>. QED  BY <1>1, <3>1 DEF Find
    <2>. QED  BY <2>2, <2>3
  <1>2. ASSUME NEW q \in Registrants, Refresh(q) PROVE WrittenInv'
    BY <1>2 DEF Refresh, Go, Steps
  <1>3. ASSUME NEW q \in Registrants, CreateAgent(q) PROVE WrittenInv'
    <2>1. RegistrationType'
      BY <1>3 DEF CreateAgent, Go, Steps, AgentIds
    <2>. QED  BY <1>3, <2>1 DEF CreateAgent, Go, AgentIds
  <1>4. ASSUME NEW q \in Registrants, CreateUser(q) PROVE WrittenInv'
    BY <1>4 DEF CreateUser, Go, Steps
  <1>5. ASSUME NEW q \in Registrants, CreateToken(q) PROVE WrittenInv'
    BY <1>5 DEF CreateToken, Go, Steps
  <1>6. ASSUME NEW q \in Registrants, LinkUser(q) PROVE WrittenInv'
    BY <1>6 DEF LinkUser, Go, Steps
  <1>7. ASSUME NEW q \in Registrants, ensure_service_profile(q) PROVE WrittenInv'
    BY <1>7 DEF ensure_service_profile, Go, Steps
  <1>8. ASSUME NEW q \in Registrants, Interrupt(q) PROVE WrittenInv'
    BY <1>8 DEF Interrupt, Go, Steps
  <1>9. ASSUME NEW a \in AgentIds, get_or_create_profile(a) PROVE WrittenInv'
    BY <1>9 DEF get_or_create_profile
  <1>10. ASSUME NEW a \in AgentIds, update_user_type(a) PROVE WrittenInv'
    BY <1>10 DEF update_user_type
  <1>11. CASE UNCHANGED registrationVars
    BY <1>11 DEF registrationVars
  <1>. QED
    BY <1>1, <1>2, <1>3, <1>4, <1>5, <1>6, <1>7, <1>8, <1>9, <1>10, <1>11 DEF RegistrationNext

(* AnsweredCanWork, for any number of requests and of agents registered      *)
(* before the link and the profile existed.                                  *)
THEOREM AnsweredAgentsWork == RegistrationSpec => []AnsweredCanWork
  <1>1. WrittenInv => AnsweredCanWork
    BY DEF WrittenInv, Written, AnsweredCanWork
  <1>. QED  BY WrittenStart, WrittenStep, <1>1, PTL DEF RegistrationSpec

(* Of a name without trouble: one request at a time, which creates an agent  *)
(* only when there is none, and an agent that is found has its user and its  *)
(* token because the request that created it came to its end.                *)
Alone(n) ==
    /\ \A r, q \in Registrants : NameOf[r] = n /\ NameOf[q] = n /\ Busy(r) /\ Busy(q) => r = q
    /\ \A i, j \in Named(n) : i = j
    /\ \A r \in Registrants : NameOf[r] = n =>
          /\ step[r] # "failed"
          /\ step[r] = "agent" => Named(n) = {}
          /\ step[r] = "refresh" => mine[r] \in users \cap tokens
    /\ \A i \in Named(n) :
          \/ agents[i] \in users \cap tokens
          \/ \E r \in Registrants : NameOf[r] = n /\ step[r] \in {"user", "token"} /\ mine[r] = agents[i]

AloneInv == WrittenInv /\ \A n : n \notin troubled => Alone(n)

LEMMA AloneStart == RegistrationInit => AloneInv
  <1>. SUFFICES ASSUME RegistrationInit, NEW n PROVE Alone(n)
    BY WrittenStart DEF AloneInv
  <1>1. \A r \in Registrants : step[r] = "idle" /\ ~Busy(r)
    BY DEF RegistrationInit, Busy
  <1>2. \A i \in Named(n) : i = 1 /\ agents[i] \in users \cap tokens
    BY DEF RegistrationInit, Named
  <1>. QED  BY <1>1, <1>2 DEF Alone

LEMMA AloneStep == AloneInv /\ [RegistrationNext]_registrationVars => AloneInv'
  <1>. SUFFICES ASSUME AloneInv, [RegistrationNext]_registrationVars,
                       NEW n, n \notin troubled'
                PROVE  Alone(n)'
    BY WrittenStep DEF AloneInv
  <1>t. WrittenInv /\ WrittenInv'
    BY WrittenStep DEF AloneInv
  <1>0. troubled \subseteq troubled' /\ Alone(n)
    BY DEF AloneInv, RegistrationNext, Find, Refresh, CreateAgent, CreateUser, CreateToken,
       LinkUser, ensure_service_profile, Interrupt, get_or_create_profile, update_user_type,
       registrationVars, rows
  <1>. USE DEF RegistrationType, rows
  <1>1. ASSUME NEW q \in Registrants, Find(q) PROVE Alone(n)'
    <2>1. /\ Named(n)' = Named(n) /\ \A i \in Named(n) : agents'[i] = agents[i]
          /\ users' = users /\ tokens' = tokens
      BY <1>1 DEF Find, Named
    <2>2. \A r \in Registrants : r # q => step'[r] = step[r] /\ mine'[r] = mine[r]
      BY <1>1, <1>t DEF Find, Go, WrittenInv
    <2>3. CASE NameOf[q] # n
      BY <1>0, <1>1, <2>1, <2>2, <2>3 DEF Alone, Busy, Find
    <2>4. CASE NameOf[q] = n
      <3>1. \A r \in Registrants : NameOf[r] = n => ~Busy(r)
        BY <1>1, <2>4 DEF Find
      <3>2. \A i \in Named(n) : agents[i] \in users \cap tokens
        BY <3>1, <1>0 DEF Alone, Busy
      <3>3. /\ step'[q] \in {"agent", "refresh"}
            /\ step'[q] = "agent" => Named(n) = {}
            /\ step'[q] = "refresh" => \E i \in Named(n) : mine'[q] = agents[i]
        BY <1>1, <1>t, <2>4 DEF Find, Go, WrittenInv
      <3>4. \A r \in Registrants : NameOf[r] = n /\ r # q => ~Busy(r)'
        BY <2>2, <3>1 DEF Busy
      <3>. QED  BY <1>0, <2>1, <2>2, <3>1, <3>2, <3>3, <3>4 DEF Alone, Busy
    <2>. QED  BY <2>3, <2>4
  <1>2. ASSUME NEW q \in Registrants, Refresh(q) PROVE Alone(n)'
    <2>1. /\ Named(n)' = Named(n) /\ \A i \in Named(n) : agents'[i] = agents[i]
          /\ users' = users /\ tokens' = tokens /\ mine' = mine
      BY <1>2 DEF Refresh, Named
    <2>2. \A r \in Registrants : r # q => step'[r] = step[r]
      BY <1>2, <1>t DEF Refresh, Go, WrittenInv
    <2>3. step[q] = "refresh" /\ step'[q] \in {"profile", "failed"}
      BY <1>2, <1>t DEF Refresh, Go, WrittenInv
    <2>4. NameOf[q] = n => step'[q] = "profile"
      BY <1>0, <1>2, <1>t DEF Refresh, Go, WrittenInv, Alone
    <2>. QED  BY <1>0, <2>1, <2>2, <2>3, <2>4 DEF Alone, Busy
  <1>3. ASSUME NEW q \in Registrants, CreateAgent(q) PROVE Alone(n)'
    <2>1. /\ users' = users /\ tokens' = tokens
          /\ step[q] = "agent" /\ step'[q] = "user" /\ mine'[q] = q
          /\ \A r \in Registrants : r # q => step'[r] = step[r] /\ mine'[r] = mine[r]
      BY <1>3, <1>t DEF CreateAgent, Go, WrittenInv
    <2>2. /\ Len(agents') = Len(agents) + 1 /\ agents'[Len(agents) + 1] = q
          /\ \A i \in 1..Len(agents) : agents'[i] = agents[i]
          /\ Len(agents) \in Nat
      BY <1>3, <1>t DEF CreateAgent, WrittenInv, AgentIds
    <2>3. CASE NameOf[q] # n
      <3>1. Named(n)' = Named(n) /\ \A i \in Named(n) : agents'[i] = agents[i]
        BY <2>2, <2>3 DEF Named
      <3>. QED  BY <1>0, <2>1, <2>3, <3>1 DEF Alone, Busy
    <2>4. CASE NameOf[q] = n
      <3>1. Named(n) = {}
        BY <1>0, <2>1, <2>4 DEF Alone
      <3>2. Named(n)' = {Len(agents) + 1}
        BY <2>2, <2>4, <3>1 DEF Named
      <3>3. \A r \in Registrants : NameOf[r] = n /\ r # q => ~Busy(r) /\ ~Busy(r)'
        BY <1>0, <2>1, <2>4 DEF Alone, Busy
      <3>. QED  BY <1>0, <2>1, <2>2, <2>4, <3>2, <3>3 DEF Alone, Busy
    <2>. QED  BY <2>3, <2>4
  <1>4. ASSUME NEW q \in Registrants, CreateUser(q) PROVE Alone(n)'
    <2>1. /\ Named(n)' = Named(n) /\ \A i \in Named(n) : agents'[i] = agents[i]
          /\ users \subseteq users' /\ tokens' = tokens /\ mine' = mine
          /\ step[q] = "user" /\ step'[q] = "token"
          /\ \A r \in Registrants : r # q => step'[r] = step[r]
      BY <1>4, <1>t DEF CreateUser, Go, Named, WrittenInv
    <2>. QED  BY <1>0, <2>1 DEF Alone, Busy
  <1>5. ASSUME NEW q \in Registrants, CreateToken(q) PROVE Alone(n)'
    <2>1. /\ Named(n)' = Named(n) /\ \A i \in Named(n) : agents'[i] = agents[i]
          /\ users' = users /\ tokens \subseteq tokens' /\ mine' = mine
          /\ step[q] = "token" /\ step'[q] = "link" /\ mine[q] \in users \cap tokens'
          /\ \A r \in Registrants : r # q => step'[r] = step[r]
      BY <1>5, <1>t DEF CreateToken, Go, Named, WrittenInv, Written
    <2>. QED  BY <1>0, <2>1 DEF Alone, Busy
  <1>6. ASSUME NEW q \in Registrants, LinkUser(q) \/ ensure_service_profile(q) PROVE Alone(n)'
    <2>1. /\ Named(n)' = Named(n) /\ agents' = agents
          /\ users' = users /\ tokens' = tokens /\ mine' = mine
          /\ step[q] \in {"link", "profile"} /\ step'[q] \in {"profile", "answered"}
          /\ \A r \in Registrants : r # q => step'[r] = step[r]
      BY <1>6, <1>t DEF LinkUser, ensure_service_profile, Go, Named, WrittenInv
    <2>. QED  BY <1>0, <2>1 DEF Alone, Busy
  <1>7. ASSUME NEW q \in Registrants, Interrupt(q) PROVE Alone(n)'
    <2>1. /\ Named(n)' = Named(n) /\ agents' = agents
          /\ users' = users /\ tokens' = tokens /\ mine' = mine
          /\ NameOf[q] # n /\ step'[q] = "failed" /\ Busy(q)
          /\ \A r \in Registrants : r # q => step'[r] = step[r]
      BY <1>7, <1>t DEF Interrupt, Go, Named, WrittenInv
    <2>. QED  BY <1>0, <2>1 DEF Alone, Busy
  <1>8. CASE UNCHANGED <<step, mine, agents, users, tokens>>
    BY <1>0, <1>8 DEF Alone, Busy, Named
  <1>. QED
    BY <1>1, <1>2, <1>3, <1>4, <1>5, <1>6, <1>7, <1>8
    DEF RegistrationNext, get_or_create_profile, update_user_type, registrationVars

(* OneAgentPerName: as long as no two registrations of a name overlap and    *)
(* none dies halfway there is one agent of that name and every request of    *)
(* that name is answered, whatever happens to the other names.               *)
THEOREM NamesStayUnique == RegistrationSpec => []OneAgentPerName
  <1>1. AloneInv => OneAgentPerName
    BY DEF AloneInv, Alone, OneAgentPerName
  <1>. QED  BY AloneStart, AloneStep, <1>1, PTL DEF RegistrationSpec

-----------------------------------------------------------------------------
(* Secret variables: names that look alike.                                  *)

Checked(d) ==
    /\ Asking = {d}
    /\ asked[d] \notin declared
    /\ asked[d] \in excused \/ \A y \in declared : ~Near(asked[d], y)

(* A request that met no other between its check and now may rely on it.     *)
MeantInv ==
    /\ asked \in [Declarers -> Rows \cup {Unasked}]
    /\ declared \subseteq Rows
    /\ \A d \in Asking \ askedWith : Checked(d)
    /\ NearNamesAreMeant

LEMMA NearBothWays == \A x, y : Near(x, y) => x # y /\ Near(y, x)
  BY VariableConstants DEF Near

LEMMA RowsAreAsked == Unasked \notin Rows
  BY DEF Unasked, Rows, VarRoles

LEMMA MeantStep == MeantInv /\ [VariableNext]_variableVars => MeantInv'
  <1>. SUFFICES ASSUME MeantInv, [VariableNext]_variableVars PROVE MeantInv'
    OBVIOUS
  <1>. USE DEF MeantInv
  <1>1. ASSUME NEW d \in Declarers, Save(d) PROVE MeantInv'
    <2>1. Asking' = Asking \ {d} /\ d \in Asking
      BY <1>1 DEF Save, Asking
    <2>2. Asking' \subseteq askedWith'
      BY <1>1, <2>1 DEF Save, Checked
    <2>3. asked[d] \in Rows /\ (asked \in [Declarers -> Rows \cup {Unasked}])' /\ (declared \subseteq Rows)'
      BY <1>1 DEF Save
    <2>4. \A y \in declared : Near(asked[d], y) => asked[d] \in excused'
      BY <1>1, <2>1 DEF Save, Checked
    <2>5. ASSUME NEW x \in declared', NEW y \in declared', Near(x, y)
          PROVE  x \in excused' \/ y \in excused'
      BY <1>1, <2>4, <2>5, NearBothWays DEF Save, NearNamesAreMeant
    <2>. QED  BY <2>2, <2>3, <2>5 DEF NearNamesAreMeant
  <1>2. ASSUME NEW d \in Declarers, NEW x \in Rows, NEW force \in BOOLEAN, Check(d, x, force)
        PROVE  MeantInv'
    <2>1. Asking' = Asking \cup {d} /\ d \notin Asking
      BY <1>2, RowsAreAsked DEF Check, Asking
    <2>2. (asked \in [Declarers -> Rows \cup {Unasked}])' /\ declared' = declared /\ excused \subseteq excused'
      BY <1>2 DEF Check
    <2>3. CASE Asking = {}
      BY <1>2, <2>1, <2>2, <2>3 DEF Check, Checked, NearNamesAreMeant, Near
    <2>4. CASE Asking # {}
      BY <1>2, <2>1, <2>2, <2>4 DEF Check, NearNamesAreMeant, Near
    <2>. QED  BY <2>3, <2>4
  <1>3. ASSUME NEW x \in Rows, Withdraw(x) PROVE MeantInv'
    BY <1>3 DEF Withdraw, Asking, Checked, NearNamesAreMeant, Near
  <1>4. CASE UNCHANGED <<declared, asked, askedWith, excused>>
    BY <1>4 DEF Asking, Checked, NearNamesAreMeant, Near
  <1>. QED
    BY <1>1, <1>2, <1>3, <1>4 DEF VariableNext, Admit, ChangeProject, variableVars

(* NearNamesAreMeant, for any names, any requests and any relation of        *)
(* likeness between names that is symmetric and never of a name with itself. *)
THEOREM LookalikesAreMeant == VariableSpec => []NearNamesAreMeant
  <1>1. VariableInit => MeantInv
    BY DEF VariableInit, MeantInv, Asking, NearNamesAreMeant
  <1>2. MeantInv => NearNamesAreMeant
    BY DEF MeantInv
  <1>. QED  BY <1>1, <1>2, MeantStep, PTL DEF VariableSpec

(* The order in which FoldLeft takes the entries of a list. *)
LEMMA LargestOf ==
    /\ Max({1}) = 1 /\ Max({2}) = 2 /\ Max({1, 2}) = 2
BY DEF Max

(* What FoldLeft computes of one entry, and of two. *)
LEMMA FoldOfTwo ==
    ASSUME NEW e, NEW f
    PROVE  /\ FoldLeft(Bind, NoBindings, <<e>>) = Bind(NoBindings, e)
           /\ FoldLeft(Bind, NoBindings, <<e, f>>) = Bind(Bind(NoBindings, e), f)
<1> DEFINE Iter(list, g) == [s \in SUBSET DOMAIN list |->
               IF s = {} THEN NoBindings ELSE Bind(g[s \ {Max(s)}], list[Max(s)])]
           Folded(list) == CHOOSE g : g = Iter(list, g)
           one == [s \in SUBSET {1} |-> IF s = {} THEN NoBindings ELSE Bind(NoBindings, e)]
           two == [s \in SUBSET {1, 2} |->
                     IF s = {} THEN NoBindings
                     ELSE IF s = {1} THEN Bind(NoBindings, e)
                     ELSE IF s = {2} THEN Bind(NoBindings, f)
                     ELSE Bind(Bind(NoBindings, e), f)]
<1>1. /\ FoldLeft(Bind, NoBindings, <<e>>) = Folded(<<e>>)[DOMAIN <<e>>]
      /\ FoldLeft(Bind, NoBindings, <<e, f>>) = Folded(<<e, f>>)[DOMAIN <<e, f>>]
  BY Zenon DEF FoldLeft, MapThenFoldSet
<1>2. DOMAIN <<e>> = {1} /\ DOMAIN <<e, f>> = {1, 2} /\ <<e>>[1] = e /\ <<e, f>>[1] = e /\ <<e, f>>[2] = f
  OBVIOUS
<1>3. one = Iter(<<e>>, one)
  <2>1. \A s \in SUBSET {1} : s # {} => s = {1} /\ s \ {Max(s)} = {} /\ Max(s) = 1
    BY LargestOf
  <2>2. \A s \in SUBSET {1} : s # {} => one[s \ {Max(s)}] = NoBindings /\ <<e>>[Max(s)] = e
    BY <1>2, <2>1
  <2>3. \A s \in SUBSET {1} : one[s] = IF s = {} THEN NoBindings ELSE Bind(one[s \ {Max(s)}], <<e>>[Max(s)])
    BY <2>2
  <2> QED
    BY <1>2, <2>3
<1>4. two = Iter(<<e, f>>, two)
  <2>1. ASSUME NEW s \in SUBSET {1, 2}, s # {}
        PROVE  \/ s = {1} /\ s \ {Max(s)} = {} /\ Max(s) = 1
               \/ s = {2} /\ s \ {Max(s)} = {} /\ Max(s) = 2
               \/ s = {1, 2} /\ s \ {Max(s)} = {1} /\ Max(s) = 2
    <3>1. s = {1} \/ s = {2} \/ s = {1, 2}
      BY <2>1
    <3> QED
      BY <3>1, LargestOf
  <2>2. /\ two[{}] = NoBindings /\ two[{1}] = Bind(NoBindings, e)
        /\ two[{2}] = Bind(NoBindings, f) /\ two[{1, 2}] = Bind(Bind(NoBindings, e), f)
    OBVIOUS
  <2> HIDE DEF two
  <2>3. \A s \in SUBSET {1, 2} : two[s] = IF s = {} THEN NoBindings ELSE Bind(two[s \ {Max(s)}], <<e, f>>[Max(s)])
    BY <1>2, <2>1, <2>2
  <2> QED
    BY <1>2, <2>3 DEF two
<1> HIDE DEF one, two
<1>5. Folded(<<e>>) = Iter(<<e>>, Folded(<<e>>)) /\ Folded(<<e, f>>) = Iter(<<e, f>>, Folded(<<e, f>>))
  BY <1>3, <1>4, Zenon
<1>6. ASSUME NEW g, g = Iter(<<e>>, g)
      PROVE  g[{1}] = Bind(NoBindings, e)
  <2>1. \A s \in SUBSET {1} : g[s] =
           IF s = {} THEN NoBindings ELSE Bind(g[s \ {Max(s)}], <<e>>[Max(s)])
    BY <1>2, <1>6
  <2>2. g[{}] = NoBindings /\ g[{1}] = Bind(g[{1} \ {Max({1})}], <<e>>[Max({1})])
    BY <2>1
  <2>3. {1} \ {Max({1})} = {} /\ <<e>>[Max({1})] = e
    BY <1>2, LargestOf
  <2> QED
    BY <2>2, <2>3
<1>7. ASSUME NEW g, g = Iter(<<e, f>>, g)
      PROVE  g[{1, 2}] = Bind(Bind(NoBindings, e), f)
  <2>1. \A s \in SUBSET {1, 2} : g[s] =
           IF s = {} THEN NoBindings ELSE Bind(g[s \ {Max(s)}], <<e, f>>[Max(s)])
    BY <1>2, <1>7
  <2>2. /\ g[{}] = NoBindings
        /\ g[{1}] = Bind(g[{1} \ {Max({1})}], <<e, f>>[Max({1})])
        /\ g[{1, 2}] = Bind(g[{1, 2} \ {Max({1, 2})}], <<e, f>>[Max({1, 2})])
    BY <2>1
  <2>3. /\ {1} \ {Max({1})} = {} /\ <<e, f>>[Max({1})] = e
        /\ {1, 2} \ {Max({1, 2})} = {1} /\ <<e, f>>[Max({1, 2})] = f
    BY <1>2, LargestOf
  <2> QED
    BY <2>2, <2>3
<1>8. Folded(<<e>>)[{1}] = Bind(NoBindings, e)
  BY <1>5, <1>6
<1>9. Folded(<<e, f>>)[{1, 2}] = Bind(Bind(NoBindings, e), f)
  BY <1>5, <1>7
<1> HIDE DEF Folded
<1> QED
  BY <1>1, <1>2, <1>8, <1>9

(* A variable or file is bound once, and something is bound by each entry. *)
BoundOnce(list) ==
    /\ \A i \in DOMAIN list : Binding(list[i]).env # Unbound \/ Binding(list[i]).file # Unbound
    /\ \A i, j \in DOMAIN list : i # j =>
          /\ Binding(list[i]).env = Unbound \/ Binding(list[i]).env # Binding(list[j]).env
          /\ Binding(list[i]).file = Unbound \/ Binding(list[i]).file # Binding(list[j]).file

(* What validate_task_variables lets pass.  The names it compares are names  *)
(* of bindings; what the entries are does not matter.                        *)
LEMMA AcceptedIsBoundOnce ==
    ASSUME NEW e, NEW f
    PROVE  /\ validate_task_variables(<<e>>) => BoundOnce(<<e>>) /\ AllCovered(<<e>>)
           /\ validate_task_variables(<<e, f>>) => BoundOnce(<<e, f>>) /\ AllCovered(<<e, f>>)
<1> DEFINE b == Binding(e)
           c == Binding(f)
           acc == Bind(NoBindings, e)
<1>1. /\ DOMAIN <<e>> = {1} /\ DOMAIN <<e, f>> = {1, 2}
      /\ <<e>>[1] = e /\ <<e, f>>[1] = e /\ <<e, f>>[2] = f
  OBVIOUS
<1>2. /\ acc.envs = {b.env} \ {Unbound} /\ acc.files = {b.file} \ {Unbound}
      /\ ~acc.refused <=> b.env # Unbound \/ b.file # Unbound
  BY DEF Bind, NoBindings
<1>3. ~Bind(acc, f).refused =>
         /\ ~acc.refused /\ c.env \notin acc.envs /\ c.file \notin acc.files
         /\ c.env # Unbound \/ c.file # Unbound
  BY DEF Bind
<1>4. validate_task_variables(<<e>>) => ~acc.refused /\ AllCovered(<<e>>)
  BY FoldOfTwo DEF validate_task_variables
<1>5. validate_task_variables(<<e, f>>) => ~Bind(acc, f).refused /\ AllCovered(<<e, f>>)
  BY FoldOfTwo DEF validate_task_variables
<1>6. ~acc.refused => BoundOnce(<<e>>)
  <2> HIDE DEF acc
  <2> QED
    BY <1>1, <1>2 DEF BoundOnce
<1>7. ~Bind(acc, f).refused => BoundOnce(<<e, f>>)
  <2> HIDE DEF acc
  <2> QED
    BY <1>1, <1>2, <1>3 DEF BoundOnce
<1> QED
  BY <1>4, <1>5, <1>6, <1>7

(* The task has entries, bound once; the ones it has from the project are    *)
(* declared, or lapsed.                                                      *)
AdmittedInv ==
    /\ \E n \in Nat : DOMAIN spec = 1..n
    /\ \A i \in DOMAIN spec : spec[i] \in Entries
    /\ BoundOnce(spec)
    /\ \A i \in DOMAIN spec :
          spec[i].source = "project" => Covered(spec[i].name) \/ spec[i].name \in lapsed

LEMMA AdmitKeeps ==
    ASSUME NEW list, validate_task_variables(list) => BoundOnce(list) /\ AllCovered(list),
           \E n \in Nat : DOMAIN list = 1..n, \A i \in DOMAIN list : list[i] \in Entries,
           Admit(list)
    PROVE  AdmittedInv'
BY DEF Admit, AdmittedInv, BoundOnce, AllCovered, Covered

LEMMA AdmittedStep == AdmittedInv /\ [VariableNext]_variableVars => AdmittedInv'
<1> SUFFICES ASSUME AdmittedInv, [VariableNext]_variableVars PROVE AdmittedInv'
  OBVIOUS
<1>1. CASE \E d \in Declarers : Save(d) \/ \E x \in Rows, force \in BOOLEAN : Check(d, x, force)
  <2>1. UNCHANGED <<spec, lapsed>> /\ declared \subseteq declared'
    BY <1>1 DEF Save, Check
  <2> QED
    BY <2>1 DEF AdmittedInv, BoundOnce, Covered
<1>2. ASSUME NEW x \in Rows, Withdraw(x)
      PROVE  AdmittedInv'
  <2>1. spec' = spec /\ lapsed \subseteq lapsed' /\ declared' = declared \ {x}
    BY <1>2 DEF Withdraw
  <2>2. ASSUME NEW n, Covered(n)
        PROVE  Covered(n)' \/ n \in lapsed'
    BY <1>2, <2>1, <2>2 DEF Covered, Withdraw
  <2>3. \A i \in DOMAIN spec :
           spec[i].source = "project" => Covered(spec[i].name)' \/ spec[i].name \in lapsed'
    BY <2>1, <2>2 DEF AdmittedInv
  <2> QED
    BY <2>1, <2>3 DEF AdmittedInv, BoundOnce
<1>3. ASSUME NEW e \in Entries, Admit(<<e>>)
      PROVE  AdmittedInv'
  <2>1. DOMAIN <<e>> = 1..1 /\ <<e>>[1] = e
    OBVIOUS
  <2>2. \A i \in DOMAIN <<e>> : <<e>>[i] \in Entries
    BY <2>1
  <2>3. \E n \in Nat : DOMAIN <<e>> = 1..n
    BY <2>1
  <2> QED
    BY <1>3, <2>2, <2>3, AcceptedIsBoundOnce, AdmitKeeps
<1>4. ASSUME NEW e \in Entries, NEW f \in Entries, Admit(<<e, f>>)
      PROVE  AdmittedInv'
  <2>1. DOMAIN <<e, f>> = 1..2 /\ <<e, f>>[1] = e /\ <<e, f>>[2] = f
    OBVIOUS
  <2>2. \A i \in DOMAIN <<e, f>> : <<e, f>>[i] \in Entries
    BY <2>1
  <2> QED
    BY <1>4, <2>1, <2>2, AcceptedIsBoundOnce, AdmitKeeps
<1>5. CASE ChangeProject
  <2>1. \A i \in DOMAIN spec : spec[i].name \in lapsed'
    BY <1>5, VariableConstants DEF ChangeProject, AdmittedInv
  <2> QED
    BY <1>5, <2>1 DEF ChangeProject, AdmittedInv, BoundOnce
<1>6. CASE UNCHANGED variableVars
  BY <1>6 DEF variableVars, AdmittedInv, BoundOnce, Covered
<1> QED
  BY <1>1, <1>2, <1>3, <1>4, <1>5, <1>6 DEF VariableNext

(* Whatever is declared, withdrawn and admitted, and for any entries, vtf    *)
(* task lint has nothing against the list of a task but what was withdrawn   *)
(* since or is left of another project, and no file is bound twice.          *)
THEOREM AdmittedListsAreSound == VariableSpec => []AdmittedIsSound
<1>1. VariableInit => AdmittedInv
  <2>1. DOMAIN << >> = 1..0
    OBVIOUS
  <2> QED
    BY <2>1 DEF VariableInit, AdmittedInv, BoundOnce
<1>2. AdmittedInv => AdmittedIsSound
  <2> SUFFICES ASSUME AdmittedInv PROVE AdmittedIsSound
    OBVIOUS
  <2>1. PICK n \in Nat : DOMAIN spec = 1..n
    BY DEF AdmittedInv
  <2>2. lint(spec, "executor").colliding = {}
    <3>1. ASSUME NEW i \in 1..n, NEW j \in 1..(i - 1),
                 Binding(spec[i]).env # Unbound, Binding(spec[i]).env = Binding(spec[j]).env
          PROVE  FALSE
      BY <2>1, <3>1 DEF AdmittedInv, BoundOnce
    <3> QED
      BY <2>1, <3>1 DEF lint
  <2>3. lint(spec, "executor").undeclared \subseteq lapsed
    BY DEF AdmittedInv, lint, Covered
  <2>4. \A i, j \in DOMAIN spec : i # j =>
           Binding(spec[i]).file = Unbound \/ Binding(spec[i]).file # Binding(spec[j]).file
    BY DEF AdmittedInv, BoundOnce
  <2> QED
    BY <2>2, <2>3, <2>4, Zenon DEF AdmittedIsSound
<1> QED
  BY <1>1, <1>2, AdmittedStep, PTL DEF VariableSpec

-----------------------------------------------------------------------------
(* The event stream: what it passes over and what it repeats.                *)

RowStates == {"none", "stamped", "visible", "gone"}
Ranked == {e \in Events : rank[e] > 0}

StreamType ==
    /\ clock \in Nat \ {0} /\ cursor \in Nat /\ rewinds \in Nat
    /\ row \in [Events -> RowStates]
    /\ stamp \in [Events -> Nat] /\ rank \in [Events -> Nat] /\ copies \in [Events -> Nat]
    /\ lastGot \in Events \cup {0}
    /\ batch \in Seq(Events)

(* An event is stamped, then ranked above all others when it is committed.   *)
RowsInOrder ==
    /\ \A e \in Events : row[e] # "none" => stamp[e] > 0
    /\ \A e \in Events : row[e] = "visible" => rank[e] > 0
    /\ \A e \in Events : row[e] \in {"none", "stamped"} => rank[e] = 0
    /\ IsFiniteSet(Ranked)
    /\ \A e \in Events : rank[e] <= Cardinality(Ranked)

Sent == Got \cup BatchSet

(* What was read from the table was committed, and is sent oldest first,     *)
(* never before the cursor and never to a client that has it already.        *)
BatchInOrder ==
    /\ \A e \in Sent : rank[e] > 0
    /\ \A i, j \in 1..Len(batch) : i < j => Before(batch[i], batch[j])
    /\ \A b \in BatchSet : cursor <= stamp[b] /\ copies[b] <= rewinds

(* The cursor is where the last event was, or at the start when that event   *)
(* is not there any more.                                                    *)
CursorFollows ==
    /\ seen \subseteq Got
    /\ lastGot # 0 => lastGot \in Got
    /\ \/ lastGot # 0 /\ cursor = stamp[lastGot]
       \/ cursor = 0 /\ (lastGot = 0 \/ row[lastGot] = "gone")
    /\ \A e \in Events : copies[e] > rewinds => stamp[e] <= cursor

(* What the batch does not hold became visible after it was read.            *)
BatchWasComplete ==
    \A e \in (Visible \cap Wanted) \ Sent, b \in BatchSet :
        stamp[e] > cursor => rank[b] < rank[e]

StreamInv ==
    /\ StreamType /\ RowsInOrder /\ BatchInOrder /\ CursorFollows /\ BatchWasComplete
    /\ OnlyLateOnesMissed /\ RepeatedOnlyByRewinds

(* The rows of a query are the set it asked for, in the order of its clause. *)
LEMMA QueryRows ==
  ASSUME NEW S, IsFiniteSet(S), NEW s \in InOrder(S),
         \A e \in S : stamp[e] \in Nat /\ e \in Nat
  PROVE  /\ s \in Seq(S) /\ {s[i] : i \in 1..Len(s)} = S
         /\ \A i, j \in 1..Len(s) : i < j => Before(s[i], s[j])
  <1>. DEFINE n == Cardinality(S)
  <1>1. n \in Nat
    BY FS_CardinalityType
  <1>2. s \in [1..n -> S] /\ \A i, j \in 1..n : i < j => Before(s[i], s[j])
    BY DEF InOrder
  <1>3. s \in Seq(S) /\ Len(s) = n
    BY <1>1, <1>2
  <1>4. \A i, j \in 1..n : s[i] = s[j] => i = j
    BY <1>1, <1>2 DEF Before
  <1>5. s \in Injection(1..n, S)
    BY <1>2, <1>4 DEF Injection, IsInjective
  <1>6. IsFiniteSet(1..n) /\ Cardinality(1..n) = n
    BY <1>1, FS_Interval
  <1>7. s \in Surjection(1..n, S)
    <2>1. Cardinality(1..n) = Cardinality(S)
      BY <1>6
    <2>. QED  BY <1>5, <2>1, FS_Injection
  <1>8. \A e \in S : \E i \in 1..n : s[i] = e
    BY <1>7 DEF Surjection
  <1>. QED  BY <1>2, <1>3, <1>8

(* What is left of a batch when its head is gone.                            *)
LEMMA BatchShrinks ==
  ASSUME batch \in Seq(Events), batch # <<>>, batch' = Tail(batch)
  PROVE  /\ batch' \in Seq(Events) /\ Head(batch) \in BatchSet /\ Head(batch) = batch[1]
         /\ Len(batch) \in Nat \ {0} /\ Len(batch') = Len(batch) - 1
         /\ \A i \in 1..Len(batch') : batch'[i] = batch[i + 1]
         /\ BatchSet = BatchSet' \cup {Head(batch)}
         /\ \A b \in BatchSet' : \E i \in 2..Len(batch) : b = batch[i]
  <1>1. batch' \in Seq(Events) /\ Head(batch) = batch[1] /\ Len(batch) \in Nat \ {0}
    OBVIOUS
  <1>2. Len(batch') = Len(batch) - 1 /\ \A i \in 1..Len(batch') : batch'[i] = batch[i + 1]
    OBVIOUS
  <1>3. Head(batch) \in BatchSet
    BY <1>1 DEF BatchSet
  <1>4. \A b \in BatchSet' : \E i \in 2..Len(batch) : b = batch[i]
    BY <1>1, <1>2 DEF BatchSet
  <1>5. BatchSet' \subseteq BatchSet
    BY <1>1, <1>4 DEF BatchSet
  <1>6. ASSUME NEW b \in BatchSet PROVE b \in BatchSet' \cup {Head(batch)}
    <2>1. PICK i \in 1..Len(batch) : b = batch[i]
      BY <1>6 DEF BatchSet
    <2>2. CASE i = 1
      BY <1>1, <2>1, <2>2
    <2>3. CASE i # 1
      <3>1. i - 1 \in 1..Len(batch') /\ batch'[i - 1] = b
        BY <1>1, <1>2, <2>1, <2>3
      <3>. QED  BY <3>1 DEF BatchSet
    <2>. QED  BY <2>2, <2>3
  <1>. QED  BY <1>1, <1>2, <1>3, <1>4, <1>5, <1>6

LEMMA StreamStart == StreamInit => StreamInv
  <1>. SUFFICES ASSUME StreamInit PROVE StreamInv
    OBVIOUS
  <1>1. Ranked = {} /\ Got = {} /\ BatchSet = {} /\ Visible = {}
    BY DEF StreamInit, Ranked, Got, BatchSet, Visible
  <1>2. IsFiniteSet(Ranked) /\ Cardinality(Ranked) = 0
    BY <1>1, FS_EmptySet
  <1>3. StreamType /\ RowsInOrder
    BY <1>2, StreamConstants DEF StreamInit, StreamType, RowsInOrder, RowStates
  <1>4. BatchInOrder /\ CursorFollows /\ BatchWasComplete
    BY <1>1, StreamConstants DEF StreamInit, BatchInOrder, CursorFollows, BatchWasComplete, Sent
  <1>5. OnlyLateOnesMissed /\ RepeatedOnlyByRewinds
    BY <1>1 DEF StreamInit, OnlyLateOnesMissed, RepeatedOnlyByRewinds
  <1>. QED  BY <1>3, <1>4, <1>5 DEF StreamInv

LEMMA SentEvents == StreamType => Sent \subseteq Events
  BY DEF Sent, Got, BatchSet, StreamType

LEMMA StampKeeps == ASSUME StreamInv, NEW e \in Events, Stamp(e) PROVE StreamInv'
  <1>. USE DEF StreamInv
  <1>1. StreamType'
    BY DEF StreamType, Stamp, RowStates, stream
  <1>2. /\ Ranked' = Ranked /\ Got' = Got /\ BatchSet' = BatchSet /\ Sent' = Sent /\ Visible' = Visible
        /\ rank' = rank /\ cursor' = cursor /\ copies' = copies /\ rewinds' = rewinds
        /\ batch' = batch /\ seen' = seen /\ lastGot' = lastGot
    BY DEF Stamp, stream, Ranked, Got, BatchSet, Sent, Visible, StreamType
  <1>3. /\ rank[e] = 0 /\ e \notin Sent /\ e \notin Visible
        /\ \A f \in Events : f # e => row'[f] = row[f] /\ stamp'[f] = stamp[f]
        /\ row[e] = "none" /\ row'[e] = "stamped" /\ stamp'[e] > 0
    BY DEF Stamp, RowsInOrder, BatchInOrder, Visible, StreamType
  <1>4. RowsInOrder'
    BY <1>2, <1>3 DEF RowsInOrder
  <1>5. \A f \in Sent : stamp'[f] = stamp[f] /\ row'[f] = row[f] /\ f \in Events
    BY <1>3, SentEvents
  <1>6. \A f \in Visible : stamp'[f] = stamp[f]
    BY <1>3 DEF Visible
  <1>7. BatchInOrder'
    BY <1>2, <1>3, <1>5 DEF BatchInOrder, Sent, BatchSet, Before
  <1>8. CursorFollows'
    <2>1. lastGot # 0 => lastGot \in Sent
      BY DEF CursorFollows, Sent
    <2>2. e \notin Got
      BY <1>3 DEF Sent
    <2>3. ~(copies[e] > rewinds)
      BY <2>2 DEF Got, StreamType
    <2>. QED  BY <1>2, <1>3, <1>5, <2>1, <2>3 DEF CursorFollows
  <1>9. BatchWasComplete'
    BY <1>2, <1>5, <1>6 DEF BatchWasComplete, Sent
  <1>10. OnlyLateOnesMissed'
    BY <1>2, <1>5, <1>6 DEF OnlyLateOnesMissed, Sent
  <1>11. RepeatedOnlyByRewinds'
    BY <1>2 DEF RepeatedOnlyByRewinds
  <1>. QED  BY <1>1, <1>4, <1>7, <1>8, <1>9, <1>10, <1>11

LEMMA CommitKeeps == ASSUME StreamInv, NEW e \in Events, Commit(e) PROVE StreamInv'
  <1>. USE DEF StreamInv
  <1>1. /\ Got' = Got /\ BatchSet' = BatchSet /\ Sent' = Sent /\ Visible' = Visible \cup {e}
        /\ stamp' = stamp /\ cursor' = cursor /\ copies' = copies /\ rewinds' = rewinds
        /\ batch' = batch /\ seen' = seen /\ lastGot' = lastGot /\ clock' = clock
    BY DEF Commit, stream, Got, BatchSet, Sent, Visible, StreamType
  <1>2. Cardinality(Ranked) \in Nat
    BY FS_CardinalityType DEF RowsInOrder
  <1>3. /\ row[e] = "stamped" /\ row' = [row EXCEPT ![e] = "visible"]
        /\ rank' = [rank EXCEPT ![e] = 1 + Cardinality(Ranked)]
    BY DEF Commit, Ranked
  <1>4. StreamType'
    BY <1>1, <1>2, <1>3 DEF StreamType, RowStates
  <1>5. /\ rank[e] = 0 /\ e \notin Sent /\ e \notin Ranked
        /\ \A f \in Events : f # e => row'[f] = row[f] /\ rank'[f] = rank[f]
        /\ row'[e] = "visible" /\ rank'[e] = 1 + Cardinality(Ranked)
    BY <1>3 DEF RowsInOrder, BatchInOrder, StreamType, Ranked
  <1>6. Ranked' = Ranked \cup {e}
    BY <1>2, <1>5 DEF Ranked
  <1>7. IsFiniteSet(Ranked)' /\ Cardinality(Ranked)' = Cardinality(Ranked) + 1
    BY <1>5, <1>6, FS_AddElement DEF RowsInOrder
  <1>8. RowsInOrder'
    <2>1. ASSUME NEW f \in Events PROVE rank'[f] <= Cardinality(Ranked)'
      <3>1. rank[f] \in Nat /\ rank[f] <= Cardinality(Ranked)
        BY DEF RowsInOrder, StreamType
      <3>. QED  BY <1>2, <1>5, <1>7, <3>1
    <2>2. \A f \in Events :
            /\ row'[f] # "none" => stamp'[f] > 0
            /\ row'[f] = "visible" => rank'[f] > 0
            /\ row'[f] \in {"none", "stamped"} => rank'[f] = 0
      BY <1>1, <1>2, <1>3, <1>5 DEF RowsInOrder
    <2>. QED  BY <1>7, <2>1, <2>2 DEF RowsInOrder
  <1>9. \A f \in Sent : f \in Events /\ f # e /\ rank'[f] = rank[f] /\ row'[f] = row[f] /\ rank[f] < rank'[e]
    BY <1>2, <1>5, SentEvents DEF RowsInOrder, StreamType
  <1>10. BatchInOrder'
    BY <1>1, <1>9 DEF BatchInOrder, Sent, BatchSet, Before
  <1>11. CursorFollows'
    BY <1>1, <1>9 DEF CursorFollows, Sent
  <1>12. BatchWasComplete'
    <2>. SUFFICES ASSUME NEW f \in (Visible' \cap Wanted) \ Sent, NEW b \in BatchSet, stamp[f] > cursor
                  PROVE  rank'[b] < rank'[f]
      BY <1>1 DEF BatchWasComplete
    <2>1. CASE f = e
      BY <1>9, <2>1 DEF Sent
    <2>2. CASE f # e
      <3>1. f \in (Visible \cap Wanted) \ Sent /\ f \in Events /\ rank'[f] = rank[f]
        BY <1>1, <1>5, <2>2 DEF Visible
      <3>. QED  BY <1>9, <3>1 DEF BatchWasComplete, Sent
    <2>. QED  BY <2>1, <2>2
  <1>13. OnlyLateOnesMissed'
    <2>. SUFFICES ASSUME NEW f \in (Visible' \cap Wanted) \ (Got \cup BatchSet), stamp[f] <= cursor
                  PROVE  \E g \in Got : \/ stamp[g] = stamp[f]
                                        \/ stamp[g] > stamp[f] /\ rank'[g] < rank'[f]
      BY <1>1 DEF OnlyLateOnesMissed
    <2>1. CASE f = e
      <3>1. stamp[e] > 0
        BY <1>3 DEF RowsInOrder
      <3>2. lastGot \in Got /\ cursor = stamp[lastGot]
        BY <2>1, <3>1 DEF CursorFollows, StreamType
      <3>3. rank'[lastGot] < rank'[e]
        BY <1>9, <3>2 DEF Sent
      <3>4. stamp[lastGot] = stamp[e] \/ stamp[lastGot] > stamp[e]
        BY <2>1, <3>2 DEF StreamType
      <3>. QED  BY <2>1, <3>2, <3>3, <3>4
    <2>2. CASE f # e
      <3>1. f \in (Visible \cap Wanted) \ (Got \cup BatchSet) /\ rank'[f] = rank[f]
        BY <1>1, <1>5, <2>2 DEF Visible
      <3>. QED  BY <1>9, <3>1 DEF OnlyLateOnesMissed, Sent
    <2>. QED  BY <2>1, <2>2
  <1>14. RepeatedOnlyByRewinds'
    BY <1>1 DEF RepeatedOnlyByRewinds
  <1>. QED  BY <1>4, <1>8, <1>10, <1>11, <1>12, <1>13, <1>14

LEMMA LoseKeeps == ASSUME StreamInv, NEW e \in Events, Lose(e) PROVE StreamInv'
  <1>. USE DEF StreamInv
  <1>1. /\ Got' = Got /\ BatchSet' = BatchSet /\ Sent' = Sent /\ Visible' \subseteq Visible /\ Ranked' = Ranked
        /\ stamp' = stamp /\ rank' = rank /\ cursor' = cursor /\ copies' = copies /\ rewinds' = rewinds
        /\ batch' = batch /\ seen' = seen /\ lastGot' = lastGot /\ clock' = clock
    BY DEF Lose, stream, Got, BatchSet, Sent, Visible, Ranked, StreamType
  <1>2. /\ row[e] # "none" /\ row'[e] = "gone"
        /\ \A f \in Events : f # e => row'[f] = row[f]
        /\ row' \in [Events -> RowStates]
    BY DEF Lose, StreamType, RowStates
  <1>3. StreamType' /\ RowsInOrder'
    BY <1>1, <1>2 DEF StreamType, RowsInOrder
  <1>4. BatchInOrder'
    BY <1>1 DEF BatchInOrder, Before
  <1>5. CursorFollows'
    BY <1>1, <1>2 DEF CursorFollows, StreamType
  <1>6. BatchWasComplete' /\ OnlyLateOnesMissed' /\ RepeatedOnlyByRewinds'
    BY <1>1 DEF BatchWasComplete, OnlyLateOnesMissed, RepeatedOnlyByRewinds
  <1>. QED  BY <1>3, <1>4, <1>5, <1>6

LEMMA PollKeeps == ASSUME StreamInv, Poll PROVE StreamInv'
  <1>. USE DEF StreamInv
  <1>. DEFINE S == Later(cursor) \ seen
  <1>1. /\ Got' = Got /\ Visible' = Visible /\ Ranked' = Ranked
        /\ stamp' = stamp /\ rank' = rank /\ cursor' = cursor /\ copies' = copies /\ rewinds' = rewinds
        /\ row' = row /\ seen' = seen /\ lastGot' = lastGot /\ clock' = clock
    BY DEF Poll, Got, Visible, Ranked
  <1>2. S \subseteq Ranked /\ S \subseteq Visible \cap Wanted /\ S \subseteq Events
    BY DEF Later, Visible, Ranked, RowsInOrder
  <1>3. IsFiniteSet(S)
    BY <1>2, FS_Subset DEF RowsInOrder
  <1>4. batch' \in InOrder(S) /\ batch = <<>>
    BY DEF Poll
  <1>5. \A e \in S : stamp[e] \in Nat /\ e \in Nat
    BY <1>2, StreamConstants DEF StreamType
  <1>. HIDE DEF S
  <1>6. /\ batch' \in Seq(S) /\ {batch'[i] : i \in 1..Len(batch')} = S
        /\ \A i, j \in 1..Len(batch') : i < j => Before(batch'[i], batch'[j])
    BY <1>3, <1>4, <1>5, QueryRows
  <1>7. BatchSet' = S /\ BatchSet = {} /\ batch' \in Seq(Events)
    BY <1>2, <1>4, <1>6 DEF BatchSet
  <1>8. StreamType' /\ RowsInOrder'
    BY <1>1, <1>7 DEF StreamType, RowsInOrder
  <1>9. \A b \in S : rank[b] > 0 /\ stamp[b] > 0 /\ (cursor = 0 \/ stamp[b] > cursor)
    BY DEF S, Later, Visible, RowsInOrder
  <1>10. ASSUME NEW b \in S PROVE cursor <= stamp[b] /\ copies[b] <= rewinds
    <2>1. b \in Events /\ stamp[b] \in Nat /\ copies[b] \in Nat /\ cursor \in Nat /\ rewinds \in Nat
      BY <1>2 DEF StreamType
    <2>2. copies[b] > rewinds => stamp[b] <= cursor
      BY <2>1 DEF CursorFollows
    <2>. QED  BY <1>9, <2>1, <2>2
  <1>11. BatchInOrder'
    <2>1. (\A i, j \in 1..Len(batch) : i < j => Before(batch[i], batch[j]))'
      BY <1>1, <1>6 DEF Before
    <2>. QED  BY <1>1, <1>7, <1>9, <1>10, <2>1 DEF BatchInOrder, Sent
  <1>12. CursorFollows' /\ RepeatedOnlyByRewinds'
    BY <1>1 DEF CursorFollows, RepeatedOnlyByRewinds
  <1>13. BatchWasComplete'
    <2>1. \A e \in Visible \cap Wanted : stamp[e] > cursor => e \in S \/ e \in Got
      BY DEF S, Later, CursorFollows
    <2>. QED  BY <1>1, <1>7, <2>1 DEF BatchWasComplete, Sent
  <1>14. OnlyLateOnesMissed'
    BY <1>1, <1>7 DEF OnlyLateOnesMissed
  <1>. QED  BY <1>8, <1>11, <1>12, <1>13, <1>14

LEMMA SendKeeps == ASSUME StreamInv, Send PROVE StreamInv'
  <1>. USE DEF StreamInv
  <1>. DEFINE h == Head(batch)
  <1>1. /\ Visible' = Visible /\ Ranked' = Ranked /\ row' = row /\ stamp' = stamp /\ rank' = rank
        /\ rewinds' = rewinds /\ clock' = clock
        /\ seen' = seen \cup {h} /\ cursor' = stamp[h] /\ copies' = [copies EXCEPT ![h] = @ + 1]
        /\ lastGot' = h /\ batch # <<>> /\ batch' = Tail(batch)
    BY DEF Send, Visible, Ranked
  <1>2. /\ batch' \in Seq(Events) /\ h \in BatchSet /\ h = batch[1]
        /\ Len(batch) \in Nat \ {0} /\ Len(batch') = Len(batch) - 1
        /\ \A i \in 1..Len(batch') : batch'[i] = batch[i + 1]
        /\ BatchSet = BatchSet' \cup {h}
        /\ \A b \in BatchSet' : \E i \in 2..Len(batch) : b = batch[i]
    BY <1>1, BatchShrinks DEF StreamType
  <1>3. h \in Events /\ BatchSet \subseteq Events /\ BatchSet' \subseteq Events
    BY <1>2, SentEvents DEF Sent
  <1>. HIDE DEF h
  <1>4. \A b \in BatchSet' : Before(h, b)
    BY <1>2 DEF BatchInOrder
  <1>5. \A b \in BatchSet' : b # h /\ stamp[h] <= stamp[b]
    BY <1>3, <1>4, StreamConstants DEF Before, StreamType
  <1>6. /\ copies'[h] = copies[h] + 1 /\ copies[h] \in Nat
        /\ \A e \in Events : e # h => copies'[e] = copies[e]
    BY <1>1, <1>3 DEF StreamType
  <1>7. Got' = Got \cup {h}
    BY <1>3, <1>6 DEF Got
  <1>8. Sent' = Sent
    BY <1>2, <1>7 DEF Sent
  <1>9. /\ cursor <= stamp[h] /\ copies[h] <= rewinds
        /\ stamp[h] \in Nat /\ cursor \in Nat /\ rewinds \in Nat
    BY <1>2, <1>3 DEF BatchInOrder, StreamType
  <1>10. StreamType' /\ RowsInOrder'
    BY <1>1, <1>2, <1>3 DEF StreamType, RowsInOrder
  <1>11. BatchInOrder'
    <2>1. (\A i, j \in 1..Len(batch) : i < j => Before(batch[i], batch[j]))'
      <3>. SUFFICES ASSUME NEW i \in 1..Len(batch'), NEW j \in 1..Len(batch'), i < j
                    PROVE  Before(batch'[i], batch'[j])
        BY <1>1 DEF Before
      <3>1. i + 1 \in 1..Len(batch) /\ j + 1 \in 1..Len(batch) /\ i + 1 < j + 1
        BY <1>2
      <3>. QED  BY <1>2, <3>1 DEF BatchInOrder
    <2>2. \A b \in BatchSet' : cursor' <= stamp'[b] /\ copies'[b] <= rewinds'
      BY <1>1, <1>2, <1>3, <1>5, <1>6 DEF BatchInOrder
    <2>. QED  BY <1>1, <1>8, <2>1, <2>2 DEF BatchInOrder
  <1>12. CursorFollows'
    <2>1. ASSUME NEW e \in Events, copies'[e] > rewinds PROVE stamp[e] <= stamp[h]
      <3>1. CASE e = h
        BY <1>9, <3>1
      <3>2. CASE e # h
        <4>1. stamp[e] <= cursor /\ stamp[e] \in Nat
          BY <1>6, <2>1, <3>2 DEF CursorFollows, StreamType
        <4>. QED  BY <1>9, <4>1
      <3>. QED  BY <3>1, <3>2
    <2>2. h # 0
      BY <1>3, StreamConstants
    <2>. QED  BY <1>1, <1>7, <2>1, <2>2 DEF CursorFollows
  <1>13. BatchWasComplete'
    <2>1. ASSUME NEW e \in (Visible \cap Wanted) \ Sent, NEW b \in BatchSet', stamp[e] > stamp[h]
          PROVE  rank[b] < rank[e]
      <3>1. stamp[e] > cursor
        BY <1>9, <2>1 DEF StreamType, Visible
      <3>. QED  BY <1>2, <2>1, <3>1 DEF BatchWasComplete
    <2>. QED  BY <1>1, <1>8, <2>1 DEF BatchWasComplete
  <1>14. OnlyLateOnesMissed'
    <2>1. ASSUME NEW e \in (Visible \cap Wanted) \ Sent, stamp[e] <= stamp[h]
          PROVE  \E f \in Got \cup {h} : \/ stamp[f] = stamp[e]
                                         \/ stamp[f] > stamp[e] /\ rank[f] < rank[e]
      <3>0. stamp[e] \in Nat
        BY DEF StreamType, Visible
      <3>1. CASE stamp[e] <= cursor
        BY <2>1, <3>1 DEF OnlyLateOnesMissed, Sent
      <3>2. CASE stamp[e] > cursor
        <4>1. rank[h] < rank[e]
          BY <1>2, <2>1, <3>2 DEF BatchWasComplete
        <4>2. stamp[h] = stamp[e] \/ stamp[h] > stamp[e]
          BY <1>9, <2>1, <3>0
        <4>. QED  BY <4>1, <4>2
      <3>. QED  BY <1>9, <3>0, <3>1, <3>2
    <2>. QED  BY <1>1, <1>7, <1>8, <2>1 DEF OnlyLateOnesMissed, Sent
  <1>15. RepeatedOnlyByRewinds'
    BY <1>1, <1>6, <1>9 DEF RepeatedOnlyByRewinds
  <1>. QED  BY <1>10, <1>11, <1>12, <1>13, <1>14, <1>15

LEMMA ReconnectKeeps == ASSUME StreamInv, Reconnect PROVE StreamInv'
  <1>. USE DEF StreamInv
  <1>1. /\ Visible' = Visible /\ Ranked' = Ranked /\ Got' = Got
        /\ row' = row /\ stamp' = stamp /\ rank' = rank /\ copies' = copies
        /\ lastGot' = lastGot /\ clock' = clock /\ seen' = {} /\ batch' = <<>> /\ lastGot # 0
    BY DEF Reconnect, Visible, Ranked, Got
  <1>2. BatchSet' = {} /\ Sent' = Got
    BY <1>1 DEF BatchSet, Sent
  <1>3. lastGot \in Got /\ lastGot \in Events /\ stamp[lastGot] \in Nat
    BY <1>1 DEF CursorFollows, StreamType
  <1>4. \/ cursor' = cursor /\ rewinds' = rewinds /\ cursor = stamp[lastGot]
        \/ cursor' = 0 /\ rewinds' = rewinds + 1 /\ row[lastGot] = "gone"
    BY DEF Reconnect, CursorFollows
  <1>5. StreamType' /\ RowsInOrder'
    BY <1>1, <1>4 DEF StreamType, RowsInOrder
  <1>6. BatchInOrder' /\ BatchWasComplete'
    BY <1>1, <1>2 DEF BatchInOrder, BatchWasComplete, Sent
  <1>7. RepeatedOnlyByRewinds'
    BY <1>1, <1>4 DEF RepeatedOnlyByRewinds, StreamType
  <1>8. CursorFollows'
    <2>1. CASE rewinds' = rewinds
      BY <1>1, <1>3, <1>4, <2>1 DEF CursorFollows, StreamType
    <2>2. CASE rewinds' = rewinds + 1 /\ cursor' = 0 /\ row[lastGot] = "gone"
      BY <1>1, <1>3, <2>2 DEF CursorFollows, StreamType, RepeatedOnlyByRewinds
    <2>. QED  BY <1>4, <2>1, <2>2
  <1>9. OnlyLateOnesMissed'
    <2>1. ASSUME NEW e \in (Visible \cap Wanted) \ Got, stamp[e] <= cursor'
          PROVE  \E f \in Got : \/ stamp[f] = stamp[e]
                                \/ stamp[f] > stamp[e] /\ rank[f] < rank[e]
      <3>1. stamp[e] \in Nat /\ stamp[e] > 0
        BY DEF StreamType, Visible, RowsInOrder
      <3>2. cursor' = cursor /\ cursor = stamp[lastGot]
        BY <1>4, <2>1, <3>1
      <3>3. CASE e \in BatchSet
        <4>1. stamp[e] = stamp[lastGot]
          BY <1>3, <2>1, <3>1, <3>2, <3>3 DEF BatchInOrder
        <4>. QED  BY <1>3, <4>1
      <3>4. CASE e \notin BatchSet
        BY <2>1, <3>2, <3>4 DEF OnlyLateOnesMissed
      <3>. QED  BY <3>3, <3>4
    <2>. QED  BY <1>1, <1>2, <2>1 DEF OnlyLateOnesMissed
  <1>. QED  BY <1>5, <1>6, <1>7, <1>8, <1>9

LEMMA StreamStep == StreamInv /\ [StreamNext]_streamVars => StreamInv'
  <1>. SUFFICES ASSUME StreamInv, [StreamNext]_streamVars PROVE StreamInv'
    OBVIOUS
  <1>1. CASE Tick \/ UNCHANGED streamVars
    <2>1. /\ row' = row /\ stamp' = stamp /\ rank' = rank /\ cursor' = cursor /\ seen' = seen
          /\ batch' = batch /\ copies' = copies /\ lastGot' = lastGot /\ rewinds' = rewinds
          /\ clock' \in Nat \ {0}
      BY <1>1 DEF Tick, stream, streamVars, StreamInv, StreamType
    <2>2. /\ Got' = Got /\ Visible' = Visible /\ Ranked' = Ranked /\ BatchSet' = BatchSet /\ Sent' = Sent
      BY <2>1 DEF Got, Visible, Ranked, BatchSet, Sent
    <2>3. StreamType' /\ RowsInOrder' /\ CursorFollows'
      BY <2>1, <2>2 DEF StreamInv, StreamType, RowsInOrder, CursorFollows
    <2>4. BatchInOrder' /\ BatchWasComplete'
      BY <2>1, <2>2 DEF StreamInv, BatchInOrder, BatchWasComplete, Before
    <2>5. OnlyLateOnesMissed' /\ RepeatedOnlyByRewinds'
      BY <2>1, <2>2 DEF StreamInv, OnlyLateOnesMissed, RepeatedOnlyByRewinds
    <2>. QED  BY <2>3, <2>4, <2>5 DEF StreamInv
  <1>. QED
    BY <1>1, StampKeeps, CommitKeeps, LoseKeeps, PollKeeps, SendKeeps, ReconnectKeeps DEF StreamNext

(* OnlyLateOnesMissed, for any number of events, any filter and any clock:   *)
(* what a stream passes over for good became visible too late or shares its  *)
(* timestamp with an event that was sent.                                    *)
THEOREM StreamMissesOnlyLateOnes == StreamSpec => []OnlyLateOnesMissed
  <1>1. StreamInv => OnlyLateOnesMissed
    BY DEF StreamInv
  <1>. QED  BY StreamStart, StreamStep, <1>1, PTL DEF StreamSpec

(* RepeatedOnlyByRewinds, from the same invariant: an event of a batch has   *)
(* reached the client at most once for each beginning from the start.        *)
THEOREM StreamRepeatsOnlyByRewinds == StreamSpec => []RepeatedOnlyByRewinds
  <1>1. StreamInv => RepeatedOnlyByRewinds
    BY DEF StreamInv
  <1>. QED  BY StreamStart, StreamStep, <1>1, PTL DEF StreamSpec
-----------------------------------------------------------------------------
(* Recents: what is left of a list that several requests write and trim.     *)

(* accessed_at orders the rows. *)
Ordered ==
    /\ \A x \in recent : <<x, x>> \notin later
    /\ \A x, y \in recent : x # y => <<x, y>> \in later \/ <<y, x>> \in later
    /\ \A x, y, z \in recent : <<x, y>> \in later /\ <<y, z>> \in later => <<x, z>> \in later

RecentsType ==
    /\ recent \subseteq Resources /\ IsFiniteSet(recent)
    /\ visit \in [Visits -> [at : {"start", "read", "trim"}, keep : SUBSET Resources]]

Few(S) == IsFiniteSet(S) /\ Cardinality(S) <= MaxRecent

(* Every request keeps few rows, and the last to delete leaves no others;    *)
(* an access nobody was about to delete by is later than every other, so     *)
(* that every query after it finds it.                                       *)
RecentsInv ==
    /\ RecentsType
    /\ Ordered
    /\ \A v \in Visits : Few(visit[v].keep)
    /\ AtRest => Few(recent)
    /\ newest # "none" /\ ~raced =>
          /\ newest \in recent
          /\ \A y \in recent : <<y, newest>> \notin later
          /\ \A v \in Visits : visit[v].at = "trim" => newest \in visit[v].keep

LatestRows == {x \in recent : Cardinality(LaterThan(x)) < MaxRecent}

(* The rows with fewer than MaxRecent later ones are at most MaxRecent: no   *)
(* two of them have the same number of later ones.                           *)
LEMMA KeptAreFew ==
    ASSUME IsFiniteSet(recent), Ordered
    PROVE  Few(LatestRows)
<1> DEFINE behind == [x \in LatestRows |-> Cardinality(LaterThan(x))]
           T == 0 .. (MaxRecent - 1)
<1>1. \A x \in recent : IsFiniteSet(LaterThan(x)) /\ Cardinality(LaterThan(x)) \in Nat
  BY FS_Subset, FS_CardinalityType DEF LaterThan
<1>2. behind \in [LatestRows -> T]
  BY <1>1, RecentConstants DEF LatestRows
<1>3. ASSUME NEW x \in LatestRows, NEW y \in LatestRows, <<x, y>> \in later
      PROVE  Cardinality(LaterThan(x)) # Cardinality(LaterThan(y))
  <2>1. x \in recent /\ y \in recent
    BY DEF LatestRows
  <2>2. LaterThan(x) \subseteq LaterThan(y)
    BY <1>3, <2>1 DEF LaterThan, Ordered
  <2>3. x \in LaterThan(y) /\ x \notin LaterThan(x)
    BY <1>3, <2>1 DEF LaterThan, Ordered
  <2> QED
    BY <1>1, <2>1, <2>2, <2>3, FS_Subset
<1>4. \A x, y \in LatestRows : x # y => behind[x] # behind[y]
  BY <1>3 DEF LatestRows, Ordered
<1>5. behind \in Injection(LatestRows, T)
  BY <1>2, <1>4 DEF Injection, IsInjective
<1>6. IsFiniteSet(T) /\ Cardinality(T) = MaxRecent
  BY RecentConstants, FS_Interval
<1> HIDE DEF behind, T
<1> QED
  BY <1>5, <1>6, FS_Injection DEF Few

LEMMA EmptyIsFew == Few({})
BY FS_EmptySet, RecentConstants DEF Few

LEMMA UpsertKeeps ==
    ASSUME RecentsInv, NEW v \in Visits, NEW x \in Resources, Upsert(v, x)
    PROVE  RecentsInv'
<1> USE DEF RecentsInv
<1>1. /\ recent' = recent \cup {x} /\ newest' = x
      /\ later' = {o \in later : o[1] # x /\ o[2] # x} \cup ({x} \X (recent \ {x}))
      /\ visit' = [visit EXCEPT ![v].at = "read"]
      /\ raced' = \E w \in Visits : visit[w].at = "trim"
  BY DEF Upsert
<1>2. /\ visit' \in [Visits -> [at : {"start", "read", "trim"}, keep : SUBSET Resources]]
      /\ visit'[v].at = "read"
      /\ \A w \in Visits : visit'[w].keep = visit[w].keep
      /\ \A w \in Visits : visit'[w].at = "trim" => visit[w].at = "trim"
  BY <1>1 DEF RecentsType
<1>3. \A y, z : <<y, z>> \in later' <=>
         \/ <<y, z>> \in later /\ y # x /\ z # x
         \/ y = x /\ z \in recent /\ z # x
  BY <1>1
<1>a. RecentsType'
  BY <1>1, <1>2, FS_AddElement DEF RecentsType
<1>b. Ordered'
  BY <1>1, <1>3 DEF Ordered
<1>c. \A w \in Visits : Few(visit'[w].keep)
  BY <1>2
<1>d. ~AtRest'
  BY <1>2 DEF AtRest, Resting
<1>e. /\ newest' \in recent' /\ \A y \in recent' : <<y, newest'>> \notin later'
      /\ ~raced' => \A w \in Visits : visit'[w].at # "trim"
  BY <1>1, <1>2, <1>3
<1> QED
  BY <1>a, <1>b, <1>c, <1>d, <1>e DEF Few

LEMMA ReadKeptKeeps ==
    ASSUME RecentsInv, NEW v \in Visits, ReadKept(v)
    PROVE  RecentsInv'
<1> USE DEF RecentsInv
<1>1. /\ visit' = [visit EXCEPT ![v] = [at |-> "trim", keep |-> LatestRows]]
      /\ UNCHANGED <<recent, later, newest, raced>>
  BY DEF ReadKept, LatestRows
<1>2. Few(LatestRows) /\ LatestRows \subseteq recent
  BY KeptAreFew DEF RecentsType, LatestRows
<1>3. /\ visit'[v].at = "trim" /\ visit'[v].keep = LatestRows
      /\ \A w \in Visits : w # v => visit'[w] = visit[w]
      /\ visit' \in [Visits -> [at : {"start", "read", "trim"}, keep : SUBSET Resources]]
  BY <1>1, <1>2 DEF RecentsType
<1>4. ASSUME newest # "none", ~raced
      PROVE  newest \in LatestRows
  <2>1. newest \in recent /\ LaterThan(newest) = {}
    BY <1>4 DEF LaterThan
  <2> QED
    BY <2>1, FS_EmptySet, RecentConstants DEF LatestRows
<1>a. RecentsType' /\ Ordered'
  BY <1>1, <1>3 DEF RecentsType, Ordered
<1>c. \A w \in Visits : Few(visit'[w].keep)
  BY <1>2, <1>3
<1>d. ~AtRest'
  BY <1>3 DEF AtRest, Resting
<1>e. newest' # "none" /\ ~raced' =>
         /\ newest' \in recent'
         /\ \A y \in recent' : <<y, newest'>> \notin later'
         /\ \A w \in Visits : visit'[w].at = "trim" => newest' \in visit'[w].keep
  BY <1>1, <1>3, <1>4
<1> QED
  BY <1>a, <1>c, <1>d, <1>e DEF Few

LEMMA TrimKeeps ==
    ASSUME RecentsInv, NEW v \in Visits, Trim(v)
    PROVE  RecentsInv'
<1> USE DEF RecentsInv
<1> DEFINE gone == recent \ visit[v].keep
<1>1. /\ visit[v].at = "trim" /\ recent' = recent \ gone
      /\ later' = later \cap (recent' \X recent')
      /\ visit' = [w \in Visits |-> IF w = v THEN Resting ELSE [visit[w] EXCEPT !.keep = @ \ gone]]
      /\ UNCHANGED <<newest, raced>>
  BY DEF Trim, DeleteRows
<1>2. recent' \subseteq recent /\ recent' \subseteq visit[v].keep
  BY <1>1
<1>3. Few(recent')
  BY <1>2, FS_Subset, FS_CardinalityType, RecentConstants DEF Few
<1>4. /\ visit'[v] = Resting
      /\ \A w \in Visits : w # v => /\ visit'[w].keep = visit[w].keep \ gone
                                    /\ visit'[w].at = visit[w].at
      /\ visit' \in [Visits -> [at : {"start", "read", "trim"}, keep : SUBSET Resources]]
  BY <1>1 DEF RecentsType, Resting
<1>5. \A w \in Visits : Few(visit'[w].keep)
  <2>1. \A w \in Visits : w # v => Few(visit'[w].keep)
    BY <1>4, FS_Subset, FS_CardinalityType, RecentConstants DEF Few
  <2> QED
    BY <1>4, <2>1, EmptyIsFew DEF Resting
<1>6. \A x, y : <<x, y>> \in later' <=> <<x, y>> \in later /\ x \in recent' /\ y \in recent'
  BY <1>1
<1>a. RecentsType'
  BY <1>2, <1>3, <1>4 DEF RecentsType, Few
<1>b. Ordered'
  BY <1>2, <1>6 DEF Ordered
<1>e. newest' # "none" /\ ~raced' =>
         /\ newest' \in recent'
         /\ \A y \in recent' : <<y, newest'>> \notin later'
         /\ \A w \in Visits : visit'[w].at = "trim" => newest' \in visit'[w].keep
  BY <1>1, <1>4, <1>6 DEF Resting
<1> QED
  BY <1>3, <1>5, <1>a, <1>b, <1>e DEF Few

LEMMA RecentsHold == RecentsSpec => []RecentsInv
<1>1. RecentsInit => RecentsInv
  <2> SUFFICES ASSUME RecentsInit PROVE RecentsInv
    OBVIOUS
  <2>1. RecentsType /\ Ordered
    BY FS_EmptySet DEF RecentsInit, RecentsType, Ordered, Resting
  <2> QED
    BY <2>1, EmptyIsFew DEF RecentsInit, RecentsInv, Resting
<1>2. RecentsInv /\ [RecentsNext]_recentVars => RecentsInv'
  <2> SUFFICES ASSUME RecentsInv, [RecentsNext]_recentVars PROVE RecentsInv'
    OBVIOUS
  <2>1. CASE UNCHANGED recentVars
    BY <2>1 DEF recentVars, RecentsInv, RecentsType, Ordered, AtRest, Few
  <2> QED
    BY <2>1, UpsertKeeps, ReadKeptKeeps, TrimKeeps DEF RecentsNext
<1> QED
  BY <1>1, <1>2, PTL DEF RecentsSpec

(* However the upserts, the queries and the deletions of any number of       *)
(* requests interleave, record_access leaves at most MAX_RECENT rows.        *)
THEOREM RecentsStayBounded == RecentsSpec => []BoundedAtRest
<1>1. RecentsInv => BoundedAtRest
  BY DEF RecentsInv, BoundedAtRest, Few
<1> QED
  BY <1>1, RecentsHold, PTL

(* The last access is in the list, unless it came between the query and the  *)
(* deletion of another request.                                              *)
THEOREM NewestAccessKept == RecentsSpec => []NewestKept
<1>1. RecentsInv => NewestKept
  BY DEF RecentsInv, NewestKept
<1> QED
  BY <1>1, RecentsHold, PTL
=============================================================================
