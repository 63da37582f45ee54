---------------------------- MODULE MCServices ----------------------------
(* An instance for TLC of the services around the task lifecycle.  They      *)
(* share no rows, so that a step of one changes nothing another sees: each   *)
(* behaviour exercises one of them, chosen at the start, and the others rest *)
(* in an initial state.                                                      *)
EXTENDS EventStream, Idempotency, Registration, SessionLock, Recents,
        Workboard, Access, ProjectVariables, TLC

CONSTANTS p1, p2, w1, w2

VARIABLE focus   \* the service this behaviour is about

vars == <<streamVars, keyVars, registrationVars, lockVars, recentVars, boardVars,
          accessVars, variableVars, focus>>

OneName == [a \in AgentIds |-> "name"]
SharedUser == [s \in Sessions |-> IF s = "b1" THEN "b" ELSE "a"]
Misspelt == {<<"GH_TOKEN", "GH_TOKE">>, <<"GH_TOKE", "GH_TOKEN">>}
Entry(name, source, env, file) ==
    [name |-> name, source |-> source, target |-> [env |-> env, file |-> file]]
SomeEntries ==
    {Entry("GH_TOKEN", "project", "default", "unbound"),
     Entry("GH_TOKE", "project", "GH_TOKEN", "f"),
     Entry("GH_TOKE", "literal", "unbound", "f"),
     Entry("GH_TOKE", "literal", "unbound", "unbound")}
Symmetry == Permutations({p1, p2}) \cup Permutations({w1, w2})

MaxPlanners == 1   \* bound on the clients in the middle of their calls

Init ==
    /\ focus \in {"stream", "key", "registration", "lock", "recents", "board", "access", "variables"}
    /\ StreamInit /\ KeyInit /\ RegistrationInit /\ LockInit /\ RecentsInit /\ BoardInit
    /\ AccessInit /\ VariableInit
    /\ focus # "registration" => agents = <<>>

Streaming ==
    /\ focus = "stream" /\ StreamNext
    /\ UNCHANGED <<keyVars, registrationVars, lockVars, recentVars, boardVars, accessVars, variableVars, focus>>

Retrying ==
    /\ focus = "key" /\ KeyNext
    /\ UNCHANGED <<streamVars, registrationVars, lockVars, recentVars, boardVars, accessVars, variableVars, focus>>

Registering ==
    /\ focus = "registration" /\ RegistrationNext
    /\ UNCHANGED <<streamVars, keyVars, lockVars, recentVars, boardVars, accessVars, variableVars, focus>>

Locking ==
    /\ focus = "lock" /\ LockNext
    /\ UNCHANGED <<streamVars, keyVars, registrationVars, recentVars, boardVars, accessVars, variableVars, focus>>

Visiting ==
    /\ focus = "recents" /\ RecentsNext
    /\ UNCHANGED <<streamVars, keyVars, registrationVars, lockVars, boardVars, accessVars, variableVars, focus>>

Arranging ==
    /\ focus = "board" /\ BoardNext
    /\ Cardinality({c \in Planners : planning'[c] # NoPlan}) <= MaxPlanners
    /\ UNCHANGED <<streamVars, keyVars, registrationVars, lockVars, recentVars, accessVars, variableVars, focus>>

Admitting ==
    /\ focus = "access" /\ AccessNext
    /\ UNCHANGED <<streamVars, keyVars, registrationVars, lockVars, recentVars, boardVars, variableVars, focus>>

Declaring ==
    /\ focus = "variables" /\ VariableNext
    /\ UNCHANGED <<streamVars, keyVars, registrationVars, lockVars, recentVars, boardVars, accessVars, focus>>

Next ==
    \/ Streaming \/ Retrying \/ Registering \/ Locking \/ Visiting \/ Arranging
    \/ Admitting \/ Declaring

Spec == Init /\ [][Next]_vars
=============================================================================
