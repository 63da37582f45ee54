-------------------------- MODULE ProjectVariables --------------------------
(* The secret variables a project declares and the ones a task asks for.  A  *)
(* declaration is checked and saved in separate statements; a task's list is *)
(* admitted against the declarations of that moment, entry after entry.      *)
EXTENDS Integers, SequencesExt

CONSTANTS VarNames,     \* logical names; a name is its own default binding
          NearPairs,    \* pairs of names within the edit distance of near_matches
          Declarers,    \* requests to declare a variable
          Entries       \* what lists of variables are made of

VarRoles == {"executor", "judge"}
Unbound == "unbound"
Default == [env |-> "default", file |-> Unbound]
Targets == {Default} \cup [env : VarNames \cup {Unbound}, file : {"f", Unbound}]

ASSUME VariableConstants ==
    /\ Entries \subseteq [name : VarNames, source : {"project", "literal"}, target : Targets]
    /\ NearPairs \subseteq VarNames \X VarNames
    /\ \A p \in NearPairs : p[1] # p[2] /\ <<p[2], p[1]>> \in NearPairs

VARIABLES declared,   \* the rows of a project: name and role
          asked,      \* of each request: what it is about to save
          askedWith,  \* requests that were between check and save while it was, too
          excused,    \* declarations forced, or overlapped
          spec,       \* the variables of a task of the project
          lapsed      \* names withdrawn since, or declared in the project the task came from

variableVars == <<declared, asked, askedWith, excused, spec, lapsed>>
Unasked == [name |-> "none", role |-> "none"]
Rows == [name : VarNames, role : VarRoles]

VariableInit ==
    /\ declared = {} /\ asked = [d \in Declarers |-> Unasked]
    /\ askedWith = {} /\ excused = {} /\ lapsed = {} /\ spec = <<>>
-----------------------------------------------------------------------------
Near(x, y) == x.role = y.role /\ <<x.name, y.name>> \in NearPairs
Asking == {d \in Declarers : asked[d] # Unasked}

(* Without near_matches. *)
CheckExactly(d, x, force) ==
    /\ asked[d] = Unasked /\ x \notin declared
    /\ asked' = [asked EXCEPT ![d] = x]
    /\ askedWith' = IF Asking = {} THEN askedWith ELSE askedWith \cup Asking \cup {d}
    /\ excused' = IF force THEN excused \cup {x} ELSE excused
    /\ UNCHANGED <<declared, spec, lapsed>>

(* ProjectVariableViewSet.create looks for the same name, and for similar    *)
(* ones unless it is told to create the variable anyway ...                  *)
Check(d, x, force) ==
    /\ asked[d] = Unasked /\ x \notin declared
    /\ force \/ \A y \in declared : ~Near(x, y)
    /\ asked' = [asked EXCEPT ![d] = x]
    /\ askedWith' = IF Asking = {} THEN askedWith ELSE askedWith \cup Asking \cup {d}
    /\ excused' = IF force THEN excused \cup {x} ELSE excused
    /\ UNCHANGED <<declared, spec, lapsed>>

(* ... and saves it.  A row that has come in between is kept unique.         *)
Save(d) ==
    /\ asked[d] # Unasked
    /\ declared' = declared \cup {asked[d]}
    /\ excused' = IF d \in askedWith THEN excused \cup {asked[d]} ELSE excused
    /\ asked' = [asked EXCEPT ![d] = Unasked]
    /\ askedWith' = askedWith \ {d}
    /\ UNCHANGED <<spec, lapsed>>

Withdraw(x) ==
    /\ x \in declared
    /\ declared' = declared \ {x} /\ excused' = excused \ {x}
    /\ lapsed' = IF x.role = "executor" THEN lapsed \cup {x.name} ELSE lapsed
    /\ UNCHANGED <<asked, askedWith, spec>>
-----------------------------------------------------------------------------
Binding(e) ==
    IF e.target = Default THEN [env |-> e.name, file |-> Unbound] ELSE e.target

NoBindings == [envs |-> {}, files |-> {}, refused |-> FALSE]

(* One entry: it binds something, and nothing that is bound already. *)
Bind(acc, e) ==
    LET b == Binding(e) IN
    [envs |-> acc.envs \cup ({b.env} \ {Unbound}),
     files |-> acc.files \cup ({b.file} \ {Unbound}),
     refused |-> \/ acc.refused \/ b.env \in acc.envs \/ b.file \in acc.files
                 \/ b.env = Unbound /\ b.file = Unbound]

Covered(n) == [name |-> n, role |-> "executor"] \in declared

(* Whatever role declares them. *)
CoveredByAny(list) ==
    \A i \in DOMAIN list : list[i].source = "project" =>
        \E x \in declared : x.name = list[i].name

AllCovered(list) ==
    \A i \in DOMAIN list : list[i].source = "project" => Covered(list[i].name)

validate_task_variables(list) ==
    ~FoldLeft(Bind, NoBindings, list).refused /\ AllCovered(list)

(* vtf task lint compares a list with the declarations of one role, in the   *)
(* client: names that are missing and places that bind a variable again.  Of *)
(* files, and of entries that bind nothing, it says nothing; its hints are   *)
(* the near names.                                                           *)
lint(list, role) ==
    LET env(i) == Binding(list[i]).env IN
    [undeclared |-> {list[i].name : i \in {j \in DOMAIN list :
        list[j].source = "project" /\ [name |-> list[j].name, role |-> role] \notin declared}},
     colliding |-> {i \in DOMAIN list :
        env(i) # Unbound /\ \E j \in 1..(i - 1) : env(j) = env(i)}]

(* A task is created or patched with a list of variables. *)
Admit(list) ==
    /\ validate_task_variables(list)
    /\ spec' = list
    /\ lapsed' = {}
    /\ UNCHANGED <<declared, asked, askedWith, excused>>

(* PATCH of the project alone: the task comes from another project, and its  *)
(* variables are not in the data.                                            *)
ChangeProject ==
    /\ lapsed' = VarNames
    /\ UNCHANGED <<declared, asked, askedWith, excused, spec>>

VariableNext ==
    \/ \E d \in Declarers :
        \/ Save(d)
        \/ \E x \in Rows, force \in BOOLEAN : Check(d, x, force)
    \/ \E x \in Rows : Withdraw(x)
    \/ \E e \in Entries : Admit(<<e>>)
    \/ \E e, f \in Entries : Admit(<<e, f>>)
    \/ ChangeProject

VariableSpec == VariableInit /\ [][VariableNext]_variableVars
-----------------------------------------------------------------------------
(* A task that was admitted binds no variable or file twice, and what vtf    *)
(* task lint has against its list is declarations withdrawn since and the    *)
(* move of the task: the two compare in different ways, but the linter       *)
(* objects to nothing the server admits, and moved tasks are not admitted    *)
(* again.                                                                    *)
AdmittedIsSound ==
    /\ lint(spec, "executor").colliding = {}
    /\ lint(spec, "executor").undeclared \subseteq lapsed
    /\ \A i, j \in DOMAIN spec : i # j =>
         LET b == Binding(spec[i])  c == Binding(spec[j]) IN b.file = Unbound \/ b.file # c.file

(* Two names that look like a misspelling of each other are declared only    *)
(* with force, or by requests that overlapped: nothing in the database       *)
(* repeats the look.                                                         *)
NearNamesAreMeant ==
    \A x, y \in declared : Near(x, y) => x \in excused \/ y \in excused
=============================================================================
