------------------------------ MODULE Recents ------------------------------
(* A user's recently visited resources: every visit is an upsert, a query    *)
(* for the rows to keep and a deletion of all others, in three statements.   *)
EXTENDS Integers, FiniteSets

CONSTANTS Visits,      \* requests of one user that retrieve a resource
          Resources,
          MaxRecent    \* MAX_RECENT

ASSUME RecentConstants == MaxRecent \in Nat \ {0}

VARIABLES recent,   \* the resources that have a row
          later,    \* the pairs of rows of which the first has the later accessed_at
          visit,    \* of each request: the statement it comes to next and the rows it keeps
          newest,   \* the resource accessed last
          raced     \* that access came while another request was about to delete

recentVars == <<recent, later, visit, newest, raced>>
Resting == [at |-> "start", keep |-> {}]

RecentsInit ==
    /\ recent = {} /\ later = {}
    /\ visit = [v \in Visits |-> Resting]
    /\ newest = "none" /\ raced = FALSE

(* update_or_create touches accessed_at, of the row there is or of a new one. *)
Upsert(v, x) ==
    /\ visit[v].at = "start"
    /\ recent' = recent \cup {x}
    /\ later' = {o \in later : o[1] # x /\ o[2] # x} \cup ({x} \X (recent \ {x}))
    /\ visit' = [visit EXCEPT ![v].at = "read"]
    /\ newest' = x
    /\ raced' = \E w \in Visits : visit[w].at = "trim"

LaterThan(x) == {y \in recent : <<y, x>> \in later}
EarlierThan(x) == {y \in recent : <<x, y>> \in later}

(* The oldest rows in place of the latest. *)
KeepOldest(v) ==
    /\ visit[v].at = "read"
    /\ visit' = [visit EXCEPT ![v] = [at |-> "trim",
                    keep |-> {x \in recent : Cardinality(EarlierThan(x)) < MaxRecent}]]
    /\ UNCHANGED <<recent, later, newest, raced>>

ReadKept(v) ==
    /\ visit[v].at = "read"
    /\ visit' = [visit EXCEPT ![v] = [at |-> "trim",
                    keep |-> {x \in recent : Cardinality(LaterThan(x)) < MaxRecent}]]
    /\ UNCHANGED <<recent, later, newest, raced>>

(* What is kept was read as ids: the row of a resource that is deleted now   *)
(* and visited again is another one, which nobody has read.                  *)
DeleteRows(v, gone) ==
    /\ visit[v].at = "trim"
    /\ recent' = recent \ gone
    /\ later' = later \cap (recent' \X recent')
    /\ visit' = [w \in Visits |-> IF w = v THEN Resting ELSE [visit[w] EXCEPT !.keep = @ \ gone]]
    /\ UNCHANGED <<newest, raced>>

(* Only when the list has grown well over its length. *)
TrimLongList(v) ==
    DeleteRows(v, IF Cardinality(recent) > MaxRecent + 1 THEN recent \ visit[v].keep ELSE {})

Trim(v) == DeleteRows(v, recent \ visit[v].keep)

RecentsNext ==
    \E v \in Visits : ReadKept(v) \/ Trim(v) \/ \E x \in Resources : Upsert(v, x)

RecentsSpec == RecentsInit /\ [][RecentsNext]_recentVars
-----------------------------------------------------------------------------
AtRest == \A v \in Visits : visit[v] = Resting

(* Once no visit is being recorded the list is no longer than MAX_RECENT,    *)
(* though every request deletes by what it read before the others deleted.   *)
BoundedAtRest == AtRest => Cardinality(recent) <= MaxRecent

(* The resource visited last is in the list, unless another request was      *)
(* about to delete by a query older than the visit.                          *)
NewestKept == AtRest /\ newest # "none" /\ ~raced => newest \in recent
=============================================================================
