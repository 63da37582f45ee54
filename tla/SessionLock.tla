---------------------------- MODULE SessionLock ----------------------------
(* The lock of an agent session: one row for each project and role, looked   *)
(* up and created in separate statements under a unique constraint, released *)
(* by its id.  Sessions are the clients: two of them may belong to one user. *)
EXTENDS Integers

CONSTANTS Sessions,   \* clients that acquire and release
          UserOf,     \* the user each of them acts for
          Slots,      \* pairs of a project and a role
          MaxLocks    \* bound on the rows ever created

ASSUME LockConstants == DOMAIN UserOf = Sessions /\ MaxLocks \in Nat

LockIds == 1..MaxLocks

VARIABLES locks,    \* the rows: id -> slot, user and session
          serial,   \* ids given so far
          doing,    \* of each session: the statement of acquire_lock it comes to next
          holds,    \* the id of the lock each session was answered with, or 0
          freed     \* locks released by a session of their user, or by staff

lockVars == <<locks, serial, doing, holds, freed>>
Idle == [at |-> "idle", slot |-> "none", id |-> 0]
RowsOf(p) == {i \in DOMAIN locks : locks[i].slot = p}
Owns(s, i) == locks[i].user = UserOf[s]

LockInit ==
    /\ locks = <<>> /\ serial = 0
    /\ doing = [s \in Sessions |-> Idle]
    /\ holds = [s \in Sessions |-> 0] /\ freed = {}

Drop(i) == locks' = [j \in DOMAIN locks \ {i} |-> locks[j]]

(* acquire_lock: the row is looked up.  Somebody else's is a conflict, one's *)
(* own is taken as it is or, when a session id came along, saved again.      *)
LookUp(s, p) ==
    /\ doing[s] = Idle
    /\ \/ /\ RowsOf(p) = {}
          /\ doing' = [doing EXCEPT ![s] = [at |-> "create", slot |-> p, id |-> 0]]
          /\ UNCHANGED holds
       \/ \E i \in RowsOf(p) :
            /\ Owns(s, i)
            /\ \/ doing' = [doing EXCEPT ![s] = [at |-> "save", slot |-> p, id |-> i]]
                  /\ UNCHANGED holds
               \/ holds' = [holds EXCEPT ![s] = i] /\ UNCHANGED doing
    /\ UNCHANGED <<locks, serial, freed>>

(* save(update_fields) raises when the row has gone in the meantime. *)
SaveSession(s) ==
    /\ doing[s].at = "save"
    /\ doing' = [doing EXCEPT ![s] = Idle]
    /\ IF doing[s].id \in DOMAIN locks
       THEN /\ locks' = [locks EXCEPT ![doing[s].id].session = s]
            /\ holds' = [holds EXCEPT ![s] = doing[s].id]
       ELSE UNCHANGED <<locks, holds>>
    /\ UNCHANGED <<serial, freed>>

NewLock(s) ==
    LET i == serial + 1
        lock == [slot |-> doing[s].slot, user |-> UserOf[s], session |-> s]
    IN  /\ locks' = [j \in DOMAIN locks \cup {i} |-> IF j = i THEN lock ELSE locks[j]]
        /\ serial' = i
        /\ holds' = [holds EXCEPT ![s] = i]

(* Without unique_project_role_lock. *)
CreateUnchecked(s) ==
    /\ doing[s].at = "create" /\ serial < MaxLocks
    /\ doing' = [doing EXCEPT ![s] = Idle]
    /\ NewLock(s)
    /\ UNCHANGED freed

Create(s) ==
    /\ doing[s].at = "create"
    /\ doing' = [doing EXCEPT ![s] = Idle]
    /\ \/ RowsOf(doing[s].slot) = {} /\ serial < MaxLocks /\ NewLock(s)
       \/ RowsOf(doing[s].slot) # {} /\ UNCHANGED <<locks, serial, holds>>
    /\ UNCHANGED freed

(* Without the look at the owner. *)
ReleaseByAnyone(s, i) ==
    /\ doing[s] = Idle /\ i \in DOMAIN locks
    /\ Drop(i)
    /\ freed' = IF Owns(s, i) THEN freed \cup {i} ELSE freed
    /\ holds' = [holds EXCEPT ![s] = IF @ = i THEN 0 ELSE @]
    /\ UNCHANGED <<serial, doing>>

(* release_lock by a session of the lock's user, perhaps not the one that    *)
(* acquired it.  A row that has gone, or is another user's, is not found.    *)
Release(s, i) ==
    /\ doing[s] = Idle /\ i \in DOMAIN locks /\ Owns(s, i)
    /\ Drop(i)
    /\ freed' = freed \cup {i}
    /\ holds' = [holds EXCEPT ![s] = IF @ = i THEN 0 ELSE @]
    /\ UNCHANGED <<serial, doing>>

(* release_lock with force, by staff, whoever holds the lock. *)
ForceRelease(i) ==
    /\ i \in DOMAIN locks
    /\ Drop(i)
    /\ freed' = freed \cup {i}
    /\ UNCHANGED <<serial, doing, holds>>

(* LockDetailView.patch: the session id of a lock is a note anyone may write. *)
NoteSession(s, i) ==
    /\ i \in DOMAIN locks
    /\ locks' = [locks EXCEPT ![i].session = s]
    /\ UNCHANGED <<serial, doing, holds, freed>>

LockNext ==
    \/ \E s \in Sessions :
        \/ SaveSession(s) \/ Create(s)
        \/ \E p \in Slots : LookUp(s, p)
        \/ \E i \in LockIds : Release(s, i) \/ NoteSession(s, i)
    \/ \E i \in LockIds : ForceRelease(i)

LockSpec == LockInit /\ [][LockNext]_lockVars
-----------------------------------------------------------------------------
(* However look-ups and creations interleave, a project and role have one    *)
(* lock: the session that loses the race is refused by the constraint.       *)
OneLockPerSlot == \A i, j \in DOMAIN locks : locks[i].slot = locks[j].slot => i = j

(* A session that was told it has the lock has it, in its user's name, until *)
(* that user or staff released this very lock: a late release or a           *)
(* reconnection never costs another user theirs.                             *)
HeldUntilReleased ==
    \A s \in Sessions : holds[s] # 0 =>
        \/ holds[s] \in freed
        \/ holds[s] \in DOMAIN locks /\ Owns(s, holds[s])
=============================================================================
