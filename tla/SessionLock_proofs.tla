------------------------- MODULE SessionLock_proofs -------------------------
(* One lock for each project and role, held until it is released: for any    *)
(* sessions, users and slots and however the statements interleave.          *)
EXTENDS SessionLock, TLAPS

Rows == [slot : Slots, user : {UserOf[s] : s \in Sessions}, session : Sessions]

LockType ==
    /\ serial \in Nat
    /\ DOMAIN locks \subseteq 1..serial /\ locks \in [DOMAIN locks -> Rows]
    /\ doing \in [Sessions -> [at : {"idle", "create", "save"}, slot : Slots \cup {"none"}, id : 0..serial]]
    /\ holds \in [Sessions -> 0..serial]
    /\ \A s \in Sessions : doing[s].at = "create" => doing[s].slot \in Slots

Stays(s, i) == i \in freed \/ (i \in DOMAIN locks /\ Owns(s, i))

(* What a session that is about to save its id believes is true as well.     *)
SavesItsOwn == \A s \in Sessions : doing[s].at = "save" => doing[s].id # 0 /\ Stays(s, doing[s].id)

LockInv == LockType /\ OneLockPerSlot /\ HeldUntilReleased /\ SavesItsOwn

LEMMA InitLock == LockInit => LockInv
  BY DEF LockInit, LockInv, LockType, OneLockPerSlot, HeldUntilReleased, SavesItsOwn, Idle, Rows

(* A note of a session keeps the rows rows. *)
LEMMA NoteTyped ==
  ASSUME NEW D, NEW f \in [D -> Rows], NEW i \in D, NEW s \in Sessions
  PROVE  [f EXCEPT ![i].session = s] \in [D -> Rows]
  <1>1. [f[i] EXCEPT !.session = s] \in Rows
    BY DEF Rows
  <1>. QED  BY <1>1

LEMMA KeepLookUp ==
  ASSUME LockInv, NEW s \in Sessions, NEW p \in Slots, LookUp(s, p)
  PROVE  LockInv'
  <1>. USE DEF LockInv, LockType, RowsOf
  <1>1. LockType'
    BY DEF LookUp
  <1>2. OneLockPerSlot'
    BY DEF LookUp, OneLockPerSlot
  <1>3. \A i : i \in RowsOf(p) => i # 0
    OBVIOUS
  <1>4. HeldUntilReleased'
    BY <1>3 DEF LookUp, HeldUntilReleased, Owns
  <1>5. SavesItsOwn'
    BY <1>3 DEF LookUp, SavesItsOwn, Stays, Owns
  <1>. QED  BY <1>1, <1>2, <1>4, <1>5

LEMMA KeepSaveSession ==
  ASSUME LockInv, NEW s \in Sessions, SaveSession(s)
  PROVE  LockInv'
  <1>. USE DEF LockInv, LockType, SaveSession, Idle
  <1>1. /\ DOMAIN locks' = DOMAIN locks
        /\ \A i \in DOMAIN locks : locks'[i].slot = locks[i].slot /\ locks'[i].user = locks[i].user
    BY DEF Rows
  <1>2. LockType'
    <2>1. locks' \in [DOMAIN locks' -> Rows]
      <3>1. CASE doing[s].id \in DOMAIN locks
        <4>1. locks' = [locks EXCEPT ![doing[s].id].session = s]
          BY <3>1
        <4>2. [locks EXCEPT ![doing[s].id].session = s] \in [DOMAIN locks -> Rows]
          BY <3>1, NoteTyped
        <4>. QED  BY <1>1, <4>1, <4>2
      <3>2. CASE doing[s].id \notin DOMAIN locks
        BY <3>2
      <3>. QED  BY <3>1, <3>2
    <2>2. holds' \in [Sessions -> 0..serial']
      OBVIOUS
    <2>3. doing' \in [Sessions -> [at : {"idle", "create", "save"}, slot : Slots \cup {"none"}, id : 0..serial']]
      OBVIOUS
    <2>. QED  BY <1>1, <2>1, <2>2, <2>3
  <1>3. OneLockPerSlot'
    BY <1>1 DEF OneLockPerSlot
  <1>4. HeldUntilReleased'
    BY <1>1 DEF HeldUntilReleased, SavesItsOwn, Stays, Owns
  <1>5. SavesItsOwn'
    BY <1>1 DEF SavesItsOwn, Stays, Owns
  <1>. QED  BY <1>2, <1>3, <1>4, <1>5

LEMMA KeepCreate ==
  ASSUME LockInv, NEW s \in Sessions, Create(s)
  PROVE  LockInv'
  <1>. USE DEF LockInv, LockType, Idle
  <1>1. CASE RowsOf(doing[s].slot) # {} /\ UNCHANGED <<locks, serial, holds>>
    BY <1>1 DEF Create, OneLockPerSlot, HeldUntilReleased, SavesItsOwn, Stays, Owns
  <1>2. CASE RowsOf(doing[s].slot) = {} /\ serial < MaxLocks /\ NewLock(s)
    <2>. DEFINE lock == [slot |-> doing[s].slot, user |-> UserOf[s], session |-> s]
    <2>1. lock \in Rows
      BY DEF Create, Rows
    <2>2. /\ DOMAIN locks' = DOMAIN locks \cup {serial + 1}
          /\ locks'[serial + 1] = lock
          /\ \A i \in DOMAIN locks : locks'[i] = locks[i]
          /\ serial' = serial + 1 /\ holds' = [holds EXCEPT ![s] = serial + 1]
      BY <1>2 DEF NewLock
    <2>3. LockType'
      <3>1. locks' \in [DOMAIN locks' -> Rows]
        BY <1>2, <2>1 DEF NewLock
      <3>2. DOMAIN locks' \subseteq 1..serial'
        BY <2>2
      <3>3. doing' \in [Sessions -> [at : {"idle", "create", "save"}, slot : Slots \cup {"none"}, id : 0..serial']]
        BY <2>2 DEF Create
      <3>4. holds' \in [Sessions -> 0..serial']
        BY <2>2
      <3>. QED  BY <3>1, <3>2, <3>3, <3>4, <2>2 DEF Create
    <2>4. OneLockPerSlot'
      BY <1>2, <2>2 DEF OneLockPerSlot, RowsOf
    <2>5. HeldUntilReleased'
      BY <2>2 DEF Create, HeldUntilReleased, Owns
    <2>6. SavesItsOwn'
      BY <2>2 DEF Create, SavesItsOwn, Stays, Owns
    <2>. QED  BY <2>3, <2>4, <2>5, <2>6
  <1>. QED  BY <1>1, <1>2 DEF Create

(* A row that is dropped has been freed by then. *)
LEMMA KeepDrop ==
  ASSUME LockInv, NEW i \in DOMAIN locks, Drop(i), freed' = freed \cup {i},
         UNCHANGED <<serial, doing>>,
         \A s \in Sessions : holds'[s] \in {0, holds[s]}, holds' \in [Sessions -> 0..serial]
  PROVE  LockInv'
  <1>. USE DEF LockInv, LockType
  <1>1. DOMAIN locks' = DOMAIN locks \ {i} /\ \A j \in DOMAIN locks' : locks'[j] = locks[j]
    BY DEF Drop
  <1>2. LockType'
    BY <1>1 DEF Drop
  <1>3. OneLockPerSlot'
    BY <1>1 DEF OneLockPerSlot
  <1>4. HeldUntilReleased'
    BY <1>1 DEF HeldUntilReleased, Owns
  <1>5. SavesItsOwn'
    BY <1>1 DEF SavesItsOwn, Stays, Owns
  <1>. QED  BY <1>2, <1>3, <1>4, <1>5

LEMMA KeepNote ==
  ASSUME LockInv, NEW s \in Sessions, NEW i, NoteSession(s, i)
  PROVE  LockInv'
  <1>. USE DEF LockInv, LockType, NoteSession
  <1>1. /\ DOMAIN locks' = DOMAIN locks
        /\ \A j \in DOMAIN locks : locks'[j].slot = locks[j].slot /\ locks'[j].user = locks[j].user
    BY DEF Rows
  <1>2. LockType'
    BY DEF Rows
  <1>. QED  BY <1>1, <1>2 DEF OneLockPerSlot, HeldUntilReleased, SavesItsOwn, Stays, Owns

LEMMA NextLock == LockInv /\ [LockNext]_lockVars => LockInv'
  <1>. SUFFICES ASSUME LockInv, [LockNext]_lockVars PROVE LockInv'
    OBVIOUS
  <1>1. ASSUME NEW s \in Sessions, SaveSession(s) PROVE LockInv'
    BY <1>1, KeepSaveSession
  <1>2. ASSUME NEW s \in Sessions, Create(s) PROVE LockInv'
    BY <1>2, KeepCreate
  <1>3. ASSUME NEW s \in Sessions, NEW p \in Slots, LookUp(s, p) PROVE LockInv'
    BY <1>3, KeepLookUp
  <1>4. ASSUME NEW s \in Sessions, NEW i, Release(s, i) PROVE LockInv'
    BY <1>4, KeepDrop DEF Release, LockInv, LockType
  <1>5. ASSUME NEW s \in Sessions, NEW i, NoteSession(s, i) PROVE LockInv'
    BY <1>5, KeepNote
  <1>6. ASSUME NEW i, ForceRelease(i) PROVE LockInv'
    BY <1>6, KeepDrop DEF ForceRelease, LockInv, LockType
  <1>7. CASE UNCHANGED lockVars
    BY <1>7 DEF lockVars, LockInv, LockType, OneLockPerSlot, HeldUntilReleased, SavesItsOwn, Stays, Owns
  <1>. QED  BY <1>1, <1>2, <1>3, <1>4, <1>5, <1>6, <1>7 DEF LockNext

(* A project and role have one lock, however the look-ups, creations, saves  *)
(* and releases of acquire_lock and release_lock interleave.                 *)
THEOREM OneLock == LockSpec => []OneLockPerSlot
  BY InitLock, NextLock, PTL DEF LockSpec, LockInv

(* A session that was answered with a lock has it until its user or staff    *)
(* release that lock.                                                        *)
THEOREM LockStays == LockSpec => []HeldUntilReleased
  BY InitLock, NextLock, PTL DEF LockSpec, LockInv
=============================================================================
