--------------------------- MODULE Access_proofs ---------------------------
(* What the permissions offer is accepted: for any users, staff among them,  *)
(* and any history of memberships, profiles, claims and entities.            *)
EXTENDS Access, TLAPS

RolesTyped == role \in [Users -> Roles \cup {"none"}] /\ exists \subseteq Kinds

LEMMA InitRoles == AccessInit => RolesTyped
  BY DEF AccessInit, RolesTyped, Roles

LEMMA NextRoles == RolesTyped /\ [AccessNext]_accessVars => RolesTyped'
  <1>. SUFFICES ASSUME RolesTyped, [AccessNext]_accessVars PROVE RolesTyped'
    OBVIOUS
  <1>. USE DEF RolesTyped, Roles, Kinds
  <1>1. ASSUME NEW u \in Users, FoundProject(u) PROVE RolesTyped'
    BY <1>1 DEF FoundProject
  <1>2. ASSUME NEW u \in Users, NEW k \in Kinds, CreateEntity(u, k) PROVE RolesTyped'
    BY <1>2 DEF CreateEntity
  <1>3. ASSUME NEW u \in Users, NEW r \in Roles, AddMember(u, r) \/ UpdateMember(u, r) PROVE RolesTyped'
    BY <1>3 DEF AddMember, UpdateMember
  <1>4. ASSUME NEW u \in Users, RemoveMember(u) PROVE RolesTyped'
    BY <1>4 DEF RemoveMember
  <1>5. ASSUME NEW u \in Users, Claim(u) PROVE RolesTyped'
    BY <1>5 DEF Claim
  <1>6. ASSUME NEW u \in Users, ChangeType(u) PROVE RolesTyped'
    BY <1>6 DEF ChangeType
  <1>7. CASE EndClaim
    BY <1>7 DEF EndClaim
  <1>8. CASE UNCHANGED accessVars
    BY <1>8 DEF accessVars
  <1>. QED  BY <1>1, <1>2, <1>3, <1>4, <1>5, <1>6, <1>7, <1>8 DEF AccessNext

(* Staff, owners without a service profile, and members of what they created *)
(* pass the three classes of checks of core/authorization.py.                *)
LEMMA StaffPass ==
  ASSUME NEW u \in Staff, NEW method, NEW k
  PROVE  Accepted(u, method, k)
  BY DEF Accepted, InScope, check_project_membership, RoleAllows

LEMMA OwnersPass ==
  ASSUME NEW u \in Users, u \notin fleet, role[u] = "owner", NEW method, NEW k
  PROVE  Accepted(u, method, k)
  BY DEF Accepted, InScope, check_project_membership, RoleAllows

LEMMA CreatorsPass ==
  ASSUME NEW u \in Users, role[u] = "member", NEW method, method # "DELETE",
         NEW k, creator[k] = u
  PROVE  Accepted(u, method, k)
  BY DEF Accepted, InScope, check_project_membership, RoleAllows, Own

LEMMA OffersAreAccepted == RolesTyped => AdvertisedIsAccepted
  <1>. SUFFICES ASSUME RolesTyped, NEW u \in Users, NEW k \in exists,
                       u \in Staff \/ u \notin fleet \/ role[u] # "owner"
                PROVE  /\ Advertised(u)[k].can_delete => Accepted(u, "DELETE", k)
                       /\ Advertised(u)[k].can_act => Accepted(u, "POST", k)
                       /\ k # "project" /\ Advertised(u)[k].can_edit => Accepted(u, "PATCH", k)
    BY DEF AdvertisedIsAccepted
  <1>1. CASE u \in Staff
    BY <1>1, StaffPass
  <1>2. CASE u \notin Staff /\ role[u] = "owner"
    BY <1>2, OwnersPass
  <1>3. CASE u \notin Staff /\ role[u] # "owner"
    <2>1. ~IsOwnerOrStaff(GetRole(u))
      BY <1>3 DEF IsOwnerOrStaff, GetRole, RolesTyped, Roles
    <2>2. k \in {"project", "task", "workplan", "milestone"}
      BY DEF RolesTyped, Kinds
    <2>3. ~Advertised(u)[k].can_delete
      BY <2>1, <2>2 DEF Advertised, project_permissions, task_permissions,
                        workplan_permissions, milestone_permissions
    <2>4. GetRole(u) = role[u]
      BY <1>3 DEF GetRole
    <2>5. Advertised(u)[k].can_act \/ (k # "project" /\ Advertised(u)[k].can_edit)
            => role[u] = "member" /\ creator[k] = u
      <3>1. CASE k = "project"
        BY <2>1, <3>1 DEF Advertised, project_permissions
      <3>2. CASE k = "task"
        BY <2>1, <2>4, <3>2 DEF Advertised, task_permissions
      <3>3. CASE k = "workplan"
        BY <2>1, <2>4, <3>3 DEF Advertised, workplan_permissions
      <3>4. CASE k = "milestone"
        BY <2>1, <2>4, <3>4 DEF Advertised, milestone_permissions
      <3>. QED  BY <2>2, <3>1, <3>2, <3>3, <3>4
    <2>. QED  BY <2>3, <2>5, CreatorsPass
  <1>. QED  BY <1>1, <1>2, <1>3

(* What the permissions of an entity offer a user, the requests accept; the  *)
(* two offers that are not accepted are named in the property.               *)
THEOREM OffersHold == AccessSpec => []AdvertisedIsAccepted
  BY InitRoles, NextRoles, OffersAreAccepted, PTL DEF AccessSpec
=============================================================================
