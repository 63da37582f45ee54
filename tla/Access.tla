------------------------------- MODULE Access -------------------------------
(* Who may do what in a project.  Two modules answer: one computes the       *)
(* permissions sent along with an entity, the other accepts or refuses the   *)
(* request.  Both read the membership, which staff and claims change, and    *)
(* who created the entity; only the second knows of fleet principals and of  *)
(* claims.                                                                   *)

CONSTANTS Users, Staff

ASSUME AccessConstants == Staff \subseteq Users

Nobody == "nobody"
Roles == {"owner", "member", "viewer"}
Kinds == {"project", "task", "workplan", "milestone"}

VARIABLES role,      \* of each user: its role in the project, or "none"
          fleet,     \* users whose profile says "service"
          creator,   \* who created each entity, or Nobody: tools may leave it out
          claimer,   \* who has claimed the task, or Nobody
          exists     \* the entities there are

accessVars == <<role, fleet, creator, claimer, exists>>

AccessInit ==
    /\ role = [u \in Users |-> "none"] /\ fleet = {}
    /\ creator = [k \in Kinds |-> Nobody] /\ claimer = Nobody
    /\ exists = {}
-----------------------------------------------------------------------------
(* core/permissions_computer.py *)
GetRole(u) == IF u \in Staff THEN "staff" ELSE role[u]
IsOwnerOrStaff(r) == r \in {"owner", "staff"}

task_permissions(u) ==
    LET r == GetRole(u) IN
    [can_edit   |-> IsOwnerOrStaff(r) \/ (r = "member" /\ creator["task"] = u),
     can_delete |-> IsOwnerOrStaff(r),
     can_act    |-> IsOwnerOrStaff(r) \/ (r = "member" /\ creator["task"] = u)]

project_permissions(u) ==
    LET r == GetRole(u) IN
    [can_edit   |-> IsOwnerOrStaff(r) \/ r = "member",
     can_delete |-> IsOwnerOrStaff(r), can_act |-> IsOwnerOrStaff(r)]

workplan_permissions(u) ==
    LET r == GetRole(u) IN
    [can_edit   |-> IsOwnerOrStaff(r) \/ (r = "member" /\ creator["workplan"] = u),
     can_delete |-> IsOwnerOrStaff(r), can_act |-> IsOwnerOrStaff(r)]

milestone_permissions(u) ==
    LET r == GetRole(u) IN
    [can_edit   |-> IsOwnerOrStaff(r) \/ (r = "member" /\ creator["milestone"] = u),
     can_delete |-> IsOwnerOrStaff(r), can_act |-> IsOwnerOrStaff(r)]

Advertised(u) ==
    [project |-> project_permissions(u), task |-> task_permissions(u),
     workplan |-> workplan_permissions(u), milestone |-> milestone_permissions(u)]
-----------------------------------------------------------------------------
(* core/authorization.py: the row is in the user's queryset ... *)
InScope(u) == u \in Staff \cup fleet \/ role[u] # "none"

check_project_membership(u) == u \in Staff \cup fleet \/ role[u] # "none"

(* Without what is said there of members: only a claim makes a task one's own. *)
OwnIfClaimed(u, k) == creator[k] = Nobody \/ (k = "task" /\ claimer = u)

Own(u, k) == creator[k] \in {Nobody, u} \/ (k = "task" /\ claimer = u)

(* ... and its role allows the method. *)
RoleAllows(u, method, k) ==
    LET r == IF u \in fleet THEN "member" ELSE role[u] IN
    \/ u \in Staff
    \/ r = "owner"
    \/ /\ r \notin {"none", "viewer"}
       /\ method # "DELETE"
       /\ method = "PATCH" => Own(u, k)

Accepted(u, method, k) ==
    InScope(u) /\ check_project_membership(u) /\ RoleAllows(u, method, k)
-----------------------------------------------------------------------------
FoundProject(u) ==
    /\ "project" \notin exists
    /\ exists' = {"project"}
    /\ creator' = [creator EXCEPT !["project"] = u]
    /\ role' = [role EXCEPT ![u] = IF @ = "none" THEN "owner" ELSE @]
    /\ UNCHANGED <<fleet, claimer>>

(* A view names the creator, some of the tools name nobody.  Viewers cannot  *)
(* create tasks.                                                             *)
CreateEntity(u, k) ==
    /\ "project" \in exists /\ k \notin exists /\ check_project_membership(u)
    /\ k = "task" => role[u] # "viewer"
    /\ exists' = exists \cup {k}
    /\ creator' \in {creator, [creator EXCEPT ![k] = u]}
    /\ UNCHANGED <<role, fleet, claimer>>

AddMember(u, r) ==
    /\ "project" \in exists /\ role[u] = "none"
    /\ role' = [role EXCEPT ![u] = r]
    /\ UNCHANGED <<fleet, creator, claimer, exists>>

UpdateMember(u, r) ==
    /\ role[u] # "none"
    /\ role' = [role EXCEPT ![u] = r]
    /\ UNCHANGED <<fleet, creator, claimer, exists>>

RemoveMember(u) ==
    /\ role[u] # "none"
    /\ role' = [role EXCEPT ![u] = "none"]
    /\ UNCHANGED <<fleet, creator, claimer, exists>>

(* The claim makes its agent a member; membership outlasts the claim. *)
Claim(u) ==
    /\ "task" \in exists /\ claimer = Nobody
    /\ claimer' = u
    /\ role' = [role EXCEPT ![u] = IF @ = "none" THEN "member" ELSE @]
    /\ UNCHANGED <<fleet, creator, exists>>

EndClaim ==
    /\ claimer # Nobody /\ claimer' = Nobody
    /\ UNCHANGED <<role, fleet, creator, exists>>

(* Registration and staff make service profiles, staff take them away. *)
ChangeType(u) ==
    /\ fleet' \in {fleet \cup {u}, fleet \ {u}}
    /\ UNCHANGED <<role, creator, claimer, exists>>

AccessNext ==
    \/ EndClaim
    \/ \E u \in Users :
        \/ FoundProject(u) \/ RemoveMember(u) \/ Claim(u) \/ ChangeType(u)
        \/ \E k \in Kinds \ {"project"} : CreateEntity(u, k)
        \/ \E r \in Roles : AddMember(u, r) \/ UpdateMember(u, r)

AccessSpec == AccessInit /\ [][AccessNext]_accessVars
-----------------------------------------------------------------------------
(* What an entity's permissions offer a user is accepted when the user asks  *)
(* for it, however memberships, profiles and claims have changed: "a dict    *)
(* describing what the authenticated user can do".  Two offers are left out  *)
(* because they are not accepted: can_edit of a project, offered to every    *)
(* member and accepted from its creator, and an owner's, when a service      *)
(* profile makes a member of the owner.                                      *)
AdvertisedIsAccepted ==
    \A u \in Users, k \in exists :
        u \in Staff \/ u \notin fleet \/ role[u] # "owner" =>
            /\ Advertised(u)[k].can_delete => Accepted(u, "DELETE", k)
            /\ Advertised(u)[k].can_act => Accepted(u, "POST", k)
            /\ k # "project" /\ Advertised(u)[k].can_edit => Accepted(u, "PATCH", k)
=============================================================================
