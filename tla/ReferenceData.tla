---------------------------- MODULE ReferenceData ----------------------------
(* The reference rows db:prepare reconciles (db/reference-seed-data.mjs):   *)
(* per version, the codes of every code table.  Display names and           *)
(* descriptions are left out.                                               *)
EXTENDS Sqlite

Seed1 ==
  [CredentialTypes |-> {"GGTC_CREDTYPE_USERNAME_PASSWORD"},
   Roles |-> {"GGTC_ROLE_PROJECT_MANAGER", "GGTC_ROLE_ADMIN"}]
Seed2 ==
  [ClosedReasons |->
       {"ISSUE_CLOSED_REASON_WONTFIX", "ISSUE_CLOSED_REASON_CANTFIX",
        "ISSUE_CLOSED_REASON_RESOLVED"},
   CredentialTypes |-> {"GGTC_CREDTYPE_USERNAME_PASSWORD"},
   IssueStatuses |->
       {"ISSUE_STATUS_OPEN", "ISSUE_STATUS_IN_PROGRESS",
        "ISSUE_STATUS_CLOSED", "ISSUE_STATUS_BLOCKED"},
   OrganizationRoles |->
       {"GGTC_ORGANIZATIONROLE_ORGANIZATION_MANAGER",
        "GGTC_ORGANIZATIONROLE_PROJECT_MANAGER",
        "GGTC_ORGANIZATIONROLE_TEAM_MANAGER"},
   ProjectRoles |-> {"GGTC_PROJECTROLE_PROJECT_MANAGER"},
   SystemRoles |-> {"GGTC_SYSTEMROLE_ADMIN"},
   TeamRoles |->
       {"GGTC_TEAMROLE_TEAM_MANAGER", "GGTC_TEAMROLE_PROJECT_MANAGER"}]
(* The lists of version 3 repeat those of version 2 but for one role.       *)
Seed3 ==
  [ProjectRoles |-> {"GGTC_PROJECTROLE_PROJECT_MANAGER",
                        "GGTC_PROJECTROLE_PROJECT_OWNER"}]
  ++ Seed2
Seed4 ==
  [CredentialTypes |-> {"GGTC_CREDTYPE_USERNAME_PASSWORD",
                           "CREDTYPE_SCOPED_ACCESS_TOKEN"},
   ScopedAccessObjectTypes |->
       {"SCOPED_ACCESS_OBJECT_TYPE_PROJECT", "SCOPED_ACCESS_OBJECT_TYPE_TEAM",
        "SCOPED_ACCESS_OBJECT_TYPE_ORGANIZATION"}]
  ++ Seed3

(* Slip: the later versions are aliases of version 3, as they were before   *)
(* version 4 added its codes.                                               *)
getReferenceSeedDataOfVersion3(v) ==
  CASE v = 1 -> Seed1 [] v = 2 -> Seed2 [] v = 4 -> Seed4 [] OTHER -> Seed3

(* Later versions reuse the lists of version 4.                             *)
getReferenceSeedData(v) ==
  CASE v = 1 -> Seed1 [] v = 2 -> Seed2 [] v = 3 -> Seed3 [] v >= 4 -> Seed4

upsert(rows, codes) == rows \cup {[code |-> c] : c \in codes}
(* One transaction of upserts; it removes no row.                           *)
EnsureReferenceData(v, db) ==
  LET seed == getReferenceSeedData(v)
  IN  Try(db, DOMAIN seed \subseteq DOMAIN db.tables,
          [db EXCEPT !.rows = [t \in DOMAIN @ |->
             IF t \in DOMAIN seed THEN upsert(@[t], seed[t]) ELSE @[t]]])
=============================================================================
