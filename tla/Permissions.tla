---------------------------- MODULE Permissions ----------------------------
(* The RBAC matrix of packages/shared/src/permissions.ts, which the API's   *)
(* PermissionsGuard and the web console's hasPermission both consult.       *)

OrgRoles == {"ADMIN", "AGENCY_OWNER", "ACCOUNT_MANAGER", "CLIENT_VIEWER"}

PERMISSIONS ==
    {"org.read", "org.manage", "member.read", "member.manage",
     "client.read", "client.write", "client.delete", "brand.read", "brand.write",
     "persona.read", "persona.generate", "persona.write",
     "meta.connect", "meta.read", "meta.sync", "audience.read", "audience.write",
     "campaign.read", "campaign.write", "campaign.generate", "campaign.approve",
     "campaign.publish", "campaign.pause", "analytics.read",
     "recommendation.read", "recommendation.generate", "recommendation.decide",
     "auditlog.read", "settings.manage"}

\* The source lists what an account manager may do; this is what is missing there.
ACCOUNT_MANAGER_PERMISSIONS ==
    PERMISSIONS \ {"org.manage", "member.manage", "client.delete", "campaign.approve",
                   "campaign.publish", "auditlog.read", "settings.manage"}

CLIENT_VIEWER_PERMISSIONS ==
    {"org.read", "client.read", "brand.read", "persona.read", "meta.read",
     "audience.read", "campaign.read", "analytics.read", "recommendation.read"}

ROLE_PERMISSIONS ==
    [role \in OrgRoles |->
        CASE role \in {"ADMIN", "AGENCY_OWNER"} -> PERMISSIONS
          [] role = "ACCOUNT_MANAGER" -> ACCOUNT_MANAGER_PERMISSIONS
          [] role = "CLIENT_VIEWER" -> CLIENT_VIEWER_PERMISSIONS]

RoleHasPermission(role, permission) ==
    role \in OrgRoles /\ permission \in ROLE_PERMISSIONS[role]
=============================================================================
