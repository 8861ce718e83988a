--------------------------- MODULE ClientMethods ---------------------------
(***************************************************************************)
(* What the services, stores and models of src/tools/lib do with their     *)
(* caches, one row for each method: the store it looks in before it sends, *)
(* the handler of the store that takes the answer, the fields of the key   *)
(* of the entry, and the fields that go into the request.  A method always *)
(* returns the entry from the store its handler writes.                    *)
(***************************************************************************)
\* Two tables as one.
f ++ g == [x \in DOMAIN f \cup DOMAIN g |-> IF x \in DOMAIN f THEN f[x] ELSE g[x]]

\* A request that is sent only if the store `check' has none under way.
Checked(check, on, fields) ==
  [check |-> check, on |-> on, key |-> fields, sends |-> fields, as |-> "", numbered |-> FALSE]
\* A request that is always sent.
Sent(on, key, sends) ==
  [check |-> "", on |-> on, key |-> key, sends |-> sends, as |-> "", numbered |-> FALSE]
\* A request whose entry has a number of its own for key.
Numbered(on, sends) ==
  [check |-> "", on |-> on, key |-> {}, sends |-> sends, as |-> "", numbered |-> TRUE]
\* A method whose key carries the name of its action.
As(action, method) == [method EXCEPT !.as = action]

OrgDb == {"org", "db"}
OrgInstance == {"org", "instance"}

-----------------------------------------------------------------------------
(* DatabaseService and DatabaseStore.                                      *)

DatabaseRecords ==
  [get |-> Checked("metadata", "onMetadataUpdate", OrgDb),
   create |-> Sent("onCreateUpdate", OrgDb, OrgDb \cup {"opts"}),
   update |-> Sent("onUpdateUpdate", OrgDb, OrgDb \cup {"opts"}),
   addToFeaturedList |-> As("add", Sent("onUpdateFeaturedListUpdate",
                            OrgDb \cup {"organizationList", "orderIndex"},
                            OrgDb \cup {"organizationList", "orderIndex"})),
   removeFromFeaturedList |-> As("remove", Sent("onUpdateFeaturedListUpdate",
                            OrgDb \cup {"organizationList"}, OrgDb \cup {"organizationList"})),
   getFeaturedList |-> Checked("getFeaturedList", "onGetFeaturedListUpdate", {"org"})]

DatabaseSearch ==
  [search |-> Numbered("onSearchUpdate", {"opts"}),
   aggs |-> Numbered("onAggsUpdate", {"aggs", "opts"})]

DatabaseReads ==
  [getUsers |-> Checked("users", "onGetUsersUpdate", OrgDb),
   isAdmin |-> Checked("isAdmin", "onIsAdminUpdate", OrgDb),
   getSchemas |-> Checked("schemas", "onGetSchemasUpdate", OrgDb),
   getSchemaTables |-> Checked("schemaTables", "onGetSchemasUpdate", OrgDb \cup {"schema"}),
   getSchemaUserAccess |-> Checked("schemaUserAccess", "onGetSchemaUserAccessUpdate",
                                   OrgDb \cup {"schema", "user"}),
   getSchemaTableAccess |-> Checked("schemaTableAccess", "onGetSchemaTableAccessUpdate",
                                    OrgDb \cup {"schema", "table"})]

\* variant: getSchemasOverview looks in the store of the tables.
DatabaseOverviewsMixed ==
  [getTablesOverview |-> Checked("tablesOverview", "onTablesOverviewUpdate", OrgDb),
   getSchemasOverview |-> Checked("tablesOverview", "onSchemasOverviewUpdate", OrgDb),
   getSchemaTablesOverview |-> Checked("schemaTablesOverview", "onSchemaTablesOverviewUpdate",
                                       OrgDb \cup {"schema"}),
   getUserAccessOverview |-> Checked("userAccessOverview", "onUserAccessOverviewUpdate", OrgDb)]
DatabaseOverviews ==
  [getTablesOverview |-> Checked("tablesOverview", "onTablesOverviewUpdate", OrgDb),
   getSchemasOverview |-> Checked("schemasOverview", "onSchemasOverviewUpdate", OrgDb),
   getSchemaTablesOverview |-> Checked("schemaTablesOverview", "onSchemaTablesOverviewUpdate",
                                       OrgDb \cup {"schema"}),
   getUserAccessOverview |-> Checked("userAccessOverview", "onUserAccessOverviewUpdate", OrgDb)]

OneGrant == OrgDb \cup {"schemaTable", "user", "access"}
DatabaseGrants ==
  [grantAccess |-> As("grantAccess", Sent("onGrantAccessUpdate", OneGrant, OneGrant)),
   bulkGrantAccess |-> As("bulkGrantAccess", Sent("onGrantAccessUpdate",
                          OrgDb \cup {"grants"}, OrgDb \cup {"grants"})),
   revokeAccess |-> As("revokeAccess", Sent("onRevokeAccessUpdate", OneGrant, OneGrant)),
   bulkRevokeAccess |-> As("bulkRevokeAccess", Sent("onRevokeAccessUpdate",
                           OrgDb \cup {"grants"}, OrgDb \cup {"grants"}))]

\* The models of exposeTableToApi and updateApiCache do not hand on the table.
DatabaseActions ==
  [restartApi |-> As("restartApi", Checked("actions", "onRestartApiUpdate", OrgDb)),
   exposeTableToApi |-> As("exposeTableToApi", Checked("actions", "onExposeTableToApiUpdate", OrgDb)),
   updateApiCache |-> As("updateApiCache", Checked("actions", "onUpdateApiCacheUpdated", OrgDb)),
   init |-> As("init", Checked("actions", "onInitUpdate", OrgDb)),
   link |-> As("link", Sent("onLinkUpdate", OrgDb \cup {"remote"}, OrgDb \cup {"remote", "opts"}))]

DatabaseHandlers ==
  [onMetadataUpdate |-> "metadata", onCreateUpdate |-> "create", onUpdateUpdate |-> "update",
   onSearchUpdate |-> "search", onAggsUpdate |-> "aggs", onGetUsersUpdate |-> "users",
   onGetSchemasUpdate |-> "schemas", onGetSchemaUserAccessUpdate |-> "schemaUserAccess",
   onGetSchemaTableAccessUpdate |-> "schemaTableAccess"]

DatabaseActionHandlers ==
  [onGrantAccessUpdate |-> "actions", onRevokeAccessUpdate |-> "actions",
   onRestartApiUpdate |-> "actions", onExposeTableToApiUpdate |-> "actions",
   onUpdateApiCacheUpdated |-> "actions", onInitUpdate |-> "actions", onLinkUpdate |-> "actions",
   onUpdateFeaturedListUpdate |-> "updateFeaturedList",
   onGetFeaturedListUpdate |-> "getFeaturedList", onIsAdminUpdate |-> "isAdmin",
   onTablesOverviewUpdate |-> "tablesOverview", onSchemasOverviewUpdate |-> "schemasOverview",
   onSchemaTablesOverviewUpdate |-> "schemaTablesOverview",
   onUserAccessOverviewUpdate |-> "userAccessOverview"]

-----------------------------------------------------------------------------
(* The other services and their stores.                                    *)

OneUser == OrgInstance \cup {"user"}
InstanceUsers ==
  [create |-> Sent("onCreateUpdate", OrgInstance, OrgInstance \cup {"opts"}),
   list |-> Sent("onListUpdate", {"opts"}, {"opts"}),
   get |-> Checked("get", "onGetUpdate", OrgInstance),
   addUser |-> Sent("onUserAddUpdate", OneUser, OneUser \cup {"opts"}),
   updateUser |-> As("update-user", Sent("onUserUpdateUpdate", OneUser, OneUser \cup {"opts"})),
   deleteUser |-> As("delete-user", Sent("onUserDeleteUpdate", OneUser, OneUser))]

InstanceOperations ==
  [start |-> Sent("onStartUpdate", OrgInstance, OrgInstance \cup {"opts"}),
   stop |-> Sent("onStopUpdate", OrgInstance, OrgInstance),
   restart |-> Sent("onRestartUpdate", OrgInstance, OrgInstance),
   updatePriority |-> Sent("onPriorityUpdate", OrgInstance, OrgInstance \cup {"opts"})]

InstanceBackups ==
  [backup |-> Sent("onBackupUpdate", OrgInstance, OrgInstance),
   archive |-> Sent("onArchiveUpdate", OrgInstance, OrgInstance),
   restore |-> Sent("onRestoreUpdate", OrgInstance, OrgInstance),
   resize |-> Sent("onResizeUpdate", OrgInstance, OrgInstance \cup {"opts"}),
   syncUsers |-> Sent("onSyncUsersUpdate", OrgInstance, OrgInstance \cup {"opts"})]

InstanceHandlers ==
  [onCreateUpdate |-> "create", onListUpdate |-> "list", onGetUpdate |-> "get",
   onUserAddUpdate |-> "addUser", onUserUpdateUpdate |-> "actions", onUserDeleteUpdate |-> "actions",
   onStartUpdate |-> "start", onStopUpdate |-> "stop", onRestartUpdate |-> "restart",
   onPriorityUpdate |-> "priority", onBackupUpdate |-> "backup", onArchiveUpdate |-> "archive",
   onRestoreUpdate |-> "restore", onResizeUpdate |-> "resize", onSyncUsersUpdate |-> "syncUsers"]

Organization ==
  [create |-> Sent("onCreateUpdate", {"org"}, {"org", "opts"}),
   get |-> Checked("metadata", "onMetadataUpdate", {"org"}),
   getUsers |-> Checked("users", "onUsersUpdate", {"org"}),
   update |-> Sent("onUpdateUpdate", {"org"}, {"org", "opts"}),
   isAdmin |-> Checked("isAdmin", "onIsAdminUpdate", {"org"}),
   search |-> Numbered("onSearchUpdate", {"opts"})]

OrganizationHandlers ==
  [onCreateUpdate |-> "create", onMetadataUpdate |-> "metadata", onUpdateUpdate |-> "update",
   onUsersUpdate |-> "users", onIsAdminUpdate |-> "isAdmin", onSearchUpdate |-> "search"]

User ==
  [getMe |-> Sent("onMeUpdate", {}, {}),
   myDatabases |-> Checked("myDatabases", "onMyDatabasesUpdate", {"org"}),
   search |-> Sent("onSearchUpdate", {}, {"user", "opts"})]

UserHandlers ==
  [onMeUpdate |-> "me", onMyDatabasesUpdate |-> "myDatabases", onSearchUpdate |-> "search"]

\* The session of getConnectionLog is in its request, and not in its key.
AdminMethods ==
  [getConnections |-> As("get-connections", Checked("actions", "onConnectionsUpdate", {})),
   getConnectionLog |-> As("get-connection-log",
      [Checked("actions", "onConnectionLogUpdate", {}) EXCEPT !.sends = {"sessionId"}]),
   sleep |-> As("sleep-instances", Checked("actions", "onSleepUpdate", {})),
   updateUcdIamProfile |-> As("update-ucd-iam-profile",
                              Checked("actions", "onUcdIamProfileUpdate", {"user"}))]

AdminHandlers ==
  [onConnectionsUpdate |-> "actions", onConnectionLogUpdate |-> "actions",
   onSleepUpdate |-> "actions", onUcdIamProfileUpdate |-> "actions"]

-----------------------------------------------------------------------------
(* Methods and stores, named by the service they belong to.                *)

Services ==
  [database |-> DatabaseRecords ++ DatabaseSearch ++ DatabaseReads ++ DatabaseOverviews
                ++ DatabaseGrants ++ DatabaseActions,
   instance |-> InstanceUsers ++ InstanceOperations ++ InstanceBackups,
   organization |-> Organization, user |-> User, admin |-> AdminMethods]

Handlers ==
  [database |-> DatabaseHandlers ++ DatabaseActionHandlers, instance |-> InstanceHandlers,
   organization |-> OrganizationHandlers, user |-> UserHandlers, admin |-> AdminHandlers]

Methods == UNION {{s} \X DOMAIN Services[s] : s \in DOMAIN Services}
Row(m) == Services[m[1]][m[2]]
Puts(m) == <<m[1], Handlers[m[1]][Row(m).on]>>
Checks(m) == <<m[1], Row(m).check>>
Dedupes(m) == Row(m).check # ""

\* DatabaseModel.purgeCache('public').
Public == {"database"} \X {"metadata", "search", "aggs", "getFeaturedList", "isAdmin"}
\* variant: the model of instances does not tell the one of databases.
PurgesNotOnStart(m) ==
  CASE m = <<"database", "update">> -> Public
    [] m \in {<<"database", "addToFeaturedList">>, <<"database", "removeFromFeaturedList">>} ->
         {<<"database", "getFeaturedList">>}
    [] OTHER -> {}
\* The stores a model forgets when its write was answered.
Purges(m) ==
  CASE m \in {<<"database", "update">>, <<"instance", "start">>} -> Public
    [] m \in {<<"database", "addToFeaturedList">>, <<"database", "removeFromFeaturedList">>} ->
         {<<"database", "getFeaturedList">>}
    [] OTHER -> {}
=============================================================================
