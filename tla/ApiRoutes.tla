----------------------------- MODULE ApiRoutes -----------------------------
(***************************************************************************)
(* The routes of the admin API, router by router and in the order in which *)
(* express tries them, and the requests the client library and the command *)
(* line tool send to it.                                                   *)
(*                                                                         *)
(* A path is a sequence of words; a capitalised word is a slot: a          *)
(* parameter of the route, a value in the request.  A handler is named by  *)
(* the method of the client library it was written for.                    *)
(***************************************************************************)
EXTENDS Naturals, Sequences, TLC

Slots == {"Org", "Db", "Instance", "Schema", "Table", "User", "Permission", "RemoteOrg",
          "RemoteDb", "Priority", "Session"}

\* A route: what it reads besides the slots of its path, and its middleware.
Route(verb, path, guards, query, body, does) ==
  [verb |-> verb, path |-> path, guards |-> guards, query |-> query, body |-> body, does |-> does]
\* A request of the client library, with the fields in its query and body.
Request(verb, path, query, body) ==
  [verb |-> verb, path |-> path, query |-> query, body |-> body]

Open == <<>>
InContext == <<"context">>
ForAdmin == <<"context", "admin">>
ForManager == <<"context", "instance-admin">>
OnLive == <<"context", "instance-admin", "alive">>
AdminOnLive == <<"context", "admin", "alive">>

Db(more) == <<"db", "Org", "Db">> \o more
Inst(more) == <<"instance", "Org", "Instance">> \o more

-----------------------------------------------------------------------------
(* The router of databases.                                                *)

DatabaseLists ==
  <<Route("GET", <<"db", "search">>, Open, {"Opts"}, {}, <<"database", "search">>),
    Route("POST", <<"db", "search">>, Open, {}, {"Opts"}, <<"database", "search">>),
    Route("GET", <<"db", "aggregations">>, Open, {"Opts", "Aggs"}, {}, <<"database", "aggs">>),
    Route("POST", <<"db", "aggregations">>, Open, {}, {"Opts", "Aggs"}, <<"database", "aggs">>),
    Route("PATCH", <<"db", "featured">>, ForAdmin, {}, {"Org", "Db", "Opts"},
          <<"database", "updateFeaturedList">>),
    Route("PATCH", <<"db", "featured", "Org">>, <<"context", "organization-admin">>, {},
          {"Db", "Opts"}, <<"database", "updateOrgFeaturedList">>),
    Route("GET", <<"db", "featured">>, InContext, {}, {}, <<"database", "getFeaturedList">>),
    Route("GET", <<"db", "featured", "Org">>, InContext, {}, {}, <<"database", "getOrgFeaturedList">>)>>

DatabaseRecords ==
  <<Route("GET", Db(<<>>), <<"context", "alive?">>, {}, {}, <<"database", "get">>),
    Route("POST", <<"db">>, ForAdmin, {}, {"Org", "Db", "Instance"}, <<"database", "create">>),
    Route("PATCH", Db(<<>>), ForManager, {}, {"Opts"}, <<"database", "update">>)>>

DatabaseActions ==
  <<Route("POST", Db(<<"api", "restart">>), ForAdmin, {}, {}, <<"database", "restartApi">>),
    Route("POST", Db(<<"api", "updated">>), OnLive, {}, {}, <<"database", "updateApiCache">>),
    Route("POST", Db(<<"api", "expose", "Table">>), OnLive, {}, {},
          <<"database", "exposeTableToApi">>),
    Route("POST", Db(<<"init">>), AdminOnLive, {}, {}, <<"database", "init">>),
    Route("GET", Db(<<"is-admin">>), ForManager, {}, {}, <<"database", "isAdmin">>)>>

DatabaseReads ==
  <<Route("GET", Db(<<"users">>), OnLive, {}, {}, <<"database", "getUsers">>),
    Route("GET", Db(<<"schemas">>), OnLive, {}, {}, <<"database", "getSchemas">>),
    Route("GET", Db(<<"users-overview">>), OnLive, {}, {}, <<"database", "getUserAccessOverview">>),
    Route("GET", Db(<<"tables-overview">>), OnLive, {}, {}, <<"database", "getTablesOverview">>),
    Route("GET", Db(<<"schema", "Schema", "tables">>), OnLive, {}, {},
          <<"database", "getSchemaTables">>),
    Route("GET", Db(<<"schema", "Schema", "tables-overview">>), OnLive, {}, {},
          <<"database", "getSchemaTablesOverview">>),
    Route("GET", Db(<<"schema", "Schema", "table", "Table", "access">>), OnLive, {}, {},
          <<"database", "getSchemaTableAccess">>),
    Route("GET", Db(<<"schemas-overview">>), OnLive, {}, {}, <<"database", "getSchemasOverview">>),
    Route("GET", Db(<<"schema", "Schema", "access", "User">>), OnLive, {}, {},
          <<"database", "getSchemaUserAccess">>)>>

\* The route of link has no context, and reads its options from the query.
DatabaseGrants ==
  <<Route("PUT", Db(<<"grant", "Schema", "User", "Permission">>), OnLive, {}, {},
          <<"database", "grantAccess">>),
    Route("POST", Db(<<"grant">>), OnLive, {}, {"Grants"}, <<"database", "bulkGrantAccess">>),
    Route("DELETE", Db(<<"revoke", "Schema", "User", "Permission">>), OnLive, {}, {},
          <<"database", "revokeAccess">>),
    Route("POST", Db(<<"revoke">>), OnLive, {}, {"Grants"}, <<"database", "bulkRevokeAccess">>),
    Route("POST", Db(<<"link", "RemoteOrg", "RemoteDb">>), <<"instance-admin", "alive">>, {"Opts"}, {},
          <<"database", "link">>)>>

-----------------------------------------------------------------------------
(* The routers of instances, organizations, users and administrators.      *)

OneUser == Inst(<<"user", "User">>)
InstanceUsers ==
  <<Route("GET", <<"instance">>, Open, {"Opts"}, {}, <<"instance", "list">>),
    Route("GET", Inst(<<>>), <<"context", "instance-user", "alive?">>, {}, {}, <<"instance", "get">>),
    Route("POST", <<"instance">>, ForAdmin, {}, {"Org", "Instance"}, <<"instance", "create">>),
    Route("PUT", OneUser, OnLive, {"Type", "Parent"}, {}, <<"instance", "addUser">>),
    Route("PATCH", OneUser, ForManager, {"Type"}, {}, <<"instance", "updateUser">>),
    Route("DELETE", OneUser, OnLive, {}, {}, <<"instance", "deleteUser">>)>>

InstanceOperations ==
  <<Route("POST", Inst(<<"stop">>), ForAdmin, {}, {}, <<"instance", "stop">>),
    Route("POST", Inst(<<"start">>), ForAdmin, {"Force"}, {}, <<"instance", "start">>),
    Route("POST", Inst(<<"restart">>), ForAdmin, {}, {}, <<"instance", "restart">>),
    Route("PATCH", Inst(<<"priority", "Priority">>), ForAdmin, {"Apply"}, {},
          <<"instance", "updatePriority">>)>>

InstanceBackups ==
  <<Route("POST", Inst(<<"backup">>), AdminOnLive, {}, {}, <<"instance", "backup">>),
    Route("POST", Inst(<<"sync-users">>), AdminOnLive, {"Opts"}, {}, <<"instance", "syncUsers">>),
    Route("POST", Inst(<<"archive">>), AdminOnLive, {}, {}, <<"instance", "archive">>),
    Route("POST", Inst(<<"restore">>), ForAdmin, {}, {}, <<"instance", "restore">>),
    Route("POST", <<"instance", "sleep">>, ForAdmin, {}, {}, <<"admin", "sleep">>),
    Route("POST", Inst(<<"resize">>), ForAdmin, {"Size"}, {}, <<"instance", "resize">>)>>

Organization ==
  <<Route("GET", <<"organization", "search">>, Open, {"Opts"}, {}, <<"organization", "search">>),
    Route("POST", <<"organization", "search">>, Open, {}, {"Opts"}, <<"organization", "search">>),
    Route("POST", <<"organization">>, ForAdmin, {}, {"Org", "Opts"}, <<"organization", "create">>),
    Route("GET", <<"organization", "Org">>, InContext, {}, {}, <<"organization", "get">>),
    Route("GET", <<"organization", "Org", "users">>, InContext, {}, {}, <<"organization", "getUsers">>),
    Route("PATCH", <<"organization", "Org">>, <<"context", "organization-admin">>, {}, {"Opts"},
          <<"organization", "update">>),
    Route("GET", <<"organization", "Org", "is-admin">>, <<"organization-admin">>, {}, {},
          <<"organization", "isAdmin">>),
    Route("GET", <<"organization", "Org", "logo">>, InContext, {}, {}, <<"organization", "logo">>)>>

User ==
  <<Route("GET", <<"user", "me">>, <<"logged-in">>, {}, {}, <<"user", "getMe">>),
    Route("GET", <<"user", "me", "db">>, <<"logged-in">>, {"Org"}, {}, <<"user", "myDatabases">>)>>

\* `router.use(protect('admin'))' comes before every route of this router.
Admin ==
  <<Route("GET", <<"admin", "connections">>, <<"admin">>, {}, {}, <<"admin", "getConnections">>),
    Route("GET", <<"admin", "connection-log", "Session">>, <<"admin">>, {}, {},
          <<"admin", "getConnectionLog">>),
    Route("GET", <<"admin", "sleep-instances">>, <<"admin">>, {}, {}, <<"admin", "sleep">>),
    Route("GET", <<"admin", "ucd-iam-profile", "search", "User">>,
          <<"admin", "context", "instance-admin">>, {}, {}, <<"user", "search">>),
    Route("PUT", <<"admin", "ucd-iam-profile", "User">>, <<"admin">>, {}, {},
          <<"admin", "updateUcdIamProfile">>)>>

Routes ==
  Admin \o Organization \o DatabaseLists \o DatabaseRecords \o DatabaseActions \o DatabaseReads
    \o DatabaseGrants \o InstanceUsers \o InstanceOperations \o InstanceBackups \o User

-----------------------------------------------------------------------------
(* What the client library sends.                                          *)

DatabaseRecordCalls ==
  [get |-> Request("GET", Db(<<>>), {}, {}),
   create |-> Request("POST", <<"db">>, {}, {"Org", "Db", "Instance"}),
   update |-> Request("PATCH", Db(<<>>), {}, {"Opts"}),
   updateFeaturedList |-> Request("PATCH", <<"db", "featured">>, {}, {"Org", "Db", "Opts"}),
   updateOrgFeaturedList |-> Request("PATCH", <<"db", "featured", "Org">>, {}, {"Db", "Opts"}),
   getFeaturedList |-> Request("GET", <<"db", "featured">>, {}, {}),
   getOrgFeaturedList |-> Request("GET", <<"db", "featured", "Org">>, {}, {}),
   search |-> Request("POST", <<"db", "search">>, {}, {"Opts"}),
   aggs |-> Request("POST", <<"db", "aggregations">>, {}, {"Opts", "Aggs"})]

DatabaseReadCalls ==
  [getUsers |-> Request("GET", Db(<<"users">>), {}, {}),
   isAdmin |-> Request("GET", Db(<<"is-admin">>), {}, {}),
   getSchemas |-> Request("GET", Db(<<"schemas">>), {}, {}),
   getSchemaTables |-> Request("GET", Db(<<"schema", "Schema", "tables">>), {}, {}),
   getSchemaUserAccess |-> Request("GET", Db(<<"schema", "Schema", "access", "User">>), {}, {}),
   getSchemaTableAccess |->
     Request("GET", Db(<<"schema", "Schema", "table", "Table", "access">>), {}, {})]

DatabaseOverviewCalls ==
  [getTablesOverview |-> Request("GET", Db(<<"tables-overview">>), {}, {}),
   getSchemasOverview |-> Request("GET", Db(<<"schemas-overview">>), {}, {}),
   getSchemaTablesOverview |-> Request("GET", Db(<<"schema", "Schema", "tables-overview">>), {}, {}),
   getUserAccessOverview |-> Request("GET", Db(<<"users-overview">>), {}, {})]

DatabaseGrantCalls ==
  [grantAccess |-> Request("PUT", Db(<<"grant", "Schema", "User", "Permission">>), {}, {}),
   bulkGrantAccess |-> Request("POST", Db(<<"grant">>), {}, {"Grants"}),
   revokeAccess |-> Request("DELETE", Db(<<"revoke", "Schema", "User", "Permission">>), {}, {}),
   bulkRevokeAccess |-> Request("POST", Db(<<"revoke">>), {}, {"Grants"}),
   link |-> Request("POST", Db(<<"link", "RemoteOrg", "RemoteDb">>), {}, {"Opts"})]

DatabaseActionCalls ==
  [restartApi |-> Request("POST", Db(<<"api", "restart">>), {}, {}),
   exposeTableToApi |-> Request("POST", Db(<<"api", "expose", "Table">>), {}, {}),
   updateApiCache |-> Request("POST", Db(<<"api", "updated">>), {}, {}),
   init |-> Request("POST", Db(<<"init">>), {}, {})]

InstanceUserCalls ==
  [create |-> Request("POST", <<"instance">>, {}, {"Org", "Instance"}),
   list |-> Request("GET", <<"instance">>, {"Opts"}, {}),
   get |-> Request("GET", Inst(<<>>), {}, {}),
   addUser |-> Request("PUT", OneUser, {"Type", "Parent"}, {}),
   updateUser |-> Request("PATCH", OneUser, {"Type"}, {}),
   deleteUser |-> Request("DELETE", OneUser, {}, {})]

InstanceOperationCalls ==
  [start |-> Request("POST", Inst(<<"start">>), {"Force"}, {}),
   stop |-> Request("POST", Inst(<<"stop">>), {}, {}),
   restart |-> Request("POST", Inst(<<"restart">>), {}, {}),
   updatePriority |-> Request("PATCH", Inst(<<"priority", "Priority">>), {"Apply"}, {}),
   syncUsers |-> Request("POST", Inst(<<"sync-users">>), {"Opts"}, {})]

\* The client library's requests; the command line tool sends others.
InstanceBackupCalls ==
  [backup |-> Request("POST", Inst(<<"backup">>), {}, {}),
   archive |-> Request("POST", Inst(<<"archive">>), {}, {}),
   restore |-> Request("POST", Inst(<<"restore">>), {}, {}),
   resize |-> Request("POST", Inst(<<"resize">>), {}, {"Size"})]

OrganizationCalls ==
  [create |-> Request("POST", <<"organization">>, {}, {"Org", "Opts"}),
   get |-> Request("GET", <<"organization", "Org">>, {}, {}),
   getUsers |-> Request("GET", <<"organization", "Org", "users">>, {}, {}),
   update |-> Request("PATCH", <<"organization", "Org">>, {}, {"Opts"}),
   isAdmin |-> Request("GET", <<"organization", "Org", "is-admin">>, {}, {}),
   search |-> Request("POST", <<"organization", "search">>, {}, {"Opts"})]

UserCalls ==
  [getMe |-> Request("GET", <<"user", "me">>, {}, {}),
   myDatabases |-> Request("GET", <<"user", "me", "db">>, {"Org"}, {}),
   search |-> Request("GET", <<"admin", "ucd-iam-profile", "search", "User">>, {"Org", "Db"}, {})]

AdminCalls ==
  [getConnections |-> Request("GET", <<"admin", "connections">>, {}, {}),
   getConnectionLog |-> Request("GET", <<"admin", "connection-log", "Session">>, {}, {}),
   sleep |-> Request("POST", <<"instance", "sleep">>, {}, {}),
   updateUcdIamProfile |-> Request("PUT", <<"admin", "ucd-iam-profile", "User">>, {}, {})]

Calls ==
  [database |-> DatabaseRecordCalls @@ DatabaseReadCalls @@ DatabaseOverviewCalls
                @@ DatabaseGrantCalls @@ DatabaseActionCalls,
   instance |-> InstanceUserCalls @@ InstanceOperationCalls @@ InstanceBackupCalls,
   organization |-> OrganizationCalls, user |-> UserCalls, admin |-> AdminCalls]
Methods == UNION {{s} \X DOMAIN Calls[s] : s \in DOMAIN Calls}

-----------------------------------------------------------------------------
(* The command line tool.  `bare' tells what a command makes of a name     *)
(* without an organization: `_', or the null that becomes a word of the    *)
(* path; `to' is the request it sends.                                     *)

Command(does, bare) == [does |-> does, bare |-> bare, to |-> Calls[does[1]][does[2]]]

DatabaseCommands ==
  {Command(<<"database", d>>, "_") :
     d \in {"update", "getUsers", "getSchemas", "getSchemaTables", "getSchemaUserAccess", "restartApi",
            "exposeTableToApi", "updateApiCache", "init", "link", "grantAccess", "revokeAccess"}}
    \cup {Command(<<"database", d>>, "null") : d \in {"get", "search"}}
DatabaseBodyCommands ==
  {Command(<<"database", d>>, "none") :
     d \in {"create", "updateFeaturedList", "updateOrgFeaturedList", "getFeaturedList", "getOrgFeaturedList"}}

InstanceCommands ==
  {Command(<<"instance", d>>, "null") :
     d \in {"create", "list", "get", "addUser", "updateUser", "deleteUser", "stop", "start", "restart",
            "updatePriority", "syncUsers"}}

\* formatInstName, and requests below /api/admin that no route matches.
BackupCommands ==
  {[does |-> <<"instance", d>>, bare |-> "_",
    to |-> Request("POST", <<"admin", "instance", "Org", "Instance", d>>,
                   IF d = "resize" THEN {"Size"} ELSE {}, {})] :
     d \in {"backup", "archive", "restore", "resize"}}

AdminCommands ==
  {Command(<<"admin", d>>, "none") :
     d \in {"getConnections", "getConnectionLog", "sleep", "updateUcdIamProfile"}}
OrganizationCommands ==
  {Command(<<"organization", d>>, "none") : d \in {"get", "getUsers", "update", "create"}}

Commands == DatabaseCommands \cup DatabaseBodyCommands \cup InstanceCommands \cup BackupCommands
              \cup AdminCommands \cup OrganizationCommands
\* A call of the web client is one of a method, always with an organization.
WebCalls == {[does |-> m, bare |-> "none", to |-> Calls[m[1]][m[2]]] : m \in Methods}

-----------------------------------------------------------------------------
(* Routing.                                                                *)

\* express matches the words of a path one by one.
Matches(route, request) ==
  /\ route.verb = request.verb
  /\ Len(route.path) = Len(request.path)
  /\ \A i \in DOMAIN route.path : route.path[i] \in Slots \/ route.path[i] = request.path[i]

\* The routes that match; the first of them is taken.
Matching(request) == SelectSeq(Routes, LAMBDA route : Matches(route, request))

\* The context takes these names from the query or the body alike.
InContextOf(route) ==
  IF "context" \in {route.guards[i] : i \in DOMAIN route.guards} THEN {"Org", "Db", "Instance"} ELSE {}

\* The fields of the request that the handler looks for where they are.
Arrives(route, request) ==
  /\ \A i \in DOMAIN request.path : request.path[i] \in Slots => route.path[i] = request.path[i]
  /\ request.query \subseteq route.query \cup InContextOf(route)
  /\ request.body \subseteq route.body \cup InContextOf(route)
=============================================================================
