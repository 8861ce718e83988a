--------------------------- MODULE ClientCache_proof ---------------------------
(***************************************************************************)
(* What the caches of a page promise, for any number of calls of any       *)
(* methods with any arguments.                                             *)
(*                                                                         *)
(* That callers are given their own answers, and that a question is under  *)
(* way once, are facts about the table of the methods first: a store that  *)
(* methods share has one owner per action, which looks where it writes, by *)
(* all that it sends (MethodsTold).  So whoever finds an entry finds what  *)
(* it would have asked itself (OwnRequest), and a request that others may  *)
(* join is the one they find (Latched).                                    *)
(*                                                                         *)
(* That the public caches are fresh after a write rests on the stores that *)
(* a write outdates being those it empties (PurgedIsOutdated): a request   *)
(* that is served after the write sees it (ServedFresh), and one that was  *)
(* under way when its store was emptied is marked.                         *)
(***************************************************************************)
EXTENDS ClientCache, TLAPS, SequenceTheorems

\* A write empties the stores it outdates, and no other.
LEMMA PurgedIsOutdated ==
  \A m : Outdates(m) = Purges(m)
  BY DEF Outdates, Purges, Cached, Featured, Public

-----------------------------------------------------------------------------
(* The table of the methods: which method the entries of a store belong to. *)

\* The method that reads what it writes in a store, and in one of actions.
Reader ==
  [database |->
     [metadata |-> "get", getFeaturedList |-> "getFeaturedList", users |-> "getUsers",
      isAdmin |-> "isAdmin", schemas |-> "getSchemas", schemaTables |-> "getSchemaTables",
      schemaUserAccess |-> "getSchemaUserAccess", schemaTableAccess |-> "getSchemaTableAccess",
      tablesOverview |-> "getTablesOverview", schemasOverview |-> "getSchemasOverview",
      schemaTablesOverview |-> "getSchemaTablesOverview",
      userAccessOverview |-> "getUserAccessOverview"],
   instance |-> [get |-> "get"],
   organization |-> [metadata |-> "get", users |-> "getUsers", isAdmin |-> "isAdmin"],
   user |-> [myDatabases |-> "myDatabases"]]
Actor ==
  [database |-> [x \in DOMAIN DatabaseActions \cup DOMAIN DatabaseGrants |-> x],
   admin |-> [x \in {"get-connections", "get-connection-log", "sleep-instances",
                     "update-ucd-iam-profile"} |->
                IF x = "get-connections" THEN "getConnections"
                ELSE IF x = "get-connection-log" THEN "getConnectionLog"
                ELSE IF x = "sleep-instances" THEN "sleep" ELSE "updateUcdIamProfile"]]
Shared(store) ==
  \/ store[2] = "actions" /\ store[1] \in DOMAIN Actor
  \/ store[1] \in DOMAIN Reader /\ store[2] \in DOMAIN Reader[store[1]]
Owner(store, as) ==
  <<store[1], IF store[2] = "actions" THEN Actor[store[1]][as] ELSE Reader[store[1]][store[2]]>>

\* What the rest of the proof needs of a row of the table: a shared store has
\* one owner per action, who looks where it writes, by all that it sends.
Told(m) ==
  /\ Shared(Puts(m)) => m = Owner(Puts(m), Row(m).as) \/ m \in Unshared
  /\ Dedupes(m) => Shared(Checks(m)) /\ m = Owner(Checks(m), Row(m).as)
  /\ Dedupes(m) => Checks(m) = Puts(m) \/ m \in Unshared
  /\ Dedupes(m) => Row(m).key = Row(m).sends \/ m \in Forgetful

LEMMA Join ==
  ASSUME NEW f, NEW g
  PROVE  /\ DOMAIN (f ++ g) = DOMAIN f \cup DOMAIN g
         /\ \A x \in DOMAIN f : (f ++ g)[x] = f[x]
         /\ \A x \in DOMAIN g : x \notin DOMAIN f => (f ++ g)[x] = g[x]
  BY DEF ++

LEMMA Names ==
  /\ DOMAIN DatabaseRecords = {"get", "create", "update", "addToFeaturedList",
       "removeFromFeaturedList", "getFeaturedList"}
  /\ DOMAIN DatabaseSearch = {"search", "aggs"}
  /\ DOMAIN DatabaseReads = {"getUsers", "isAdmin", "getSchemas", "getSchemaTables",
       "getSchemaUserAccess", "getSchemaTableAccess"}
  /\ DOMAIN DatabaseOverviews = {"getTablesOverview", "getSchemasOverview",
       "getSchemaTablesOverview", "getUserAccessOverview"}
  /\ DOMAIN DatabaseGrants = {"grantAccess", "bulkGrantAccess", "revokeAccess",
       "bulkRevokeAccess"}
  /\ DOMAIN DatabaseActions = {"restartApi", "exposeTableToApi", "updateApiCache", "init",
       "link"}
  /\ DOMAIN InstanceUsers = {"create", "list", "get", "addUser", "updateUser", "deleteUser"}
  /\ DOMAIN InstanceOperations = {"start", "stop", "restart", "updatePriority"}
  /\ DOMAIN InstanceBackups = {"backup", "archive", "restore", "resize", "syncUsers"}
  /\ DOMAIN DatabaseHandlers = {"onMetadataUpdate", "onCreateUpdate", "onUpdateUpdate",
       "onSearchUpdate", "onAggsUpdate", "onGetUsersUpdate", "onGetSchemasUpdate",
       "onGetSchemaUserAccessUpdate", "onGetSchemaTableAccessUpdate"}
  /\ DOMAIN DatabaseActionHandlers = {"onGrantAccessUpdate", "onRevokeAccessUpdate",
       "onRestartApiUpdate", "onExposeTableToApiUpdate", "onUpdateApiCacheUpdated",
       "onInitUpdate", "onLinkUpdate", "onUpdateFeaturedListUpdate", "onGetFeaturedListUpdate",
       "onIsAdminUpdate", "onTablesOverviewUpdate", "onSchemasOverviewUpdate",
       "onSchemaTablesOverviewUpdate", "onUserAccessOverviewUpdate"}
  BY DEF DatabaseRecords, DatabaseSearch, DatabaseReads, DatabaseOverviews, DatabaseGrants,
         DatabaseActions, InstanceUsers, InstanceOperations, InstanceBackups, DatabaseHandlers,
         DatabaseActionHandlers

DatabaseTable == Services["database"]
InstanceTable == Services["instance"]
DatabaseStores == Handlers["database"]

LEMMA DatabaseRows ==
  /\ DOMAIN DatabaseTable = DOMAIN DatabaseRecords \cup DOMAIN DatabaseSearch \cup DOMAIN
          DatabaseReads \cup DOMAIN DatabaseOverviews \cup DOMAIN DatabaseGrants \cup DOMAIN
          DatabaseActions
  /\ \A a \in DOMAIN DatabaseRecords : DatabaseTable[a] = DatabaseRecords[a]
  /\ \A a \in DOMAIN DatabaseSearch : DatabaseTable[a] = DatabaseSearch[a]
  /\ \A a \in DOMAIN DatabaseReads : DatabaseTable[a] = DatabaseReads[a]
  /\ \A a \in DOMAIN DatabaseOverviews : DatabaseTable[a] = DatabaseOverviews[a]
  /\ \A a \in DOMAIN DatabaseGrants : DatabaseTable[a] = DatabaseGrants[a]
  /\ \A a \in DOMAIN DatabaseActions : DatabaseTable[a] = DatabaseActions[a]
<1> DEFINE j1 == DatabaseRecords
           j2 == j1 ++ DatabaseSearch
           j3 == j2 ++ DatabaseReads
           j4 == j3 ++ DatabaseOverviews
           j5 == j4 ++ DatabaseGrants
           j6 == j5 ++ DatabaseActions
<1>1. DatabaseTable = j6
  BY DEF Services, DatabaseTable
<1>2. /\ DOMAIN j6 = DOMAIN j5 \cup DOMAIN DatabaseActions
      /\ \A a \in DOMAIN j5 : j6[a] = j5[a]
      /\ \A a \in DOMAIN DatabaseActions : a \notin DOMAIN j5 => j6[a] = DatabaseActions[a]
  BY Join
<1> HIDE DEF j6
<1>3. /\ DOMAIN j5 = DOMAIN j4 \cup DOMAIN DatabaseGrants
      /\ \A a \in DOMAIN j4 : j5[a] = j4[a]
      /\ \A a \in DOMAIN DatabaseGrants : a \notin DOMAIN j4 => j5[a] = DatabaseGrants[a]
  BY Join
<1> HIDE DEF j5
<1>4. /\ DOMAIN j4 = DOMAIN j3 \cup DOMAIN DatabaseOverviews
      /\ \A a \in DOMAIN j3 : j4[a] = j3[a]
      /\ \A a \in DOMAIN DatabaseOverviews : a \notin DOMAIN j3 => j4[a] = DatabaseOverviews[a]
  BY Join
<1> HIDE DEF j4
<1>5. /\ DOMAIN j3 = DOMAIN j2 \cup DOMAIN DatabaseReads
      /\ \A a \in DOMAIN j2 : j3[a] = j2[a]
      /\ \A a \in DOMAIN DatabaseReads : a \notin DOMAIN j2 => j3[a] = DatabaseReads[a]
  BY Join
<1> HIDE DEF j3
<1>6. /\ DOMAIN j2 = DOMAIN j1 \cup DOMAIN DatabaseSearch
      /\ \A a \in DOMAIN j1 : j2[a] = j1[a]
      /\ \A a \in DOMAIN DatabaseSearch : a \notin DOMAIN j1 => j2[a] = DatabaseSearch[a]
  BY Join
<1> HIDE DEF j2
<1> QED BY <1>1, <1>2, <1>3, <1>4, <1>5, <1>6, Names

LEMMA InstanceRows ==
  /\ DOMAIN InstanceTable = DOMAIN InstanceUsers \cup DOMAIN InstanceOperations \cup DOMAIN
          InstanceBackups
  /\ \A a \in DOMAIN InstanceUsers : InstanceTable[a] = InstanceUsers[a]
  /\ \A a \in DOMAIN InstanceOperations : InstanceTable[a] = InstanceOperations[a]
  /\ \A a \in DOMAIN InstanceBackups : InstanceTable[a] = InstanceBackups[a]
<1> DEFINE j1 == InstanceUsers
           j2 == j1 ++ InstanceOperations
           j3 == j2 ++ InstanceBackups
<1>1. InstanceTable = j3
  BY DEF Services, InstanceTable
<1>2. /\ DOMAIN j3 = DOMAIN j2 \cup DOMAIN InstanceBackups
      /\ \A a \in DOMAIN j2 : j3[a] = j2[a]
      /\ \A a \in DOMAIN InstanceBackups : a \notin DOMAIN j2 => j3[a] = InstanceBackups[a]
  BY Join
<1> HIDE DEF j3
<1>3. /\ DOMAIN j2 = DOMAIN j1 \cup DOMAIN InstanceOperations
      /\ \A a \in DOMAIN j1 : j2[a] = j1[a]
      /\ \A a \in DOMAIN InstanceOperations : a \notin DOMAIN j1 => j2[a] = InstanceOperations[a]
  BY Join
<1> HIDE DEF j2
<1> QED BY <1>1, <1>2, <1>3, Names

LEMMA HandlerRows ==
  /\ DOMAIN DatabaseStores = DOMAIN DatabaseHandlers \cup DOMAIN DatabaseActionHandlers
  /\ \A a \in DOMAIN DatabaseHandlers : DatabaseStores[a] = DatabaseHandlers[a]
  /\ \A a \in DOMAIN DatabaseActionHandlers : DatabaseStores[a] = DatabaseActionHandlers[a]
<1> DEFINE j1 == DatabaseHandlers
           j2 == j1 ++ DatabaseActionHandlers
<1>1. DatabaseStores = j2
  BY DEF Handlers, DatabaseStores
<1>2. /\ DOMAIN j2 = DOMAIN j1 \cup DOMAIN DatabaseActionHandlers
      /\ \A a \in DOMAIN j1 : j2[a] = j1[a]
      /\ \A a \in DOMAIN DatabaseActionHandlers :
            a \notin DOMAIN j1 => j2[a] = DatabaseActionHandlers[a]
  BY Join
<1> HIDE DEF j2
<1> QED BY <1>1, <1>2, Names

LEMMA OtherRows ==
  /\ DOMAIN Services = {"database", "instance", "organization", "user", "admin"}
  /\ Services["organization"] = Organization /\ Services["user"] = User
  /\ Services["admin"] = AdminMethods
  /\ Handlers["instance"] = InstanceHandlers /\ Handlers["organization"] = OrganizationHandlers
  /\ Handlers["user"] = UserHandlers /\ Handlers["admin"] = AdminHandlers
  BY DEF Services, Handlers

\* Rows of one form.
LEMMA CheckedTold ==
  ASSUME NEW m, NEW c, NEW o, NEW k, Row(m) = Checked(c, o, k), Handlers[m[1]][o] = c, c # "",
         Shared(<<m[1], c>>), Owner(<<m[1], c>>, "") = m
  PROVE  Told(m)
<1> DEFINE r == Row(m)
<1>1. r = Checked(c, o, k)
  OBVIOUS
<1> HIDE DEF r
<1>2. r.check = c /\ r.on = o /\ r.key = k /\ r.sends = k /\ r.as = ""
  BY <1>1 DEF Checked
<1> QED BY <1>2 DEF Told, Dedupes, Checks, Puts, r
LEMMA AsCheckedTold ==
  ASSUME NEW m, NEW a, NEW c, NEW o, NEW k, Row(m) = As(a, Checked(c, o, k)),
         Handlers[m[1]][o] = c, c # "", Shared(<<m[1], c>>), Owner(<<m[1], c>>, a) = m
  PROVE  Told(m)
<1> DEFINE r == Row(m)
<1>1. r = As(a, Checked(c, o, k))
  OBVIOUS
<1> HIDE DEF r
<1>2. r.check = c /\ r.on = o /\ r.key = k /\ r.sends = k /\ r.as = a
  BY <1>1 DEF Checked, As
<1> QED BY <1>2 DEF Told, Dedupes, Checks, Puts, r
LEMMA SentTold ==
  ASSUME NEW m, NEW c, NEW o, NEW k, NEW s, Row(m) = Sent(o, k, s), Handlers[m[1]][o] = c,
         ~ Shared(<<m[1], c>>)
  PROVE  Told(m)
<1> DEFINE r == Row(m)
<1>1. r = Sent(o, k, s)
  OBVIOUS
<1> HIDE DEF r
<1>2. r.check = "" /\ r.on = o
  BY <1>1 DEF Sent
<1> QED BY <1>2 DEF Told, Dedupes, Checks, Puts, r
LEMMA NumberedTold ==
  ASSUME NEW m, NEW c, NEW o, NEW s, Row(m) = Numbered(o, s), Handlers[m[1]][o] = c,
         ~ Shared(<<m[1], c>>)
  PROVE  Told(m)
<1> DEFINE r == Row(m)
<1>1. r = Numbered(o, s)
  OBVIOUS
<1> HIDE DEF r
<1>2. r.check = "" /\ r.on = o
  BY <1>1 DEF Numbered
<1> QED BY <1>2 DEF Told, Dedupes, Checks, Puts, r
LEMMA AsSentTold ==
  ASSUME NEW m, NEW a, NEW c, NEW o, NEW k, NEW s, Row(m) = As(a, Sent(o, k, s)),
         Handlers[m[1]][o] = c, Shared(<<m[1], c>>) => Owner(<<m[1], c>>, a) = m
  PROVE  Told(m)
<1> DEFINE r == Row(m)
<1>1. r = As(a, Sent(o, k, s))
  OBVIOUS
<1> HIDE DEF r
<1>2. r.check = "" /\ r.on = o /\ r.as = a
  BY <1>1 DEF Sent, As
<1> QED BY <1>2 DEF Told, Dedupes, Checks, Puts, r

\* DatabaseService and DatabaseStore.
LEMMA DatabaseCalls ==
  /\ Row(<<"database", "get">>) = Checked("metadata", "onMetadataUpdate", OrgDb)
  /\ Row(<<"database", "create">>) = Sent("onCreateUpdate", OrgDb, OrgDb \cup {"opts"})
  /\ Row(<<"database", "update">>) = Sent("onUpdateUpdate", OrgDb, OrgDb \cup {"opts"})
  /\ Row(<<"database", "addToFeaturedList">>) = As("add", Sent("onUpdateFeaturedListUpdate",
       OrgDb \cup {"organizationList", "orderIndex"}, OrgDb \cup {"organizationList",
       "orderIndex"}))
  /\ Row(<<"database", "removeFromFeaturedList">>) = As("remove",
       Sent("onUpdateFeaturedListUpdate", OrgDb \cup {"organizationList"}, OrgDb \cup
       {"organizationList"}))
  /\ Row(<<"database", "getFeaturedList">>) = Checked("getFeaturedList",
       "onGetFeaturedListUpdate", {"org"})
  /\ Row(<<"database", "search">>) = Numbered("onSearchUpdate", {"opts"})
  /\ Row(<<"database", "aggs">>) = Numbered("onAggsUpdate", {"aggs", "opts"})
  /\ Row(<<"database", "getUsers">>) = Checked("users", "onGetUsersUpdate", OrgDb)
  /\ Row(<<"database", "isAdmin">>) = Checked("isAdmin", "onIsAdminUpdate", OrgDb)
  /\ Row(<<"database", "getSchemas">>) = Checked("schemas", "onGetSchemasUpdate", OrgDb)
  /\ Row(<<"database", "getSchemaTables">>) = Checked("schemaTables", "onGetSchemasUpdate",
       OrgDb \cup {"schema"})
  /\ Row(<<"database", "getSchemaUserAccess">>) = Checked("schemaUserAccess",
       "onGetSchemaUserAccessUpdate", OrgDb \cup {"schema", "user"})
  /\ Row(<<"database", "getSchemaTableAccess">>) = Checked("schemaTableAccess",
       "onGetSchemaTableAccessUpdate", OrgDb \cup {"schema", "table"})
  /\ Row(<<"database", "getTablesOverview">>) = Checked("tablesOverview",
       "onTablesOverviewUpdate", OrgDb)
  /\ Row(<<"database", "getSchemasOverview">>) = Checked("schemasOverview",
       "onSchemasOverviewUpdate", OrgDb)
  /\ Row(<<"database", "getSchemaTablesOverview">>) = Checked("schemaTablesOverview",
       "onSchemaTablesOverviewUpdate", OrgDb \cup {"schema"})
  /\ Row(<<"database", "getUserAccessOverview">>) = Checked("userAccessOverview",
       "onUserAccessOverviewUpdate", OrgDb)
  /\ Row(<<"database", "grantAccess">>) = As("grantAccess", Sent("onGrantAccessUpdate",
       OneGrant, OneGrant))
  /\ Row(<<"database", "bulkGrantAccess">>) = As("bulkGrantAccess", Sent("onGrantAccessUpdate",
       OrgDb \cup {"grants"}, OrgDb \cup {"grants"}))
  /\ Row(<<"database", "revokeAccess">>) = As("revokeAccess", Sent("onRevokeAccessUpdate",
       OneGrant, OneGrant))
  /\ Row(<<"database", "bulkRevokeAccess">>) = As("bulkRevokeAccess",
       Sent("onRevokeAccessUpdate", OrgDb \cup {"grants"}, OrgDb \cup {"grants"}))
  /\ Row(<<"database", "restartApi">>) = As("restartApi", Checked("actions",
       "onRestartApiUpdate", OrgDb))
  /\ Row(<<"database", "exposeTableToApi">>) = As("exposeTableToApi", Checked("actions",
       "onExposeTableToApiUpdate", OrgDb))
  /\ Row(<<"database", "updateApiCache">>) = As("updateApiCache", Checked("actions",
       "onUpdateApiCacheUpdated", OrgDb))
  /\ Row(<<"database", "init">>) = As("init", Checked("actions", "onInitUpdate", OrgDb))
  /\ Row(<<"database", "link">>) = As("link", Sent("onLinkUpdate", OrgDb \cup {"remote"}, OrgDb
       \cup {"remote", "opts"}))
  BY DatabaseRows, Names DEF Row, DatabaseTable, DatabaseRecords, DatabaseSearch, DatabaseReads,
         DatabaseOverviews, DatabaseGrants, DatabaseActions
LEMMA DatabasePuts ==
  /\ Handlers["database"]["onMetadataUpdate"] = "metadata"
  /\ Handlers["database"]["onCreateUpdate"] = "create"
  /\ Handlers["database"]["onUpdateUpdate"] = "update"
  /\ Handlers["database"]["onSearchUpdate"] = "search"
  /\ Handlers["database"]["onAggsUpdate"] = "aggs"
  /\ Handlers["database"]["onGetUsersUpdate"] = "users"
  /\ Handlers["database"]["onGetSchemasUpdate"] = "schemas"
  /\ Handlers["database"]["onGetSchemaUserAccessUpdate"] = "schemaUserAccess"
  /\ Handlers["database"]["onGetSchemaTableAccessUpdate"] = "schemaTableAccess"
  /\ Handlers["database"]["onGrantAccessUpdate"] = "actions"
  /\ Handlers["database"]["onRevokeAccessUpdate"] = "actions"
  /\ Handlers["database"]["onRestartApiUpdate"] = "actions"
  /\ Handlers["database"]["onExposeTableToApiUpdate"] = "actions"
  /\ Handlers["database"]["onUpdateApiCacheUpdated"] = "actions"
  /\ Handlers["database"]["onInitUpdate"] = "actions"
  /\ Handlers["database"]["onLinkUpdate"] = "actions"
  /\ Handlers["database"]["onUpdateFeaturedListUpdate"] = "updateFeaturedList"
  /\ Handlers["database"]["onGetFeaturedListUpdate"] = "getFeaturedList"
  /\ Handlers["database"]["onIsAdminUpdate"] = "isAdmin"
  /\ Handlers["database"]["onTablesOverviewUpdate"] = "tablesOverview"
  /\ Handlers["database"]["onSchemasOverviewUpdate"] = "schemasOverview"
  /\ Handlers["database"]["onSchemaTablesOverviewUpdate"] = "schemaTablesOverview"
  /\ Handlers["database"]["onUserAccessOverviewUpdate"] = "userAccessOverview"
  BY HandlerRows, Names DEF DatabaseStores, DatabaseHandlers, DatabaseActionHandlers
LEMMA DatabaseShared ==
  /\ Shared(<<"database", "metadata">>)
  /\ ~ Shared(<<"database", "create">>)
  /\ ~ Shared(<<"database", "update">>)
  /\ ~ Shared(<<"database", "search">>)
  /\ ~ Shared(<<"database", "aggs">>)
  /\ Shared(<<"database", "users">>)
  /\ Shared(<<"database", "schemas">>)
  /\ Shared(<<"database", "schemaUserAccess">>)
  /\ Shared(<<"database", "schemaTableAccess">>)
  /\ Shared(<<"database", "actions">>)
  /\ ~ Shared(<<"database", "updateFeaturedList">>)
  /\ Shared(<<"database", "getFeaturedList">>)
  /\ Shared(<<"database", "isAdmin">>)
  /\ Shared(<<"database", "tablesOverview">>)
  /\ Shared(<<"database", "schemasOverview">>)
  /\ Shared(<<"database", "schemaTablesOverview">>)
  /\ Shared(<<"database", "userAccessOverview">>)
  /\ Shared(<<"database", "schemaTables">>)
  BY DEF Shared, Reader, Actor
LEMMA DatabaseOwners ==
  /\ Owner(<<"database", "metadata">>, "") = <<"database", "get">>
  /\ Owner(<<"database", "getFeaturedList">>, "") = <<"database", "getFeaturedList">>
  /\ Owner(<<"database", "users">>, "") = <<"database", "getUsers">>
  /\ Owner(<<"database", "isAdmin">>, "") = <<"database", "isAdmin">>
  /\ Owner(<<"database", "schemas">>, "") = <<"database", "getSchemas">>
  /\ Owner(<<"database", "schemaTables">>, "") = <<"database", "getSchemaTables">>
  /\ Owner(<<"database", "schemaUserAccess">>, "") = <<"database", "getSchemaUserAccess">>
  /\ Owner(<<"database", "schemaTableAccess">>, "") = <<"database", "getSchemaTableAccess">>
  /\ Owner(<<"database", "tablesOverview">>, "") = <<"database", "getTablesOverview">>
  /\ Owner(<<"database", "schemasOverview">>, "") = <<"database", "getSchemasOverview">>
  /\ Owner(<<"database", "schemaTablesOverview">>, "") = <<"database", "getSchemaTablesOverview">>
  /\ Owner(<<"database", "userAccessOverview">>, "") = <<"database", "getUserAccessOverview">>
  /\ Owner(<<"database", "actions">>, "grantAccess") = <<"database", "grantAccess">>
  /\ Owner(<<"database", "actions">>, "bulkGrantAccess") = <<"database", "bulkGrantAccess">>
  /\ Owner(<<"database", "actions">>, "revokeAccess") = <<"database", "revokeAccess">>
  /\ Owner(<<"database", "actions">>, "bulkRevokeAccess") = <<"database", "bulkRevokeAccess">>
  /\ Owner(<<"database", "actions">>, "restartApi") = <<"database", "restartApi">>
  /\ Owner(<<"database", "actions">>, "exposeTableToApi") = <<"database", "exposeTableToApi">>
  /\ Owner(<<"database", "actions">>, "updateApiCache") = <<"database", "updateApiCache">>
  /\ Owner(<<"database", "actions">>, "init") = <<"database", "init">>
  /\ Owner(<<"database", "actions">>, "link") = <<"database", "link">>
  BY Names DEF Owner, Reader, Actor
LEMMA DatabaseTold == \A a \in DOMAIN Services["database"] : Told(<<"database", a>>)
<1>1. Told(<<"database", "get">>)
  <2>1. Row(<<"database", "get">>) = Checked("metadata", "onMetadataUpdate", OrgDb)
    BY DatabaseCalls
  <2>2. /\ Handlers["database"]["onMetadataUpdate"] = "metadata"
        /\ Shared(<<"database", "metadata">>)
    BY DatabasePuts, DatabaseShared
  <2>3. Owner(<<"database", "metadata">>, "") = <<"database", "get">>
    BY DatabaseOwners
  <2> QED BY <2>1, <2>2, <2>3, CheckedTold
<1>2. Told(<<"database", "create">>)
  <2>1. Row(<<"database", "create">>) = Sent("onCreateUpdate", OrgDb, OrgDb \cup {"opts"})
    BY DatabaseCalls
  <2>2. /\ Handlers["database"]["onCreateUpdate"] = "create"
        /\ ~ Shared(<<"database", "create">>)
    BY DatabasePuts, DatabaseShared
  <2> QED BY <2>1, <2>2, SentTold
<1>3. Told(<<"database", "update">>)
  <2>1. Row(<<"database", "update">>) = Sent("onUpdateUpdate", OrgDb, OrgDb \cup {"opts"})
    BY DatabaseCalls
  <2>2. /\ Handlers["database"]["onUpdateUpdate"] = "update"
        /\ ~ Shared(<<"database", "update">>)
    BY DatabasePuts, DatabaseShared
  <2> QED BY <2>1, <2>2, SentTold
<1>4. Told(<<"database", "addToFeaturedList">>)
  <2>1. Row(<<"database", "addToFeaturedList">>) = As("add", Sent("onUpdateFeaturedListUpdate",
          OrgDb \cup {"organizationList", "orderIndex"}, OrgDb \cup {"organizationList",
          "orderIndex"}))
    BY DatabaseCalls
  <2>2. /\ Handlers["database"]["onUpdateFeaturedListUpdate"] = "updateFeaturedList"
        /\ ~ Shared(<<"database", "updateFeaturedList">>)
    BY DatabasePuts, DatabaseShared
  <2> QED BY <2>1, <2>2, AsSentTold
<1>5. Told(<<"database", "removeFromFeaturedList">>)
  <2>1. Row(<<"database", "removeFromFeaturedList">>) = As("remove",
          Sent("onUpdateFeaturedListUpdate", OrgDb \cup {"organizationList"}, OrgDb \cup
          {"organizationList"}))
    BY DatabaseCalls
  <2>2. /\ Handlers["database"]["onUpdateFeaturedListUpdate"] = "updateFeaturedList"
        /\ ~ Shared(<<"database", "updateFeaturedList">>)
    BY DatabasePuts, DatabaseShared
  <2> QED BY <2>1, <2>2, AsSentTold
<1>6. Told(<<"database", "getFeaturedList">>)
  <2>1. Row(<<"database", "getFeaturedList">>) = Checked("getFeaturedList",
          "onGetFeaturedListUpdate", {"org"})
    BY DatabaseCalls
  <2>2. /\ Handlers["database"]["onGetFeaturedListUpdate"] = "getFeaturedList"
        /\ Shared(<<"database", "getFeaturedList">>)
    BY DatabasePuts, DatabaseShared
  <2>3. Owner(<<"database", "getFeaturedList">>, "") = <<"database", "getFeaturedList">>
    BY DatabaseOwners
  <2> QED BY <2>1, <2>2, <2>3, CheckedTold
<1>7. Told(<<"database", "search">>)
  <2>1. Row(<<"database", "search">>) = Numbered("onSearchUpdate", {"opts"})
    BY DatabaseCalls
  <2>2. /\ Handlers["database"]["onSearchUpdate"] = "search"
        /\ ~ Shared(<<"database", "search">>)
    BY DatabasePuts, DatabaseShared
  <2> QED BY <2>1, <2>2, NumberedTold
<1>8. Told(<<"database", "aggs">>)
  <2>1. Row(<<"database", "aggs">>) = Numbered("onAggsUpdate", {"aggs", "opts"})
    BY DatabaseCalls
  <2>2. /\ Handlers["database"]["onAggsUpdate"] = "aggs"
        /\ ~ Shared(<<"database", "aggs">>)
    BY DatabasePuts, DatabaseShared
  <2> QED BY <2>1, <2>2, NumberedTold
<1>9. Told(<<"database", "getUsers">>)
  <2>1. Row(<<"database", "getUsers">>) = Checked("users", "onGetUsersUpdate", OrgDb)
    BY DatabaseCalls
  <2>2. /\ Handlers["database"]["onGetUsersUpdate"] = "users"
        /\ Shared(<<"database", "users">>)
    BY DatabasePuts, DatabaseShared
  <2>3. Owner(<<"database", "users">>, "") = <<"database", "getUsers">>
    BY DatabaseOwners
  <2> QED BY <2>1, <2>2, <2>3, CheckedTold
<1>10. Told(<<"database", "isAdmin">>)
  <2>1. Row(<<"database", "isAdmin">>) = Checked("isAdmin", "onIsAdminUpdate", OrgDb)
    BY DatabaseCalls
  <2>2. /\ Handlers["database"]["onIsAdminUpdate"] = "isAdmin"
        /\ Shared(<<"database", "isAdmin">>)
    BY DatabasePuts, DatabaseShared
  <2>3. Owner(<<"database", "isAdmin">>, "") = <<"database", "isAdmin">>
    BY DatabaseOwners
  <2> QED BY <2>1, <2>2, <2>3, CheckedTold
<1>11. Told(<<"database", "getSchemas">>)
  <2>1. Row(<<"database", "getSchemas">>) = Checked("schemas", "onGetSchemasUpdate", OrgDb)
    BY DatabaseCalls
  <2>2. /\ Handlers["database"]["onGetSchemasUpdate"] = "schemas"
        /\ Shared(<<"database", "schemas">>)
    BY DatabasePuts, DatabaseShared
  <2>3. Owner(<<"database", "schemas">>, "") = <<"database", "getSchemas">>
    BY DatabaseOwners
  <2> QED BY <2>1, <2>2, <2>3, CheckedTold
<1>12. Told(<<"database", "getSchemaTables">>)
  <2> DEFINE r == Row(<<"database", "getSchemaTables">>)
  <2>1. r = Checked("schemaTables", "onGetSchemasUpdate", OrgDb \cup {"schema"})
    BY DatabaseCalls
  <2> HIDE DEF r
  <2>2. r.check = "schemaTables" /\ r.key = r.sends /\ r.as = ""
    BY <2>1 DEF Checked
  <2>3. /\ Shared(<<"database", "schemaTables">>)
        /\ Owner(<<"database", "schemaTables">>, "") = <<"database", "getSchemaTables">>
    BY DatabaseShared, DatabaseOwners
  <2> QED BY <2>2, <2>3 DEF Told, Unshared, Dedupes, Checks, r
<1>13. Told(<<"database", "getSchemaUserAccess">>)
  <2>1. Row(<<"database", "getSchemaUserAccess">>) = Checked("schemaUserAccess",
          "onGetSchemaUserAccessUpdate", OrgDb \cup {"schema", "user"})
    BY DatabaseCalls
  <2>2. /\ Handlers["database"]["onGetSchemaUserAccessUpdate"] = "schemaUserAccess"
        /\ Shared(<<"database", "schemaUserAccess">>)
    BY DatabasePuts, DatabaseShared
  <2>3. Owner(<<"database", "schemaUserAccess">>, "") = <<"database", "getSchemaUserAccess">>
    BY DatabaseOwners
  <2> QED BY <2>1, <2>2, <2>3, CheckedTold
<1>14. Told(<<"database", "getSchemaTableAccess">>)
  <2>1. Row(<<"database", "getSchemaTableAccess">>) = Checked("schemaTableAccess",
          "onGetSchemaTableAccessUpdate", OrgDb \cup {"schema", "table"})
    BY DatabaseCalls
  <2>2. /\ Handlers["database"]["onGetSchemaTableAccessUpdate"] = "schemaTableAccess"
        /\ Shared(<<"database", "schemaTableAccess">>)
    BY DatabasePuts, DatabaseShared
  <2>3. Owner(<<"database", "schemaTableAccess">>, "") = <<"database", "getSchemaTableAccess">>
    BY DatabaseOwners
  <2> QED BY <2>1, <2>2, <2>3, CheckedTold
<1>15. Told(<<"database", "getTablesOverview">>)
  <2>1. Row(<<"database", "getTablesOverview">>) = Checked("tablesOverview",
          "onTablesOverviewUpdate", OrgDb)
    BY DatabaseCalls
  <2>2. /\ Handlers["database"]["onTablesOverviewUpdate"] = "tablesOverview"
        /\ Shared(<<"database", "tablesOverview">>)
    BY DatabasePuts, DatabaseShared
  <2>3. Owner(<<"database", "tablesOverview">>, "") = <<"database", "getTablesOverview">>
    BY DatabaseOwners
  <2> QED BY <2>1, <2>2, <2>3, CheckedTold
<1>16. Told(<<"database", "getSchemasOverview">>)
  <2>1. Row(<<"database", "getSchemasOverview">>) = Checked("schemasOverview",
          "onSchemasOverviewUpdate", OrgDb)
    BY DatabaseCalls
  <2>2. /\ Handlers["database"]["onSchemasOverviewUpdate"] = "schemasOverview"
        /\ Shared(<<"database", "schemasOverview">>)
    BY DatabasePuts, DatabaseShared
  <2>3. Owner(<<"database", "schemasOverview">>, "") = <<"database", "getSchemasOverview">>
    BY DatabaseOwners
  <2> QED BY <2>1, <2>2, <2>3, CheckedTold
<1>17. Told(<<"database", "getSchemaTablesOverview">>)
  <2>1. Row(<<"database", "getSchemaTablesOverview">>) = Checked("schemaTablesOverview",
          "onSchemaTablesOverviewUpdate", OrgDb \cup {"schema"})
    BY DatabaseCalls
  <2>2. /\ Handlers["database"]["onSchemaTablesOverviewUpdate"] = "schemaTablesOverview"
        /\ Shared(<<"database", "schemaTablesOverview">>)
    BY DatabasePuts, DatabaseShared
  <2>3. Owner(<<"database", "schemaTablesOverview">>, "") = <<"database", "getSchemaTablesOverview">>
    BY DatabaseOwners
  <2> QED BY <2>1, <2>2, <2>3, CheckedTold
<1>18. Told(<<"database", "getUserAccessOverview">>)
  <2>1. Row(<<"database", "getUserAccessOverview">>) = Checked("userAccessOverview",
          "onUserAccessOverviewUpdate", OrgDb)
    BY DatabaseCalls
  <2>2. /\ Handlers["database"]["onUserAccessOverviewUpdate"] = "userAccessOverview"
        /\ Shared(<<"database", "userAccessOverview">>)
    BY DatabasePuts, DatabaseShared
  <2>3. Owner(<<"database", "userAccessOverview">>, "") = <<"database", "getUserAccessOverview">>
    BY DatabaseOwners
  <2> QED BY <2>1, <2>2, <2>3, CheckedTold
<1>19. Told(<<"database", "grantAccess">>)
  <2>1. Row(<<"database", "grantAccess">>) = As("grantAccess", Sent("onGrantAccessUpdate",
          OneGrant, OneGrant))
    BY DatabaseCalls
  <2>2. /\ Handlers["database"]["onGrantAccessUpdate"] = "actions"
        /\ Shared(<<"database", "actions">>)
    BY DatabasePuts, DatabaseShared
  <2>3. Owner(<<"database", "actions">>, "grantAccess") = <<"database", "grantAccess">>
    BY DatabaseOwners
  <2> QED BY <2>1, <2>2, <2>3, AsSentTold
<1>20. Told(<<"database", "bulkGrantAccess">>)
  <2>1. Row(<<"database", "bulkGrantAccess">>) = As("bulkGrantAccess",
          Sent("onGrantAccessUpdate", OrgDb \cup {"grants"}, OrgDb \cup {"grants"}))
    BY DatabaseCalls
  <2>2. /\ Handlers["database"]["onGrantAccessUpdate"] = "actions"
        /\ Shared(<<"database", "actions">>)
    BY DatabasePuts, DatabaseShared
  <2>3. Owner(<<"database", "actions">>, "bulkGrantAccess") = <<"database", "bulkGrantAccess">>
    BY DatabaseOwners
  <2> QED BY <2>1, <2>2, <2>3, AsSentTold
<1>21. Told(<<"database", "revokeAccess">>)
  <2>1. Row(<<"database", "revokeAccess">>) = As("revokeAccess", Sent("onRevokeAccessUpdate",
          OneGrant, OneGrant))
    BY DatabaseCalls
  <2>2. /\ Handlers["database"]["onRevokeAccessUpdate"] = "actions"
        /\ Shared(<<"database", "actions">>)
    BY DatabasePuts, DatabaseShared
  <2>3. Owner(<<"database", "actions">>, "revokeAccess") = <<"database", "revokeAccess">>
    BY DatabaseOwners
  <2> QED BY <2>1, <2>2, <2>3, AsSentTold
<1>22. Told(<<"database", "bulkRevokeAccess">>)
  <2>1. Row(<<"database", "bulkRevokeAccess">>) = As("bulkRevokeAccess",
          Sent("onRevokeAccessUpdate", OrgDb \cup {"grants"}, OrgDb \cup {"grants"}))
    BY DatabaseCalls
  <2>2. /\ Handlers["database"]["onRevokeAccessUpdate"] = "actions"
        /\ Shared(<<"database", "actions">>)
    BY DatabasePuts, DatabaseShared
  <2>3. Owner(<<"database", "actions">>, "bulkRevokeAccess") = <<"database", "bulkRevokeAccess">>
    BY DatabaseOwners
  <2> QED BY <2>1, <2>2, <2>3, AsSentTold
<1>23. Told(<<"database", "restartApi">>)
  <2>1. Row(<<"database", "restartApi">>) = As("restartApi", Checked("actions",
          "onRestartApiUpdate", OrgDb))
    BY DatabaseCalls
  <2>2. /\ Handlers["database"]["onRestartApiUpdate"] = "actions"
        /\ Shared(<<"database", "actions">>)
    BY DatabasePuts, DatabaseShared
  <2>3. Owner(<<"database", "actions">>, "restartApi") = <<"database", "restartApi">>
    BY DatabaseOwners
  <2> QED BY <2>1, <2>2, <2>3, AsCheckedTold
<1>24. Told(<<"database", "exposeTableToApi">>)
  <2>1. Row(<<"database", "exposeTableToApi">>) = As("exposeTableToApi", Checked("actions",
          "onExposeTableToApiUpdate", OrgDb))
    BY DatabaseCalls
  <2>2. /\ Handlers["database"]["onExposeTableToApiUpdate"] = "actions"
        /\ Shared(<<"database", "actions">>)
    BY DatabasePuts, DatabaseShared
  <2>3. Owner(<<"database", "actions">>, "exposeTableToApi") = <<"database", "exposeTableToApi">>
    BY DatabaseOwners
  <2> QED BY <2>1, <2>2, <2>3, AsCheckedTold
<1>25. Told(<<"database", "updateApiCache">>)
  <2>1. Row(<<"database", "updateApiCache">>) = As("updateApiCache", Checked("actions",
          "onUpdateApiCacheUpdated", OrgDb))
    BY DatabaseCalls
  <2>2. /\ Handlers["database"]["onUpdateApiCacheUpdated"] = "actions"
        /\ Shared(<<"database", "actions">>)
    BY DatabasePuts, DatabaseShared
  <2>3. Owner(<<"database", "actions">>, "updateApiCache") = <<"database", "updateApiCache">>
    BY DatabaseOwners
  <2> QED BY <2>1, <2>2, <2>3, AsCheckedTold
<1>26. Told(<<"database", "init">>)
  <2>1. Row(<<"database", "init">>) = As("init", Checked("actions", "onInitUpdate", OrgDb))
    BY DatabaseCalls
  <2>2. /\ Handlers["database"]["onInitUpdate"] = "actions"
        /\ Shared(<<"database", "actions">>)
    BY DatabasePuts, DatabaseShared
  <2>3. Owner(<<"database", "actions">>, "init") = <<"database", "init">>
    BY DatabaseOwners
  <2> QED BY <2>1, <2>2, <2>3, AsCheckedTold
<1>27. Told(<<"database", "link">>)
  <2>1. Row(<<"database", "link">>) = As("link", Sent("onLinkUpdate", OrgDb \cup {"remote"},
          OrgDb \cup {"remote", "opts"}))
    BY DatabaseCalls
  <2>2. /\ Handlers["database"]["onLinkUpdate"] = "actions"
        /\ Shared(<<"database", "actions">>)
    BY DatabasePuts, DatabaseShared
  <2>3. Owner(<<"database", "actions">>, "link") = <<"database", "link">>
    BY DatabaseOwners
  <2> QED BY <2>1, <2>2, <2>3, AsSentTold
<1> QED BY <1>1, <1>2, <1>3, <1>4, <1>5, <1>6, <1>7, <1>8, <1>9, <1>10, <1>11, <1>12, <1>13,
       <1>14, <1>15, <1>16, <1>17, <1>18, <1>19, <1>20, <1>21, <1>22, <1>23, <1>24, <1>25,
       <1>26, <1>27, DatabaseRows, Names DEF DatabaseTable, DatabaseRecords, DatabaseSearch,
       DatabaseReads, DatabaseOverviews, DatabaseGrants, DatabaseActions

\* InstanceService and InstanceStore.
LEMMA InstanceCalls ==
  /\ Row(<<"instance", "create">>) = Sent("onCreateUpdate", OrgInstance, OrgInstance \cup
       {"opts"})
  /\ Row(<<"instance", "list">>) = Sent("onListUpdate", {"opts"}, {"opts"})
  /\ Row(<<"instance", "get">>) = Checked("get", "onGetUpdate", OrgInstance)
  /\ Row(<<"instance", "addUser">>) = Sent("onUserAddUpdate", OneUser, OneUser \cup {"opts"})
  /\ Row(<<"instance", "updateUser">>) = As("update-user", Sent("onUserUpdateUpdate", OneUser,
       OneUser \cup {"opts"}))
  /\ Row(<<"instance", "deleteUser">>) = As("delete-user", Sent("onUserDeleteUpdate", OneUser,
       OneUser))
  /\ Row(<<"instance", "start">>) = Sent("onStartUpdate", OrgInstance, OrgInstance \cup
       {"opts"})
  /\ Row(<<"instance", "stop">>) = Sent("onStopUpdate", OrgInstance, OrgInstance)
  /\ Row(<<"instance", "restart">>) = Sent("onRestartUpdate", OrgInstance, OrgInstance)
  /\ Row(<<"instance", "updatePriority">>) = Sent("onPriorityUpdate", OrgInstance, OrgInstance
       \cup {"opts"})
  /\ Row(<<"instance", "backup">>) = Sent("onBackupUpdate", OrgInstance, OrgInstance)
  /\ Row(<<"instance", "archive">>) = Sent("onArchiveUpdate", OrgInstance, OrgInstance)
  /\ Row(<<"instance", "restore">>) = Sent("onRestoreUpdate", OrgInstance, OrgInstance)
  /\ Row(<<"instance", "resize">>) = Sent("onResizeUpdate", OrgInstance, OrgInstance \cup
       {"opts"})
  /\ Row(<<"instance", "syncUsers">>) = Sent("onSyncUsersUpdate", OrgInstance, OrgInstance \cup
       {"opts"})
  BY InstanceRows, Names DEF Row, InstanceTable, InstanceUsers, InstanceOperations,
         InstanceBackups
LEMMA InstancePuts ==
  /\ Handlers["instance"]["onCreateUpdate"] = "create"
  /\ Handlers["instance"]["onListUpdate"] = "list"
  /\ Handlers["instance"]["onGetUpdate"] = "get"
  /\ Handlers["instance"]["onUserAddUpdate"] = "addUser"
  /\ Handlers["instance"]["onUserUpdateUpdate"] = "actions"
  /\ Handlers["instance"]["onUserDeleteUpdate"] = "actions"
  /\ Handlers["instance"]["onStartUpdate"] = "start"
  /\ Handlers["instance"]["onStopUpdate"] = "stop"
  /\ Handlers["instance"]["onRestartUpdate"] = "restart"
  /\ Handlers["instance"]["onPriorityUpdate"] = "priority"
  /\ Handlers["instance"]["onBackupUpdate"] = "backup"
  /\ Handlers["instance"]["onArchiveUpdate"] = "archive"
  /\ Handlers["instance"]["onRestoreUpdate"] = "restore"
  /\ Handlers["instance"]["onResizeUpdate"] = "resize"
  /\ Handlers["instance"]["onSyncUsersUpdate"] = "syncUsers"
  BY OtherRows DEF InstanceHandlers
LEMMA InstanceShared ==
  /\ ~ Shared(<<"instance", "create">>)
  /\ ~ Shared(<<"instance", "list">>)
  /\ Shared(<<"instance", "get">>)
  /\ ~ Shared(<<"instance", "addUser">>)
  /\ ~ Shared(<<"instance", "actions">>)
  /\ ~ Shared(<<"instance", "start">>)
  /\ ~ Shared(<<"instance", "stop">>)
  /\ ~ Shared(<<"instance", "restart">>)
  /\ ~ Shared(<<"instance", "priority">>)
  /\ ~ Shared(<<"instance", "backup">>)
  /\ ~ Shared(<<"instance", "archive">>)
  /\ ~ Shared(<<"instance", "restore">>)
  /\ ~ Shared(<<"instance", "resize">>)
  /\ ~ Shared(<<"instance", "syncUsers">>)
  BY DEF Shared, Reader, Actor
LEMMA InstanceOwners ==
  /\ Owner(<<"instance", "get">>, "") = <<"instance", "get">>
  BY Names DEF Owner, Reader, Actor
LEMMA InstanceTold == \A a \in DOMAIN Services["instance"] : Told(<<"instance", a>>)
<1>1. Told(<<"instance", "create">>)
  <2>1. Row(<<"instance", "create">>) = Sent("onCreateUpdate", OrgInstance, OrgInstance \cup
          {"opts"})
    BY InstanceCalls
  <2>2. /\ Handlers["instance"]["onCreateUpdate"] = "create"
        /\ ~ Shared(<<"instance", "create">>)
    BY InstancePuts, InstanceShared
  <2> QED BY <2>1, <2>2, SentTold
<1>2. Told(<<"instance", "list">>)
  <2>1. Row(<<"instance", "list">>) = Sent("onListUpdate", {"opts"}, {"opts"})
    BY InstanceCalls
  <2>2. /\ Handlers["instance"]["onListUpdate"] = "list"
        /\ ~ Shared(<<"instance", "list">>)
    BY InstancePuts, InstanceShared
  <2> QED BY <2>1, <2>2, SentTold
<1>3. Told(<<"instance", "get">>)
  <2>1. Row(<<"instance", "get">>) = Checked("get", "onGetUpdate", OrgInstance)
    BY InstanceCalls
  <2>2. /\ Handlers["instance"]["onGetUpdate"] = "get"
        /\ Shared(<<"instance", "get">>)
    BY InstancePuts, InstanceShared
  <2>3. Owner(<<"instance", "get">>, "") = <<"instance", "get">>
    BY InstanceOwners
  <2> QED BY <2>1, <2>2, <2>3, CheckedTold
<1>4. Told(<<"instance", "addUser">>)
  <2>1. Row(<<"instance", "addUser">>) = Sent("onUserAddUpdate", OneUser, OneUser \cup {"opts"})
    BY InstanceCalls
  <2>2. /\ Handlers["instance"]["onUserAddUpdate"] = "addUser"
        /\ ~ Shared(<<"instance", "addUser">>)
    BY InstancePuts, InstanceShared
  <2> QED BY <2>1, <2>2, SentTold
<1>5. Told(<<"instance", "updateUser">>)
  <2>1. Row(<<"instance", "updateUser">>) = As("update-user", Sent("onUserUpdateUpdate",
          OneUser, OneUser \cup {"opts"}))
    BY InstanceCalls
  <2>2. /\ Handlers["instance"]["onUserUpdateUpdate"] = "actions"
        /\ ~ Shared(<<"instance", "actions">>)
    BY InstancePuts, InstanceShared
  <2> QED BY <2>1, <2>2, AsSentTold
<1>6. Told(<<"instance", "deleteUser">>)
  <2>1. Row(<<"instance", "deleteUser">>) = As("delete-user", Sent("onUserDeleteUpdate",
          OneUser, OneUser))
    BY InstanceCalls
  <2>2. /\ Handlers["instance"]["onUserDeleteUpdate"] = "actions"
        /\ ~ Shared(<<"instance", "actions">>)
    BY InstancePuts, InstanceShared
  <2> QED BY <2>1, <2>2, AsSentTold
<1>7. Told(<<"instance", "start">>)
  <2>1. Row(<<"instance", "start">>) = Sent("onStartUpdate", OrgInstance, OrgInstance \cup
          {"opts"})
    BY InstanceCalls
  <2>2. /\ Handlers["instance"]["onStartUpdate"] = "start"
        /\ ~ Shared(<<"instance", "start">>)
    BY InstancePuts, InstanceShared
  <2> QED BY <2>1, <2>2, SentTold
<1>8. Told(<<"instance", "stop">>)
  <2>1. Row(<<"instance", "stop">>) = Sent("onStopUpdate", OrgInstance, OrgInstance)
    BY InstanceCalls
  <2>2. /\ Handlers["instance"]["onStopUpdate"] = "stop"
        /\ ~ Shared(<<"instance", "stop">>)
    BY InstancePuts, InstanceShared
  <2> QED BY <2>1, <2>2, SentTold
<1>9. Told(<<"instance", "restart">>)
  <2>1. Row(<<"instance", "restart">>) = Sent("onRestartUpdate", OrgInstance, OrgInstance)
    BY InstanceCalls
  <2>2. /\ Handlers["instance"]["onRestartUpdate"] = "restart"
        /\ ~ Shared(<<"instance", "restart">>)
    BY InstancePuts, InstanceShared
  <2> QED BY <2>1, <2>2, SentTold
<1>10. Told(<<"instance", "updatePriority">>)
  <2>1. Row(<<"instance", "updatePriority">>) = Sent("onPriorityUpdate", OrgInstance,
          OrgInstance \cup {"opts"})
    BY InstanceCalls
  <2>2. /\ Handlers["instance"]["onPriorityUpdate"] = "priority"
        /\ ~ Shared(<<"instance", "priority">>)
    BY InstancePuts, InstanceShared
  <2> QED BY <2>1, <2>2, SentTold
<1>11. Told(<<"instance", "backup">>)
  <2>1. Row(<<"instance", "backup">>) = Sent("onBackupUpdate", OrgInstance, OrgInstance)
    BY InstanceCalls
  <2>2. /\ Handlers["instance"]["onBackupUpdate"] = "backup"
        /\ ~ Shared(<<"instance", "backup">>)
    BY InstancePuts, InstanceShared
  <2> QED BY <2>1, <2>2, SentTold
<1>12. Told(<<"instance", "archive">>)
  <2>1. Row(<<"instance", "archive">>) = Sent("onArchiveUpdate", OrgInstance, OrgInstance)
    BY InstanceCalls
  <2>2. /\ Handlers["instance"]["onArchiveUpdate"] = "archive"
        /\ ~ Shared(<<"instance", "archive">>)
    BY InstancePuts, InstanceShared
  <2> QED BY <2>1, <2>2, SentTold
<1>13. Told(<<"instance", "restore">>)
  <2>1. Row(<<"instance", "restore">>) = Sent("onRestoreUpdate", OrgInstance, OrgInstance)
    BY InstanceCalls
  <2>2. /\ Handlers["instance"]["onRestoreUpdate"] = "restore"
        /\ ~ Shared(<<"instance", "restore">>)
    BY InstancePuts, InstanceShared
  <2> QED BY <2>1, <2>2, SentTold
<1>14. Told(<<"instance", "resize">>)
  <2>1. Row(<<"instance", "resize">>) = Sent("onResizeUpdate", OrgInstance, OrgInstance \cup
          {"opts"})
    BY InstanceCalls
  <2>2. /\ Handlers["instance"]["onResizeUpdate"] = "resize"
        /\ ~ Shared(<<"instance", "resize">>)
    BY InstancePuts, InstanceShared
  <2> QED BY <2>1, <2>2, SentTold
<1>15. Told(<<"instance", "syncUsers">>)
  <2>1. Row(<<"instance", "syncUsers">>) = Sent("onSyncUsersUpdate", OrgInstance, OrgInstance
          \cup {"opts"})
    BY InstanceCalls
  <2>2. /\ Handlers["instance"]["onSyncUsersUpdate"] = "syncUsers"
        /\ ~ Shared(<<"instance", "syncUsers">>)
    BY InstancePuts, InstanceShared
  <2> QED BY <2>1, <2>2, SentTold
<1> QED BY <1>1, <1>2, <1>3, <1>4, <1>5, <1>6, <1>7, <1>8, <1>9, <1>10, <1>11, <1>12, <1>13,
       <1>14, <1>15, InstanceRows, Names DEF InstanceTable, InstanceUsers, InstanceOperations,
       InstanceBackups

\* OrganizationService and OrganizationStore.
LEMMA OrganizationCalls ==
  /\ Row(<<"organization", "create">>) = Sent("onCreateUpdate", {"org"}, {"org", "opts"})
  /\ Row(<<"organization", "get">>) = Checked("metadata", "onMetadataUpdate", {"org"})
  /\ Row(<<"organization", "getUsers">>) = Checked("users", "onUsersUpdate", {"org"})
  /\ Row(<<"organization", "update">>) = Sent("onUpdateUpdate", {"org"}, {"org", "opts"})
  /\ Row(<<"organization", "isAdmin">>) = Checked("isAdmin", "onIsAdminUpdate", {"org"})
  /\ Row(<<"organization", "search">>) = Numbered("onSearchUpdate", {"opts"})
  BY OtherRows, Names DEF Row, Organization
LEMMA OrganizationPuts ==
  /\ Handlers["organization"]["onCreateUpdate"] = "create"
  /\ Handlers["organization"]["onMetadataUpdate"] = "metadata"
  /\ Handlers["organization"]["onUpdateUpdate"] = "update"
  /\ Handlers["organization"]["onUsersUpdate"] = "users"
  /\ Handlers["organization"]["onIsAdminUpdate"] = "isAdmin"
  /\ Handlers["organization"]["onSearchUpdate"] = "search"
  BY OtherRows DEF OrganizationHandlers
LEMMA OrganizationShared ==
  /\ ~ Shared(<<"organization", "create">>)
  /\ Shared(<<"organization", "metadata">>)
  /\ ~ Shared(<<"organization", "update">>)
  /\ Shared(<<"organization", "users">>)
  /\ Shared(<<"organization", "isAdmin">>)
  /\ ~ Shared(<<"organization", "search">>)
  BY DEF Shared, Reader, Actor
LEMMA OrganizationOwners ==
  /\ Owner(<<"organization", "metadata">>, "") = <<"organization", "get">>
  /\ Owner(<<"organization", "users">>, "") = <<"organization", "getUsers">>
  /\ Owner(<<"organization", "isAdmin">>, "") = <<"organization", "isAdmin">>
  BY Names DEF Owner, Reader, Actor
LEMMA OrganizationTold == \A a \in DOMAIN Services["organization"] : Told(<<"organization", a>>)
<1>1. Told(<<"organization", "create">>)
  <2>1. Row(<<"organization", "create">>) = Sent("onCreateUpdate", {"org"}, {"org", "opts"})
    BY OrganizationCalls
  <2>2. /\ Handlers["organization"]["onCreateUpdate"] = "create"
        /\ ~ Shared(<<"organization", "create">>)
    BY OrganizationPuts, OrganizationShared
  <2> QED BY <2>1, <2>2, SentTold
<1>2. Told(<<"organization", "get">>)
  <2>1. Row(<<"organization", "get">>) = Checked("metadata", "onMetadataUpdate", {"org"})
    BY OrganizationCalls
  <2>2. /\ Handlers["organization"]["onMetadataUpdate"] = "metadata"
        /\ Shared(<<"organization", "metadata">>)
    BY OrganizationPuts, OrganizationShared
  <2>3. Owner(<<"organization", "metadata">>, "") = <<"organization", "get">>
    BY OrganizationOwners
  <2> QED BY <2>1, <2>2, <2>3, CheckedTold
<1>3. Told(<<"organization", "getUsers">>)
  <2>1. Row(<<"organization", "getUsers">>) = Checked("users", "onUsersUpdate", {"org"})
    BY OrganizationCalls
  <2>2. /\ Handlers["organization"]["onUsersUpdate"] = "users"
        /\ Shared(<<"organization", "users">>)
    BY OrganizationPuts, OrganizationShared
  <2>3. Owner(<<"organization", "users">>, "") = <<"organization", "getUsers">>
    BY OrganizationOwners
  <2> QED BY <2>1, <2>2, <2>3, CheckedTold
<1>4. Told(<<"organization", "update">>)
  <2>1. Row(<<"organization", "update">>) = Sent("onUpdateUpdate", {"org"}, {"org", "opts"})
    BY OrganizationCalls
  <2>2. /\ Handlers["organization"]["onUpdateUpdate"] = "update"
        /\ ~ Shared(<<"organization", "update">>)
    BY OrganizationPuts, OrganizationShared
  <2> QED BY <2>1, <2>2, SentTold
<1>5. Told(<<"organization", "isAdmin">>)
  <2>1. Row(<<"organization", "isAdmin">>) = Checked("isAdmin", "onIsAdminUpdate", {"org"})
    BY OrganizationCalls
  <2>2. /\ Handlers["organization"]["onIsAdminUpdate"] = "isAdmin"
        /\ Shared(<<"organization", "isAdmin">>)
    BY OrganizationPuts, OrganizationShared
  <2>3. Owner(<<"organization", "isAdmin">>, "") = <<"organization", "isAdmin">>
    BY OrganizationOwners
  <2> QED BY <2>1, <2>2, <2>3, CheckedTold
<1>6. Told(<<"organization", "search">>)
  <2>1. Row(<<"organization", "search">>) = Numbered("onSearchUpdate", {"opts"})
    BY OrganizationCalls
  <2>2. /\ Handlers["organization"]["onSearchUpdate"] = "search"
        /\ ~ Shared(<<"organization", "search">>)
    BY OrganizationPuts, OrganizationShared
  <2> QED BY <2>1, <2>2, NumberedTold
<1> QED BY <1>1, <1>2, <1>3, <1>4, <1>5, <1>6, OtherRows, Names DEF Organization

\* UserService and UserStore.
LEMMA UserCalls ==
  /\ Row(<<"user", "getMe">>) = Sent("onMeUpdate", {}, {})
  /\ Row(<<"user", "myDatabases">>) = Checked("myDatabases", "onMyDatabasesUpdate", {"org"})
  /\ Row(<<"user", "search">>) = Sent("onSearchUpdate", {}, {"user", "opts"})
  BY OtherRows, Names DEF Row, User
LEMMA UserPuts ==
  /\ Handlers["user"]["onMeUpdate"] = "me"
  /\ Handlers["user"]["onMyDatabasesUpdate"] = "myDatabases"
  /\ Handlers["user"]["onSearchUpdate"] = "search"
  BY OtherRows DEF UserHandlers
LEMMA UserShared ==
  /\ ~ Shared(<<"user", "me">>)
  /\ Shared(<<"user", "myDatabases">>)
  /\ ~ Shared(<<"user", "search">>)
  BY DEF Shared, Reader, Actor
LEMMA UserOwners ==
  /\ Owner(<<"user", "myDatabases">>, "") = <<"user", "myDatabases">>
  BY Names DEF Owner, Reader, Actor
LEMMA UserTold == \A a \in DOMAIN Services["user"] : Told(<<"user", a>>)
<1>1. Told(<<"user", "getMe">>)
  <2>1. Row(<<"user", "getMe">>) = Sent("onMeUpdate", {}, {})
    BY UserCalls
  <2>2. /\ Handlers["user"]["onMeUpdate"] = "me"
        /\ ~ Shared(<<"user", "me">>)
    BY UserPuts, UserShared
  <2> QED BY <2>1, <2>2, SentTold
<1>2. Told(<<"user", "myDatabases">>)
  <2>1. Row(<<"user", "myDatabases">>) = Checked("myDatabases", "onMyDatabasesUpdate", {"org"})
    BY UserCalls
  <2>2. /\ Handlers["user"]["onMyDatabasesUpdate"] = "myDatabases"
        /\ Shared(<<"user", "myDatabases">>)
    BY UserPuts, UserShared
  <2>3. Owner(<<"user", "myDatabases">>, "") = <<"user", "myDatabases">>
    BY UserOwners
  <2> QED BY <2>1, <2>2, <2>3, CheckedTold
<1>3. Told(<<"user", "search">>)
  <2>1. Row(<<"user", "search">>) = Sent("onSearchUpdate", {}, {"user", "opts"})
    BY UserCalls
  <2>2. /\ Handlers["user"]["onSearchUpdate"] = "search"
        /\ ~ Shared(<<"user", "search">>)
    BY UserPuts, UserShared
  <2> QED BY <2>1, <2>2, SentTold
<1> QED BY <1>1, <1>2, <1>3, OtherRows, Names DEF User

\* AdminService and AdminStore.
LEMMA AdminCalls ==
  /\ Row(<<"admin", "getConnections">>) = As("get-connections", Checked("actions",
       "onConnectionsUpdate", {}))
  /\ Row(<<"admin", "getConnectionLog">>) = As("get-connection-log", [Checked("actions",
       "onConnectionLogUpdate", {}) EXCEPT !.sends = {"sessionId"}])
  /\ Row(<<"admin", "sleep">>) = As("sleep-instances", Checked("actions", "onSleepUpdate", {}))
  /\ Row(<<"admin", "updateUcdIamProfile">>) = As("update-ucd-iam-profile", Checked("actions",
       "onUcdIamProfileUpdate", {"user"}))
  BY OtherRows, Names DEF Row, AdminMethods
LEMMA AdminPuts ==
  /\ Handlers["admin"]["onConnectionsUpdate"] = "actions"
  /\ Handlers["admin"]["onConnectionLogUpdate"] = "actions"
  /\ Handlers["admin"]["onSleepUpdate"] = "actions"
  /\ Handlers["admin"]["onUcdIamProfileUpdate"] = "actions"
  BY OtherRows DEF AdminHandlers
LEMMA AdminShared ==
  /\ Shared(<<"admin", "actions">>)
  BY DEF Shared, Reader, Actor
LEMMA AdminOwners ==
  /\ Owner(<<"admin", "actions">>, "get-connections") = <<"admin", "getConnections">>
  /\ Owner(<<"admin", "actions">>, "get-connection-log") = <<"admin", "getConnectionLog">>
  /\ Owner(<<"admin", "actions">>, "sleep-instances") = <<"admin", "sleep">>
  /\ Owner(<<"admin", "actions">>, "update-ucd-iam-profile") = <<"admin", "updateUcdIamProfile">>
  BY Names DEF Owner, Reader, Actor
LEMMA AdminTold == \A a \in DOMAIN Services["admin"] : Told(<<"admin", a>>)
<1>1. Told(<<"admin", "getConnections">>)
  <2>1. Row(<<"admin", "getConnections">>) = As("get-connections", Checked("actions",
          "onConnectionsUpdate", {}))
    BY AdminCalls
  <2>2. /\ Handlers["admin"]["onConnectionsUpdate"] = "actions"
        /\ Shared(<<"admin", "actions">>)
    BY AdminPuts, AdminShared
  <2>3. Owner(<<"admin", "actions">>, "get-connections") = <<"admin", "getConnections">>
    BY AdminOwners
  <2> QED BY <2>1, <2>2, <2>3, AsCheckedTold
<1>2. Told(<<"admin", "getConnectionLog">>)
  <2> DEFINE r == Row(<<"admin", "getConnectionLog">>)
             q == [Checked("actions", "onConnectionLogUpdate", {}) EXCEPT !.sends = {"sessionId"}]
  <2>1. r = As("get-connection-log", q)
    BY AdminCalls
  <2>2. /\ DOMAIN q = {"check", "on", "key", "sends", "as", "numbered"}
        /\ q.check = "actions" /\ q.on = "onConnectionLogUpdate"
    BY DEF Checked
  <2> HIDE DEF r, q
  <2>3. r.check = "actions" /\ r.on = "onConnectionLogUpdate" /\ r.as = "get-connection-log"
    BY <2>1, <2>2 DEF As
  <2>4. /\ Handlers["admin"]["onConnectionLogUpdate"] = "actions" /\ Shared(<<"admin", "actions">>)
        /\ Owner(<<"admin", "actions">>, "get-connection-log") = <<"admin", "getConnectionLog">>
    BY AdminPuts, AdminShared, AdminOwners
  <2> QED BY <2>3, <2>4 DEF Told, Forgetful, Dedupes, Checks, Puts, r
<1>3. Told(<<"admin", "sleep">>)
  <2>1. Row(<<"admin", "sleep">>) = As("sleep-instances", Checked("actions", "onSleepUpdate",
          {}))
    BY AdminCalls
  <2>2. /\ Handlers["admin"]["onSleepUpdate"] = "actions"
        /\ Shared(<<"admin", "actions">>)
    BY AdminPuts, AdminShared
  <2>3. Owner(<<"admin", "actions">>, "sleep-instances") = <<"admin", "sleep">>
    BY AdminOwners
  <2> QED BY <2>1, <2>2, <2>3, AsCheckedTold
<1>4. Told(<<"admin", "updateUcdIamProfile">>)
  <2>1. Row(<<"admin", "updateUcdIamProfile">>) = As("update-ucd-iam-profile",
          Checked("actions", "onUcdIamProfileUpdate", {"user"}))
    BY AdminCalls
  <2>2. /\ Handlers["admin"]["onUcdIamProfileUpdate"] = "actions"
        /\ Shared(<<"admin", "actions">>)
    BY AdminPuts, AdminShared
  <2>3. Owner(<<"admin", "actions">>, "update-ucd-iam-profile") = <<"admin", "updateUcdIamProfile">>
    BY AdminOwners
  <2> QED BY <2>1, <2>2, <2>3, AsCheckedTold
<1> QED BY <1>1, <1>2, <1>3, <1>4, OtherRows, Names DEF AdminMethods

LEMMA MethodsTold == \A m \in Methods : Told(m)
<1> SUFFICES ASSUME NEW m \in Methods PROVE Told(m)
  OBVIOUS
<1>1. PICK s \in DOMAIN Services : m \in {s} \X DOMAIN Services[s]
  BY DEF Methods
<1>2. PICK a \in DOMAIN Services[s] : m = <<s, a>>
  BY <1>1
<1> QED BY <1>2, OtherRows, DatabaseTold, InstanceTold, OrganizationTold, UserTold, AdminTold

\* A request that a method joins was sent by the method itself.
LEMMA OwnStore ==
  ASSUME NEW m \in Methods, NEW q \in Methods, Dedupes(m),
         Puts(q) = Checks(m), Row(q).as = Row(m).as, Row(q).key = Row(m).key
  PROVE  q = m
<1>1. Shared(Checks(m)) /\ m = Owner(Checks(m), Row(m).as) /\ Told(q)
  BY MethodsTold DEF Told
<1>2. m = q \/ q \in Unshared
  BY <1>1 DEF Told
<1>3. CASE q \in Unshared /\ m # q
  <2>1. /\ q = <<"database", "getSchemaTables">>
        /\ Row(q) = Checked("schemaTables", "onGetSchemasUpdate", OrgDb \cup {"schema"})
        /\ Handlers["database"]["onGetSchemasUpdate"] = "schemas"
    BY <1>3, DatabaseCalls, DatabasePuts DEF Unshared
  <2> DEFINE r == Row(q)
  <2>2. r = Checked("schemaTables", "onGetSchemasUpdate", OrgDb \cup {"schema"})
    BY <2>1
  <2> HIDE DEF r
  <2>3. r.on = "onGetSchemasUpdate" /\ r.as = "" /\ r.key = OrgDb \cup {"schema"}
    BY <2>2 DEF Checked
  <2>4. Puts(q) = <<"database", "schemas">>
    BY <2>1, <2>3 DEF Puts, r
  <2>5. m = <<"database", "getSchemas">>
    <3>1. Row(m).as = ""
      BY <2>3 DEF r
    <3> QED BY <1>1, <2>4, <3>1, DatabaseOwners
  <2> DEFINE t == Row(m)
  <2>6. t = Checked("schemas", "onGetSchemasUpdate", OrgDb)
    BY <2>5, DatabaseCalls
  <2> HIDE DEF t
  <2>7. t.key = OrgDb
    BY <2>6 DEF Checked
  <2>8. "schema" \in Row(q).key /\ "schema" \notin Row(m).key
    BY <2>3, <2>7 DEF r, t, OrgDb
  <2> QED BY <2>8
<1> QED BY <1>2, <1>3

-----------------------------------------------------------------------------
(* The invariant.                                                          *)

Args == UNION {[Fields(m) -> Values] : m \in Methods}
Keys == {Key(m, args, n) : m \in Methods, args \in Args, n \in Nat}
Slots == [store : {Puts(m) : m \in Methods}, key : Keys]
Requests == [m : Methods, args : Args, slot : Slots, state : {"sent", "served", "over"},
             seen : Nat, across : BOOLEAN]

Shapes ==
  /\ requests \in Seq(Requests)
  /\ version \in Nat
  /\ floor \in [Cached -> Nat]

\* No request and no store is ahead of the server.
Behind ==
  /\ \A r \in DOMAIN requests : requests[r].seen <= version
  /\ \A s \in Cached : floor[s] <= version

\* An entry belongs to the request that made it, and that is over if it loaded.
Fits ==
  \A slot \in DOMAIN cache :
     LET r == cache[slot].req
     IN /\ r \in DOMAIN requests /\ requests[r].slot = slot
        /\ cache[slot].state = "loaded" => requests[r].state = "over"

\* An answer on its way is as new as the last write, or was crossed by it.
ServedFresh ==
  \A r \in DOMAIN requests :
     requests[r].state = "served" /\ requests[r].slot.store \in Cached =>
        requests[r].across \/ requests[r].seen >= floor[requests[r].slot.store]

IInv == Shapes /\ Behind /\ Fits /\ ServedFresh /\ FreshAfterWrite

LEMMA InitIInv == Init => IInv
<1> SUFFICES ASSUME Init PROVE IInv
  OBVIOUS
<1>1. DOMAIN cache = {} /\ DOMAIN requests = {} /\ Len(requests) = 0
  BY DEF Init
<1>2. Shapes
  BY DEF Init, Shapes
<1> QED BY <1>1, <1>2 DEF Init, IInv, Behind, Fits, ServedFresh, FreshAfterWrite

-----------------------------------------------------------------------------
(* The steps.                                                              *)

LEMMA ArgumentsType ==
  ASSUME NEW m \in Methods, NEW args \in Arguments(m)
  PROVE  args \in Args
<1>1. Usual \in Values
  BY CallsAssumption DEF Usual
<1>2. args \in [Fields(m) -> Values]
  BY <1>1 DEF Arguments
<1> QED BY <1>2 DEF Args

\* onLoading puts an entry that is not loaded, and changes no other.
LEMMA SendKeeps ==
  ASSUME IInv, NEW m \in Methods, NEW args \in Args, NEW key \in Keys, Send(m, args, key),
         UNCHANGED <<version, floor>>
  PROVE  IInv'
<1> DEFINE n == Len(requests) + 1
           slot == Slot(Puts(m), key)
           new == [m |-> m, args |-> args, slot |-> slot, state |-> "sent", seen |-> 0,
                   across |-> FALSE]
<1>1. /\ requests' = Append(requests, new)
      /\ cache' = Entered(cache, slot, [state |-> "loading", req |-> n])
  BY DEF Send
<1>2. new \in Requests
  BY DEF Requests, Slots, Slot
<1> HIDE DEF new
<1>3. /\ requests' \in Seq(Requests) /\ DOMAIN requests' = 1 .. n /\ n \in Nat \ {0}
      /\ DOMAIN requests = 1 .. n - 1
      /\ requests'[n] = new
      /\ \A r \in DOMAIN requests : r \in DOMAIN requests' /\ r # n /\ requests'[r] = requests[r]
  BY <1>1, <1>2 DEF IInv, Shapes
<1>4. /\ DOMAIN cache' = DOMAIN cache \cup {slot}
      /\ cache'[slot] = [state |-> "loading", req |-> n]
      /\ \A s \in DOMAIN cache : s # slot => cache'[s] = cache[s]
  BY <1>1 DEF Entered
<1>5. new.slot = slot /\ new.state = "sent" /\ new.seen = 0
  BY DEF new
<1> HIDE DEF n, slot
<1>6. \A r \in DOMAIN requests' : r = n \/ r \in DOMAIN requests
  BY <1>3
<1>7. Shapes' /\ Behind'
  BY <1>3, <1>5, <1>6 DEF IInv, Shapes, Behind
<1>8. Fits'
  <2>1. n \in DOMAIN requests' /\ requests'[n].slot = slot
    BY <1>3, <1>5
  <2>2. ASSUME NEW s \in DOMAIN cache', s = slot
        PROVE  cache'[s].req = n /\ cache'[s].state # "loaded"
    BY <1>4, <2>2
  <2>3. ASSUME NEW s \in DOMAIN cache', s # slot
        PROVE  /\ cache'[s] = cache[s] /\ cache[s].req \in DOMAIN requests
               /\ requests'[cache[s].req] = requests[cache[s].req]
               /\ requests[cache[s].req].slot = s
               /\ cache[s].state = "loaded" => requests[cache[s].req].state = "over"
    BY <1>3, <1>4, <2>3 DEF IInv, Fits
  <2> QED BY <1>3, <2>1, <2>2, <2>3 DEF Fits
<1>9. ServedFresh'
  BY <1>3, <1>5, <1>6 DEF IInv, ServedFresh
<1>10. FreshAfterWrite'
  BY <1>3, <1>4 DEF IInv, FreshAfterWrite, Fits
<1> QED BY <1>7, <1>8, <1>9, <1>10 DEF IInv

LEMMA CallKeeps ==
  ASSUME IInv, NEW m \in Methods, NEW args \in Arguments(m), Call(m, args)
  PROVE  IInv'
<1>1. args \in Args
  BY ArgumentsType
<1>2. Len(requests) + 1 \in Nat
  BY DEF IInv, Shapes
<1>3. Key(m, args, Len(requests) + 1) \in Keys
  BY <1>1, <1>2 DEF Keys
<1>4. \/ Send(m, args, Key(m, args, Len(requests) + 1))
      \/ UNCHANGED <<cache, requests>>
  BY DEF Call
<1>5. UNCHANGED <<version, floor>>
  BY DEF Call
<1>6. CASE UNCHANGED <<cache, requests>>
  BY <1>5, <1>6 DEF IInv, Shapes, Behind, Fits, ServedFresh, FreshAfterWrite
<1> QED BY <1>1, <1>3, <1>4, <1>5, <1>6, SendKeeps

\* What is served sees every write there was.
LEMMA ServeKeeps ==
  ASSUME IInv, NEW r \in DOMAIN requests, Serve(r)
  PROVE  IInv'
<1>1. version' \in Nat /\ version' >= version
  <2>1. version \in Nat /\ (version' = version + 1 \/ version' = version)
    BY DEF Serve, IInv, Shapes
  <2> QED BY <2>1
<1>2. /\ requests[r].state = "sent"
      /\ requests' = [requests EXCEPT ![r].state = "served", ![r].seen = version']
      /\ UNCHANGED <<cache, floor>>
  BY DEF Serve
<1>3. /\ requests \in Seq(Requests)
      /\ \A q \in DOMAIN requests : requests[q] \in Requests
  BY DEF IInv, Shapes
<1>4. /\ DOMAIN requests' = DOMAIN requests
      /\ requests'[r] = [requests[r] EXCEPT !.state = "served", !.seen = version']
      /\ \A q \in DOMAIN requests : q # r => requests'[q] = requests[q]
  BY <1>2, <1>3
<1>5. requests'[r] \in Requests
  BY <1>1, <1>3, <1>4 DEF Requests
<1>6. requests' \in Seq(Requests)
  <2>1. DOMAIN requests = 1 .. Len(requests) /\ Len(requests) \in Nat
    BY <1>3
  <2>2. requests' = [q \in 1 .. Len(requests) |-> requests'[q]]
    BY <1>2, <1>3, <2>1
  <2> QED BY <1>3, <1>4, <1>5, <2>1, <2>2
<1>7. /\ requests'[r].slot = requests[r].slot /\ requests'[r].seen = version'
      /\ requests'[r].state = "served"
  BY <1>3, <1>4 DEF Requests
<1>8. Shapes'
  BY <1>1, <1>2, <1>6 DEF IInv, Shapes
<1>9. Behind'
  BY <1>1, <1>2, <1>3, <1>4, <1>7 DEF IInv, Shapes, Behind, Requests
<1>10. Fits'
  BY <1>2, <1>4, <1>7 DEF IInv, Fits
<1>11. ServedFresh'
  BY <1>1, <1>2, <1>3, <1>4, <1>7 DEF IInv, Shapes, Behind, ServedFresh
<1>12. FreshAfterWrite'
  BY <1>2, <1>4 DEF IInv, Fits, FreshAfterWrite
<1> QED BY <1>8, <1>9, <1>10, <1>11, <1>12 DEF IInv

\* A request that is over, and one that was crossed, are the same otherwise.
LEMMA OverStateType ==
  ASSUME NEW q \in Requests
  PROVE  LET o == [q EXCEPT !.state = "over"]
         IN  /\ o \in Requests /\ o.state = "over" /\ o.slot = q.slot
             /\ o.seen = q.seen /\ o.across = q.across
  BY DEF Requests
LEMMA CrossedType ==
  ASSUME NEW q \in Requests
  PROVE  LET o == [q EXCEPT !.across = TRUE]
         IN  /\ o \in Requests /\ o.state = q.state /\ o.slot = q.slot
             /\ o.seen = q.seen /\ o.across
  BY DEF Requests

\* The stores a write has outdated are emptied; those on their way are marked.
LEMMA DeliverKeeps ==
  ASSUME IInv, NEW r \in DOMAIN requests, Deliver(r)
  PROVE  IInv'
<1> DEFINE mine == requests[r].slot
           out == Outdates(requests[r].m)
           entry == [state |-> "loaded", req |-> r]
           merged == Entered(cache, mine, entry)
<1>1. /\ requests[r].state = "served" /\ version' = version
      /\ cache' = Forget(merged, Emptied(r))
      /\ requests' = [q \in DOMAIN requests |->
                        IF q = r THEN [requests[q] EXCEPT !.state = "over"]
                        ELSE IF Crosses(q, r) THEN [requests[q] EXCEPT !.across = TRUE]
                        ELSE requests[q]]
      /\ floor' = [s \in Cached |-> IF s \in out /\ floor[s] < requests[r].seen
                                    THEN requests[r].seen ELSE floor[s]]
  BY DEF Deliver
<1>2. /\ requests \in Seq(Requests) /\ DOMAIN requests = 1 .. Len(requests)
      /\ \A q \in DOMAIN requests : requests[q] \in Requests
  BY DEF IInv, Shapes
<1>3. /\ DOMAIN merged = DOMAIN cache \cup {mine} /\ merged[mine] = entry
      /\ \A s \in DOMAIN cache : s # mine => merged[s] = cache[s]
  BY DEF Entered
<1> HIDE DEF merged
<1>4. /\ DOMAIN cache' = {s \in DOMAIN merged : s.store \notin Emptied(r)}
      /\ \A s \in DOMAIN cache' : cache'[s] = merged[s]
  BY <1>1 DEF Forget, Restrict
<1>5. \A s \in DOMAIN cache' : s.store \notin out
  BY <1>4, PurgedIsOutdated DEF Emptied
<1>6. /\ DOMAIN requests' = DOMAIN requests
      /\ \A q \in DOMAIN requests :
           /\ requests'[q] \in Requests
           /\ requests'[q].slot = requests[q].slot /\ requests'[q].seen = requests[q].seen
           /\ requests[q].across => requests'[q].across
           /\ q = r => requests'[q].state = "over"
           /\ q # r => requests'[q].state = requests[q].state
           /\ q # r /\ Crosses(q, r) => requests'[q].across
  <2>1. DOMAIN requests' = DOMAIN requests
    BY <1>1
  <2>2. requests'[r] = [requests[r] EXCEPT !.state = "over"]
    BY <1>1
  <2>3. ASSUME NEW q \in DOMAIN requests, q # r, Crosses(q, r)
        PROVE  requests'[q] = [requests[q] EXCEPT !.across = TRUE]
    BY <1>1, <2>3
  <2>4. ASSUME NEW q \in DOMAIN requests, q # r, ~ Crosses(q, r)
        PROVE  requests'[q] = requests[q]
    BY <1>1, <2>4
  <2>5. /\ requests'[r] \in Requests /\ requests'[r].state = "over"
        /\ requests'[r].slot = requests[r].slot /\ requests'[r].seen = requests[r].seen
        /\ requests'[r].across = requests[r].across
    BY <1>2, <2>2, OverStateType
  <2>6. ASSUME NEW q \in DOMAIN requests, q # r, Crosses(q, r)
        PROVE  /\ requests'[q] \in Requests /\ requests'[q].state = requests[q].state
               /\ requests'[q].slot = requests[q].slot /\ requests'[q].seen = requests[q].seen
               /\ requests'[q].across
    BY <1>2, <2>3, <2>6, CrossedType
  <2> QED BY <1>2, <2>1, <2>4, <2>5, <2>6
<1>7. requests' \in Seq(Requests)
  <2>1. requests' = [q \in 1 .. Len(requests) |-> requests'[q]]
    BY <1>1, <1>2
  <2>2. Len(requests) \in Nat
    BY <1>2
  <2> QED BY <1>2, <1>6, <2>1, <2>2
<1>8. \A s \in Cached : /\ floor'[s] \in Nat /\ floor'[s] <= version
                        /\ s \notin out => floor'[s] = floor[s]
  BY <1>1, <1>2 DEF IInv, Shapes, Behind, Requests
<1>9. Shapes'
  BY <1>1, <1>7, <1>8 DEF IInv, Shapes
<1>10. Behind'
  BY <1>1, <1>6, <1>8 DEF IInv, Behind
<1>11. \A s \in DOMAIN cache' : \/ s = mine /\ cache'[s] = entry
                                \/ s # mine /\ s \in DOMAIN cache /\ cache'[s] = cache[s]
  BY <1>3, <1>4
<1>12. Fits'
  BY <1>6, <1>11 DEF IInv, Fits
<1>13. ServedFresh'
  <2> SUFFICES ASSUME NEW q \in DOMAIN requests, requests'[q].state = "served",
                      requests'[q].slot.store \in Cached, ~ requests'[q].across
               PROVE  requests'[q].seen >= floor'[requests'[q].slot.store]
    BY <1>6 DEF ServedFresh
  <2>1. q # r /\ requests[q].state = "served" /\ ~ requests[q].across /\ ~ Crosses(q, r)
    BY <1>6
  <2>2. requests[q].slot.store \notin out
    BY <2>1 DEF Crosses, InFlight
  <2> QED BY <1>6, <1>8, <2>1, <2>2 DEF IInv, ServedFresh
<1>14. FreshAfterWrite'
  <2> SUFFICES ASSUME NEW s \in DOMAIN cache', cache'[s].state = "loaded", s.store \in Cached
               PROVE  \/ requests'[cache'[s].req].across
                      \/ requests'[cache'[s].req].seen >= floor'[s.store]
    BY DEF FreshAfterWrite
  <2>1. floor'[s.store] = floor[s.store]
    BY <1>5, <1>8
  <2>2. CASE s = mine
    BY <1>1, <1>6, <1>11, <2>1, <2>2 DEF IInv, ServedFresh
  <2>3. CASE s # mine
    BY <1>6, <1>11, <2>1, <2>3 DEF IInv, Fits, FreshAfterWrite
  <2> QED BY <2>2, <2>3
<1> QED BY <1>9, <1>10, <1>12, <1>13, <1>14 DEF IInv

LEMMA FailKeeps ==
  ASSUME IInv, NEW r \in DOMAIN requests, Fail(r)
  PROVE  IInv'
<1> DEFINE mine == requests[r].slot
           entry == [state |-> "error", req |-> r]
<1>1. /\ cache' = Entered(cache, mine, entry)
      /\ requests' = [requests EXCEPT ![r].state = "over"]
      /\ UNCHANGED <<version, floor>>
  BY DEF Fail
<1>2. /\ requests \in Seq(Requests)
      /\ \A q \in DOMAIN requests : requests[q] \in Requests
  BY DEF IInv, Shapes
<1>3. /\ DOMAIN requests' = DOMAIN requests
      /\ requests'[r] = [requests[r] EXCEPT !.state = "over"]
      /\ \A q \in DOMAIN requests : q # r => requests'[q] = requests[q]
  BY <1>1, <1>2
<1>4. /\ requests'[r] \in Requests /\ requests'[r].slot = mine /\ requests'[r].state = "over"
      /\ requests'[r].seen = requests[r].seen /\ requests'[r].across = requests[r].across
  BY <1>2, <1>3, OverStateType
<1>5. /\ DOMAIN cache' = DOMAIN cache \cup {mine} /\ cache'[mine] = entry
      /\ \A s \in DOMAIN cache : s # mine => cache'[s] = cache[s]
  BY <1>1 DEF Entered
<1>6. Shapes'
  BY <1>1, <1>2, <1>4 DEF IInv, Shapes
<1>7. Behind'
  BY <1>1, <1>3, <1>4 DEF IInv, Behind
<1>8. entry.req = r /\ entry.state # "loaded"
  OBVIOUS
<1> HIDE DEF mine, entry
<1>9. Fits'
  <2>1. ASSUME NEW s \in DOMAIN cache', s = mine
        PROVE  /\ cache'[s].req = r /\ cache'[s].state # "loaded"
               /\ requests'[r].slot = s /\ r \in DOMAIN requests'
    BY <1>3, <1>4, <1>5, <1>8, <2>1
  <2>2. ASSUME NEW s \in DOMAIN cache', s # mine
        PROVE  /\ cache'[s].req \in DOMAIN requests' /\ requests'[cache'[s].req].slot = s
               /\ cache'[s].state = "loaded" => requests'[cache'[s].req].state = "over"
    <3>1. cache'[s] = cache[s] /\ s \in DOMAIN cache
      BY <1>5, <2>2
    <3>2. /\ cache[s].req \in DOMAIN requests /\ requests[cache[s].req].slot = s
          /\ cache[s].state = "loaded" => requests[cache[s].req].state = "over"
      BY <3>1 DEF IInv, Fits
    <3>3. CASE cache[s].req = r
      <4>1. requests[r].slot = s
        BY <3>2, <3>3
      <4> QED BY <1>3, <1>4, <3>1, <3>2, <3>3, <4>1 DEF mine
    <3>4. CASE cache[s].req # r
      BY <1>3, <3>1, <3>2, <3>4
    <3> QED BY <3>3, <3>4
  <2> QED BY <2>1, <2>2 DEF Fits
<1>10. ServedFresh'
  BY <1>1, <1>3, <1>4 DEF IInv, ServedFresh
<1>11. FreshAfterWrite'
  BY <1>1, <1>3, <1>4, <1>5, <1>8 DEF IInv, Fits, FreshAfterWrite
<1> QED BY <1>6, <1>7, <1>9, <1>10, <1>11 DEF IInv

LEMMA NextKeeps == IInv /\ [Next]_vars => IInv'
<1> SUFFICES ASSUME IInv, [Next]_vars PROVE IInv'
  OBVIOUS
<1>1. ASSUME NEW m \in Within, NEW args \in Arguments(m), Call(m, args) PROVE IInv'
  <2>1. m \in Methods
    BY CallsAssumption DEF Within
  <2> QED BY <1>1, <2>1, CallKeeps
<1>2. ASSUME NEW r \in DOMAIN requests, Serve(r) \/ Deliver(r) \/ Fail(r) PROVE IInv'
  BY <1>2, ServeKeeps, DeliverKeeps, FailKeeps
<1>3. CASE UNCHANGED vars
  BY <1>3 DEF vars, IInv, Shapes, Behind, Fits, ServedFresh, FreshAfterWrite
<1> QED BY <1>1, <1>2, <1>3 DEF Next

\* The public caches hold nothing older than a write that was answered, but for
\* what was being read meanwhile (DatabaseModel.js, purgeCache; InstanceModel.js,
\* start), for every number of calls.
THEOREM CachesAreFresh == Spec => []FreshAfterWrite
<1>1. IInv => FreshAfterWrite
  BY DEF IInv
<1> QED BY InitIInv, NextKeeps, <1>1, PTL DEF Spec

-----------------------------------------------------------------------------
(* Whose answer a caller is given.                                         *)

Entries == [state : {"loading", "loaded", "error"}, req : Nat]
Calls == [m : Methods, args : Args, req : Nat, answer : {NoAnswer} \cup Entries]

\* A request is filed under the key of its own method and arguments.
Filed ==
  \A r \in DOMAIN requests :
     LET q == requests[r]
     IN /\ q.args \in [Fields(q.m) -> Values]
        /\ \E n \in Nat : q.slot = Slot(Puts(q.m), Key(q.m, q.args, n))

\* A caller waits for, or was given, what its own question was sent for.
Asked ==
  \A k \in DOMAIN calls :
     LET c == calls[k]
     IN /\ c.req \in DOMAIN requests
        /\ c.m \notin Forgetful => requests[c.req].m = c.m /\ requests[c.req].args = c.args
        /\ c.answer.state = "loaded" => c.answer.req = c.req

\* A request that others may join is the one they find, unless one was crossed.
Hidden(q) == \E p \in DOMAIN requests : requests[p].slot = requests[q].slot /\ requests[p].across
Latched ==
  \A q \in InFlight :
     LET slot == requests[q].slot
     IN Dedupes(requests[q].m) /\ requests[q].m \notin Unshared =>
           \/ Hidden(q)
           \/ slot \in DOMAIN cache /\ cache[slot] = [state |-> "loading", req |-> q]

Kept ==
  /\ \A slot \in DOMAIN cache : cache[slot] \in Entries
  /\ calls \in Seq(Calls)
  /\ Filed /\ Asked /\ Latched

\* The parts of a slot: equal slots, equal stores, actions and keys.
LEMMA SlotParts ==
  ASSUME NEW m, NEW q, NEW args, NEW brgs, NEW n, NEW l,
         NEW store, NEW stora, Slot(store, Key(m, args, n)) = Slot(stora, Key(q, brgs, l))
  PROVE  /\ store = stora /\ Row(m).as = Row(q).as /\ Row(m).key = Row(q).key
         /\ \A f \in Row(m).key : args[f] = brgs[f]
<1>1. store = stora /\ Key(m, args, n) = Key(q, brgs, l)
  BY DEF Slot
<1>2. Row(m).as = Row(q).as /\ Restrict(args, Row(m).key) = Restrict(brgs, Row(q).key)
  BY <1>1 DEF Key
<1>3. /\ DOMAIN Restrict(args, Row(m).key) = Row(m).key
      /\ DOMAIN Restrict(brgs, Row(q).key) = Row(q).key
      /\ \A f \in Row(m).key : Restrict(args, Row(m).key)[f] = args[f]
      /\ \A f \in Row(q).key : Restrict(brgs, Row(q).key)[f] = brgs[f]
  BY DEF Restrict
<1> QED BY <1>1, <1>2, <1>3

\* What a caller finds under way or answered is its own question.
LEMMA OwnRequest ==
  ASSUME IInv, Kept, NEW m \in Methods, NEW args \in Arguments(m), NEW n \in Nat,
         Looked(m, Key(m, args, n)) # "none"
  PROVE  LET slot == Slot(Checks(m), Key(m, args, n))
             r == cache[slot].req
         IN  /\ slot \in DOMAIN cache /\ cache[slot].state = Looked(m, Key(m, args, n))
             /\ r \in DOMAIN requests /\ requests[r].m = m
             /\ m \notin Forgetful => requests[r].args = args
<1> DEFINE slot == Slot(Checks(m), Key(m, args, n))
           r == cache[slot].req
           q == requests[r].m
<1>1. Dedupes(m) /\ slot \in DOMAIN cache /\ cache[slot].state = Looked(m, Key(m, args, n))
  BY DEF Looked
<1>2. r \in DOMAIN requests /\ requests[r].slot = slot
  BY <1>1 DEF IInv, Fits
<1>3. requests[r] \in Requests
  BY <1>2 DEF IInv, Shapes
<1>4. q \in Methods
  BY <1>3 DEF Requests
<1>5. PICK l \in Nat : requests[r].slot = Slot(Puts(q), Key(q, requests[r].args, l))
  BY <1>2 DEF Kept, Filed
<1>6. requests[r].args \in [Fields(q) -> Values]
  BY <1>2 DEF Kept, Filed
<1> HIDE DEF r, q
<1>7. /\ Checks(m) = Puts(q) /\ Row(m).as = Row(q).as /\ Row(m).key = Row(q).key
      /\ \A f \in Row(m).key : args[f] = requests[r].args[f]
  <2>1. Slot(Checks(m), Key(m, args, n)) = Slot(Puts(q), Key(q, requests[r].args, l))
    BY <1>2, <1>5
  <2> QED BY ONLY <2>1, SlotParts
<1>8. q = m
  BY <1>1, <1>4, <1>7, OwnStore
<1>9. ASSUME m \notin Forgetful
      PROVE  requests[r].args = args
  <2>1. Row(m).key = Fields(m)
    BY <1>1, <1>9, MethodsTold DEF Told, Fields
  <2>2. Usual \in Values
    BY CallsAssumption DEF Usual
  <2>3. args \in [Fields(m) -> Values]
    BY <2>2 DEF Arguments
  <2> QED BY <1>6, <1>7, <1>8, <2>1, <2>3
<1> QED BY <1>1, <1>2, <1>8, <1>9 DEF r, q

\* Two requests for one entry that others may join are of the same method.
LEMMA SameSlot ==
  ASSUME IInv, Kept, NEW r \in DOMAIN requests, NEW q \in DOMAIN requests,
         requests[q].slot = requests[r].slot,
         Dedupes(requests[q].m), requests[q].m \notin Unshared
  PROVE  requests[r].m = requests[q].m
<1> DEFINE m == requests[q].m
           w == requests[r].m
<1>1. m \in Methods /\ w \in Methods
  <2>1. requests[q] \in Requests /\ requests[r] \in Requests
    BY DEF IInv, Shapes
  <2> QED BY <2>1 DEF Requests
<1>2. PICK n \in Nat : requests[q].slot = Slot(Puts(m), Key(m, requests[q].args, n))
  BY DEF Kept, Filed
<1>3. PICK l \in Nat : requests[r].slot = Slot(Puts(w), Key(w, requests[r].args, l))
  BY DEF Kept, Filed
<1> HIDE DEF m, w
<1>4. Puts(m) = Puts(w) /\ Row(m).as = Row(w).as /\ Row(m).key = Row(w).key
  <2>1. Slot(Puts(m), Key(m, requests[q].args, n)) = Slot(Puts(w), Key(w, requests[r].args, l))
    BY <1>2, <1>3
  <2> QED BY ONLY <2>1, SlotParts
<1>5. Dedupes(m) /\ m \notin Unshared
  BY DEF m
<1>6. Checks(m) = Puts(m)
  BY <1>1, <1>5, MethodsTold DEF Told
<1>7. w = m
  BY <1>1, <1>4, <1>5, <1>6, OwnStore
<1> QED BY <1>7 DEF m, w

LEMMA InitKept == Init => Kept
<1> SUFFICES ASSUME Init PROVE Kept
  OBVIOUS
<1>1. DOMAIN cache = {} /\ DOMAIN requests = {} /\ DOMAIN calls = {} /\ calls \in Seq(Calls)
  BY DEF Init
<1> QED BY <1>1 DEF Kept, Filed, Asked, Latched, InFlight

\* Nothing was sent: one more caller.
LEMMA JoinKept ==
  ASSUME IInv, Kept, NEW m \in Methods, NEW args \in Arguments(m),
         NEW r \in DOMAIN requests, NEW answer \in {NoAnswer} \cup Entries,
         m \notin Forgetful => requests[r].m = m /\ requests[r].args = args,
         answer.state = "loaded" => answer.req = r,
         calls' = Append(calls, [m |-> m, args |-> args, req |-> r, answer |-> answer]),
         UNCHANGED <<cache, requests>>
  PROVE  Kept'
<1> DEFINE c == [m |-> m, args |-> args, req |-> r, answer |-> answer]
<1>1. r \in Nat /\ DOMAIN requests = 1 .. Len(requests)
  BY DEF IInv, Shapes
<1>2. c \in Calls /\ c.m = m /\ c.args = args /\ c.req = r /\ c.answer = answer
  BY <1>1, ArgumentsType DEF Calls
<1> HIDE DEF c
<1>3. calls' = Append(calls, c)
  BY DEF c
<1>4. /\ calls' \in Seq(Calls)
      /\ \A k \in DOMAIN calls' : \/ k \in DOMAIN calls /\ calls'[k] = calls[k]
                                  \/ calls'[k] = c
  BY <1>2, <1>3 DEF Kept
<1>5. Asked'
  BY <1>2, <1>4 DEF Kept, Asked
<1>6. Filed' /\ Latched'
  BY DEF Kept, Filed, Latched, Hidden, InFlight
<1> QED BY <1>4, <1>5, <1>6 DEF Kept

LEMMA SendKept ==
  ASSUME IInv, Kept, NEW m \in Methods, NEW args \in Arguments(m), NEW key,
         key = Key(m, args, Len(requests) + 1),
         Looked(m, key) # "loading", Send(m, args, key)
  PROVE  Kept'
<1> DEFINE n == Len(requests) + 1
           slot == Slot(Puts(m), key)
           new == [m |-> m, args |-> args, slot |-> slot, state |-> "sent", seen |-> 0,
                   across |-> FALSE]
           entry == [state |-> "loading", req |-> n]
           c == [m |-> m, args |-> args, req |-> n, answer |-> NoAnswer]
<1>1. requests' = Append(requests, new) /\ cache' = Entered(cache, slot, entry)
      /\ calls' = Append(calls, c)
  BY DEF Send
<1>2. /\ new.m = m /\ new.args = args /\ new.slot = slot
      /\ c.m = m /\ c.args = args /\ c.req = n /\ c.answer = NoAnswer
      /\ NoAnswer.state # "loaded"
  BY DEF NoAnswer
<1>3. n \in Nat /\ requests \in Seq(Requests) /\ calls \in Seq(Calls)
  BY DEF IInv, Shapes, Kept
<1>4. entry \in Entries /\ c \in Calls
  BY <1>3, ArgumentsType DEF Entries, Calls
<1>5. args \in [Fields(m) -> Values]
  <2>1. Usual \in Values
    BY CallsAssumption DEF Usual
  <2> QED BY <2>1 DEF Arguments
<1> HIDE DEF new, entry, c
<1>6. /\ DOMAIN requests' = 1 .. n /\ DOMAIN requests = 1 .. n - 1 /\ requests'[n] = new
      /\ \A q \in DOMAIN requests : q \in DOMAIN requests' /\ q # n /\ requests'[q] = requests[q]
      /\ \A q \in DOMAIN requests' : q = n \/ q \in DOMAIN requests
  BY <1>1, <1>3
<1>7. /\ calls' \in Seq(Calls)
      /\ \A k \in DOMAIN calls' : \/ k \in DOMAIN calls /\ calls'[k] = calls[k]
                                  \/ calls'[k] = c
  BY <1>1, <1>3, <1>4
<1>8. /\ DOMAIN cache' = DOMAIN cache \cup {slot} /\ cache'[slot] = entry
      /\ \A s \in DOMAIN cache : s # slot => cache'[s] = cache[s]
  BY <1>1 DEF Entered
<1>9. n \in DOMAIN requests'
  BY <1>3, <1>6
<1>10. slot = Slot(Puts(m), Key(m, args, n))
  OBVIOUS
<1> HIDE DEF n, slot
<1>11. \A s \in DOMAIN cache' : cache'[s] \in Entries
  BY <1>4, <1>8 DEF Kept
<1>12. Filed'
  <2>1. ASSUME NEW q \in DOMAIN requests
        PROVE  /\ requests'[q].args \in [Fields(requests'[q].m) -> Values]
               /\ \E l \in Nat : requests'[q].slot
                      = Slot(Puts(requests'[q].m), Key(requests'[q].m, requests'[q].args, l))
    <3>1. requests'[q] = requests[q]
      BY <1>6
    <3> QED BY <3>1 DEF Kept, Filed
  <2>2. /\ requests'[n].args \in [Fields(requests'[n].m) -> Values]
        /\ \E l \in Nat : requests'[n].slot
               = Slot(Puts(requests'[n].m), Key(requests'[n].m, requests'[n].args, l))
    BY <1>2, <1>3, <1>5, <1>6, <1>10
  <2> QED BY <1>6, <2>1, <2>2 DEF Filed
<1>13. Asked'
  BY <1>2, <1>6, <1>7, <1>9 DEF Kept, Asked
<1>14. Latched'
  <2> SUFFICES ASSUME NEW q \in InFlight', Dedupes(requests'[q].m), requests'[q].m \notin Unshared,
                      ~ Hidden(q)'
               PROVE  /\ requests'[q].slot \in DOMAIN cache'
                      /\ cache'[requests'[q].slot] = [state |-> "loading", req |-> q]
    BY DEF Latched, Hidden
  <2>1. CASE q = n
    BY <1>2, <1>6, <1>8, <2>1 DEF entry
  <2>2. CASE q # n
    <3>1. q \in InFlight /\ requests'[q] = requests[q] /\ q \in DOMAIN requests
      BY <1>6, <2>2 DEF InFlight
    <3>2. ~ Hidden(q)
      BY <1>6, <3>1 DEF Hidden
    <3>3. /\ requests[q].slot \in DOMAIN cache
          /\ cache[requests[q].slot] = [state |-> "loading", req |-> q]
      BY <3>1, <3>2 DEF Kept, Latched
    <3>4. requests[q].slot # slot
      <4> SUFFICES ASSUME requests[q].slot = slot PROVE FALSE
        OBVIOUS
      <4> DEFINE w == requests[q].m
      <4>1. PICK l \in Nat : requests[q].slot = Slot(Puts(w), Key(w, requests[q].args, l))
        BY <3>1 DEF Kept, Filed
      <4>2. w \in Methods /\ Dedupes(w) /\ w \notin Unshared
        <5>1. requests[q] \in Requests
          BY <1>3, <3>1
        <5> QED BY <3>1, <5>1 DEF Requests
      <4> HIDE DEF w
      <4>3. Slot(Puts(w), Key(w, requests[q].args, l)) = Slot(Puts(m), Key(m, args, n))
        BY <1>10, <4>1
      <4>4. Puts(w) = Puts(m) /\ Row(w).as = Row(m).as /\ Row(w).key = Row(m).key
        BY ONLY <4>3, SlotParts
      <4>5. Checks(w) = Puts(w)
        BY <4>2, MethodsTold DEF Told
      <4>6. m = w
        BY <4>2, <4>4, <4>5, OwnStore
      <4>7. Slot(Checks(m), key) = slot
        BY <4>5, <4>6 DEF slot
      <4>8. Looked(m, key) = "loading"
        BY <3>3, <4>2, <4>6, <4>7 DEF Looked
      <4> QED BY <4>8
    <3> QED BY <1>8, <3>1, <3>3, <3>4
  <2> QED BY <2>1, <2>2
<1> QED BY <1>7, <1>11, <1>12, <1>13, <1>14 DEF Kept

LEMMA CallKept ==
  ASSUME IInv, Kept, NEW m \in Methods, NEW args \in Arguments(m), Call(m, args)
  PROVE  Kept'
<1> DEFINE key == Key(m, args, Len(requests) + 1)
           slot == Slot(Checks(m), key)
           r == cache[slot].req
<1>1. \/ Looked(m, key) # "loading" /\ Send(m, args, key)
      \/ /\ Looked(m, key) = "loading"
         /\ calls' = Append(calls, [m |-> m, args |-> args, req |-> r, answer |-> NoAnswer])
         /\ UNCHANGED <<cache, requests>>
      \/ /\ Looked(m, key) = "loaded"
         /\ calls' = Append(calls, [m |-> m, args |-> args, req |-> r, answer |-> cache[slot]])
         /\ UNCHANGED <<cache, requests>>
  BY DEF Call
<1>2. Len(requests) + 1 \in Nat
  BY DEF IInv, Shapes
<1>3. Looked(m, key) # "none"
      => /\ slot \in DOMAIN cache /\ r \in DOMAIN requests
         /\ m \notin Forgetful => requests[r].m = m /\ requests[r].args = args
  BY <1>2, OwnRequest
<1>4. slot \in DOMAIN cache => cache[slot] \in Entries
  BY DEF Kept
<1>5. NoAnswer.state # "loaded"
  BY DEF NoAnswer
<1> HIDE DEF key, slot
<1>6. CASE Looked(m, key) # "loading" /\ Send(m, args, key)
  BY <1>6, SendKept DEF key
<1>7. CASE /\ Looked(m, key) = "loading"
           /\ calls' = Append(calls, [m |-> m, args |-> args, req |-> r, answer |-> NoAnswer])
           /\ UNCHANGED <<cache, requests>>
  BY <1>3, <1>5, <1>7, JoinKept
<1>8. CASE /\ Looked(m, key) = "loaded"
           /\ calls' = Append(calls, [m |-> m, args |-> args, req |-> r, answer |-> cache[slot]])
           /\ UNCHANGED <<cache, requests>>
  BY <1>3, <1>4, <1>8, JoinKept
<1> QED BY <1>1, <1>6, <1>7, <1>8

LEMMA ServeKept ==
  ASSUME IInv, Kept, NEW r \in DOMAIN requests, Serve(r)
  PROVE  Kept'
<1>1. /\ requests[r].state = "sent" /\ UNCHANGED <<cache, calls>>
      /\ requests' = [requests EXCEPT ![r].state = "served", ![r].seen = version']
  BY DEF Serve
<1>2. requests[r] \in Requests
  BY DEF IInv, Shapes
<1>3. /\ DOMAIN requests' = DOMAIN requests
      /\ \A q \in DOMAIN requests :
           /\ requests'[q].m = requests[q].m /\ requests'[q].args = requests[q].args
           /\ requests'[q].slot = requests[q].slot /\ requests'[q].across = requests[q].across
           /\ requests'[q].state # "over" <=> requests[q].state # "over"
  BY <1>1, <1>2 DEF Requests
<1>4. Filed'
  BY <1>3 DEF Kept, Filed
<1>5. Asked'
  BY <1>1, <1>3 DEF Kept, Asked
<1>6. Latched'
  BY <1>1, <1>3 DEF Kept, Latched, Hidden, InFlight
<1> QED BY <1>1, <1>4, <1>5, <1>6 DEF Kept

\* A turn in which the request r is over, with its entry e.
LEMMA TurnKept ==
  ASSUME IInv, Kept, NEW r \in DOMAIN requests, NEW e \in Entries, e.req = r,
         calls' = [k \in DOMAIN calls |->
                     IF calls[k].req = r /\ calls[k].answer = NoAnswer
                     THEN [calls[k] EXCEPT !.answer = e] ELSE calls[k]],
         DOMAIN requests' = DOMAIN requests,
         \A q \in DOMAIN requests :
            /\ requests'[q].m = requests[q].m /\ requests'[q].args = requests[q].args
            /\ requests'[q].slot = requests[q].slot
  PROVE  calls' \in Seq(Calls) /\ Filed' /\ Asked'
<1>1. /\ calls \in Seq(Calls) /\ DOMAIN calls = 1 .. Len(calls) /\ Len(calls) \in Nat
      /\ \A k \in DOMAIN calls : calls[k] \in Calls
  BY DEF Kept
<1>2. ASSUME NEW k \in DOMAIN calls
      PROVE  /\ calls'[k] \in Calls /\ calls'[k].m = calls[k].m /\ calls'[k].args = calls[k].args
             /\ calls'[k].req = calls[k].req
             /\ \/ calls'[k].answer = calls[k].answer
                \/ calls'[k].answer = e /\ calls[k].req = r
  <2>1. calls[k] \in Calls
    BY <1>1
  <2>2. CASE calls[k].req = r /\ calls[k].answer = NoAnswer
    <3>1. calls'[k] = [calls[k] EXCEPT !.answer = e]
      BY <2>2
    <3> QED BY <2>1, <2>2, <3>1 DEF Calls
  <2>3. CASE ~ (calls[k].req = r /\ calls[k].answer = NoAnswer)
    <3>1. calls'[k] = calls[k]
      BY <2>3
    <3> QED BY <2>1, <3>1
  <2> QED BY <2>2, <2>3
<1>3. DOMAIN calls' = DOMAIN calls
  OBVIOUS
<1>4. calls' \in Seq(Calls)
  <2>1. calls' = [k \in 1 .. Len(calls) |-> calls'[k]]
    BY <1>1
  <2> QED BY <1>1, <1>2, <2>1
<1>5. Filed'
  BY DEF Kept, Filed
<1>6. Asked'
  BY <1>2, <1>3 DEF Kept, Asked
<1> QED BY <1>4, <1>5, <1>6

LEMMA DeliverKept ==
  ASSUME IInv, Kept, NEW r \in DOMAIN requests, Deliver(r)
  PROVE  Kept'
<1> DEFINE mine == requests[r].slot
           entry == [state |-> "loaded", req |-> r]
           merged == Entered(cache, mine, entry)
<1>1. /\ requests[r].state = "served"
      /\ cache' = Forget(merged, Emptied(r))
      /\ requests' = [q \in DOMAIN requests |->
                        IF q = r THEN [requests[q] EXCEPT !.state = "over"]
                        ELSE IF Crosses(q, r) THEN [requests[q] EXCEPT !.across = TRUE]
                        ELSE requests[q]]
      /\ calls' = [k \in DOMAIN calls |->
                     IF calls[k].req = r /\ calls[k].answer = NoAnswer
                     THEN [calls[k] EXCEPT !.answer = entry] ELSE calls[k]]
  BY DEF Deliver
<1>2. /\ r \in Nat /\ \A q \in DOMAIN requests : requests[q] \in Requests
  BY DEF IInv, Shapes
<1>3. entry \in Entries /\ entry.req = r
  BY <1>2 DEF Entries
<1>4. /\ DOMAIN requests' = DOMAIN requests
      /\ \A q \in DOMAIN requests :
           /\ requests'[q].m = requests[q].m /\ requests'[q].args = requests[q].args
           /\ requests'[q].slot = requests[q].slot
           /\ requests[q].across => requests'[q].across
           /\ q = r => requests'[q].state = "over"
           /\ q # r => requests'[q].state = requests[q].state
           /\ q # r /\ Crosses(q, r) => requests'[q].across
  BY <1>1, <1>2 DEF Requests
<1>5. calls' \in Seq(Calls) /\ Filed' /\ Asked'
  BY <1>1, <1>3, <1>4, TurnKept
<1>6. /\ DOMAIN merged = DOMAIN cache \cup {mine} /\ merged[mine] = entry
      /\ \A s \in DOMAIN cache : s # mine => merged[s] = cache[s]
  BY DEF Entered
<1> HIDE DEF merged
<1>7. /\ DOMAIN cache' = {s \in DOMAIN merged : s.store \notin Emptied(r)}
      /\ \A s \in DOMAIN cache' : cache'[s] = merged[s]
  BY <1>1 DEF Forget, Restrict
<1> HIDE DEF entry
<1>8. \A s \in DOMAIN cache' : cache'[s] \in Entries
  BY <1>3, <1>6, <1>7 DEF Kept
<1>9. Latched'
  <2> SUFFICES ASSUME NEW q \in InFlight', Dedupes(requests'[q].m), requests'[q].m \notin Unshared,
                      ~ Hidden(q)'
               PROVE  /\ requests'[q].slot \in DOMAIN cache'
                      /\ cache'[requests'[q].slot] = [state |-> "loading", req |-> q]
    BY DEF Latched, Hidden
  <2>1. /\ q \in InFlight /\ q \in DOMAIN requests /\ q # r
        /\ requests'[q].m = requests[q].m /\ requests'[q].slot = requests[q].slot
    BY <1>4 DEF InFlight
  <2>2. ~ Hidden(q)
    BY <1>4, <2>1 DEF Hidden
  <2>3. /\ requests[q].slot \in DOMAIN cache
        /\ cache[requests[q].slot] = [state |-> "loading", req |-> q]
    BY <2>1, <2>2 DEF Kept, Latched
  <2>4. requests[q].slot.store \notin Emptied(r)
    <3>1. ~ Crosses(q, r)
      BY <1>4, <2>1 DEF Hidden
    <3> QED BY <2>1, <3>1, PurgedIsOutdated DEF Crosses, Emptied
  <2>5. requests[q].slot # mine
    <3> SUFFICES ASSUME requests[q].slot = mine PROVE FALSE
      OBVIOUS
    <3>1. requests[r].m = requests[q].m
      BY <2>1, SameSlot
    <3>2. r \in InFlight
      BY <1>1 DEF InFlight
    <3>3. ~ Hidden(r)
      BY <2>2 DEF Hidden
    <3>4. cache[mine] = [state |-> "loading", req |-> r]
      BY <2>1, <3>1, <3>2, <3>3 DEF Kept, Latched
    <3> QED BY <2>1, <2>3, <3>4
  <2> QED BY <1>6, <1>7, <2>1, <2>3, <2>4, <2>5
<1> QED BY <1>5, <1>8, <1>9 DEF Kept

LEMMA FailKept ==
  ASSUME IInv, Kept, NEW r \in DOMAIN requests, Fail(r)
  PROVE  Kept'
<1> DEFINE mine == requests[r].slot
           entry == [state |-> "error", req |-> r]
<1>1. /\ requests[r].state \in {"sent", "served"}
      /\ cache' = Entered(cache, mine, entry)
      /\ requests' = [requests EXCEPT ![r].state = "over"]
      /\ calls' = [k \in DOMAIN calls |->
                     IF calls[k].req = r /\ calls[k].answer = NoAnswer
                     THEN [calls[k] EXCEPT !.answer = entry] ELSE calls[k]]
  BY DEF Fail
<1>2. /\ r \in Nat /\ \A q \in DOMAIN requests : requests[q] \in Requests
  BY DEF IInv, Shapes
<1>3. entry \in Entries /\ entry.req = r
  BY <1>2 DEF Entries
<1>4. /\ DOMAIN requests' = DOMAIN requests
      /\ \A q \in DOMAIN requests :
           /\ requests'[q].m = requests[q].m /\ requests'[q].args = requests[q].args
           /\ requests'[q].slot = requests[q].slot
           /\ requests[q].across => requests'[q].across
           /\ q = r => requests'[q].state = "over"
           /\ q # r => requests'[q].state = requests[q].state
  BY <1>1, <1>2 DEF Requests
<1>5. calls' \in Seq(Calls) /\ Filed' /\ Asked'
  BY <1>1, <1>3, <1>4, TurnKept
<1>6. /\ DOMAIN cache' = DOMAIN cache \cup {mine} /\ cache'[mine] = entry
      /\ \A s \in DOMAIN cache : s # mine => cache'[s] = cache[s]
  BY <1>1 DEF Entered
<1> HIDE DEF entry
<1>7. \A s \in DOMAIN cache' : cache'[s] \in Entries
  BY <1>3, <1>6 DEF Kept
<1>8. Latched'
  <2> SUFFICES ASSUME NEW q \in InFlight', Dedupes(requests'[q].m), requests'[q].m \notin Unshared,
                      ~ Hidden(q)'
               PROVE  /\ requests'[q].slot \in DOMAIN cache'
                      /\ cache'[requests'[q].slot] = [state |-> "loading", req |-> q]
    BY DEF Latched, Hidden
  <2>1. /\ q \in InFlight /\ q \in DOMAIN requests /\ q # r
        /\ requests'[q].m = requests[q].m /\ requests'[q].slot = requests[q].slot
    BY <1>4 DEF InFlight
  <2>2. ~ Hidden(q)
    BY <1>4, <2>1 DEF Hidden
  <2>3. /\ requests[q].slot \in DOMAIN cache
        /\ cache[requests[q].slot] = [state |-> "loading", req |-> q]
    BY <2>1, <2>2 DEF Kept, Latched
  <2>4. requests[q].slot # mine
    <3> SUFFICES ASSUME requests[q].slot = mine PROVE FALSE
      OBVIOUS
    <3>1. requests[r].m = requests[q].m
      BY <2>1, SameSlot
    <3>2. r \in InFlight
      BY <1>1 DEF InFlight
    <3>3. ~ Hidden(r)
      BY <2>2 DEF Hidden
    <3>4. cache[mine] = [state |-> "loading", req |-> r]
      BY <2>1, <3>1, <3>2, <3>3 DEF Kept, Latched
    <3> QED BY <2>1, <2>3, <3>4
  <2> QED BY <1>6, <2>1, <2>3, <2>4
<1> QED BY <1>5, <1>7, <1>8 DEF Kept

LEMMA NextKept == IInv /\ Kept /\ [Next]_vars => Kept'
<1> SUFFICES ASSUME IInv, Kept, [Next]_vars PROVE Kept'
  OBVIOUS
<1>1. ASSUME NEW m \in Within, NEW args \in Arguments(m), Call(m, args) PROVE Kept'
  <2>1. m \in Methods
    BY CallsAssumption DEF Within
  <2> QED BY <1>1, <2>1, CallKept
<1>2. ASSUME NEW r \in DOMAIN requests, Serve(r) \/ Deliver(r) \/ Fail(r) PROVE Kept'
  BY <1>2, ServeKept, DeliverKept, FailKept
<1>3. CASE UNCHANGED vars
  BY <1>3 DEF vars, Kept, Filed, Asked, Latched, Hidden, InFlight
<1> QED BY <1>1, <1>2, <1>3 DEF Next

LEMMA KeptIsInvariant == Spec => [](IInv /\ Kept)
  BY InitIInv, InitKept, NextKeeps, NextKept, PTL DEF Spec

\* Callers are given the answers to their own questions, however the services
\* share stores and actions (BaseService.js and the services, checkRequesting),
\* for every number of calls of every method with every argument.
THEOREM AnswersAreOwn == Spec => []OwnAnswer
<1>1. IInv /\ Kept => OwnAnswer
  BY DEF Kept, Asked, OwnAnswer
<1> QED BY KeptIsInvariant, <1>1, PTL

\* A question is under way once, unless the store was emptied under it.
THEOREM RequestsAreShared == Spec => []OneRequest
<1>1. ASSUME IInv, Kept, NEW q \in InFlight, NEW r \in InFlight, q # r,
             requests[q].slot = requests[r].slot, Dedupes(requests[q].m),
             requests[q].m \notin Unshared
      PROVE  \E p \in DOMAIN requests : requests[p].slot = requests[q].slot /\ requests[p].across
  <2>1. q \in DOMAIN requests /\ r \in DOMAIN requests
    BY DEF InFlight
  <2>2. requests[r].m = requests[q].m
    BY <1>1, <2>1, SameSlot
  <2>3. Hidden(q) \/ cache[requests[q].slot] = [state |-> "loading", req |-> q]
    BY <1>1 DEF Kept, Latched
  <2>4. Hidden(r) \/ cache[requests[r].slot] = [state |-> "loading", req |-> r]
    BY <1>1, <2>2 DEF Kept, Latched
  <2> QED BY <1>1, <2>3, <2>4 DEF Hidden
<1>2. IInv /\ Kept => OneRequest
  BY <1>1 DEF OneRequest
<1> QED BY KeptIsInvariant, <1>2, PTL
=============================================================================
