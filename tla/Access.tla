------------------------------- MODULE Access -------------------------------
(***************************************************************************)
(* What the roles of a database may do, and how the administration server  *)
(* changes it: a request is a list of grants or of revocations, each of    *)
(* them several statements sent one after the other to the instance, and   *)
(* none is taken back when a later one fails.  The database has one schema *)
(* and each of its tables has a sequence.  What PUBLIC may do is left out. *)
(***************************************************************************)
EXTENDS Naturals, SequencesExt

CONSTANTS Users,       \* the roles
          Tables       \* the tables of the schema

\* There is somebody to give access to, and something; a table is no other object.
ASSUME NamesAssumption ==
  /\ IsFiniteSet(Users) /\ Users # {}
  /\ IsFiniteSet(Tables) /\ Tables # {}
  /\ {"schema", "_", "-"} \cap Tables = {}

VARIABLE held          \* the privileges the roles have been given

\* An object is known by its kind and its name.  Those of which a database has
\* one here (itself, its schema) or that are granted together have no name.
Kinds == {"DATABASE", "SCHEMA", "FUNCTION", "TYPE", "TABLE", "SEQUENCE"}
Alone == {"-"}
Named(kind) == IF kind \in {"TABLE", "SEQUENCE"} THEN Tables ELSE Alone

\* The registry of the grant definitions: each action stands for the
\* privileges PostgreSQL knows, and ALL PRIVILEGES for every action.
Actions(kind) == CASE kind = "FUNCTION" -> {"EXECUTE"}
                   [] kind = "TYPE" -> {"WRITE"}
                   [] OTHER -> {"READ", "WRITE"}

Having(user, kind, name) == {a \in Actions(kind) : <<user, kind, name, a>> \in held}
\* getGrant: the level a user is shown to have; the first that matches wins.
Level(user, kind, name) ==
  LET has == Having(user, kind, name)
  IN IF "WRITE" \in has THEN "WRITE" ELSE IF "READ" \in has THEN "READ" ELSE "NONE"

Levels == {"READ", "WRITE", "NONE"}
Schema == "schema"
Database == "_"

-----------------------------------------------------------------------------
(* The statements.                                                         *)

Statement(verb, user, kind, names, actions) ==
  [verb |-> verb, what |-> {user} \X {kind} \X names \X actions]
All(verb, user, kind, names) == Statement(verb, user, kind, names, Actions(kind))
Only(verb, user, kind, names, action) == Statement(verb, user, kind, names, {action})

\* variant: viewing a table is granted on top of what the role has.
GrantOnTableOnTop(user, t, level) ==
  <<Only("GRANT", user, "SCHEMA", Alone, "READ")>>
  \o (IF level = "WRITE"
      THEN <<All("GRANT", user, "TABLE", {t}), All("GRANT", user, "SEQUENCE", {t})>>
      ELSE <<Only("GRANT", user, "TABLE", {t}, "READ")>>)
\* grant, of a table: the schema is opened first; a viewer loses what only an
\* editor has, on the table though not on its sequence.
GrantOnTable(user, t, level) ==
  <<Only("GRANT", user, "SCHEMA", Alone, "READ")>>
  \o (IF level = "WRITE"
      THEN <<All("GRANT", user, "TABLE", {t}), All("GRANT", user, "SEQUENCE", {t})>>
      ELSE <<Only("REVOKE", user, "TABLE", {t}, "WRITE"), Only("GRANT", user, "TABLE", {t}, "READ")>>)

\* grant, of a schema: what it holds is granted kind by kind, and nothing revoked.
GrantOnSchema(user, level) ==
  IF level = "WRITE"
  THEN <<All("GRANT", user, "SCHEMA", Alone), All("GRANT", user, "TABLE", Tables),
         All("GRANT", user, "FUNCTION", Alone), All("GRANT", user, "SEQUENCE", Tables),
         All("GRANT", user, "TYPE", Alone)>>
  ELSE <<Only("GRANT", user, "SCHEMA", Alone, "READ"), Only("GRANT", user, "TABLE", Tables, "READ"),
         Only("GRANT", user, "FUNCTION", Alone, "EXECUTE"),
         Only("GRANT", user, "SEQUENCE", Tables, "READ")>>

\* revoke: to revoke READ is to revoke everything.  The schema stays open.
RevokeOnTable(user, t, level) ==
  IF level = "READ"
  THEN <<All("REVOKE", user, "TABLE", {t}), All("REVOKE", user, "SEQUENCE", {t})>>
  ELSE <<Only("REVOKE", user, "TABLE", {t}, "WRITE"), Only("REVOKE", user, "SEQUENCE", {t}, "WRITE")>>
RevokeOnSchema(user, level) ==
  IF level = "READ"
  THEN <<All("REVOKE", user, "SCHEMA", Alone), All("REVOKE", user, "TABLE", Tables),
         All("REVOKE", user, "FUNCTION", Alone), All("REVOKE", user, "SEQUENCE", Tables),
         All("REVOKE", user, "TYPE", Alone)>>
  ELSE <<Only("REVOKE", user, "SCHEMA", Alone, "WRITE"), Only("REVOKE", user, "TABLE", Tables, "WRITE"),
         Only("REVOKE", user, "FUNCTION", Alone, "EXECUTE"),
         Only("REVOKE", user, "SEQUENCE", Tables, "WRITE"), Only("REVOKE", user, "TYPE", Alone, "WRITE")>>

\* Of the database itself an editor is granted what only editors have.
GrantOnDatabase(user, level) == <<Only("GRANT", user, "DATABASE", Alone, level)>>
RevokeOnDatabase(user, level) ==
  IF level = "READ" THEN <<All("REVOKE", user, "DATABASE", Alone)>>
  ELSE <<Only("REVOKE", user, "DATABASE", Alone, "WRITE")>>

Grants(user, at, level) == CASE at = Database -> GrantOnDatabase(user, level)
                             [] at = Schema -> GrantOnSchema(user, level)
                             [] OTHER -> GrantOnTable(user, at, level)
Revocations(user, at, level) == CASE at = Database -> RevokeOnDatabase(user, level)
                                  [] at = Schema -> RevokeOnSchema(user, level)
                                  [] OTHER -> RevokeOnTable(user, at, level)

\* A statement takes effect at once and as a whole.
Run(s) == held' = IF s.verb = "GRANT" THEN held \cup s.what ELSE held \ s.what

-----------------------------------------------------------------------------
(* What the clients ask for: a sequence of requests, or of the entries of  *)
(* one, each of them a sequence of statements.                             *)

\* The change of one user's access: a viewer is first made to lose what only an
\* editor has, by a request of its own.
SetAccess(user, at, access) ==
  CASE access = "READ" -> <<Revocations(user, at, "WRITE"), Grants(user, at, "READ")>>
    [] access = "WRITE" -> <<Grants(user, at, "WRITE")>>
    [] access = "NONE" -> <<Revocations(user, at, "READ")>>

\* The bulk change: the entries of its one request, one for each of the pairs
\* <<user, at>>.
SetAccessOfAll(pairs, access) ==
  LET Of(pair) == IF access = "NONE" THEN Revocations(pair[1], pair[2], "READ")
                  ELSE Grants(pair[1], pair[2], access)
      entries == SetToSeq(pairs)
  IN [i \in DOMAIN entries |-> Of(entries[i])]

\* What the role of `user` must have once such a change is done.
ReachedOnDatabase(user, access) ==
  LET has == Having(user, "DATABASE", "-")
  IN CASE access = "WRITE" -> "WRITE" \in has
       [] access = "READ" -> has = {"READ"}
       [] access = "NONE" -> has = {}
ReachedOnSchema(user, access) ==
  \A kind \in Kinds \ {"DATABASE"} : \A name \in Named(kind) :
     Having(user, kind, name) = CASE access = "WRITE" -> Actions(kind)
                                  [] access = "READ" -> Actions(kind) \ {"WRITE"}
                                  [] access = "NONE" -> {}
ReachedOnTable(user, t, access, onebyone) ==
  LET sequence == Having(user, "SEQUENCE", t)
  IN /\ Level(user, "TABLE", t) = access
     /\ access # "NONE" => "READ" \in Having(user, "TABLE", t) /\ "READ" \in Having(user, "SCHEMA", "-")
     /\ access = "WRITE" => sequence = Actions("SEQUENCE")
     /\ access = "READ" /\ onebyone => "WRITE" \notin sequence
     /\ access = "NONE" => sequence = {}
Reached(user, at, access, onebyone) ==
  CASE at = Database -> ReachedOnDatabase(user, access)
    [] at = Schema -> ReachedOnSchema(user, access)
    [] OTHER -> ReachedOnTable(user, at, access, onebyone)
=============================================================================
