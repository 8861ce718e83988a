---------------------------- MODULE ApiRequest ----------------------------
(***************************************************************************)
(* A request on its way through the admin API: the token is looked up, a   *)
(* route is found, its middleware runs one after the other (the context,   *)
(* the role, the probe of the instance) and the handler answers.  Each of  *)
(* them waits for a query or a probe, so roles and instances change in     *)
(* between, and a promise nobody catches ends the process and every other  *)
(* request in it.                                                          *)
(***************************************************************************)
EXTENDS ApiRoutes, FiniteSets

CONSTANTS
  Callers,     \* the requests that can be under way at once
  MaySend,     \* [Callers -> SUBSET [call : Commands \cup WebCalls, who : People, org : Orgs]]
  MaxChanges,  \* bound: how often the role and the instance change, and queries and kubectl fail
  MaxRequests  \* bound: how many requests are sent

VARIABLES
  request,  \* the request of each caller
  role,     \* the role the member has on the instance in the admin database
  alive,    \* does the instance answer on its port
  changes, sent

apiVars == <<request, role, alive, changes, sent>>

People == {"nobody", "member", "admin"}
\* The name of the organization: of one there is, left out, of none there is.
Orgs == {"named", "bare", "unknown"}
Answers == {"ok", "error", "forbidden", "noContext", "down", "notFound", "lost"}
Idle == [at |-> "idle"]
Busy(c) == request[c].at = "waiting"

\* A request that callers send is one of the library or of the tool.
ASSUME SendAssumption ==
  /\ MaySend \in [Callers -> SUBSET [call : Commands \cup WebCalls, who : People, org : Orgs]]
  /\ MaxChanges \in Nat /\ MaxRequests \in Nat

\* The role a handler is for: the last one its route names.
RoleGuards == {"admin", "instance-admin", "instance-user", "organization-admin", "logged-in"}
For(does) ==
  LET route == CHOOSE r \in {Routes[i] : i \in DOMAIN Routes} : r.does = does
      roles == SelectSeq(route.guards, LAMBDA g : g \in RoleGuards)
  IN  IF roles = <<>> THEN "anyone" ELSE roles[Len(roles)]

\* Who the member is to the organization is who he is to its instance.
Entitled(who, does, r) ==
  CASE For(does) = "anyone" -> TRUE
    [] For(does) = "logged-in" -> who # "nobody"
    [] For(does) = "admin" -> who = "admin"
    [] For(does) = "instance-user" -> who = "admin" \/ (who = "member" /\ r \in {"ADMIN", "USER"})
    [] OTHER -> who = "admin" \/ (who = "member" /\ r = "ADMIN")

\* A `null' in place of the organization is looked up by that name.
Resolves(call, org) == org = "named" \/ (org = "bare" /\ call.bare # "null")

\* What is left to do for a request no route matches: the guard of its router.
GuardsFor(call) ==
  IF Matching(call.to) = <<>>
    THEN IF call.to.path[1] = "admin" THEN <<"admin">> ELSE <<>>
    ELSE Matching(call.to)[1].guards

ApiInit ==
  /\ request = [c \in Callers |-> Idle]
  /\ role \in {"USER", "ADMIN"}
  /\ alive = TRUE
  /\ changes = 0
  /\ sent = 0

-----------------------------------------------------------------------------
Send(c, call, who, org) ==
  /\ request[c].at = "idle"
  /\ sent < MaxRequests
  /\ org = "bare" => call.bare # "none"
  /\ sent' = sent + 1
  /\ request' = [request EXCEPT ![c] =
       [at |-> "waiting", call |-> call, who |-> who, org |-> org, left |-> <<"user">>,
        context |-> "none", answer |-> "", blip |-> FALSE,
        entitled |-> {Entitled(who, call.does, role)}, up |-> {alive}]]
  /\ UNCHANGED <<role, alive, changes>>

Answered(c, answer) == [request EXCEPT ![c].at = "answered", ![c].answer = answer]
Advance(c, r) == [request EXCEPT ![c] = [r EXCEPT !.left = Tail(@)]]
Upcoming(c, guard) == Busy(c) /\ request[c].left # <<>> /\ Head(request[c].left) = guard

\* An unhandled rejection ends the process, and whatever it was doing.
Dead(c) ==
  [d \in Callers |-> IF Busy(d) THEN [request[d] EXCEPT !.at = "answered", !.answer = "lost"]
                     ELSE request[d]]

\* keycloak.setUser of every request, then the routes.
Identify(c) ==
  /\ Upcoming(c, "user")
  /\ request' = [request EXCEPT ![c].left = GuardsFor(request[c].call) \o <<"handler">>]
  /\ UNCHANGED <<role, alive, changes, sent>>

\* The lookup of the token fails, and setUser does not catch it.
IdentifyFails(c) ==
  /\ Upcoming(c, "user")
  /\ request[c].who # "nobody"
  /\ changes < MaxChanges
  /\ changes' = changes + 1
  /\ request' = Dead(c)
  /\ UNCHANGED <<role, alive, sent>>

\* The lookups of the context; a row that is not found leaves its name.
Context(c) ==
  /\ Upcoming(c, "context")
  /\ request' = Advance(c, [request[c] EXCEPT !.context =
       IF Resolves(request[c].call, request[c].org) THEN "found" ELSE "names"])
  /\ UNCHANGED <<role, alive, changes, sent>>

\* A query of the context fails: the same as a row that is not there.
ContextBlip(c) ==
  /\ Upcoming(c, "context")
  /\ changes < MaxChanges
  /\ changes' = changes + 1
  /\ request' = Advance(c, [request[c] EXCEPT !.context = "names", !.blip = TRUE])
  /\ UNCHANGED <<role, alive, sent>>

\* variant: administrators need a role of their own on the instance.
AllowedByRole(guard, who, r) ==
  \/ guard = "admin" /\ who = "admin"
  \/ guard = "logged-in" /\ who # "nobody"
  \/ guard = "instance-admin" /\ who = "member" /\ r = "ADMIN"
  \/ guard = "instance-user" /\ who = "member" /\ r \in {"ADMIN", "USER"}
\* variant: any role on the instance makes an administrator of it.
AllowedByAnyRole(guard, who, r) ==
  \/ who = "admin"
  \/ guard = "logged-in" /\ who # "nobody"
  \/ guard \in {"instance-admin", "instance-user"} /\ who = "member" /\ r \in {"ADMIN", "USER"}
\* The roles of the organization are read from an array of rows: never ADMIN.
Allowed(guard, who, r) ==
  \/ who = "admin"
  \/ guard = "logged-in" /\ who # "nobody"
  \/ guard = "instance-admin" /\ who = "member" /\ r = "ADMIN"
  \/ guard = "instance-user" /\ who = "member" /\ r \in {"ADMIN", "USER"}

\* A database that is not found leaves no instance in the context; an
\* instance that is not found leaves its name there.
NoInstance(r) == r.context = "names" /\ r.call.to.path[1] # "instance"
RoleIn(r) == IF r.context = "found" THEN role ELSE ""

\* protect: _protectInstance takes the context for granted.
Protect(c, guard) ==
  LET r == request[c]
      needsInstance == guard \in {"instance-admin", "instance-user"} IN
  /\ Upcoming(c, guard)
  /\ request' =
       IF needsInstance /\ r.context = "none" THEN Dead(c)
       ELSE IF needsInstance /\ NoInstance(r) THEN Answered(c, "noContext")
       ELSE IF Allowed(guard, r.who, RoleIn(r)) THEN Advance(c, r)
       ELSE Answered(c, "forbidden")
  /\ UNCHANGED <<role, alive, changes, sent>>

\* The query of the role fails, and there is none.
ProtectBlip(c, guard) ==
  /\ Upcoming(c, guard)
  /\ guard \in {"instance-admin", "instance-user"} /\ request[c].context = "found"
  /\ changes < MaxChanges
  /\ changes' = changes + 1
  /\ request' = IF Allowed(guard, request[c].who, "")
                  THEN Advance(c, request[c])
                  ELSE [Answered(c, "forbidden") EXCEPT ![c].blip = TRUE]
  /\ UNCHANGED <<role, alive, sent>>

\* No request of the library or the tool asks for the probe with a flag.
ProbeSkipped(c) ==
  /\ Upcoming(c, "alive?")
  /\ request' = Advance(c, request[c])
  /\ UNCHANGED <<role, alive, changes, sent>>

Probe(c) ==
  /\ Upcoming(c, "alive")
  /\ request' = IF NoInstance(request[c]) \/ request[c].context = "none" THEN Answered(c, "noContext")
                ELSE IF alive /\ request[c].context = "found" THEN Advance(c, request[c])
                ELSE Answered(c, "down")
  /\ UNCHANGED <<role, alive, changes, sent>>

\* The answer that the instance is down has the status of its pod: kubectl's
\* initialisation may reject before the try that would catch it.
ProbeFails(c) ==
  LET r == request[c] IN
  /\ Upcoming(c, "alive")
  /\ r.context # "none" /\ ~NoInstance(r)
  /\ ~(alive /\ r.context = "found")
  /\ changes < MaxChanges
  /\ changes' = changes + 1
  /\ request' = Dead(c)
  /\ UNCHANGED <<role, alive, sent>>

\* create of an organization or of an instance throws before its first query.
NeverWorks == {<<"organization", "create">>, <<"instance", "create">>}

\* variant: an error of the model is logged, and not answered.
HandleSilent(c) ==
  LET r == request[c] matching == Matching(r.call.to) IN
  /\ Upcoming(c, "handler")
  /\ IF matching = <<>> THEN request' = Answered(c, "notFound")
     ELSE /\ matching[1].does \notin NeverWorks /\ r.context # "names"
          /\ \/ request' = Answered(c, "ok")
             \/ ~alive /\ request' = Answered(c, "error")
  /\ UNCHANGED <<role, alive, changes, sent>>
\* The handler; a name that was not found, or an instance that is gone, is an
\* error of the model, which handleError answers.
Handle(c) ==
  LET r == request[c] matching == Matching(r.call.to) IN
  /\ Upcoming(c, "handler")
  /\ IF matching = <<>> THEN request' = Answered(c, "notFound")
     ELSE \/ /\ matching[1].does \notin NeverWorks
             /\ request' = Answered(c, "ok")
          \/ /\ matching[1].does \in NeverWorks \/ r.context = "names" \/ ~alive
             /\ request' = Answered(c, "error")
  /\ UNCHANGED <<role, alive, changes, sent>>

-----------------------------------------------------------------------------
(* What changes under the requests.                                        *)

Noted(r, up) ==
  [c \in Callers |-> IF ~Busy(c) THEN request[c]
     ELSE [request[c] EXCEPT
             !.entitled = @ \cup {Entitled(request[c].who, request[c].call.does, r)},
             !.up = @ \cup {up}]]

SetRole(r) ==
  /\ changes < MaxChanges
  /\ r # role
  /\ role' = r
  /\ changes' = changes + 1
  /\ request' = Noted(r, alive)
  /\ UNCHANGED <<alive, sent>>

Flip ==
  /\ changes < MaxChanges
  /\ alive' = ~alive
  /\ changes' = changes + 1
  /\ request' = Noted(role, alive')
  /\ UNCHANGED <<role, sent>>

\* The handlers that may wait for ever: they join a start whose entry nobody
\* will settle, or wait for the port of an instance without a limit.
Unlimited == {<<"database", "create">>, <<"instance", "start">>, <<"instance", "restore">>}
MayHang(c) ==
  LET matching == Matching(request[c].call.to) IN
  Upcoming(c, "handler") /\ matching # <<>> /\ matching[1].does \in Unlimited

Step(c) ==
  \/ Identify(c)
  \/ Context(c)
  \/ \E guard \in RoleGuards : Protect(c, guard)
  \/ ProbeSkipped(c)
  \/ Probe(c)
  \/ ~MayHang(c) /\ Handle(c)

ApiNext ==
  \/ \E c \in Callers : \E s \in MaySend[c] : Send(c, s.call, s.who, s.org)
  \/ \E c \in Callers : \/ Step(c) \/ (MayHang(c) /\ Handle(c))
                        \/ IdentifyFails(c) \/ ContextBlip(c) \/ ProbeFails(c)
  \/ \E c \in Callers, guard \in RoleGuards : ProtectBlip(c, guard)
  \/ \E r \in {"USER", "ADMIN"} : SetRole(r)
  \/ Flip

ApiSpec == ApiInit /\ [][ApiNext]_apiVars
\* Queries, probes and the models end, one way or the other, but for the
\* handlers that wait for a start without a limit.
ApiFairSpec == ApiSpec /\ \A c \in Callers : WF_apiVars(Step(c))

-----------------------------------------------------------------------------
(* Properties                                                              *)

\* Every request is idle, on its way with middleware left to run, or
\* answered.
ApiTypeOK ==
  /\ \A c \in Callers :
       \/ request[c] = Idle
       \/ /\ request[c].at \in {"waiting", "answered"}
          /\ request[c].answer \in Answers \cup {""}
          /\ (request[c].answer = "") <=> (request[c].at = "waiting")
          /\ Busy(c) => request[c].left # <<>>
  /\ role \in {"USER", "ADMIN"} /\ alive \in BOOLEAN
  /\ changes \in 0..MaxChanges /\ sent \in 0..MaxRequests

\* The requests that reach their handler in another place than it looks:
\* resize sends the size in the body, and the route reads the query.
Misplaced == {<<"instance", "resize">>}

\* The handlers whose role is not enough to reach them: the roles of an
\* organization are never read, and the router of administrators lets only
\* them pass.
Narrowed == {<<"organization", "update">>, <<"organization", "isAdmin">>,
             <<"database", "updateOrgFeaturedList">>, <<"user", "search">>}

\* The tables fit each other: the first route that matches a request is the
\* one its method was written for, takes its fields, and has the role of its
\* handler among its middleware, and no other role unless it is narrowed; who
\* probes an instance has looked for it.  A request that no route matches is
\* one of the backup commands.  There is nothing in it but the two tables.
NeedsContext == {"instance-admin", "instance-user"}
Precedes(guards, i) == \E j \in 1..(i - 1) : guards[j] \in NeedsContext \cup {"context"}
\* The route of link: it has no context, and never reaches its handler.
Deadly(guards) == guards # <<>> /\ guards[1] \in NeedsContext
RouteFits(call) ==
  LET guards == GuardsFor(call)
      matching == Matching(call.to) IN
  /\ guards \in Seq(RoleGuards \cup {"context", "alive?", "alive"})
  /\ For(call.does) \in RoleGuards \cup {"anyone"}
  /\ \A i \in DOMAIN guards : guards[i] = "alive" => Precedes(guards, i)
  /\ matching = <<>> => call \in BackupCommands
  /\ matching # <<>> =>
       /\ matching[1].does = call.does
       /\ call.does \notin Misplaced => Deadly(guards) \/ Arrives(matching[1], call.to)
       /\ For(call.does) # "anyone" => \E i \in DOMAIN guards : guards[i] = For(call.does)
       /\ call.does \notin Narrowed =>
            \A i \in DOMAIN guards :
               guards[i] \in RoleGuards => guards[i] = For(call.does) /\ guards[i] # "organization-admin"
ASSUME RoutesAssumption == \A call \in Commands \cup WebCalls : RouteFits(call)

\* A request that is answered with success was handled by the route it was
\* written for, whatever the order of the routes, with all its fields, and
\* for someone who had the role the route names, on an instance that was
\* alive if the route asks for one, at some moment while it was under way.
Served ==
  \A c \in Callers : request[c].at = "answered" /\ request[c].answer = "ok" =>
    LET route == Matching(request[c].call.to)[1] IN
    /\ route.does = request[c].call.does
    /\ route.does \notin Misplaced => Arrives(route, request[c].call.to)
    /\ TRUE \in request[c].entitled
    /\ "alive" \in {route.guards[i] : i \in DOMAIN route.guards} => TRUE \in request[c].up

\* A request is refused only for a cause: a name in it is unknown, a query
\* failed, its sender lacked the role while it was under way, or the instance
\* was down.  The exceptions are the narrowed handlers, and the backup commands
\* of the command line tool, whose URLs no router has.
RefusedForCause ==
  \A c \in Callers : request[c].at = "answered" =>
    LET r == request[c]
        unknown == ~Resolves(r.call, r.org) \/ r.blip IN
    /\ r.answer = "forbidden" => \/ FALSE \in r.entitled \/ unknown
                                 \/ r.call.does \in Narrowed \/ r.call \in BackupCommands
    /\ r.answer = "down" => FALSE \in r.up \/ unknown
    /\ r.answer = "noContext" => unknown
    /\ r.answer = "notFound" => r.call \in BackupCommands

\* Every request is answered in the end, or lost with the process, unless it
\* has come as far as a handler that may wait for ever.
EndsAnswered == \A c \in Callers : Busy(c) ~> (~Busy(c) \/ MayHang(c))
=============================================================================
