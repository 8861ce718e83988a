----------------------------- MODULE AdminPages -----------------------------
(***************************************************************************)
(* The administration pages of the web client, in one browser: the page of *)
(* a user, the page of a table and the list of the users.  All of them     *)
(* stay in the document once visited, and each listens to the location and *)
(* to the dialog whether it is in view or not.  Between two awaits the     *)
(* client runs undisturbed.  Filters of the tables are left out, and the   *)
(* sharing of requests is ClientCache's matter: a read asks the server.    *)
(***************************************************************************)
EXTENDS Access, FiniteSetsExt

\* The bounds: each behaviour has one of these numbers of changes of location, of
\* changes of access, and of failures and answers of a sleeping instance.
CONSTANT Budgets

ASSUME BudgetsAssumption == Budgets \subseteq [moves : Nat, changes : Nat, faults : Nat]

VARIABLES location,   \* the page and what it is about
          view,       \* pgfarm-app: the page that is displayed
          timers,     \* pgfarm-app: the pages about to be displayed
          subject,    \* per page: the user or table of its last location
          rows,       \* per page: the rows of its table
          bulk,       \* per page: selectedBulkAction
          loads,      \* the handlers of a location that wait for an answer
          loader,     \* app-loader
          dialog,     \* app-dialog-modal
          errorShown, \* app-error, which nothing hides but a reload
          changes,    \* the changes of access under way
          left,       \* the moves, changes and faults that may still come
          disturbed   \* something else was under way when the page began to load,
                      \* or came while it was

pageVars == <<subject, rows, bulk>>
vars == <<held, location, view, timers, subject, rows, bulk, loads, loader, dialog, errorShown,
          changes, left, disturbed>>

Pages == {"user", "table", "users"}
Locations == ({"user"} \X Users) \cup ({"table"} \X Tables) \cup {<<"users", Database>>}
Here == location[1]

\* What the rows of a page are, what its bulk action offers, and the pair of
\* user and object a row stands for.
Subjects(page) == IF page = "user" THEN Tables ELSE Users
Offered(page) == IF page = "users" THEN {"NONE"} ELSE Levels
ActionOf(page) == IF page = "users" THEN "db-rm-schema-access" ELSE "db-update-user-table-access"
Pair(page, row) == CASE page = "user" -> <<subject["user"], row>>
                     [] page = "table" -> <<row, subject["table"]>>
                     [] page = "users" -> <<row, Schema>>

Selected(page) == {s \in DOMAIN rows[page] : rows[page][s].selected}
\* TableController.reset
Unselect(table) == [s \in DOMAIN table |-> [table[s] EXCEPT !.selected = FALSE]]

NoDialog == [open |-> "none"]
Quiet == loads = {} /\ DOMAIN changes = {} /\ timers = {}

-----------------------------------------------------------------------------
(* The loader: it fades in and out, and hide() waits for the fading in.    *)

\* variant: hide() does not wait.
HiddenAtOnce(l) ==
  IF l.hiding THEN l
  ELSE IF l.showing THEN l
  ELSE IF l.displayed THEN [l EXCEPT !.hiding = TRUE, !.fadesOut = @ + 1]
  ELSE l
Hidden(l) ==
  IF l.hiding THEN l
  ELSE IF l.showing THEN [l EXCEPT !.waits = @ + 1]
  ELSE IF l.displayed THEN [l EXCEPT !.hiding = TRUE, !.fadesOut = @ + 1]
  ELSE l
\* While it fades out it counts as displayed, and show() does nothing.
Shown(l) ==
  IF l.showing \/ l.displayed THEN l ELSE [l EXCEPT !.showing = TRUE, !.visible = TRUE]

FadedIn ==
  /\ loader.showing
  /\ loader' = [loader EXCEPT !.showing = FALSE, !.displayed = TRUE, !.waits = 0,
                              !.hiding = @ \/ loader.waits > 0, !.fadesOut = @ + loader.waits]
  /\ UNCHANGED <<held, location, view, timers, pageVars, loads, dialog, errorShown, changes, left,
                 disturbed>>
FadedOut ==
  /\ loader.fadesOut > 0
  /\ loader' = [loader EXCEPT !.fadesOut = @ - 1, !.hiding = FALSE, !.displayed = FALSE,
                              !.visible = FALSE]
  /\ UNCHANGED <<held, location, view, timers, pageVars, loads, dialog, errorShown, changes, left,
                 disturbed>>

-----------------------------------------------------------------------------
(* A change of the location.                                               *)

\* The event of the location, sent again by refresh(): the application and the
\* page it is for take it in turn; the page of a user drops its rows.
Arrive(loc, table) ==
  LET page == loc[1]
      free == CHOOSE n \in 1 .. Cardinality(loads) + 1 : \A l \in loads : l.n # n
  IN /\ timers' = IF page = view THEN timers ELSE timers \cup {page}
     /\ subject' = [subject EXCEPT ![page] = loc[2]]
     /\ rows' = IF page = "user" THEN [table EXCEPT !["user"] = <<>>] ELSE table
     /\ loads' = loads \cup {[n |-> free, page |-> page, at |-> "admin"]}

\* A link, or the browser's own buttons, which a dialog does not take away.
Move(loc) ==
  /\ loc # location /\ left.moves > 0
  /\ location' = loc
  /\ Arrive(loc, rows)
  /\ loader' = Shown(loader)
  /\ left' = [left EXCEPT !.moves = @ - 1]
  /\ disturbed' = ~Quiet
  /\ UNCHANGED <<held, view, bulk, dialog, errorShown, changes>>

\* pgfarm-app displays the page 200 ms later; a location it was already showing
\* by then has set no timer.
Display(page) ==
  /\ page \in timers
  /\ view' = page /\ timers' = timers \ {page}
  /\ UNCHANGED <<held, location, pageVars, loads, loader, dialog, errorShown, changes, left, disturbed>>

-----------------------------------------------------------------------------
(* The handlers of the location.                                           *)

Become(l, new) == loads' = (loads \ {l}) \cup {new}

\* isAdmin and the database, then the users and schemas or the overview.
NextRequest(l) ==
  /\ \/ l.at = "admin" /\ l.page = "user" /\ Become(l, [l EXCEPT !.at = "people"])
     \/ l.at = "people"
        /\ Become(l, [n |-> l.n, page |-> l.page, at |-> "asked", who |-> subject["user"]])
     \/ l.at = "admin" /\ l.page # "user"
        /\ Become(l, [n |-> l.n, page |-> l.page, at |-> "asked", who |-> "all"])
  /\ UNCHANGED <<held, location, view, timers, pageVars, loader, dialog, errorShown, changes, left,
                 disturbed>>

\* The query the rows of the page are made from.
Answer(l) == CASE l.page = "user" -> [t \in Tables |-> Level(l.who, "TABLE", t)]
               [] l.page = "table" -> [t \in Tables |-> [u \in Users |-> Level(u, "TABLE", t)]]
               [] l.page = "users" -> [u \in Users |-> Level(u, "SCHEMA", "-")]
Query(l) ==
  /\ l.at = "asked"
  /\ Become(l, [n |-> l.n, page |-> l.page, at |-> "answered", got |-> Answer(l)])
  /\ UNCHANGED <<held, location, view, timers, pageVars, loader, dialog, errorShown, changes, left,
                 disturbed>>

\* New rows take over the elements of the old ones, and a dropdown is set again
\* only if the value it was last set to is another one.
Rendered(old, levels) ==
  [s \in DOMAIN levels |->
     LET kept == s \in DOMAIN old /\ old[s].level = levels[s]
         shown == IF kept THEN old[s].shown ELSE levels[s]
     IN [level |-> levels[s], shown |-> shown, selected |-> FALSE, stuck |-> shown # levels[s]]]

Deliver(l) ==
  /\ l.at = "answered"
  /\ loads' = loads \ {l}
  /\ rows' = [rows EXCEPT ![l.page] =
                Rendered(@, IF l.page = "table" THEN l.got[subject["table"]] ELSE l.got)]
  /\ loader' = Hidden(loader)
  /\ UNCHANGED <<held, location, view, timers, subject, bulk, dialog, errorShown, changes, left,
                 disturbed>>

\* The instance sleeps: the page says so.
Asleep(l) ==
  /\ l.at = "admin" /\ left.faults > 0
  /\ loads' = loads \ {l}
  /\ loader' = Hidden(loader)
  /\ left' = [left EXCEPT !.faults = @ - 1] /\ disturbed' = TRUE
  /\ UNCHANGED <<held, location, view, timers, pageVars, dialog, errorShown, changes>>

\* A request fails: the error is shown and the loader stays.
LoadFails(l) ==
  /\ l.at \in {"admin", "people", "asked"} /\ left.faults > 0
  /\ loads' = loads \ {l}
  /\ errorShown' = TRUE
  /\ left' = [left EXCEPT !.faults = @ - 1] /\ disturbed' = TRUE
  /\ UNCHANGED <<held, location, view, timers, pageVars, loader, dialog, changes>>

-----------------------------------------------------------------------------
(* What the user does.  The loader and the error cover the page, an open   *)
(* dialog keeps it from being used.                                        *)

\* Once no change may follow, within the bound, nothing is selected or opened.
Usable(page) == /\ view = page /\ ~loader.visible /\ ~errorShown /\ dialog = NoDialog
                /\ left.changes > 0

Select(page, s) ==
  /\ Usable(page) /\ s \in DOMAIN rows[page]
  /\ rows' = [rows EXCEPT ![page][s].selected = ~@]
  /\ UNCHANGED <<held, location, view, timers, subject, bulk, loads, loader, dialog, errorShown,
                 changes, left, disturbed>>

\* _onBulkActionSelect, once an action has been chosen: that choice outlives the
\* dialog.  The list of the users keeps those the dialog was opened for.
Apply(page, access) ==
  /\ Usable(page) /\ Selected(page) # {}
  /\ bulk' = [bulk EXCEPT ![page] = access]
  /\ dialog' = [open |-> "bulk", page |-> page, items |-> Selected(page), action |-> ActionOf(page)]
  /\ UNCHANGED <<held, location, view, timers, subject, rows, loads, loader, errorShown, changes,
                 left, disturbed>>

\* The forms: a new user or another type and level of one, or the schema.
OpenForm(page, user, at) ==
  /\ Usable(page)
  /\ (page = "users" /\ at = Database) \/ (page = "user" /\ user = subject["user"])
  /\ dialog' = [open |-> "form", page |-> page, user |-> user, at |-> at, busy |-> FALSE]
  /\ UNCHANGED <<held, location, view, timers, pageVars, loads, loader, errorShown, changes, left,
                 disturbed>>

Dismiss ==
  /\ dialog # NoDialog
  /\ dialog' = NoDialog
  /\ UNCHANGED <<held, location, view, timers, pageVars, loads, loader, errorShown, changes, left,
                 disturbed>>

\* Several changes begin at once, of which at most one is bound to be alone.
Begin(new) ==
  LET ids == left.changes - Len(new) + 1 .. left.changes
      alone == Len(new) = 1 /\ DOMAIN changes = {}
  IN /\ Len(new) <= left.changes
     /\ left' = [left EXCEPT !.changes = @ - Len(new)]
     /\ changes' = IF new = <<>> THEN changes
                   ELSE [i \in DOMAIN changes \cup ids |->
                           IF i \in ids THEN [new[left.changes + 1 - i] EXCEPT !.alone = alone]
                           ELSE [changes[i] EXCEPT !.alone = FALSE]]
     /\ disturbed' = (disturbed \/ (Len(new) > 0 /\ ~Quiet) \/ Len(new) > 1)

Change(by, page, pairs, access, requests) ==
  [by |-> by, page |-> page, pairs |-> pairs, access |-> access, requests |-> requests,
   failed |-> FALSE, alone |-> FALSE]

\* The dropdown of a row: nothing waits for the change, nor looks at its answer.
Pick(page, s, access) ==
  /\ Usable(page) /\ page # "users" /\ s \in DOMAIN rows[page] /\ rows[page][s].shown # access
  /\ rows' = [rows EXCEPT ![page][s].shown = access, ![page][s].stuck = FALSE]
  /\ LET pair == Pair(page, s)
     IN Begin(<<Change("dropdown", page, {pair}, access, SetAccess(pair[1], pair[2], access))>>)
  /\ loader' = Hidden(loader)
  /\ UNCHANGED <<held, location, view, timers, subject, bulk, loads, dialog, errorShown>>

\* Every page that knows the dialog's action takes it for its own rows, as they
\* are selected now; the list of the users takes those the dialog was opened for.
Takes(page) ==
  /\ ActionOf(page) = dialog.action
  /\ page # "users" => Selected(page) # {} /\ bulk[page] # ""
Confirm ==
  /\ dialog.open = "bulk"
  /\ dialog' = NoDialog
  /\ LET takers == SetToSeq({p \in Pages : Takes(p)})
         For(p) == LET items == IF p = "users" THEN dialog.items ELSE Selected(p)
                       pairs == {Pair(p, s) : s \in items}
                       access == IF p = "users" THEN "NONE" ELSE bulk[p]
                   IN Change("bulk", p, pairs, access, SetAccessOfAll(pairs, access))
     IN /\ Begin([i \in DOMAIN takers |-> For(takers[i])])
        /\ loader' = IF takers = <<>> THEN loader ELSE Shown(loader)
  /\ UNCHANGED <<held, location, view, timers, pageVars, loads, errorShown>>

\* A form first puts the user's account, when it is about the database.
Account == [verb |-> "ACCOUNT", what |-> {}]
Submit(access) ==
  /\ dialog.open = "form" /\ ~dialog.busy
  /\ dialog' = [dialog EXCEPT !.busy = TRUE]
  /\ Begin(<<Change("form", dialog.page, {<<dialog.user, dialog.at>>}, access,
             (IF dialog.at = Database THEN <<<<Account>>>> ELSE <<>>)
             \o SetAccess(dialog.user, dialog.at, access))>>)
  /\ UNCHANGED <<held, location, view, timers, pageVars, loads, loader, errorShown>>

-----------------------------------------------------------------------------
(* The changes.                                                            *)

\* The next statement; with its last a request, or its last entry, is answered.
After(requests) == IF Len(Head(requests)) = 1 THEN Tail(requests)
                   ELSE <<Tail(Head(requests))>> \o Tail(requests)
Execute(c) ==
  LET request == Head(changes[c].requests)
  IN /\ changes[c].requests # <<>>
     /\ Run(Head(request))
     /\ changes' = [changes EXCEPT ![c].requests = After(@)]
     /\ UNCHANGED <<location, view, timers, pageVars, loads, loader, dialog, errorShown, left, disturbed>>

\* A statement fails, and with it the request; what was done stays, and the client
\* sends the next one, but after a bulk change and for an account that could not be put.
Fail(c) ==
  LET request == Head(changes[c].requests)
  IN /\ changes[c].requests # <<>> /\ left.faults > 0
     /\ changes' = [changes EXCEPT ![c].requests = IF changes[c].by = "bulk" \/ Head(request) = Account
                                                     THEN <<>> ELSE Tail(@),
                                   ![c].failed = TRUE]
     /\ left' = [left EXCEPT !.faults = @ - 1]
     /\ disturbed' = TRUE
     /\ UNCHANGED <<held, location, view, timers, pageVars, loads, loader, dialog, errorShown>>

Over(c) ==
  /\ changes[c].requests = <<>>
  /\ changes' = [i \in DOMAIN changes \ {c} |-> changes[i]]

DropdownOver(c) ==
  /\ changes[c].by = "dropdown" /\ Over(c)
  /\ UNCHANGED <<held, location, view, timers, pageVars, loads, loader, dialog, errorShown, left,
                 disturbed>>

\* variant: the location is not sent again.
BulkOverUnrefreshed(c) ==
  /\ changes[c].by = "bulk" /\ ~changes[c].failed /\ Over(c)
  /\ rows' = [rows EXCEPT ![changes[c].page] = Unselect(@)]
  /\ loader' = Hidden(loader)
  /\ UNCHANGED <<held, location, view, timers, subject, bulk, loads, dialog, errorShown, left,
                 disturbed>>
\* The page hides the loader, unselects its rows and has the location sent again,
\* to whatever page that is.
BulkOver(c) ==
  /\ changes[c].by = "bulk" /\ ~changes[c].failed /\ Over(c)
  /\ Arrive(location, [rows EXCEPT ![changes[c].page] = Unselect(@)])
  /\ loader' = Shown(IF changes[c].page = "users" THEN loader ELSE Hidden(loader))
  /\ disturbed' = (loads # {} \/ DOMAIN changes # {c} \/ timers # {})
  /\ UNCHANGED <<held, location, view, bulk, dialog, errorShown, left>>

\* The dialog that is open by now is closed, be it another one.
FormOver(c) ==
  /\ changes[c].by = "form" /\ ~changes[c].failed /\ Over(c)
  /\ Arrive(location, rows)
  /\ loader' = Shown(loader)
  /\ dialog' = NoDialog
  /\ disturbed' = (loads # {} \/ DOMAIN changes # {c} \/ timers # {})
  /\ UNCHANGED <<held, location, view, bulk, errorShown, left>>

ChangeFails(c) ==
  /\ changes[c].by # "dropdown" /\ changes[c].failed /\ Over(c)
  /\ errorShown' = TRUE
  /\ dialog' = IF changes[c].by = "form" THEN NoDialog ELSE dialog
  /\ UNCHANGED <<held, location, view, timers, pageVars, loads, loader, left, disturbed>>

-----------------------------------------------------------------------------
\* Roles that have nothing, and one that may have been made an editor; the client
\* has just been loaded.
Init ==
  /\ held \in {{}, {CHOOSE u \in Users : TRUE} \X {"TABLE", "SEQUENCE"} \X {CHOOSE t \in Tables : TRUE} \X {"READ", "WRITE"}}
  /\ location \in Locations
  /\ view = Here /\ timers = {}
  /\ subject = [p \in Pages |-> IF p = Here THEN location[2]
                                ELSE (CHOOSE loc \in Locations : loc[1] = p)[2]]
  /\ rows = [p \in Pages |-> <<>>]
  /\ bulk = [p \in Pages |-> ""]
  /\ loads = {[n |-> 1, page |-> Here, at |-> "admin"]}
  /\ loader = [showing |-> TRUE, displayed |-> FALSE, hiding |-> FALSE, visible |-> TRUE,
               waits |-> 0, fadesOut |-> 0]
  /\ dialog = NoDialog /\ errorShown = FALSE
  /\ changes = <<>>
  /\ left \in Budgets
  /\ disturbed = FALSE

Loading == \E l \in loads : NextRequest(l) \/ Query(l) \/ Deliver(l)
Changing == \E c \in DOMAIN changes : \/ Execute(c) \/ DropdownOver(c) \/ BulkOver(c)
                                      \/ FormOver(c) \/ ChangeFails(c)
Failing == (\E l \in loads : Asleep(l) \/ LoadFails(l)) \/ (\E c \in DOMAIN changes : Fail(c))
Using ==
  \/ \E loc \in Locations : Move(loc)
  \/ \E p \in Pages :
        \/ \E s \in Subjects(p) : Select(p, s) \/ (\E a \in Levels : Pick(p, s, a))
        \/ \E a \in Offered(p) : Apply(p, a)
        \/ \E u \in Users, at \in {Database, Schema} : OpenForm(p, u, at)
  \/ Dismiss \/ Confirm \/ (\E a \in Levels : Submit(a))
Displaying == \E p \in Pages : Display(p)

Next == Loading \/ Changing \/ Failing \/ Using \/ Displaying \/ FadedIn \/ FadedOut

\* The server answers, timers fire and animations end; a user need not act.
Spec == Init /\ [][Next]_vars /\ WF_vars(Loading) /\ WF_vars(Changing) /\ WF_vars(Displaying)
        /\ WF_vars(FadedIn) /\ WF_vars(FadedOut)

-----------------------------------------------------------------------------
(* Properties                                                              *)

\* A change of access that no other overlapped and that was answered well has
\* given each role what it was asked to: the schema opened, the sequence of an
\* edited table with it, nothing left of what was taken away.  A bulk change to
\* viewer leaves the privileges on the sequences.
Settled ==
  \A c \in DOMAIN changes :
     LET change == changes[c]
     IN change.requests = <<>> /\ change.alone /\ ~change.failed =>
          \A pair \in change.pairs : Reached(pair[1], pair[2], change.access, change.by # "bulk")

\* When nothing is under way and nothing came between the answers the page was
\* made from, the page in view is the one of the location and shows the access
\* the roles have.  A dropdown of the page of a table may have kept the level it
\* was once set to.
ShownIsTrue ==
  Quiet /\ ~disturbed =>
    /\ view = Here
    /\ \A s \in DOMAIN rows[Here] :
         LET pair == Pair(Here, s)
             level == IF Here = "users" THEN Level(s, "SCHEMA", "-")
                      ELSE Level(pair[1], "TABLE", pair[2])
         IN rows[Here][s].shown = level \/ (Here = "table" /\ rows[Here][s].stuck)

\* The loader never stays over the page, unless an error is shown on top of it.
LoaderClears == []<>(~loader.visible \/ errorShown)

=============================================================================
