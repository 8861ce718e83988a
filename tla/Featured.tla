------------------------------ MODULE Featured ------------------------------
(***************************************************************************)
(* The list of featured databases, beside the creations: an edit reads the *)
(* list, changes it in memory, and writes the positions back one query     *)
(* after the other.  The table has no uniqueness to stop an entry or a     *)
(* position from being there twice.                                        *)
(***************************************************************************)
EXTENDS Creation, SequencesExt

CONSTANTS
  Edits,   \* the edits administrators ask for: [edit, db, at]
  Listed   \* the lists the model starts from, sequences of databases

\* An edit has a database and a position; the lists are of databases.
ASSUME EditsAssumption ==
  /\ \A e \in Edits : /\ e = [edit |-> e.edit, db |-> e.db, at |-> e.at]
                       /\ e.edit \in {"add", "remove"} /\ e.at \in Nat
  /\ \A list \in Listed : list \in Seq({list[i] : i \in DOMAIN list})

VARIABLE
  featured  \* the entries: [id, db, index]

vars == <<creationVars, featured>>

None == 0
\* What an edit is about, unlike any organization.
List == <<"featured list">>
Ids == {e.id : e \in featured}
FreshId == CHOOSE id \in 1..(Cardinality(Ids) + 1) : id \notin Ids

CatalogInit ==
  /\ Init
  /\ \E list \in Listed :
       featured = {[id |-> i, db |-> list[i], index |-> i - 1] : i \in DOMAIN list}

\* getFeaturedDatabases: in the order of their positions, equal ones in any.
Orders(entries) ==
  {s \in SetToSeqs(entries) : \A i, j \in DOMAIN s : i < j => s[i].index <= s[j].index}

-----------------------------------------------------------------------------
SendEdit(w, edit) ==
  /\ Receive(w, [pc |-> "read", about |-> List, hit |-> FALSE, overlaps |-> FALSE, asked |-> edit,
                 list |-> <<>>, before |-> <<>>, next |-> 1, kept |-> FALSE])
  /\ UNCHANGED <<tables, faults, featured>>

EditFails(w) ==
  /\ request[w].pc \in {"read", "delete", "write"}
  /\ Fault /\ Goes(w, "refused", Hit(request[w]))
  /\ UNCHANGED <<tables, sent, featured>>

\* Array.splice at a position beyond the end appends.
Spliced(list, at, entry) == InsertAt(list, IF at < Len(list) THEN at + 1 ELSE Len(list) + 1, entry)

\* makeFeatured's list in memory: a database that is not in it goes in, one
\* that is moves.
Added(list, db, at) ==
  LET here == {i \in DOMAIN list : list[i].db = db} IN
  IF here = {} THEN Spliced(list, at, [id |-> None, db |-> db, index |-> at])
  ELSE LET i == CHOOSE i \in here : \A j \in here : i <= j
       IN  Spliced(RemoveAt(list, i), at, list[i])

\* Where the list has the database, and whether it stays: it is there
\* already, by the position in its entry, or it is alone.
First(list, db) == SelectInSeq(list, LAMBDA e : e.db = db)
Stays(list, db, at) ==
  LET i == First(list, db) IN i # 0 /\ (list[i].index = at \/ Len(list) = 1)

Read(w) ==
  LET r == request[w] IN
  /\ Under(w, "read")
  /\ \E list \in Orders(featured) :
       IF r.asked.edit = "remove"
         THEN IF First(list, r.asked.db) = 0 THEN Go(w, "refused")
              ELSE Goes(w, "delete", [r EXCEPT !.list = list, !.before = list])
         ELSE IF Stays(list, r.asked.db, r.asked.at)
              THEN Goes(w, "listed", [r EXCEPT !.before = list, !.kept = TRUE])
              ELSE Goes(w, "write", [r EXCEPT !.list = Added(list, r.asked.db, r.asked.at), !.before = list])
  /\ UNCHANGED <<tables, sent, faults, featured>>

\* removeFeatured: the result of its filter is dropped, so that the deleted
\* entry is among those whose position is written, to no effect.
Delete(w) ==
  LET r == request[w] IN
  /\ Under(w, "delete")
  /\ featured' = {e \in featured : e.id # r.list[First(r.list, r.asked.db)].id}
  /\ Go(w, "write")
  /\ UNCHANGED <<tables, sent, faults>>

\* variant: only the entry that was asked for is written.
WriteOnlyIt(w) ==
  LET r == request[w]  entry == r.list[r.next] IN
  /\ Under(w, "write")
  /\ featured' = IF entry.db # r.asked.db THEN featured
                 ELSE {e \in featured : e.id # entry.id}
                        \cup {[id |-> IF entry.id = None THEN FreshId ELSE entry.id,
                               db |-> entry.db, index |-> r.next - 1]}
  /\ Goes(w, IF r.next = Len(r.list) THEN "listed" ELSE "write", [r EXCEPT !.next = @ + 1])
  /\ UNCHANGED <<tables, sent, faults>>
\* One position: a new entry is inserted, any other updated, if it is there.
Write(w) ==
  LET r == request[w]
      entry == r.list[r.next]
      new == [id |-> FreshId, db |-> entry.db, index |-> r.next - 1] IN
  /\ Under(w, "write")
  /\ featured' = IF entry.id = None THEN featured \cup {new}
                 ELSE {IF e.id = entry.id THEN [e EXCEPT !.index = r.next - 1] ELSE e : e \in featured}
  /\ Goes(w, IF r.next = Len(r.list) THEN "listed" ELSE "write", [r EXCEPT !.next = @ + 1])
  /\ UNCHANGED <<tables, sent, faults>>

CatalogNext ==
  \/ Next /\ UNCHANGED featured
  \/ \E w \in Workers, edit \in Edits : SendEdit(w, edit)
  \/ \E w \in Workers : Read(w) \/ Delete(w) \/ Write(w) \/ EditFails(w)

CatalogSpec == CatalogInit /\ [][CatalogNext]_vars

-----------------------------------------------------------------------------
(* Properties                                                              *)

Names(list) == [i \in DOMAIN list |-> list[i].db]
\* What is in the list, but for db, is in the other one too, in the same order.
Keeps(list, other, db) ==
  \A i, j \in DOMAIN list : i <= j /\ list[i].db # db /\ list[j].db # db =>
    \E k, l \in DOMAIN other : k <= l /\ other[k].db = list[i].db /\ other[l].db = list[j].db

\* An edit that is answered with success, and that met neither a fault nor
\* another edit, leaves a list without a repeated position, whatever failures
\* before it left, and no database in it twice if none was; the others keep
\* their order, a database it adds or moves is at the position asked for, or
\* at the end, and one it removes is gone.  The exception: an entry whose
\* stored position is the one asked for is not moved, even if removals before
\* it have left its place another, and what is half written stays so.
EditsTakeEffect ==
  [][\A w \in Workers :
       LET r == request[w]
           after == CHOOSE s \in Orders(featured') : TRUE IN
       /\ Under(w, "write") /\ request'[w].pc = "listed" /\ ~r.hit /\ ~r.overlaps
       /\ IsInjective(Names(r.before))
       => /\ Orders(featured') = {after} /\ IsInjective(Names(after))
          /\ Keeps(r.before, after, r.asked.db) /\ Keeps(after, r.before, r.asked.db)
          /\ IF r.asked.edit = "remove" THEN First(after, r.asked.db) = 0
             ELSE First(after, r.asked.db) = Min({r.asked.at + 1, Len(after)})]_vars
=============================================================================
