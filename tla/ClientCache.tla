---------------------------- MODULE ClientCache ----------------------------
(***************************************************************************)
(* The caches of a page or of a command: callers ask the models, answers   *)
(* come back in any order or not at all, and writes make the models forget *)
(* what they have read.  The server is a version that each write advances. *)
(* An answer is delivered, and whoever awaits it goes on, in one turn of   *)
(* the event loop.                                                         *)
(***************************************************************************)
EXTENDS ClientMethods, Naturals, Sequences, Functions

CONSTANTS Deep,       \* the methods followed beyond two calls
          Values,     \* values of an argument
          MaxCalls    \* bound on the calls

ASSUME CallsAssumption == Deep \subseteq Methods /\ Values # {} /\ MaxCalls \in Nat

VARIABLES cache,     \* the entries, by store and key
          requests,  \* those that were sent, by number
          calls,     \* what each caller asked, and the answer it was given
          version,   \* writes the server has made
          floor      \* per store: the version of the last write that emptied it

vars == <<cache, requests, calls, version, floor>>

Fields(m) == Row(m).sends
\* The arguments: those of the first call, and those that differ in one.
Usual == CHOOSE v \in Values : TRUE
Arguments(m) == LET usual == [f \in Fields(m) |-> Usual]
                IN {usual} \cup {[usual EXCEPT ![f] = v] : f \in Fields(m), v \in Values}

\* variant: the key without the action.
KeyNoAction(m, args, n) == [as |-> "", fields |-> Restrict(args, Row(m).key),
                            n |-> IF Row(m).numbered THEN n ELSE 0]
\* PayloadUtils.getKey: the action and the key fields, and nothing else.
Key(m, args, n) == [as |-> Row(m).as, fields |-> Restrict(args, Row(m).key),
                    n |-> IF Row(m).numbered THEN n ELSE 0]
Slot(store, key) == [store |-> store, key |-> key]

\* What the writes of a page change: the public record of a database, and with
\* it all that is computed from it, or the featured list alone.
Cached == {"database"} \X {"metadata", "search", "aggs", "getFeaturedList", "isAdmin"}
Featured == {<<"database", "getFeaturedList">>}
Outdates(m) ==
  CASE m \in {<<"database", "update">>, <<"instance", "start">>} -> Cached
    [] m \in {<<"database", "addToFeaturedList">>, <<"database", "removeFromFeaturedList">>} -> Featured
    [] OTHER -> {}

Init ==
  /\ cache = <<>>
  /\ requests = <<>> /\ calls = <<>>
  /\ version = 0
  /\ floor = [s \in Cached |-> 0]

InFlight == {r \in DOMAIN requests : requests[r].state # "over"}
NoAnswer == [state |-> "none"]

-----------------------------------------------------------------------------
(* The services.                                                           *)

\* A store's set: the entry of a key is replaced or added.
Entered(entries, slot, entry) ==
  [s \in DOMAIN entries \cup {slot} |-> IF s = slot THEN entry ELSE entries[s]]

\* onLoading: the entry is replaced, whatever it was.
Send(m, args, key) ==
  LET n == Len(requests) + 1
  IN /\ requests' = Append(requests, [m |-> m, args |-> args, slot |-> Slot(Puts(m), key),
                                      state |-> "sent", seen |-> 0, across |-> FALSE])
     /\ cache' = Entered(cache, Slot(Puts(m), key), [state |-> "loading", req |-> n])
     /\ calls' = Append(calls, [m |-> m, args |-> args, req |-> n, answer |-> NoAnswer])

Looked(m, key) ==
  LET slot == Slot(Checks(m), key)
  IN IF Dedupes(m) /\ slot \in DOMAIN cache THEN cache[slot].state ELSE "none"

\* checkRequesting: a request under way is awaited; an answer may be used again.
Call(m, args) ==
  LET key == Key(m, args, Len(requests) + 1)
      slot == Slot(Checks(m), key)
  IN /\ Len(calls) < MaxCalls
     /\ \/ Looked(m, key) # "loading" /\ Send(m, args, key)
        \/ /\ Looked(m, key) = "loading"
           /\ calls' = Append(calls, [m |-> m, args |-> args, req |-> cache[slot].req,
                                      answer |-> NoAnswer])
           /\ UNCHANGED <<cache, requests>>
        \/ /\ Looked(m, key) = "loaded"
           /\ calls' = Append(calls, [m |-> m, args |-> args, req |-> cache[slot].req,
                                      answer |-> cache[slot]])
           /\ UNCHANGED <<cache, requests>>
     /\ UNCHANGED <<version, floor>>

\* The server takes the request: it reads, or writes a new version.
Serve(r) ==
  /\ requests[r].state = "sent"
  /\ version' = IF Outdates(requests[r].m) # {} THEN version + 1 ELSE version
  /\ requests' = [requests EXCEPT ![r].state = "served", ![r].seen = version']
  /\ UNCHANGED <<cache, calls, floor>>

\* The model, after its service: a write that was answered empties stores.
Emptied(r) == Purges(requests[r].m)
Forget(entries, stores) ==
  Restrict(entries, {slot \in DOMAIN entries : slot.store \notin stores})
Crosses(q, r) == requests[q].slot.store \in Outdates(requests[r].m) /\ q \in InFlight

\* onLoad, and the turn of those that await the request.
Deliver(r) ==
  /\ requests[r].state = "served"
  /\ LET e == [state |-> "loaded", req |-> r]
     IN /\ cache' = Forget(Entered(cache, requests[r].slot, e), Emptied(r))
        /\ calls' = [k \in DOMAIN calls |->
                       IF calls[k].req = r /\ calls[k].answer = NoAnswer
                       THEN [calls[k] EXCEPT !.answer = e] ELSE calls[k]]
  /\ requests' = [q \in DOMAIN requests |->
                    IF q = r THEN [requests[q] EXCEPT !.state = "over"]
                    ELSE IF Crosses(q, r) THEN [requests[q] EXCEPT !.across = TRUE]
                    ELSE requests[q]]
  /\ floor' = [s \in Cached |-> IF s \in Outdates(requests[r].m) /\ floor[s] < requests[r].seen
                                THEN requests[r].seen ELSE floor[s]]
  /\ UNCHANGED version

\* onError: the request failed, before or after the server had it.
Fail(r) ==
  /\ requests[r].state \in {"sent", "served"}
  /\ LET e == [state |-> "error", req |-> r]
     IN /\ cache' = Entered(cache, requests[r].slot, e)
        /\ calls' = [k \in DOMAIN calls |->
                       IF calls[k].req = r /\ calls[k].answer = NoAnswer
                       THEN [calls[k] EXCEPT !.answer = e] ELSE calls[k]]
  /\ requests' = [requests EXCEPT ![r].state = "over"]
  /\ UNCHANGED <<version, floor>>

\* Bound: any two calls, and more if all are to Deep.
Within == IF Len(calls) < 2 THEN Methods
          ELSE IF \A k \in DOMAIN calls : calls[k].m \in Deep THEN Deep ELSE {}

Next ==
  \/ \E m \in Within : \E args \in Arguments(m) : Call(m, args)
  \/ \E r \in DOMAIN requests : Serve(r) \/ Deliver(r) \/ Fail(r)

Spec == Init /\ [][Next]_vars

-----------------------------------------------------------------------------
(* Properties.                                                             *)

TypeOK ==
  /\ \A slot \in DOMAIN cache :
        /\ cache[slot].state \in {"loading", "loaded", "error"}
        /\ cache[slot].req \in DOMAIN requests
        /\ requests[cache[slot].req].slot = slot
        /\ cache[slot].state = "loading" <=> cache[slot].req \in InFlight
  /\ \A r \in DOMAIN requests : requests[r].state \in {"sent", "served", "over"}
                                /\ requests[r].seen \in 0 .. version
  /\ \A k \in DOMAIN calls : calls[k].req \in DOMAIN requests
  /\ floor \in [Cached -> 0 .. version]

\* However methods share stores and requests, what a caller is given answers
\* its own question: it comes from a request of the same method with the same
\* arguments.  getConnectionLog is the one method whose key forgets one.
Forgetful == {<<"admin", "getConnectionLog">>}
OwnAnswer ==
  \A k \in DOMAIN calls :
     calls[k].answer.state = "loaded" /\ calls[k].m \notin Forgetful =>
        LET r == calls[k].answer.req
        IN requests[r].m = calls[k].m /\ requests[r].args = calls[k].args

\* The same question is not asked twice at the same time, except by
\* getSchemaTables, which looks in a store that nothing writes, and once a write
\* has emptied the store under a request for the same entry: its late answer may
\* hide the request that is under way.
Unshared == {<<"database", "getSchemaTables">>}
OneRequest ==
  \A q, r \in InFlight :
     /\ q # r /\ requests[q].slot = requests[r].slot
     /\ Dedupes(requests[q].m) /\ requests[q].m \notin Unshared
     => \E p \in DOMAIN requests : requests[p].slot = requests[q].slot /\ requests[p].across

\* Once a write of a database, of the featured list or a start has been
\* answered, the public caches hold nothing older than that write, but for
\* the answers to reads that were under way when they were emptied.
FreshAfterWrite ==
  \A slot \in DOMAIN cache :
     LET r == cache[slot].req
     IN cache[slot].state = "loaded" /\ slot.store \in Cached =>
           requests[r].across \/ requests[r].seen >= floor[slot.store]
=============================================================================
