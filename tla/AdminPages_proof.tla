--------------------------- MODULE AdminPages_proof ---------------------------
(***************************************************************************)
(* That a change of access reaches what it was asked to, and that a page   *)
(* at rest shows the truth, for any number of roles and tables and for any *)
(* number of moves, changes and failures.                                  *)
(*                                                                         *)
(* A change is judged by the statements it has left: a privilege will be   *)
(* held when one of them gives it and none after it takes it away again    *)
(* (WillHave), and likewise for the privileges that go (WillLack).  What a *)
(* change was asked to reach is in its list when it begins, a statement    *)
(* leaves it true of the rest, and of an empty list it is the truth.       *)
(*                                                                         *)
(* The page is followed while nothing disturbs it (Calm): there is one     *)
(* load, for the page of the location, with an answer that is still true,  *)
(* or one change, which can only make the row untrue that shows already    *)
(* what it will reach.                                                     *)
(***************************************************************************)
EXTENDS AdminPages, TLAPS, FiniteSetTheorems, SequenceTheorems

-----------------------------------------------------------------------------
(* What a list of statements will make of a privilege.                     *)

Objects == Tables \cup Alone
Privileges == Users \X Kinds \X Objects \X {"READ", "WRITE", "EXECUTE"}
Statements == [verb : {"GRANT", "REVOKE", "ACCOUNT"}, what : SUBSET Privileges]
\* The statements of a request, of which there is at least one.
Batches == {s \in Seq(Statements) : s # <<>>}

Gives(s, p) == s.verb = "GRANT" /\ p \in s.what
Removes(s, p) == s.verb # "GRANT" /\ p \in s.what
GivesIn(b, p) == \E j \in DOMAIN b : Gives(b[j], p)
RemovesIn(b, p) == \E j \in DOMAIN b : Removes(b[j], p)

\* Of the requests R that are left.
WillHave(R, p) ==
  \/ p \in held /\ \A k \in DOMAIN R : ~RemovesIn(R[k], p)
  \/ \E i \in DOMAIN R : GivesIn(R[i], p) /\ \A k \in DOMAIN R : k >= i => ~RemovesIn(R[k], p)
WillLack(R, p) ==
  \/ p \notin held /\ \A k \in DOMAIN R : ~GivesIn(R[k], p)
  \/ \E i \in DOMAIN R : RemovesIn(R[i], p) /\ \A k \in DOMAIN R : k >= i => ~GivesIn(R[k], p)

\* The rest of the requests after a statement: the request is answered with its
\* last statement, or goes on.
LEMMA AfterLast ==
  ASSUME NEW R \in Seq(Batches), R # <<>>, Len(Head(R)) = 1
  PROVE  /\ After(R) \in Seq(Batches) /\ DOMAIN After(R) = 1 .. Len(R) - 1
         /\ \A k \in DOMAIN After(R) : k + 1 \in DOMAIN R /\ After(R)[k] = R[k + 1]
         /\ \A k \in DOMAIN R : k = 1 \/ k - 1 \in DOMAIN After(R)
<1>1. After(R) = Tail(R)
  BY DEF After
<1> HIDE DEF Batches
<1> QED BY <1>1

LEMMA AfterMore ==
  ASSUME NEW R \in Seq(Batches), R # <<>>, Len(Head(R)) # 1
  PROVE  /\ After(R) \in Seq(Batches) /\ DOMAIN After(R) = DOMAIN R
         /\ DOMAIN After(R)[1] = 1 .. Len(R[1]) - 1
         /\ \A j \in DOMAIN After(R)[1] : j + 1 \in DOMAIN R[1] /\ After(R)[1][j] = R[1][j + 1]
         /\ \A j \in DOMAIN R[1] : j = 1 \/ j - 1 \in DOMAIN After(R)[1]
         /\ \A k \in DOMAIN R : k = 1 \/ After(R)[k] = R[k]
<1> DEFINE b == Head(R)
<1>1. b \in Batches /\ b = R[1] /\ 1 \in DOMAIN R
  <2> HIDE DEF Batches
  <2> QED OBVIOUS
<1>2. b \in Seq(Statements) /\ Len(b) \in Nat /\ Len(b) \notin {0, 1} /\ DOMAIN b = 1 .. Len(b)
  BY <1>1 DEF Batches
<1>0. After(R) = <<Tail(b)>> \o Tail(R)
  BY DEF After
<1> HIDE DEF b
<1>3. /\ Tail(b) \in Seq(Statements) /\ Len(Tail(b)) = Len(b) - 1
      /\ \A j \in 1 .. Len(b) - 1 : Tail(b)[j] = b[j + 1]
  BY <1>2
<1>4. Tail(b) \in Batches
  <2>1. Len(Tail(b)) # 0
    BY <1>2, <1>3
  <2>2. Tail(b) # <<>>
    BY ONLY <2>1, Len(<<>>) = 0
  <2> QED BY <1>3, <2>2 DEF Batches
<1> HIDE DEF Batches
<1>6. /\ Tail(R) \in Seq(Batches) /\ Len(Tail(R)) = Len(R) - 1
      /\ \A k \in 1 .. Len(R) - 1 : Tail(R)[k] = R[k + 1]
  OBVIOUS
<1>7. /\ After(R) \in Seq(Batches) /\ Len(After(R)) = Len(R)
      /\ After(R)[1] = Tail(b)
      /\ \A k \in 2 .. Len(R) : After(R)[k] = R[k]
  BY <1>0, <1>4, <1>6
<1>8. DOMAIN After(R) = DOMAIN R /\ \A k \in DOMAIN R : k = 1 \/ After(R)[k] = R[k]
  BY <1>7
<1>9. DOMAIN Tail(b) = 1 .. Len(b) - 1
  BY <1>3
<1> QED BY <1>1, <1>2, <1>3, <1>7, <1>8, <1>9

\* The statements left, A, are those of R but the first, in the request they were
\* in; that request has d places less before it.
Shift(R, A, d) ==
  /\ \A k \in DOMAIN A : k \in Nat /\ k + d \in DOMAIN R
  /\ \A k \in DOMAIN R : k \in Nat
  /\ \A k \in DOMAIN A : \A j \in DOMAIN A[k] : \E i \in DOMAIN R[k + d] : A[k][j] = R[k + d][i]
  /\ \A k \in DOMAIN R : \A i \in DOMAIN R[k] :
        \/ k = 1 /\ i = 1
        \/ k - d \in DOMAIN A /\ \E j \in DOMAIN A[k - d] : A[k - d][j] = R[k][i]

LEMMA Shifted ==
  ASSUME NEW R \in Seq(Batches), R # <<>>, NEW A, A = After(R)
  PROVE  /\ 1 \in DOMAIN R /\ 1 \in DOMAIN R[1] /\ Head(Head(R)) = R[1][1]
         /\ DOMAIN R = 1 .. Len(R) /\ Len(R) \in Nat
         /\ A \in Seq(Batches)
         /\ \E d \in {0, 1} : Shift(R, A, d)
<1>1. /\ 1 \in DOMAIN R /\ 1 \in DOMAIN R[1] /\ Head(Head(R)) = R[1][1]
      /\ DOMAIN R = 1 .. Len(R) /\ Len(R) \in Nat
  <2>1. Head(R) = R[1] /\ 1 \in DOMAIN R /\ DOMAIN R = 1 .. Len(R) /\ Len(R) \in Nat
    <3> HIDE DEF Batches
    <3> QED OBVIOUS
  <2>2. R[1] \in Batches
    <3> HIDE DEF Batches
    <3> QED BY <2>1
  <2>3. R[1] \in Seq(Statements) /\ R[1] # <<>>
    BY <2>2 DEF Batches
  <2> QED BY <2>1, <2>3
<1>2. A \in Seq(Batches)
  BY AfterLast, AfterMore
<1>3. \E d \in {0, 1} : Shift(R, A, d)
  <2>1. CASE Len(Head(R)) = 1
    <3>1. DOMAIN R[1] = {1}
      <4>1. R[1] = Head(R) /\ Head(R) \in Batches
        <5> HIDE DEF Batches
        <5> QED OBVIOUS
      <4>2. R[1] \in Seq(Statements) /\ Len(R[1]) = 1
        BY <4>1, <2>1 DEF Batches
      <4> QED BY <4>2
    <3>2. /\ DOMAIN A = 1 .. Len(R) - 1
          /\ \A k \in DOMAIN A : k + 1 \in DOMAIN R /\ A[k] = R[k + 1]
          /\ \A k \in DOMAIN R : k = 1 \/ k - 1 \in DOMAIN A
      BY <2>1, AfterLast
    <3>3. \A k \in DOMAIN R : k = 1 \/ A[k - 1] = R[k]
      BY <1>1, <3>2
    <3>4. /\ \A k \in DOMAIN A : k \in Nat /\ k + 1 \in DOMAIN R
          /\ \A k \in DOMAIN R : k \in Nat
      BY <1>1, <3>2
    <3> QED BY <3>1, <3>2, <3>3, <3>4 DEF Shift
  <2>2. CASE Len(Head(R)) # 1
    <3>1. /\ DOMAIN A = DOMAIN R
          /\ DOMAIN A[1] = 1 .. Len(R[1]) - 1
          /\ \A j \in DOMAIN A[1] : j + 1 \in DOMAIN R[1] /\ A[1][j] = R[1][j + 1]
          /\ \A j \in DOMAIN R[1] : j = 1 \/ j - 1 \in DOMAIN A[1]
          /\ \A k \in DOMAIN R : k = 1 \/ A[k] = R[k]
      BY <2>2, AfterMore
    <3>2. \A j \in DOMAIN R[1] : j \in Int
      <4>1. R[1] \in Batches
        <5> HIDE DEF Batches
        <5> QED BY <1>1
      <4> QED BY <4>1 DEF Batches
    <3>3. \A j \in DOMAIN R[1] : j = 1 \/ A[1][j - 1] = R[1][j]
      BY <3>1, <3>2
    <3>4. /\ \A k \in DOMAIN A : k \in Nat /\ k + 0 \in DOMAIN R /\ k + 0 = k
          /\ \A k \in DOMAIN R : k \in Nat /\ k - 0 = k
      BY <1>1, <3>1
    <3>5. \A k \in DOMAIN A : \A j \in DOMAIN A[k] : \E i \in DOMAIN R[k] : A[k][j] = R[k][i]
      BY <3>1
    <3>6. \A k \in DOMAIN R : \A i \in DOMAIN R[k] :
             \/ k = 1 /\ i = 1
             \/ k \in DOMAIN A /\ \E j \in DOMAIN A[k] : A[k][j] = R[k][i]
      BY <3>1, <3>3
    <3> QED BY <3>4, <3>5, <3>6 DEF Shift
  <2> QED BY <2>1, <2>2
<1> QED BY <1>1, <1>2, <1>3

\* A statement leaves it true of the rest that a privilege will be held, or not.
LEMMA StatementKeeps ==
  ASSUME NEW R \in Seq(Batches), R # <<>>, Run(Head(Head(R))), NEW p
  PROVE  /\ WillHave(R, p) => WillHave(After(R), p)'
         /\ WillLack(R, p) => WillLack(After(R), p)'
<1> DEFINE s == Head(Head(R))
           A == After(R)
<1>1. /\ 1 \in DOMAIN R /\ 1 \in DOMAIN R[1] /\ s = R[1][1]
      /\ DOMAIN R = 1 .. Len(R) /\ Len(R) \in Nat
  BY Shifted
<1>2. held' = IF s.verb = "GRANT" THEN held \cup s.what ELSE held \ s.what
  BY DEF Run
<1>0. PICK d \in {0, 1} : Shift(R, A, d)
  BY Shifted
<1>3. /\ \A k \in DOMAIN A : k \in Nat /\ k + d \in DOMAIN R
      /\ \A k \in DOMAIN R : k \in Nat
      /\ \A k \in DOMAIN A : \A j \in DOMAIN A[k] : \E i \in DOMAIN R[k + d] : A[k][j] = R[k + d][i]
      /\ \A k \in DOMAIN R : \A i \in DOMAIN R[k] :
            \/ k = 1 /\ i = 1
            \/ k - d \in DOMAIN A /\ \E j \in DOMAIN A[k - d] : A[k - d][j] = R[k][i]
  BY <1>0 DEF Shift
<1> HIDE DEF A, s
<1>4. \A k \in DOMAIN A : GivesIn(A[k], p) => GivesIn(R[k + d], p)
  BY <1>3 DEF GivesIn
<1>5. \A k \in DOMAIN A : RemovesIn(A[k], p) => RemovesIn(R[k + d], p)
  BY <1>3 DEF RemovesIn
<1>6. \A k \in DOMAIN R : GivesIn(R[k], p) =>
         \/ k = 1 /\ Gives(s, p)
         \/ k - d \in DOMAIN A /\ GivesIn(A[k - d], p)
  BY <1>1, <1>3 DEF GivesIn
<1>7. \A k \in DOMAIN R : RemovesIn(R[k], p) =>
         \/ k = 1 /\ Removes(s, p)
         \/ k - d \in DOMAIN A /\ RemovesIn(A[k - d], p)
  BY <1>1, <1>3 DEF RemovesIn
<1>8. (Gives(s, p) => GivesIn(R[1], p)) /\ (Removes(s, p) => RemovesIn(R[1], p))
  BY <1>1 DEF GivesIn, RemovesIn
<1>9. /\ Gives(s, p) => p \in held'
      /\ Removes(s, p) => p \notin held'
      /\ p \in held /\ ~Removes(s, p) => p \in held'
      /\ p \notin held /\ ~Gives(s, p) => p \notin held'
  BY <1>2 DEF Gives, Removes
\* A request is not before the place it had.
<1>10. ASSUME NEW i \in DOMAIN R, NEW k \in DOMAIN A, k >= i - d
       PROVE  k + d \in DOMAIN R /\ k + d >= i
  BY <1>1, <1>3, <1>10
<1>11. \A k \in DOMAIN A : k >= 1 - d /\ k + d >= 1
  BY <1>1, <1>3
<1>12. ASSUME WillHave(R, p)
       PROVE  \/ p \in held' /\ \A k \in DOMAIN A : ~RemovesIn(A[k], p)
              \/ \E i \in DOMAIN A : GivesIn(A[i], p) /\ \A k \in DOMAIN A : k >= i => ~RemovesIn(A[k], p)
  <2>1. CASE p \in held /\ \A k \in DOMAIN R : ~RemovesIn(R[k], p)
    BY <2>1, <1>1, <1>3, <1>5, <1>8, <1>9
  <2>2. ASSUME NEW i \in DOMAIN R, GivesIn(R[i], p),
               \A k \in DOMAIN R : k >= i => ~RemovesIn(R[k], p)
        PROVE  \/ p \in held' /\ \A k \in DOMAIN A : ~RemovesIn(A[k], p)
               \/ \E n \in DOMAIN A : GivesIn(A[n], p) /\ \A k \in DOMAIN A : k >= n => ~RemovesIn(A[k], p)
    <3>1. CASE i = 1 /\ Gives(s, p)
      BY <3>1, <2>2, <1>3, <1>5, <1>9, <1>11
    <3>2. CASE i - d \in DOMAIN A /\ GivesIn(A[i - d], p)
      BY <3>2, <2>2, <1>5, <1>10
    <3> QED BY <2>2, <3>1, <3>2, <1>6
  <2> QED BY <1>12, <2>1, <2>2 DEF WillHave
<1>13. ASSUME WillLack(R, p)
       PROVE  \/ p \notin held' /\ \A k \in DOMAIN A : ~GivesIn(A[k], p)
              \/ \E i \in DOMAIN A : RemovesIn(A[i], p) /\ \A k \in DOMAIN A : k >= i => ~GivesIn(A[k], p)
  <2>1. CASE p \notin held /\ \A k \in DOMAIN R : ~GivesIn(R[k], p)
    BY <2>1, <1>1, <1>3, <1>4, <1>8, <1>9
  <2>2. ASSUME NEW i \in DOMAIN R, RemovesIn(R[i], p),
               \A k \in DOMAIN R : k >= i => ~GivesIn(R[k], p)
        PROVE  \/ p \notin held' /\ \A k \in DOMAIN A : ~GivesIn(A[k], p)
               \/ \E n \in DOMAIN A : RemovesIn(A[n], p) /\ \A k \in DOMAIN A : k >= n => ~GivesIn(A[k], p)
    <3>1. CASE i = 1 /\ Removes(s, p)
      BY <3>1, <2>2, <1>3, <1>4, <1>9, <1>11
    <3>2. CASE i - d \in DOMAIN A /\ RemovesIn(A[i - d], p)
      BY <3>2, <2>2, <1>4, <1>10
    <3> QED BY <2>2, <3>1, <3>2, <1>7
  <2> QED BY <1>13, <2>1, <2>2 DEF WillLack
<1> QED BY <1>12, <1>13 DEF WillHave, WillLack, A

-----------------------------------------------------------------------------
(* What the lists of statements give and remove.                           *)

Ats == {Database, Schema} \cup Tables

LEMMA AtTable ==
  ASSUME NEW t \in Tables
  PROVE  t # Database /\ t # Schema /\ t # "-"
  BY NamesAssumption DEF Database, Schema

LEMMA StatementGives ==
  ASSUME NEW verb, NEW u, NEW kind, NEW names, NEW actions, NEW v, NEW k, NEW n, NEW a,
         NEW s, s = Statement(verb, u, kind, names, actions)
  PROVE  /\ Gives(s, <<v, k, n, a>>) <=>
              verb = "GRANT" /\ v = u /\ k = kind /\ n \in names /\ a \in actions
         /\ Removes(s, <<v, k, n, a>>) <=>
              verb # "GRANT" /\ v = u /\ k = kind /\ n \in names /\ a \in actions
<1>1. s.verb = verb /\ s.what = {u} \X {kind} \X names \X actions
  BY DEF Statement
<1>2. <<v, k, n, a>> \in {u} \X {kind} \X names \X actions
        <=> v = u /\ k = kind /\ n \in names /\ a \in actions
  OBVIOUS
<1> QED BY <1>1, <1>2 DEF Gives, Removes

LEMMA Joined ==
  ASSUME NEW s, NEW r, NEW q
  PROVE  <<s>> \o <<r, q>> = <<s, r, q>>
<1> DEFINE S == {s, r, q}
<1>1. <<s>> \in Seq(S) /\ <<r, q>> \in Seq(S) /\ <<s, r, q>> \in Seq(S)
  OBVIOUS
<1>2. Len(<<s>>) = 1 /\ Len(<<r, q>>) = 2 /\ Len(<<s, r, q>>) = 3
  OBVIOUS
<1>3. /\ <<s>> \o <<r, q>> \in Seq(S) /\ Len(<<s>> \o <<r, q>>) = 3
      /\ \A i \in 1 .. 3 : (<<s>> \o <<r, q>>)[i] = <<s, r, q>>[i]
  <2> HIDE DEF S
  <2> QED BY <1>1, <1>2
<1> HIDE DEF S
<1> QED BY <1>1, <1>2, <1>3, SeqEqual

LEMMA One ==
  ASSUME NEW s, NEW b, b = <<s>>, NEW p
  PROVE  /\ GivesIn(b, p) <=> Gives(s, p)
         /\ RemovesIn(b, p) <=> Removes(s, p)
  BY DEF GivesIn, RemovesIn

LEMMA Two ==
  ASSUME NEW s, NEW r, NEW b, b = <<s, r>>, NEW p
  PROVE  /\ GivesIn(b, p) <=> Gives(s, p) \/ Gives(r, p)
         /\ RemovesIn(b, p) <=> Removes(s, p) \/ Removes(r, p)
<1>1. DOMAIN b = {1, 2} /\ b[1] = s /\ b[2] = r
  OBVIOUS
<1> QED BY ONLY <1>1 DEF GivesIn, RemovesIn

LEMMA Three ==
  ASSUME NEW s, NEW r, NEW q, NEW b, b = <<s, r, q>>, NEW p
  PROVE  /\ GivesIn(b, p) <=> Gives(s, p) \/ Gives(r, p) \/ Gives(q, p)
         /\ RemovesIn(b, p) <=> Removes(s, p) \/ Removes(r, p) \/ Removes(q, p)
<1>1. DOMAIN b = {1, 2, 3} /\ b[1] = s /\ b[2] = r /\ b[3] = q
  OBVIOUS
<1> QED BY ONLY <1>1 DEF GivesIn, RemovesIn

LEMMA Four ==
  ASSUME NEW s, NEW r, NEW q, NEW m, NEW b, b = <<s, r, q, m>>, NEW p
  PROVE  /\ GivesIn(b, p) <=> Gives(s, p) \/ Gives(r, p) \/ Gives(q, p) \/ Gives(m, p)
         /\ RemovesIn(b, p) <=> Removes(s, p) \/ Removes(r, p) \/ Removes(q, p) \/ Removes(m, p)
<1>1. DOMAIN b = {1, 2, 3, 4} /\ b[1] = s /\ b[2] = r /\ b[3] = q /\ b[4] = m
  OBVIOUS
<1> QED BY ONLY <1>1 DEF GivesIn, RemovesIn

LEMMA Five ==
  ASSUME NEW s, NEW r, NEW q, NEW m, NEW l, NEW b, b = <<s, r, q, m, l>>, NEW p
  PROVE  /\ GivesIn(b, p) <=>
              Gives(s, p) \/ Gives(r, p) \/ Gives(q, p) \/ Gives(m, p) \/ Gives(l, p)
         /\ RemovesIn(b, p) <=>
              Removes(s, p) \/ Removes(r, p) \/ Removes(q, p) \/ Removes(m, p) \/ Removes(l, p)
<1>1. DOMAIN b = {1, 2, 3, 4, 5} /\ b[1] = s /\ b[2] = r /\ b[3] = q /\ b[4] = m /\ b[5] = l
  OBVIOUS
<1> QED BY ONLY <1>1 DEF GivesIn, RemovesIn

LEMMA GrantTableWrite ==
  ASSUME NEW u, NEW t \in Tables, NEW b, b = GrantOnTable(u, t, "WRITE"),
         NEW v, NEW k, NEW n, NEW a
  PROVE  /\ GivesIn(b, <<v, k, n, a>>) <=> 
                 \/ v = u /\ k = "SCHEMA" /\ n = "-" /\ a = "READ"
                 \/ v = u /\ k \in {"TABLE", "SEQUENCE"} /\ n = t /\ a \in {"READ", "WRITE"}
         /\ ~RemovesIn(b, <<v, k, n, a>>)
<1> DEFINE p == <<v, k, n, a>>
           s1 == Statement("GRANT", u, "SCHEMA", {"-"}, {"READ"})
           s2 == Statement("GRANT", u, "TABLE", {t}, {"READ", "WRITE"})
           s3 == Statement("GRANT", u, "SEQUENCE", {t}, {"READ", "WRITE"})
<1>1. /\ Gives(s1, p) <=> v = u /\ k = "SCHEMA" /\ n \in {"-"} /\ a \in {"READ"}
      /\ ~Removes(s1, p)
      /\ Gives(s2, p) <=> v = u /\ k = "TABLE" /\ n \in {t} /\ a \in {"READ", "WRITE"}
      /\ ~Removes(s2, p)
      /\ Gives(s3, p) <=> v = u /\ k = "SEQUENCE" /\ n \in {t} /\ a \in {"READ", "WRITE"}
      /\ ~Removes(s3, p)
  BY StatementGives
<1>2. b = <<s1, s2, s3>>
  <2>1. b = <<s1>> \o <<s2, s3>>
    BY DEF GrantOnTable, Only, All, Actions, Alone
  <2> QED BY <2>1, Joined
<1> HIDE DEF s1, s2, s3, p
<1>3. /\ GivesIn(b, p) <=> Gives(s1, p) \/ Gives(s2, p) \/ Gives(s3, p)
      /\ RemovesIn(b, p) <=> Removes(s1, p) \/ Removes(s2, p) \/ Removes(s3, p)
  BY <1>2, Three
<1> QED BY <1>1, <1>3 DEF p, Named, Actions, Kinds, Alone

LEMMA GrantTableRead ==
  ASSUME NEW u, NEW t \in Tables, NEW b, b = GrantOnTable(u, t, "READ"),
         NEW v, NEW k, NEW n, NEW a
  PROVE  /\ GivesIn(b, <<v, k, n, a>>) <=> 
                 \/ v = u /\ k = "SCHEMA" /\ n = "-" /\ a = "READ"
                 \/ v = u /\ k = "TABLE" /\ n = t /\ a = "READ"
         /\ RemovesIn(b, <<v, k, n, a>>) <=> 
                 v = u /\ k = "TABLE" /\ n = t /\ a = "WRITE"
<1> DEFINE p == <<v, k, n, a>>
           s1 == Statement("GRANT", u, "SCHEMA", {"-"}, {"READ"})
           s2 == Statement("REVOKE", u, "TABLE", {t}, {"WRITE"})
           s3 == Statement("GRANT", u, "TABLE", {t}, {"READ"})
<1>1. /\ Gives(s1, p) <=> v = u /\ k = "SCHEMA" /\ n \in {"-"} /\ a \in {"READ"}
      /\ ~Removes(s1, p)
      /\ Removes(s2, p) <=> v = u /\ k = "TABLE" /\ n \in {t} /\ a \in {"WRITE"}
      /\ ~Gives(s2, p)
      /\ Gives(s3, p) <=> v = u /\ k = "TABLE" /\ n \in {t} /\ a \in {"READ"}
      /\ ~Removes(s3, p)
  BY StatementGives
<1>2. b = <<s1, s2, s3>>
  <2>1. b = <<s1>> \o <<s2, s3>>
    BY DEF GrantOnTable, Only, All, Actions, Alone
  <2> QED BY <2>1, Joined
<1> HIDE DEF s1, s2, s3, p
<1>3. /\ GivesIn(b, p) <=> Gives(s1, p) \/ Gives(s2, p) \/ Gives(s3, p)
      /\ RemovesIn(b, p) <=> Removes(s1, p) \/ Removes(s2, p) \/ Removes(s3, p)
  BY <1>2, Three
<1> QED BY <1>1, <1>3 DEF p, Named, Actions, Kinds, Alone

LEMMA RevokeTableRead ==
  ASSUME NEW u, NEW t \in Tables, NEW b, b = RevokeOnTable(u, t, "READ"),
         NEW v, NEW k, NEW n, NEW a
  PROVE  /\ ~GivesIn(b, <<v, k, n, a>>)
         /\ RemovesIn(b, <<v, k, n, a>>) <=> 
                 v = u /\ k \in {"TABLE", "SEQUENCE"} /\ n = t /\ a \in {"READ", "WRITE"}
<1> DEFINE p == <<v, k, n, a>>
           s1 == Statement("REVOKE", u, "TABLE", {t}, {"READ", "WRITE"})
           s2 == Statement("REVOKE", u, "SEQUENCE", {t}, {"READ", "WRITE"})
<1>1. /\ Removes(s1, p) <=> v = u /\ k = "TABLE" /\ n \in {t} /\ a \in {"READ", "WRITE"}
      /\ ~Gives(s1, p)
      /\ Removes(s2, p) <=> v = u /\ k = "SEQUENCE" /\ n \in {t} /\ a \in {"READ", "WRITE"}
      /\ ~Gives(s2, p)
  BY StatementGives
<1>2. b = <<s1, s2>>
  BY DEF RevokeOnTable, Only, All, Actions, Alone
<1> HIDE DEF s1, s2, p
<1>3. /\ GivesIn(b, p) <=> Gives(s1, p) \/ Gives(s2, p)
      /\ RemovesIn(b, p) <=> Removes(s1, p) \/ Removes(s2, p)
  BY <1>2, Two
<1> QED BY <1>1, <1>3 DEF p, Named, Actions, Kinds, Alone

LEMMA RevokeTableWrite ==
  ASSUME NEW u, NEW t \in Tables, NEW b, b = RevokeOnTable(u, t, "WRITE"),
         NEW v, NEW k, NEW n, NEW a
  PROVE  /\ ~GivesIn(b, <<v, k, n, a>>)
         /\ RemovesIn(b, <<v, k, n, a>>) <=> 
                 v = u /\ k \in {"TABLE", "SEQUENCE"} /\ n = t /\ a = "WRITE"
<1> DEFINE p == <<v, k, n, a>>
           s1 == Statement("REVOKE", u, "TABLE", {t}, {"WRITE"})
           s2 == Statement("REVOKE", u, "SEQUENCE", {t}, {"WRITE"})
<1>1. /\ Removes(s1, p) <=> v = u /\ k = "TABLE" /\ n \in {t} /\ a \in {"WRITE"}
      /\ ~Gives(s1, p)
      /\ Removes(s2, p) <=> v = u /\ k = "SEQUENCE" /\ n \in {t} /\ a \in {"WRITE"}
      /\ ~Gives(s2, p)
  BY StatementGives
<1>2. b = <<s1, s2>>
  BY DEF RevokeOnTable, Only, All, Actions, Alone
<1> HIDE DEF s1, s2, p
<1>3. /\ GivesIn(b, p) <=> Gives(s1, p) \/ Gives(s2, p)
      /\ RemovesIn(b, p) <=> Removes(s1, p) \/ Removes(s2, p)
  BY <1>2, Two
<1> QED BY <1>1, <1>3 DEF p, Named, Actions, Kinds, Alone

LEMMA GrantSchemaWrite ==
  ASSUME NEW u, NEW b, b = GrantOnSchema(u, "WRITE"),
         NEW v, NEW k, NEW n, NEW a
  PROVE  /\ GivesIn(b, <<v, k, n, a>>) <=> 
                 v = u /\ k \in Kinds \ {"DATABASE"} /\ n \in Named(k) /\ a \in Actions(k)
         /\ ~RemovesIn(b, <<v, k, n, a>>)
<1> DEFINE p == <<v, k, n, a>>
           s1 == Statement("GRANT", u, "SCHEMA", {"-"}, {"READ", "WRITE"})
           s2 == Statement("GRANT", u, "TABLE", Tables, {"READ", "WRITE"})
           s3 == Statement("GRANT", u, "FUNCTION", {"-"}, {"EXECUTE"})
           s4 == Statement("GRANT", u, "SEQUENCE", Tables, {"READ", "WRITE"})
           s5 == Statement("GRANT", u, "TYPE", {"-"}, {"WRITE"})
<1>1. /\ Gives(s1, p) <=> v = u /\ k = "SCHEMA" /\ n \in {"-"} /\ a \in {"READ", "WRITE"}
      /\ ~Removes(s1, p)
      /\ Gives(s2, p) <=> v = u /\ k = "TABLE" /\ n \in Tables /\ a \in {"READ", "WRITE"}
      /\ ~Removes(s2, p)
      /\ Gives(s3, p) <=> v = u /\ k = "FUNCTION" /\ n \in {"-"} /\ a \in {"EXECUTE"}
      /\ ~Removes(s3, p)
      /\ Gives(s4, p) <=> v = u /\ k = "SEQUENCE" /\ n \in Tables /\ a \in {"READ", "WRITE"}
      /\ ~Removes(s4, p)
      /\ Gives(s5, p) <=> v = u /\ k = "TYPE" /\ n \in {"-"} /\ a \in {"WRITE"}
      /\ ~Removes(s5, p)
  BY StatementGives
<1>2. b = <<s1, s2, s3, s4, s5>>
  BY DEF GrantOnSchema, Only, All, Actions, Alone
<1> HIDE DEF s1, s2, s3, s4, s5, p
<1>3. /\ GivesIn(b, p) <=> Gives(s1, p) \/ Gives(s2, p) \/ Gives(s3, p) \/ Gives(s4, p) \/ Gives(s5, p)
      /\ RemovesIn(b, p) <=> Removes(s1, p) \/ Removes(s2, p) \/ Removes(s3, p) \/ Removes(s4, p) \/ Removes(s5, p)
  BY <1>2, Five
<1> QED BY <1>1, <1>3 DEF p, Named, Actions, Kinds, Alone

LEMMA GrantSchemaRead ==
  ASSUME NEW u, NEW b, b = GrantOnSchema(u, "READ"),
         NEW v, NEW k, NEW n, NEW a
  PROVE  /\ GivesIn(b, <<v, k, n, a>>) <=> 
                 v = u /\ k \in Kinds \ {"DATABASE"} /\ n \in Named(k) /\ a \in Actions(k)
                   /\ a # "WRITE"
         /\ ~RemovesIn(b, <<v, k, n, a>>)
<1> DEFINE p == <<v, k, n, a>>
           s1 == Statement("GRANT", u, "SCHEMA", {"-"}, {"READ"})
           s2 == Statement("GRANT", u, "TABLE", Tables, {"READ"})
           s3 == Statement("GRANT", u, "FUNCTION", {"-"}, {"EXECUTE"})
           s4 == Statement("GRANT", u, "SEQUENCE", Tables, {"READ"})
<1>1. /\ Gives(s1, p) <=> v = u /\ k = "SCHEMA" /\ n \in {"-"} /\ a \in {"READ"}
      /\ ~Removes(s1, p)
      /\ Gives(s2, p) <=> v = u /\ k = "TABLE" /\ n \in Tables /\ a \in {"READ"}
      /\ ~Removes(s2, p)
      /\ Gives(s3, p) <=> v = u /\ k = "FUNCTION" /\ n \in {"-"} /\ a \in {"EXECUTE"}
      /\ ~Removes(s3, p)
      /\ Gives(s4, p) <=> v = u /\ k = "SEQUENCE" /\ n \in Tables /\ a \in {"READ"}
      /\ ~Removes(s4, p)
  BY StatementGives
<1>2. b = <<s1, s2, s3, s4>>
  BY DEF GrantOnSchema, Only, All, Actions, Alone
<1> HIDE DEF s1, s2, s3, s4, p
<1>3. /\ GivesIn(b, p) <=> Gives(s1, p) \/ Gives(s2, p) \/ Gives(s3, p) \/ Gives(s4, p)
      /\ RemovesIn(b, p) <=> Removes(s1, p) \/ Removes(s2, p) \/ Removes(s3, p) \/ Removes(s4, p)
  BY <1>2, Four
<1> QED BY <1>1, <1>3 DEF p, Named, Actions, Kinds, Alone

LEMMA RevokeSchemaRead ==
  ASSUME NEW u, NEW b, b = RevokeOnSchema(u, "READ"),
         NEW v, NEW k, NEW n, NEW a
  PROVE  /\ ~GivesIn(b, <<v, k, n, a>>)
         /\ RemovesIn(b, <<v, k, n, a>>) <=> 
                 v = u /\ k \in Kinds \ {"DATABASE"} /\ n \in Named(k) /\ a \in Actions(k)
<1> DEFINE p == <<v, k, n, a>>
           s1 == Statement("REVOKE", u, "SCHEMA", {"-"}, {"READ", "WRITE"})
           s2 == Statement("REVOKE", u, "TABLE", Tables, {"READ", "WRITE"})
           s3 == Statement("REVOKE", u, "FUNCTION", {"-"}, {"EXECUTE"})
           s4 == Statement("REVOKE", u, "SEQUENCE", Tables, {"READ", "WRITE"})
           s5 == Statement("REVOKE", u, "TYPE", {"-"}, {"WRITE"})
<1>1. /\ Removes(s1, p) <=> v = u /\ k = "SCHEMA" /\ n \in {"-"} /\ a \in {"READ", "WRITE"}
      /\ ~Gives(s1, p)
      /\ Removes(s2, p) <=> v = u /\ k = "TABLE" /\ n \in Tables /\ a \in {"READ", "WRITE"}
      /\ ~Gives(s2, p)
      /\ Removes(s3, p) <=> v = u /\ k = "FUNCTION" /\ n \in {"-"} /\ a \in {"EXECUTE"}
      /\ ~Gives(s3, p)
      /\ Removes(s4, p) <=> v = u /\ k = "SEQUENCE" /\ n \in Tables /\ a \in {"READ", "WRITE"}
      /\ ~Gives(s4, p)
      /\ Removes(s5, p) <=> v = u /\ k = "TYPE" /\ n \in {"-"} /\ a \in {"WRITE"}
      /\ ~Gives(s5, p)
  BY StatementGives
<1>2. b = <<s1, s2, s3, s4, s5>>
  BY DEF RevokeOnSchema, Only, All, Actions, Alone
<1> HIDE DEF s1, s2, s3, s4, s5, p
<1>3. /\ GivesIn(b, p) <=> Gives(s1, p) \/ Gives(s2, p) \/ Gives(s3, p) \/ Gives(s4, p) \/ Gives(s5, p)
      /\ RemovesIn(b, p) <=> Removes(s1, p) \/ Removes(s2, p) \/ Removes(s3, p) \/ Removes(s4, p) \/ Removes(s5, p)
  BY <1>2, Five
<1> QED BY <1>1, <1>3 DEF p, Named, Actions, Kinds, Alone

LEMMA RevokeSchemaWrite ==
  ASSUME NEW u, NEW b, b = RevokeOnSchema(u, "WRITE"),
         NEW v, NEW k, NEW n, NEW a
  PROVE  /\ ~GivesIn(b, <<v, k, n, a>>)
         /\ RemovesIn(b, <<v, k, n, a>>) <=> 
                 v = u /\ k \in Kinds \ {"DATABASE"} /\ n \in Named(k) /\ a \in Actions(k)
                   /\ (a = "WRITE" \/ k = "FUNCTION")
<1> DEFINE p == <<v, k, n, a>>
           s1 == Statement("REVOKE", u, "SCHEMA", {"-"}, {"WRITE"})
           s2 == Statement("REVOKE", u, "TABLE", Tables, {"WRITE"})
           s3 == Statement("REVOKE", u, "FUNCTION", {"-"}, {"EXECUTE"})
           s4 == Statement("REVOKE", u, "SEQUENCE", Tables, {"WRITE"})
           s5 == Statement("REVOKE", u, "TYPE", {"-"}, {"WRITE"})
<1>1. /\ Removes(s1, p) <=> v = u /\ k = "SCHEMA" /\ n \in {"-"} /\ a \in {"WRITE"}
      /\ ~Gives(s1, p)
      /\ Removes(s2, p) <=> v = u /\ k = "TABLE" /\ n \in Tables /\ a \in {"WRITE"}
      /\ ~Gives(s2, p)
      /\ Removes(s3, p) <=> v = u /\ k = "FUNCTION" /\ n \in {"-"} /\ a \in {"EXECUTE"}
      /\ ~Gives(s3, p)
      /\ Removes(s4, p) <=> v = u /\ k = "SEQUENCE" /\ n \in Tables /\ a \in {"WRITE"}
      /\ ~Gives(s4, p)
      /\ Removes(s5, p) <=> v = u /\ k = "TYPE" /\ n \in {"-"} /\ a \in {"WRITE"}
      /\ ~Gives(s5, p)
  BY StatementGives
<1>2. b = <<s1, s2, s3, s4, s5>>
  BY DEF RevokeOnSchema, Only, All, Actions, Alone
<1> HIDE DEF s1, s2, s3, s4, s5, p
<1>3. /\ GivesIn(b, p) <=> Gives(s1, p) \/ Gives(s2, p) \/ Gives(s3, p) \/ Gives(s4, p) \/ Gives(s5, p)
      /\ RemovesIn(b, p) <=> Removes(s1, p) \/ Removes(s2, p) \/ Removes(s3, p) \/ Removes(s4, p) \/ Removes(s5, p)
  BY <1>2, Five
<1> QED BY <1>1, <1>3 DEF p, Named, Actions, Kinds, Alone

LEMMA GrantDatabase ==
  ASSUME NEW u, NEW level, NEW b, b = GrantOnDatabase(u, level),
         NEW v, NEW k, NEW n, NEW a
  PROVE  /\ GivesIn(b, <<v, k, n, a>>) <=> v = u /\ k = "DATABASE" /\ n = "-" /\ a = level
         /\ ~RemovesIn(b, <<v, k, n, a>>)
<1> DEFINE p == <<v, k, n, a>>
           s1 == Statement("GRANT", u, "DATABASE", {"-"}, {level})
<1>1. /\ Gives(s1, p) <=> v = u /\ k = "DATABASE" /\ n \in {"-"} /\ a \in {level}
      /\ ~Removes(s1, p)
  BY StatementGives
<1>2. b = <<s1>>
  BY DEF GrantOnDatabase, Only, Alone
<1> HIDE DEF s1, p
<1>3. /\ GivesIn(b, p) <=> Gives(s1, p)
      /\ RemovesIn(b, p) <=> Removes(s1, p)
  BY <1>2, One
<1> QED BY <1>1, <1>3 DEF p

LEMMA RevokeDatabaseRead ==
  ASSUME NEW u, NEW b, b = RevokeOnDatabase(u, "READ"),
         NEW v, NEW k, NEW n, NEW a
  PROVE  /\ ~GivesIn(b, <<v, k, n, a>>)
         /\ RemovesIn(b, <<v, k, n, a>>) <=> 
                 v = u /\ k = "DATABASE" /\ n = "-" /\ a \in {"READ", "WRITE"}
<1> DEFINE p == <<v, k, n, a>>
           s1 == Statement("REVOKE", u, "DATABASE", {"-"}, {"READ", "WRITE"})
<1>1. /\ Removes(s1, p) <=> v = u /\ k = "DATABASE" /\ n \in {"-"} /\ a \in {"READ", "WRITE"}
      /\ ~Gives(s1, p)
  BY StatementGives
<1>2. b = <<s1>>
  BY DEF RevokeOnDatabase, Only, All, Actions, Alone
<1> HIDE DEF s1, p
<1>3. /\ GivesIn(b, p) <=> Gives(s1, p)
      /\ RemovesIn(b, p) <=> Removes(s1, p)
  BY <1>2, One
<1> QED BY <1>1, <1>3 DEF p, Named, Actions, Kinds, Alone

LEMMA RevokeDatabaseWrite ==
  ASSUME NEW u, NEW b, b = RevokeOnDatabase(u, "WRITE"),
         NEW v, NEW k, NEW n, NEW a
  PROVE  /\ ~GivesIn(b, <<v, k, n, a>>)
         /\ RemovesIn(b, <<v, k, n, a>>) <=> 
                 v = u /\ k = "DATABASE" /\ n = "-" /\ a = "WRITE"
<1> DEFINE p == <<v, k, n, a>>
           s1 == Statement("REVOKE", u, "DATABASE", {"-"}, {"WRITE"})
<1>1. /\ Removes(s1, p) <=> v = u /\ k = "DATABASE" /\ n \in {"-"} /\ a \in {"WRITE"}
      /\ ~Gives(s1, p)
  BY StatementGives
<1>2. b = <<s1>>
  BY DEF RevokeOnDatabase, Only, All, Actions, Alone
<1> HIDE DEF s1, p
<1>3. /\ GivesIn(b, p) <=> Gives(s1, p)
      /\ RemovesIn(b, p) <=> Removes(s1, p)
  BY <1>2, One
<1> QED BY <1>1, <1>3 DEF p, Named, Actions, Kinds, Alone

-----------------------------------------------------------------------------
(* What a change will reach.                                               *)

WillReachOnDatabase(R, u, access) ==
  /\ access # "NONE" => WillHave(R, <<u, "DATABASE", "-", access>>)
  /\ access # "WRITE" => WillLack(R, <<u, "DATABASE", "-", "WRITE">>)
  /\ access = "NONE" => WillLack(R, <<u, "DATABASE", "-", "READ">>)
Kept(access, a) == access = "WRITE" \/ (access = "READ" /\ a # "WRITE")
WillReachOnSchema(R, u, access) ==
  \A kind \in Kinds \ {"DATABASE"} : \A name \in Named(kind) : \A a \in Actions(kind) :
     /\ Kept(access, a) => WillHave(R, <<u, kind, name, a>>)
     /\ ~Kept(access, a) => WillLack(R, <<u, kind, name, a>>)
WillReachOnTable(R, u, t, access, onebyone) ==
  /\ access # "NONE" => /\ WillHave(R, <<u, "SCHEMA", "-", "READ">>)
                        /\ WillHave(R, <<u, "TABLE", t, "READ">>)
  /\ access = "WRITE" => /\ WillHave(R, <<u, "TABLE", t, "WRITE">>)
                         /\ WillHave(R, <<u, "SEQUENCE", t, "READ">>)
                         /\ WillHave(R, <<u, "SEQUENCE", t, "WRITE">>)
  /\ access # "WRITE" => WillLack(R, <<u, "TABLE", t, "WRITE">>)
  /\ access = "READ" /\ onebyone => WillLack(R, <<u, "SEQUENCE", t, "WRITE">>)
  /\ access = "NONE" => /\ WillLack(R, <<u, "TABLE", t, "READ">>)
                        /\ WillLack(R, <<u, "SEQUENCE", t, "READ">>)
                        /\ WillLack(R, <<u, "SEQUENCE", t, "WRITE">>)
WillReach(R, u, at, access, onebyone) ==
  CASE at = Database -> WillReachOnDatabase(R, u, access)
    [] at = Schema -> WillReachOnSchema(R, u, access)
    [] OTHER -> WillReachOnTable(R, u, at, access, onebyone)

\* A statement keeps what will be reached.
LEMMA ReachKept ==
  ASSUME NEW R \in Seq(Batches), R # <<>>, Run(Head(Head(R))),
         NEW u, NEW at \in Ats, NEW access, NEW onebyone, WillReach(R, u, at, access, onebyone)
  PROVE  WillReach(After(R), u, at, access, onebyone)'
<1>1. \A p : WillHave(R, p) => WillHave(After(R), p)'
  BY StatementKeeps
<1>2. \A p : WillLack(R, p) => WillLack(After(R), p)'
  BY StatementKeeps
<1>3. CASE at = Database
  <2>1. WillReachOnDatabase(R, u, access)
    BY <1>3 DEF WillReach, Database, Schema
  <2>2. WillReachOnDatabase(After(R), u, access)'
    BY <1>1, <1>2, <2>1 DEF WillReachOnDatabase
  <2> QED BY <1>3, <2>2 DEF WillReach, Database, Schema
<1>4. CASE at = Schema
  <2>1. WillReachOnSchema(R, u, access)
    BY <1>4 DEF WillReach, Database, Schema
  <2>2. WillReachOnSchema(After(R), u, access)'
    BY <1>1, <1>2, <2>1 DEF WillReachOnSchema
  <2> QED BY <1>4, <2>2 DEF WillReach, Database, Schema
<1>5. CASE at \in Tables
  <2>0. at # Database /\ at # Schema
    BY <1>5, AtTable
  <2>1. WillReachOnTable(R, u, at, access, onebyone)
    BY <2>0 DEF WillReach
  <2>2. WillReachOnTable(After(R), u, at, access, onebyone)'
    BY <1>1, <1>2, <2>1 DEF WillReachOnTable
  <2> QED BY <2>0, <2>2 DEF WillReach
<1> QED BY <1>3, <1>4, <1>5 DEF Ats

\* Of a change that has nothing left it is the truth.
LEMMA ReachDone ==
  ASSUME NEW u, NEW at \in Ats, NEW access \in Levels, NEW onebyone,
         WillReach(<<>>, u, at, access, onebyone)
  PROVE  Reached(u, at, access, onebyone)
<1>1. \A p : /\ WillHave(<<>>, p) => p \in held
             /\ WillLack(<<>>, p) => p \notin held
  BY DEF WillHave, WillLack
<1>2. CASE at = Database
  <2>1. WillReachOnDatabase(<<>>, u, access)
    BY <1>2 DEF WillReach, Database, Schema
  <2>2. /\ access # "NONE" => <<u, "DATABASE", "-", access>> \in held
        /\ access # "WRITE" => <<u, "DATABASE", "-", "WRITE">> \notin held
        /\ access = "NONE" => <<u, "DATABASE", "-", "READ">> \notin held
    BY <1>1, <2>1 DEF WillReachOnDatabase
  <2>3. ReachedOnDatabase(u, access)
    BY <2>2 DEF ReachedOnDatabase, Having, Actions, Levels
  <2> QED BY <1>2, <2>3 DEF Reached, Database, Schema
<1>3. CASE at = Schema
  <2>1. WillReachOnSchema(<<>>, u, access)
    BY <1>3 DEF WillReach, Database, Schema
  <2>2. ASSUME NEW kind \in Kinds \ {"DATABASE"}, NEW name \in Named(kind)
        PROVE  Having(u, kind, name) = CASE access = "WRITE" -> Actions(kind)
                                         [] access = "READ" -> Actions(kind) \ {"WRITE"}
                                         [] access = "NONE" -> {}
    <3>1. \A a \in Actions(kind) :
             /\ Kept(access, a) => <<u, kind, name, a>> \in held
             /\ ~Kept(access, a) => <<u, kind, name, a>> \notin held
      BY <1>1, <2>1 DEF WillReachOnSchema
    <3> QED BY <3>1 DEF Having, Kept, Levels
  <2>3. ReachedOnSchema(u, access)
    BY <2>2 DEF ReachedOnSchema
  <2> QED BY <1>3, <2>3 DEF Reached, Database, Schema
<1>4. CASE at \in Tables
  <2>0. at # Database /\ at # Schema
    BY <1>4, AtTable
  <2>1. WillReachOnTable(<<>>, u, at, access, onebyone)
    BY <2>0 DEF WillReach
  <2>2. /\ access # "NONE" => /\ <<u, "SCHEMA", "-", "READ">> \in held
                              /\ <<u, "TABLE", at, "READ">> \in held
        /\ access = "WRITE" => /\ <<u, "TABLE", at, "WRITE">> \in held
                               /\ <<u, "SEQUENCE", at, "READ">> \in held
                               /\ <<u, "SEQUENCE", at, "WRITE">> \in held
        /\ access # "WRITE" => <<u, "TABLE", at, "WRITE">> \notin held
        /\ access = "READ" /\ onebyone => <<u, "SEQUENCE", at, "WRITE">> \notin held
        /\ access = "NONE" => /\ <<u, "TABLE", at, "READ">> \notin held
                              /\ <<u, "SEQUENCE", at, "READ">> \notin held
                              /\ <<u, "SEQUENCE", at, "WRITE">> \notin held
    BY <1>1, <2>1 DEF WillReachOnTable
  <2>3. Actions("TABLE") = {"READ", "WRITE"} /\ Actions("SEQUENCE") = {"READ", "WRITE"}
        /\ Actions("SCHEMA") = {"READ", "WRITE"}
    BY DEF Actions
  <2>4. Level(u, "TABLE", at) = access
    <3>1. /\ "WRITE" \in Having(u, "TABLE", at) <=> access = "WRITE"
          /\ "READ" \in Having(u, "TABLE", at) <=> access # "NONE"
      BY <2>2, <2>3 DEF Having, Levels
    <3> QED BY <3>1 DEF Level, Levels
  <2>5. ReachedOnTable(u, at, access, onebyone)
    BY <2>2, <2>3, <2>4 DEF ReachedOnTable, Having, Levels
  <2> QED BY <2>0, <2>5 DEF Reached
<1> QED BY <1>2, <1>3, <1>4 DEF Ats

-----------------------------------------------------------------------------
(* What is asked for is in the list.                                       *)

LEMMA ByOne ==
  ASSUME NEW b, NEW R, R = <<b>>, NEW p
  PROVE  /\ GivesIn(b, p) /\ ~RemovesIn(b, p) => WillHave(R, p)
         /\ RemovesIn(b, p) /\ ~GivesIn(b, p) => WillLack(R, p)
<1>1. DOMAIN R = {1} /\ R[1] = b
  OBVIOUS
<1> QED BY ONLY <1>1 DEF WillHave, WillLack

LEMMA ByTwo ==
  ASSUME NEW b, NEW c, NEW R, R = <<b, c>>, NEW p
  PROVE  /\ GivesIn(c, p) /\ ~RemovesIn(c, p) => WillHave(R, p)
         /\ (RemovesIn(b, p) \/ RemovesIn(c, p)) /\ ~GivesIn(b, p) /\ ~GivesIn(c, p) => WillLack(R, p)
<1>1. DOMAIN R = {1, 2} /\ R[1] = b /\ R[2] = c
  OBVIOUS
<1>2. ASSUME GivesIn(c, p), ~RemovesIn(c, p) PROVE WillHave(R, p)
  <2>1. 2 \in DOMAIN R /\ GivesIn(R[2], p) /\ \A k \in DOMAIN R : k >= 2 => ~RemovesIn(R[k], p)
    BY <1>1, <1>2
  <2> QED BY <2>1 DEF WillHave
<1>3. ASSUME RemovesIn(b, p) \/ RemovesIn(c, p), ~GivesIn(b, p), ~GivesIn(c, p) PROVE WillLack(R, p)
  <2>1. \E i \in DOMAIN R : RemovesIn(R[i], p) /\ \A k \in DOMAIN R : k >= i => ~GivesIn(R[k], p)
    BY <1>1, <1>3
  <2> QED BY <2>1 DEF WillLack
<1> QED BY <1>2, <1>3

LEMMA SetOnDatabase ==
  ASSUME NEW u, NEW access \in Levels, NEW R, R = SetAccess(u, Database, access)
  PROVE  WillReachOnDatabase(R, u, access)
<1> DEFINE P(a) == <<u, "DATABASE", "-", a>>
<1>1. CASE access = "WRITE"
  <2>1. PICK b : b = GrantOnDatabase(u, "WRITE")
    OBVIOUS
  <2>2. R = <<b>>
    BY <1>1, <2>1 DEF SetAccess, Grants, Schema, Database
  <2>3. GivesIn(b, P("WRITE")) /\ ~RemovesIn(b, P("WRITE"))
    BY <2>1, GrantDatabase
  <2>4. WillHave(R, P("WRITE"))
    BY <2>2, <2>3, ByOne
  <2> QED BY <1>1, <2>4 DEF WillReachOnDatabase
<1>2. CASE access = "READ"
  <2>1. PICK b, c : b = RevokeOnDatabase(u, "WRITE") /\ c = GrantOnDatabase(u, "READ")
    OBVIOUS
  <2>2. R = <<b, c>>
    BY <1>2, <2>1 DEF SetAccess, Grants, Revocations, Schema, Database
  <2>3. GivesIn(c, P("READ")) /\ ~RemovesIn(c, P("READ")) /\ ~GivesIn(c, P("WRITE"))
    BY <2>1, GrantDatabase
  <2>4. RemovesIn(b, P("WRITE")) /\ ~GivesIn(b, P("WRITE"))
    BY <2>1, RevokeDatabaseWrite
  <2>5. WillHave(R, P("READ")) /\ WillLack(R, P("WRITE"))
    BY <2>2, <2>3, <2>4, ByTwo
  <2> QED BY <1>2, <2>5 DEF WillReachOnDatabase
<1>3. CASE access = "NONE"
  <2>1. PICK b : b = RevokeOnDatabase(u, "READ")
    OBVIOUS
  <2>2. R = <<b>>
    BY <1>3, <2>1 DEF SetAccess, Revocations, Schema, Database
  <2>3. \A a \in {"READ", "WRITE"} : RemovesIn(b, P(a)) /\ ~GivesIn(b, P(a))
    BY <2>1, RevokeDatabaseRead
  <2>4. WillLack(R, P("READ")) /\ WillLack(R, P("WRITE"))
    BY <2>2, <2>3, ByOne
  <2> QED BY <1>3, <2>4 DEF WillReachOnDatabase
<1> QED BY <1>1, <1>2, <1>3 DEF Levels

LEMMA SetOnSchema ==
  ASSUME NEW u, NEW access \in Levels, NEW R, R = SetAccess(u, Schema, access)
  PROVE  WillReachOnSchema(R, u, access)
<1> SUFFICES ASSUME NEW kind \in Kinds \ {"DATABASE"}, NEW name \in Named(kind), NEW a \in Actions(kind)
             PROVE  /\ Kept(access, a) => WillHave(R, <<u, kind, name, a>>)
                    /\ ~Kept(access, a) => WillLack(R, <<u, kind, name, a>>)
  BY DEF WillReachOnSchema
<1> DEFINE p == <<u, kind, name, a>>
<1>0. Schema # Database
  BY DEF Schema, Database
<1>1. CASE access = "WRITE"
  <2>1. PICK b : b = GrantOnSchema(u, "WRITE")
    OBVIOUS
  <2>2. R = <<b>>
    BY <1>0, <1>1, <2>1 DEF SetAccess, Grants
  <2>3. GivesIn(b, p) /\ ~RemovesIn(b, p)
    BY <2>1, GrantSchemaWrite
  <2>4. WillHave(R, p)
    BY <2>2, <2>3, ByOne
  <2> QED BY <1>1, <2>4 DEF Kept
<1>2. CASE access = "READ"
  <2>1. PICK b, c : b = RevokeOnSchema(u, "WRITE") /\ c = GrantOnSchema(u, "READ")
    OBVIOUS
  <2>2. R = <<b, c>>
    BY <1>0, <1>2, <2>1 DEF SetAccess, Grants, Revocations
  <2>3. ~RemovesIn(c, p) /\ (GivesIn(c, p) <=> a # "WRITE")
    BY <2>1, GrantSchemaRead
  <2>4. ~GivesIn(b, p) /\ (a = "WRITE" => RemovesIn(b, p))
    BY <2>1, RevokeSchemaWrite
  <2>5. /\ a # "WRITE" => WillHave(R, p)
        /\ a = "WRITE" => WillLack(R, p)
    BY <2>2, <2>3, <2>4, ByTwo
  <2> QED BY <1>2, <2>5 DEF Kept
<1>3. CASE access = "NONE"
  <2>1. PICK b : b = RevokeOnSchema(u, "READ")
    OBVIOUS
  <2>2. R = <<b>>
    BY <1>0, <1>3, <2>1 DEF SetAccess, Revocations
  <2>3. RemovesIn(b, p) /\ ~GivesIn(b, p)
    BY <2>1, RevokeSchemaRead
  <2>4. WillLack(R, p)
    BY <2>2, <2>3, ByOne
  <2> QED BY <1>3, <2>4 DEF Kept
<1> QED BY <1>1, <1>2, <1>3 DEF Levels

LEMMA SetOnTable ==
  ASSUME NEW u, NEW t \in Tables, NEW access \in Levels, NEW R, R = SetAccess(u, t, access),
         NEW onebyone
  PROVE  WillReachOnTable(R, u, t, access, onebyone)
<1> DEFINE P(k, a) == <<u, k, t, a>>
           q == <<u, "SCHEMA", "-", "READ">>
<1>0. t # Schema /\ t # Database
  BY AtTable
<1>1. CASE access = "WRITE"
  <2>1. PICK b : b = GrantOnTable(u, t, "WRITE")
    OBVIOUS
  <2>2. R = <<b>>
    BY <1>0, <1>1, <2>1 DEF SetAccess, Grants
  <2>3. /\ GivesIn(b, q) /\ ~RemovesIn(b, q)
        /\ \A k \in {"TABLE", "SEQUENCE"}, a \in {"READ", "WRITE"} :
              GivesIn(b, P(k, a)) /\ ~RemovesIn(b, P(k, a))
    BY <2>1, GrantTableWrite
  <2>4. /\ WillHave(R, q)
        /\ \A k \in {"TABLE", "SEQUENCE"}, a \in {"READ", "WRITE"} : WillHave(R, P(k, a))
    BY <2>2, <2>3, ByOne
  <2> QED BY <1>1, <2>4 DEF WillReachOnTable
<1>2. CASE access = "READ"
  <2>1. PICK b, c : b = RevokeOnTable(u, t, "WRITE") /\ c = GrantOnTable(u, t, "READ")
    OBVIOUS
  <2>2. R = <<b, c>>
    BY <1>0, <1>2, <2>1 DEF SetAccess, Grants, Revocations
  <2>3. /\ GivesIn(c, q) /\ ~RemovesIn(c, q)
        /\ GivesIn(c, P("TABLE", "READ")) /\ ~RemovesIn(c, P("TABLE", "READ"))
        /\ ~GivesIn(c, P("TABLE", "WRITE")) /\ ~GivesIn(c, P("SEQUENCE", "WRITE"))
    BY <2>1, GrantTableRead
  <2>4. \A k \in {"TABLE", "SEQUENCE"} : RemovesIn(b, P(k, "WRITE")) /\ ~GivesIn(b, P(k, "WRITE"))
    BY <2>1, RevokeTableWrite
  <2>5. /\ WillHave(R, q) /\ WillHave(R, P("TABLE", "READ"))
        /\ WillLack(R, P("TABLE", "WRITE")) /\ WillLack(R, P("SEQUENCE", "WRITE"))
    BY <2>2, <2>3, <2>4, ByTwo
  <2> QED BY <1>2, <2>5 DEF WillReachOnTable
<1>3. CASE access = "NONE"
  <2>1. PICK b : b = RevokeOnTable(u, t, "READ")
    OBVIOUS
  <2>2. R = <<b>>
    BY <1>0, <1>3, <2>1 DEF SetAccess, Revocations
  <2>3. \A k \in {"TABLE", "SEQUENCE"}, a \in {"READ", "WRITE"} :
           RemovesIn(b, P(k, a)) /\ ~GivesIn(b, P(k, a))
    BY <2>1, RevokeTableRead
  <2>4. \A k \in {"TABLE", "SEQUENCE"}, a \in {"READ", "WRITE"} : WillLack(R, P(k, a))
    BY <2>2, <2>3, ByOne
  <2> QED BY <1>3, <2>4 DEF WillReachOnTable
<1> QED BY <1>1, <1>2, <1>3 DEF Levels

\* The change of one user's access will reach what it is asked to.
LEMMA SetReaches ==
  ASSUME NEW u, NEW at \in Ats, NEW access \in Levels, NEW onebyone,
         NEW R, R = SetAccess(u, at, access)
  PROVE  WillReach(R, u, at, access, onebyone)
<1>0. Schema # Database
  BY DEF Schema, Database
<1>1. CASE at = Database
  BY <1>0, <1>1, SetOnDatabase DEF WillReach
<1>2. CASE at = Schema
  BY <1>0, <1>2, SetOnSchema DEF WillReach
<1>3. CASE at \in Tables
  <2>1. at # Schema /\ at # Database
    BY <1>3, AtTable
  <2> QED BY <1>3, <2>1, SetOnTable DEF WillReach
<1> QED BY <1>1, <1>2, <1>3 DEF Ats

\* The sequence made of a finite set has its elements, each once.
LEMMA Enumerated ==
  ASSUME NEW S, IsFiniteSet(S)
  PROVE  /\ SetToSeq(S) \in [1 .. Cardinality(S) -> S] /\ Cardinality(S) \in Nat
         /\ SetToSeq(S) \in Seq(S) /\ Len(SetToSeq(S)) = Cardinality(S)
         /\ DOMAIN SetToSeq(S) = 1 .. Cardinality(S)
         /\ \A x \in S : \E i \in DOMAIN SetToSeq(S) : SetToSeq(S)[i] = x
<1> DEFINE n == Cardinality(S)
           e == SetToSeq(S)
<1>1. n \in Nat /\ ExistsBijection(1 .. n, S)
  BY FS_CardinalityType
<1>2. \E f \in [1 .. n -> S] : IsInjective(f)
  BY <1>1 DEF ExistsBijection, Bijection, Injection
<1>3. e \in [1 .. n -> S] /\ IsInjective(e)
  BY <1>2 DEF SetToSeq
<1>4. IsFiniteSet(1 .. n) /\ Cardinality(1 .. n) = n
  BY <1>1, FS_Interval
<1> HIDE DEF n, e
<1>5. e \in Injection(1 .. n, S)
  BY <1>3 DEF Injection
<1>6. n = Cardinality(S)
  BY DEF n
<1>7. e \in Surjection(1 .. n, S)
  BY <1>4, <1>5, <1>6, FS_Injection
<1>8. \A x \in S : \E i \in 1 .. n : e[i] = x
  BY <1>7 DEF Surjection
<1>9. e \in Seq(S) /\ Len(e) = n
  BY <1>1, <1>3
<1> QED BY <1>1, <1>3, <1>8, <1>9 DEF n, e

\* What a list of grants, or of revocations, does not do.
LEMMA GrantsOnly ==
  ASSUME NEW u, NEW t \in Tables, NEW level \in {"READ", "WRITE"}, NEW b, b = Grants(u, t, level),
         NEW v, NEW k, NEW n, NEW a
  PROVE  /\ RemovesIn(b, <<v, k, n, a>>) => level = "READ" /\ a = "WRITE"
         /\ GivesIn(b, <<v, k, n, a>>) => level = "WRITE" \/ a # "WRITE"
<1>1. b = GrantOnTable(u, t, level)
  BY AtTable DEF Grants
<1>2. CASE level = "READ"
  BY <1>1, <1>2, GrantTableRead
<1>3. CASE level = "WRITE"
  BY <1>1, <1>3, GrantTableWrite
<1> QED BY <1>2, <1>3

LEMMA RevokesOnly ==
  ASSUME NEW u, NEW at \in Ats, NEW b, b = Revocations(u, at, "READ"),
         NEW v, NEW k, NEW n, NEW a
  PROVE  ~GivesIn(b, <<v, k, n, a>>)
<1>0. Schema # Database
  BY DEF Schema, Database
<1>1. CASE at = Database
  BY <1>1, RevokeDatabaseRead DEF Revocations, Schema, Database
<1>2. CASE at = Schema
  BY <1>0, <1>2, RevokeSchemaRead DEF Revocations
<1>3. CASE at \in Tables
  <2>1. b = RevokeOnTable(u, at, "READ")
    BY <1>3, AtTable DEF Revocations
  <2> QED BY <1>3, <2>1, RevokeTableRead
<1> QED BY <1>1, <1>2, <1>3 DEF Ats

\* The entry of a bulk change for one of its pairs.
Entry(pair, access) ==
  IF access = "NONE" THEN Revocations(pair[1], pair[2], "READ") ELSE Grants(pair[1], pair[2], access)

LEMMA BulkEntries ==
  ASSUME NEW pairs, IsFiniteSet(pairs), NEW access, NEW R, R = SetAccessOfAll(pairs, access)
  PROVE  /\ \E n \in Nat : DOMAIN R = 1 .. n /\ Len(R) = n
         /\ \A k \in DOMAIN R : k \in Nat /\ \E pair \in pairs : R[k] = Entry(pair, access)
         /\ \A pair \in pairs : \E k \in DOMAIN R : R[k] = Entry(pair, access)
         /\ \A B : (\A pair \in pairs : Entry(pair, access) \in B) => R \in Seq(B)
<1> DEFINE e == SetToSeq(pairs)
           n == Cardinality(pairs)
<1>1. R = [k \in DOMAIN e |-> Entry(e[k], access)]
  BY DEF SetAccessOfAll, Entry
<1>2. /\ e \in [1 .. n -> pairs] /\ n \in Nat /\ DOMAIN e = 1 .. n
      /\ \A x \in pairs : \E i \in DOMAIN e : e[i] = x
  BY Enumerated
<1> HIDE DEF e, n
<1>3. DOMAIN R = 1 .. n /\ n \in Nat
  BY <1>1, <1>2
<1>4. \A k \in 1 .. n : R[k] = Entry(e[k], access) /\ e[k] \in pairs
  BY <1>1, <1>2
<1>5. \A B : (\A pair \in pairs : Entry(pair, access) \in B) => R \in Seq(B)
  <2> SUFFICES ASSUME NEW B, \A pair \in pairs : Entry(pair, access) \in B
               PROVE  R \in Seq(B)
    OBVIOUS
  <2>1. R \in [1 .. n -> B]
    BY <1>1, <1>2
  <2> QED BY <1>3, <2>1
<1>6. R \in Seq({R[k] : k \in 1 .. n}) /\ Len(R) = n
  <2>1. R \in [1 .. n -> {R[k] : k \in 1 .. n}]
    BY <1>1, <1>2
  <2> QED BY <1>3, <2>1
<1> QED BY <1>2, <1>3, <1>4, <1>5, <1>6

\* A bulk change will reach what it is asked to, on each of its pairs: none of
\* its entries undoes another.
LEMMA BulkReaches ==
  ASSUME NEW pairs, IsFiniteSet(pairs), NEW access \in Levels,
         \A x \in pairs : x = <<x[1], x[2]>> /\ x[2] \in Ats /\ (access # "NONE" => x[2] \in Tables),
         NEW R, R = SetAccessOfAll(pairs, access), NEW pair \in pairs
  PROVE  WillReach(R, pair[1], pair[2], access, FALSE)
<1> PICK u, at : u = pair[1] /\ at = pair[2]
  OBVIOUS
<1>1. /\ at \in Ats /\ (access # "NONE" => at \in Tables)
      /\ \A x \in pairs : x[2] \in Ats /\ (access # "NONE" => x[2] \in Tables)
  OBVIOUS
<1>2. /\ \A k \in DOMAIN R : \E x \in pairs : R[k] = Entry(x, access)
      /\ \E k \in DOMAIN R : R[k] = Entry(pair, access)
  BY BulkEntries
<1>3. PICK i \in DOMAIN R : R[i] = Entry(pair, access)
  BY <1>2
<1>4. CASE access = "NONE"
  <2>1. \A k \in DOMAIN R : \A v, q, n, a : ~GivesIn(R[k], <<v, q, n, a>>)
    <3> SUFFICES ASSUME NEW k \in DOMAIN R, NEW v, NEW q, NEW n, NEW a
                 PROVE  ~GivesIn(R[k], <<v, q, n, a>>)
      OBVIOUS
    <3>1. PICK x \in pairs : R[k] = Entry(x, access)
      BY <1>2
    <3>2. PICK w, o : w = x[1] /\ o = x[2]
      OBVIOUS
    <3>3. R[k] = Revocations(w, o, "READ") /\ o \in Ats
      BY <1>1, <1>4, <3>1, <3>2 DEF Entry
    <3> QED BY <3>3, RevokesOnly
  <2>2. R[i] = Revocations(u, at, "READ")
    BY <1>3, <1>4 DEF Entry
  <2>3. \A v, q, n, a : RemovesIn(R[i], <<v, q, n, a>>) => WillLack(R, <<v, q, n, a>>)
    BY <2>1 DEF WillLack
  <2>4. CASE at = Database
    <3>1. R[i] = RevokeOnDatabase(u, "READ")
      BY <2>2, <2>4 DEF Revocations, Schema, Database
    <3>2. \A a \in {"READ", "WRITE"} : RemovesIn(R[i], <<u, "DATABASE", "-", a>>)
      BY <3>1, RevokeDatabaseRead
    <3> QED BY <1>4, <2>3, <2>4, <3>2 DEF WillReach, WillReachOnDatabase, Schema, Database
  <2>5. CASE at = Schema
    <3>1. R[i] = RevokeOnSchema(u, "READ")
      BY <2>2, <2>5 DEF Revocations, Schema, Database
    <3>2. \A kind \in Kinds \ {"DATABASE"} : \A name \in Named(kind) : \A a \in Actions(kind) :
             RemovesIn(R[i], <<u, kind, name, a>>)
      BY <3>1, RevokeSchemaRead
    <3>3. \A kind \in Kinds \ {"DATABASE"} : \A name \in Named(kind) : \A a \in Actions(kind) :
             WillLack(R, <<u, kind, name, a>>)
      BY <2>3, <3>2
    <3> QED BY <1>4, <2>5, <3>3 DEF WillReach, WillReachOnSchema, Kept, Schema, Database
  <2>6. CASE at \in Tables
    <3>0. at # Database /\ at # Schema
      BY <2>6, AtTable
    <3>1. R[i] = RevokeOnTable(u, at, "READ")
      BY <2>2, <3>0 DEF Revocations
    <3>2. \A k \in {"TABLE", "SEQUENCE"}, a \in {"READ", "WRITE"} : RemovesIn(R[i], <<u, k, at, a>>)
      BY <2>6, <3>1, RevokeTableRead
    <3> QED BY <1>4, <2>3, <3>0, <3>2 DEF WillReach, WillReachOnTable
  <2> QED BY <1>1, <2>4, <2>5, <2>6 DEF Ats
<1>5. CASE access # "NONE"
  <2>0. access \in {"READ", "WRITE"} /\ at \in Tables /\ at # Database /\ at # Schema
    BY <1>1, <1>5, AtTable DEF Levels
  <2>1. \A k \in DOMAIN R : \A v, q, n, a :
           /\ RemovesIn(R[k], <<v, q, n, a>>) => access = "READ" /\ a = "WRITE"
           /\ GivesIn(R[k], <<v, q, n, a>>) => access = "WRITE" \/ a # "WRITE"
    <3> SUFFICES ASSUME NEW k \in DOMAIN R, NEW v, NEW q, NEW n, NEW a
                 PROVE  /\ RemovesIn(R[k], <<v, q, n, a>>) => access = "READ" /\ a = "WRITE"
                        /\ GivesIn(R[k], <<v, q, n, a>>) => access = "WRITE" \/ a # "WRITE"
      OBVIOUS
    <3>1. PICK x \in pairs : R[k] = Entry(x, access)
      BY <1>2
    <3>2. PICK w, o : w = x[1] /\ o = x[2]
      OBVIOUS
    <3>3. R[k] = Grants(w, o, access) /\ o \in Tables
      BY <1>1, <1>5, <3>1, <3>2 DEF Entry
    <3> QED BY <2>0, <3>3, GrantsOnly
  <2>2. R[i] = GrantOnTable(u, at, access)
    BY <1>3, <1>5, <2>0 DEF Entry, Grants
  <2>3. \A v, q, n, a :
           /\ GivesIn(R[i], <<v, q, n, a>>) /\ (access = "WRITE" \/ a # "WRITE") => WillHave(R, <<v, q, n, a>>)
           /\ RemovesIn(R[i], <<v, q, n, a>>) => WillLack(R, <<v, q, n, a>>)
    <3> SUFFICES ASSUME NEW v, NEW q, NEW n, NEW a
                 PROVE  /\ GivesIn(R[i], <<v, q, n, a>>) /\ (access = "WRITE" \/ a # "WRITE")
                              => WillHave(R, <<v, q, n, a>>)
                        /\ RemovesIn(R[i], <<v, q, n, a>>) => WillLack(R, <<v, q, n, a>>)
      OBVIOUS
    <3>1. ASSUME GivesIn(R[i], <<v, q, n, a>>), access = "WRITE" \/ a # "WRITE"
          PROVE  WillHave(R, <<v, q, n, a>>)
      <4>1. \A k \in DOMAIN R : ~RemovesIn(R[k], <<v, q, n, a>>)
        BY <2>0, <2>1, <3>1
      <4> QED BY <3>1, <4>1 DEF WillHave
    <3>2. ASSUME RemovesIn(R[i], <<v, q, n, a>>)
          PROVE  WillLack(R, <<v, q, n, a>>)
      <4>1. \A k \in DOMAIN R : ~GivesIn(R[k], <<v, q, n, a>>)
        BY <2>1, <3>2
      <4> QED BY <3>2, <4>1 DEF WillLack
    <3> QED BY <3>1, <3>2
  <2>4. CASE access = "WRITE"
    <3>1. /\ GivesIn(R[i], <<u, "SCHEMA", "-", "READ">>)
          /\ \A k \in {"TABLE", "SEQUENCE"}, a \in {"READ", "WRITE"} : GivesIn(R[i], <<u, k, at, a>>)
      BY <2>0, <2>2, <2>4, GrantTableWrite
    <3> QED BY <2>0, <2>3, <2>4, <3>1 DEF WillReach, WillReachOnTable
  <2>5. CASE access = "READ"
    <3>1. /\ GivesIn(R[i], <<u, "SCHEMA", "-", "READ">>) /\ GivesIn(R[i], <<u, "TABLE", at, "READ">>)
          /\ RemovesIn(R[i], <<u, "TABLE", at, "WRITE">>)
      BY <2>0, <2>2, <2>5, GrantTableRead
    <3> QED BY <2>0, <2>3, <2>5, <3>1 DEF WillReach, WillReachOnTable
  <2> QED BY <2>0, <2>4, <2>5
<1> QED BY <1>4, <1>5

-----------------------------------------------------------------------------
(* The lists are well typed.                                               *)

LEMMA StatementTyped ==
  ASSUME NEW verb \in {"GRANT", "REVOKE"}, NEW u \in Users, NEW kind \in Kinds,
         NEW names \in SUBSET Objects, NEW actions \in SUBSET {"READ", "WRITE", "EXECUTE"}
  PROVE  Statement(verb, u, kind, names, actions) \in Statements
<1>1. {u} \X {kind} \X names \X actions \in SUBSET Privileges
  BY DEF Privileges
<1> QED BY <1>1 DEF Statement, Statements

LEMMA GrantsTyped ==
  ASSUME NEW u \in Users, NEW at \in Ats, NEW level \in {"READ", "WRITE"}
  PROVE  Grants(u, at, level) \in Batches
<1>0. Schema # Database /\ Tables \subseteq Objects /\ {"-"} \subseteq Objects
  BY DEF Schema, Database, Objects, Alone
<1>1. \A kind \in Kinds, names \in SUBSET Objects, actions \in SUBSET {"READ", "WRITE", "EXECUTE"} :
         /\ Statement("GRANT", u, kind, names, actions) \in Statements
         /\ Statement("REVOKE", u, kind, names, actions) \in Statements
  BY StatementTyped
<1>2. \A kind \in Kinds, names \in SUBSET Objects : All("GRANT", u, kind, names) \in Statements
  BY <1>1 DEF All, Actions
<1>3. \A kind \in Kinds, names \in SUBSET Objects, a \in {"READ", "WRITE", "EXECUTE"} :
         /\ Only("GRANT", u, kind, names, a) \in Statements
         /\ Only("REVOKE", u, kind, names, a) \in Statements
  BY <1>1 DEF Only
<1>4. CASE at = Database
  <2>1. Grants(u, at, level) = GrantOnDatabase(u, level)
    BY <1>0, <1>4 DEF Grants
  <2> QED BY <1>0, <1>3, <2>1 DEF GrantOnDatabase, Batches, Kinds, Alone
<1>5. CASE at = Schema
  <2>1. Grants(u, at, level) = GrantOnSchema(u, level)
    BY <1>0, <1>5 DEF Grants
  <2>2. CASE level = "WRITE"
    BY <1>0, <1>2, <2>1, <2>2 DEF GrantOnSchema, Batches, Kinds, Alone
  <2>3. CASE level = "READ"
    BY <1>0, <1>3, <2>1, <2>3 DEF GrantOnSchema, Batches, Kinds, Alone
  <2> QED BY <2>2, <2>3
<1>6. CASE at \in Tables
  <2>1. Grants(u, at, level) = GrantOnTable(u, at, level)
    BY <1>6, AtTable DEF Grants
  <2>2. {at} \in SUBSET Objects
    BY <1>6 DEF Objects
  <2>3. CASE level = "WRITE"
    <3>1. PICK s, r, q : /\ s = Only("GRANT", u, "SCHEMA", Alone, "READ")
                         /\ r = All("GRANT", u, "TABLE", {at}) /\ q = All("GRANT", u, "SEQUENCE", {at})
      OBVIOUS
    <3>2. s \in Statements /\ r \in Statements /\ q \in Statements
      BY <1>0, <1>2, <1>3, <2>2, <3>1 DEF Kinds, Alone
    <3>3. Grants(u, at, level) = <<s>> \o <<r, q>>
      BY <2>1, <2>3, <3>1 DEF GrantOnTable
    <3>4. Grants(u, at, level) = <<s, r, q>>
      BY <3>3, Joined
    <3> QED BY <3>2, <3>4 DEF Batches
  <2>4. CASE level = "READ"
    <3>1. PICK s, r, q : /\ s = Only("GRANT", u, "SCHEMA", Alone, "READ")
                         /\ r = Only("REVOKE", u, "TABLE", {at}, "WRITE")
                         /\ q = Only("GRANT", u, "TABLE", {at}, "READ")
      OBVIOUS
    <3>2. s \in Statements /\ r \in Statements /\ q \in Statements
      BY <1>0, <1>3, <2>2, <3>1 DEF Kinds, Alone
    <3>3. Grants(u, at, level) = <<s>> \o <<r, q>>
      BY <2>1, <2>4, <3>1 DEF GrantOnTable
    <3>4. Grants(u, at, level) = <<s, r, q>>
      BY <3>3, Joined
    <3> QED BY <3>2, <3>4 DEF Batches
  <2> QED BY <2>3, <2>4
<1> QED BY <1>4, <1>5, <1>6 DEF Ats

LEMMA RevocationsTyped ==
  ASSUME NEW u \in Users, NEW at \in Ats, NEW level \in {"READ", "WRITE"}
  PROVE  Revocations(u, at, level) \in Batches
<1>0. Schema # Database /\ Tables \subseteq Objects /\ {"-"} \subseteq Objects
  BY DEF Schema, Database, Objects, Alone
<1>1. \A kind \in Kinds, names \in SUBSET Objects, actions \in SUBSET {"READ", "WRITE", "EXECUTE"} :
         Statement("REVOKE", u, kind, names, actions) \in Statements
  BY StatementTyped
<1>2. \A kind \in Kinds, names \in SUBSET Objects : All("REVOKE", u, kind, names) \in Statements
  BY <1>1 DEF All, Actions
<1>3. \A kind \in Kinds, names \in SUBSET Objects, a \in {"READ", "WRITE", "EXECUTE"} :
         Only("REVOKE", u, kind, names, a) \in Statements
  BY <1>1 DEF Only
<1>4. CASE at = Database
  <2>1. Revocations(u, at, level) = RevokeOnDatabase(u, level)
    BY <1>0, <1>4 DEF Revocations
  <2>2. CASE level = "READ"
    BY <1>0, <1>2, <2>1, <2>2 DEF RevokeOnDatabase, Batches, Kinds, Alone
  <2>3. CASE level = "WRITE"
    BY <1>0, <1>3, <2>1, <2>3 DEF RevokeOnDatabase, Batches, Kinds, Alone
  <2> QED BY <2>2, <2>3
<1>5. CASE at = Schema
  <2>1. Revocations(u, at, level) = RevokeOnSchema(u, level)
    BY <1>0, <1>5 DEF Revocations
  <2>2. CASE level = "READ"
    BY <1>0, <1>2, <2>1, <2>2 DEF RevokeOnSchema, Batches, Kinds, Alone
  <2>3. CASE level = "WRITE"
    BY <1>0, <1>3, <2>1, <2>3 DEF RevokeOnSchema, Batches, Kinds, Alone
  <2> QED BY <2>2, <2>3
<1>6. CASE at \in Tables
  <2>1. Revocations(u, at, level) = RevokeOnTable(u, at, level)
    BY <1>6, AtTable DEF Revocations
  <2>2. {at} \in SUBSET Objects
    BY <1>6 DEF Objects
  <2>3. CASE level = "READ"
    BY <1>2, <2>1, <2>2, <2>3 DEF RevokeOnTable, Batches, Kinds
  <2>4. CASE level = "WRITE"
    BY <1>3, <2>1, <2>2, <2>4 DEF RevokeOnTable, Batches, Kinds
  <2> QED BY <2>3, <2>4
<1> QED BY <1>4, <1>5, <1>6 DEF Ats

LEMMA SetTyped ==
  ASSUME NEW u \in Users, NEW at \in Ats, NEW access \in Levels
  PROVE  SetAccess(u, at, access) \in Seq(Batches)
<1>1. PICK b, c, d, e : /\ b = Revocations(u, at, "WRITE") /\ c = Grants(u, at, "READ")
                        /\ d = Grants(u, at, "WRITE") /\ e = Revocations(u, at, "READ")
  OBVIOUS
<1>2. b \in Batches /\ c \in Batches /\ d \in Batches /\ e \in Batches
  BY <1>1, GrantsTyped, RevocationsTyped
<1>3. SetAccess(u, at, access) \in {<<b, c>>, <<d>>, <<e>>}
  BY <1>1 DEF SetAccess, Levels
<1> HIDE DEF Batches
<1>4. <<b, c>> \in Seq(Batches)
  BY <1>2
<1>5. <<d>> \in Seq(Batches) /\ <<e>> \in Seq(Batches)
  BY <1>2
<1> QED BY <1>3, <1>4, <1>5

\* A form that is about the database puts the account first.
LEMMA AccountFirst ==
  ASSUME NEW R \in Seq(Batches), NEW u, NEW at \in Ats, NEW access, NEW onebyone,
         WillReach(R, u, at, access, onebyone), NEW R2, R2 = <<<<Account>>>> \o R
  PROVE  R2 \in Seq(Batches) /\ WillReach(R2, u, at, access, onebyone)
<1> PICK b : b = <<Account>>
  OBVIOUS
<1>1. Account \in Statements
  BY DEF Account, Statements
<1>2. b \in Batches
  BY <1>1 DEF Batches
<1>3. \A p : ~Gives(Account, p) /\ ~Removes(Account, p)
  BY DEF Account, Gives, Removes
<1>4. \A p : ~GivesIn(b, p) /\ ~RemovesIn(b, p)
  BY <1>3, One
<1>5. R2 = <<b>> \o R
  OBVIOUS
<1> HIDE DEF Batches
<1>6. /\ R2 \in Seq(Batches) /\ Len(R) \in Nat /\ Len(R2) = Len(R) + 1 /\ R2[1] = b
      /\ \A k \in 1 .. Len(R) : R2[k + 1] = R[k]
      /\ DOMAIN R = 1 .. Len(R) /\ DOMAIN R2 = 1 .. Len(R2)
  BY <1>2, <1>5
<1>7. /\ \A k \in DOMAIN R2 : k = 1 \/ (k - 1 \in DOMAIN R /\ R2[k] = R[k - 1] /\ k \in Nat)
      /\ \A k \in DOMAIN R : k \in Nat /\ k + 1 \in DOMAIN R2 /\ R2[k + 1] = R[k]
  <2>1. \A k \in 2 .. Len(R2) : k - 1 \in 1 .. Len(R) /\ k = (k - 1) + 1
    BY <1>6
  <2>2. \A k \in 2 .. Len(R2) : R2[k] = R[k - 1]
    BY <1>6, <2>1
  <2> QED BY <1>6, <2>1, <2>2
<1>8. ASSUME NEW p, WillHave(R, p) PROVE WillHave(R2, p)
  <2>1. CASE p \in held /\ \A k \in DOMAIN R : ~RemovesIn(R[k], p)
    BY <1>4, <1>6, <1>7, <2>1 DEF WillHave
  <2>2. ASSUME NEW i \in DOMAIN R, GivesIn(R[i], p), \A k \in DOMAIN R : k >= i => ~RemovesIn(R[k], p)
        PROVE  WillHave(R2, p)
    <3>1. i + 1 \in DOMAIN R2 /\ GivesIn(R2[i + 1], p)
      BY <1>7, <2>2
    <3>2. \A k \in DOMAIN R2 : k >= i + 1 => ~RemovesIn(R2[k], p)
      BY <1>4, <1>6, <1>7, <2>2
    <3> QED BY <3>1, <3>2 DEF WillHave
  <2> QED BY <1>8, <2>1, <2>2 DEF WillHave
<1>9. ASSUME NEW p, WillLack(R, p) PROVE WillLack(R2, p)
  <2>1. CASE p \notin held /\ \A k \in DOMAIN R : ~GivesIn(R[k], p)
    BY <1>4, <1>6, <1>7, <2>1 DEF WillLack
  <2>2. ASSUME NEW i \in DOMAIN R, RemovesIn(R[i], p), \A k \in DOMAIN R : k >= i => ~GivesIn(R[k], p)
        PROVE  WillLack(R2, p)
    <3>1. i + 1 \in DOMAIN R2 /\ RemovesIn(R2[i + 1], p)
      BY <1>7, <2>2
    <3>2. \A k \in DOMAIN R2 : k >= i + 1 => ~GivesIn(R2[k], p)
      BY <1>4, <1>6, <1>7, <2>2
    <3> QED BY <3>1, <3>2 DEF WillLack
  <2> QED BY <1>9, <2>1, <2>2 DEF WillLack
<1>10. CASE at = Database
  <2>1. WillReachOnDatabase(R, u, access)
    BY <1>10 DEF WillReach, Schema, Database
  <2>2. WillReachOnDatabase(R2, u, access)
    BY <1>8, <1>9, <2>1 DEF WillReachOnDatabase
  <2> QED BY <1>6, <1>10, <2>2 DEF WillReach, Schema, Database
<1>11. CASE at = Schema
  <2>1. WillReachOnSchema(R, u, access)
    BY <1>11 DEF WillReach, Schema, Database
  <2>2. WillReachOnSchema(R2, u, access)
    BY <1>8, <1>9, <2>1 DEF WillReachOnSchema
  <2> QED BY <1>6, <1>11, <2>2 DEF WillReach, Schema, Database
<1>12. CASE at \in Tables
  <2>0. at # Database /\ at # Schema
    BY <1>12, AtTable
  <2>1. WillReachOnTable(R, u, at, access, onebyone)
    BY <2>0 DEF WillReach
  <2>2. WillReachOnTable(R2, u, at, access, onebyone)
    BY <1>8, <1>9, <2>1 DEF WillReachOnTable
  <2> QED BY <1>6, <2>0, <2>2 DEF WillReach
<1> QED BY <1>10, <1>11, <1>12 DEF Ats

-----------------------------------------------------------------------------
(* A change of access to one table leaves the others alone.                *)

TableOnly(R, u, t) ==
  \A k \in DOMAIN R : \A v \in Users, n \in Tables, a \in {"READ", "WRITE"} :
     GivesIn(R[k], <<v, "TABLE", n, a>>) \/ RemovesIn(R[k], <<v, "TABLE", n, a>>) => v = u /\ n = t

LEMMA SetTableOnly ==
  ASSUME NEW u, NEW t \in Tables, NEW access \in Levels
  PROVE  TableOnly(SetAccess(u, t, access), u, t)
<1>1. PICK b, c, d, e : /\ b = RevokeOnTable(u, t, "WRITE") /\ c = GrantOnTable(u, t, "READ")
                        /\ d = GrantOnTable(u, t, "WRITE") /\ e = RevokeOnTable(u, t, "READ")
  OBVIOUS
<1>2. SetAccess(u, t, access) \in {<<b, c>>, <<d>>, <<e>>}
  BY <1>1, AtTable DEF SetAccess, Levels, Grants, Revocations
<1>3. \A v, n, a : \A x \in {b, c, d, e} :
         GivesIn(x, <<v, "TABLE", n, a>>) \/ RemovesIn(x, <<v, "TABLE", n, a>>) => v = u /\ n = t
  BY <1>1, RevokeTableWrite, GrantTableRead, GrantTableWrite, RevokeTableRead
<1>4. \A k \in DOMAIN SetAccess(u, t, access) : SetAccess(u, t, access)[k] \in {b, c, d, e}
  BY <1>2
<1> QED BY <1>3, <1>4 DEF TableOnly

LEMMA LevelKept ==
  ASSUME held' = held, NEW u, NEW kind, NEW name
  PROVE  Level(u, kind, name)' = Level(u, kind, name)
  BY DEF Level, Having

LEMMA TableOnlyKept ==
  ASSUME NEW R \in Seq(Batches), R # <<>>, Run(Head(Head(R))), NEW u, NEW t, TableOnly(R, u, t)
  PROVE  /\ TableOnly(After(R), u, t)
         /\ \A v \in Users, n \in Tables :
               v # u \/ n # t => Level(v, "TABLE", n)' = Level(v, "TABLE", n)
<1> PICK A, s : A = After(R) /\ s = Head(Head(R))
  OBVIOUS
<1>1. /\ 1 \in DOMAIN R /\ 1 \in DOMAIN R[1] /\ s = R[1][1]
  BY Shifted
<1>0. \E d \in {0, 1} : Shift(R, A, d)
  BY Shifted
<1>2. \E d \in {0, 1} : \A k \in DOMAIN A : k + d \in DOMAIN R
         /\ \A j \in DOMAIN A[k] : \E i \in DOMAIN R[k + d] : A[k][j] = R[k + d][i]
  BY <1>0 DEF Shift
<1>3. \A k \in DOMAIN A : \E l \in DOMAIN R : \A p :
         /\ GivesIn(A[k], p) => GivesIn(R[l], p)
         /\ RemovesIn(A[k], p) => RemovesIn(R[l], p)
  BY <1>2 DEF GivesIn, RemovesIn
<1>4. TableOnly(A, u, t)
  BY <1>3 DEF TableOnly
<1>5. ASSUME NEW v \in Users, NEW n \in Tables, v # u \/ n # t
      PROVE  Level(v, "TABLE", n)' = Level(v, "TABLE", n)
  <2>1. \A a \in {"READ", "WRITE"} : ~Gives(s, <<v, "TABLE", n, a>>) /\ ~Removes(s, <<v, "TABLE", n, a>>)
    BY <1>1, <1>5 DEF TableOnly, GivesIn, RemovesIn
  <2>2. \A a \in {"READ", "WRITE"} : <<v, "TABLE", n, a>> \in held' <=> <<v, "TABLE", n, a>> \in held
    BY <2>1 DEF Run, Gives, Removes
  <2>3. Actions("TABLE") = {"READ", "WRITE"}
    BY DEF Actions
  <2>4. Having(v, "TABLE", n)' = Having(v, "TABLE", n)
    BY <2>2, <2>3 DEF Having
  <2> QED BY <2>4 DEF Level
<1> QED BY <1>4, <1>5


-----------------------------------------------------------------------------
(* The invariant.                                                          *)

Rows == [level : Levels, shown : Levels, selected : BOOLEAN, stuck : BOOLEAN]
\* Of each page; the list of the users has no dropdown.
RowsTyped(table) ==
  /\ DOMAIN table = Pages
  /\ \A p \in Pages : DOMAIN table[p] \subseteq Subjects(p)
  /\ \A p \in Pages : \A s \in DOMAIN table[p] : table[p][s] \in Rows
  /\ \A s \in DOMAIN table["users"] : table["users"][s].shown = table["users"][s].level
PagesTyped ==
  /\ location \in Locations
  /\ subject \in [Pages -> Users \cup Tables \cup {Database}]
  /\ subject["user"] \in Users /\ subject["table"] \in Tables
  /\ RowsTyped(rows)
  /\ bulk \in [Pages -> Levels \cup {""}]

\* What a load has been answered.
Got(page) == CASE page = "user" -> [Tables -> Levels]
               [] page = "table" -> [Tables -> [Users -> Levels]]
               [] page = "users" -> [Users -> Levels]
LoadTyped(l) ==
  /\ l.page \in Pages
  /\ \/ l.at \in {"admin", "people"} /\ l = [n |-> l.n, page |-> l.page, at |-> l.at]
     \/ l.at = "asked" /\ (l.page = "user" => l.who \in Users)
     \/ l.at = "answered" /\ l.got \in Got(l.page)
LoadsTyped == \A l \in loads : LoadTyped(l)

Dialogs ==
  {NoDialog}
  \cup {d \in [open : {"bulk"}, page : Pages, items : SUBSET (Users \cup Tables),
               action : {"db-rm-schema-access", "db-update-user-table-access"}] :
           d.items \subseteq Subjects(d.page) /\ d.action = ActionOf(d.page)}
  \cup [open : {"form"}, page : Pages, user : Users, at : {Database, Schema}, busy : BOOLEAN]
DialogTyped == dialog \in Dialogs

Changes == [by : {"dropdown", "bulk", "form"}, page : Pages, pairs : SUBSET (Users \X Ats),
            access : Levels, requests : Seq(Batches), failed : BOOLEAN, alone : BOOLEAN]
ChangesTyped == /\ left \in [moves : Nat, changes : Nat, faults : Nat]
                /\ \A c \in DOMAIN changes : changes[c] \in Changes

\* A change that nothing overlaps is the only one, and will reach what it was asked
\* to; a dropdown's touches one table.
WillEnd(change) ==
  \A pair \in change.pairs : WillReach(change.requests, pair[1], pair[2], change.access, change.by # "bulk")
OneTable(change) ==
  change.by = "dropdown" =>
     \E u \in Users, t \in Tables : change.pairs = {<<u, t>>} /\ TableOnly(change.requests, u, t)
Aim(change) == ~change.failed => /\ change.alone => WillEnd(change)
                                 /\ OneTable(change)
Aimed == \A change \in {changes[c] : c \in DOMAIN changes} : Aim(change)
OnlyOne == \A c \in DOMAIN changes : changes[c].alone => DOMAIN changes = {c}

\* What the row of a page stands for, and whether it shows it.
LevelOf(page, s) == CASE page = "user" -> Level(subject["user"], "TABLE", s)
                      [] page = "table" -> Level(s, "TABLE", subject["table"])
                      [] page = "users" -> Level(s, "SCHEMA", "-")
IsTrue(page, s) == \/ rows[page][s].shown = LevelOf(page, s)
                   \/ page = "table" /\ rows[page][s].stuck

\* While nothing disturbs the page: a change under way is alone and does not fail;
CalmChanges ==
  \A c \in DOMAIN changes : /\ changes[c].alone /\ ~changes[c].failed
                            /\ loads = {} /\ timers = {}
                            /\ changes[c].by = "dropdown" => Here # "users"
\* a load is the only one, for the page of the location, and its answer is true;
LoadTrue(l) ==
  /\ l.page = Here
  /\ l.at = "asked" /\ l.page = "user" => l.who = subject["user"]
  /\ l.at = "answered" =>
        CASE l.page = "user" -> \A t \in Tables : l.got[t] = Level(subject["user"], "TABLE", t)
          [] l.page = "table" -> \A t \in Tables, u \in Users : l.got[t][u] = Level(u, "TABLE", t)
          [] l.page = "users" -> \A u \in Users : l.got[u] = Level(u, "SCHEMA", "-")
CalmLoads == /\ \A l \in loads : loads = {l} /\ LoadTrue(l)
             /\ loads # {} /\ Here = "user" => DOMAIN rows["user"] = {}
\* the page in view is the one of the location, or is about to be;
CalmView == IF timers = {} THEN view = Here ELSE timers = {Here}
\* and once loaded each row is true, but the one a dropdown is changing, which shows
\* what it will be.
CalmRows ==
  loads = {} /\ (\A c \in DOMAIN changes : changes[c].by = "dropdown") =>
     \A s \in DOMAIN rows[Here] :
        \/ IsTrue(Here, s) /\ \A c \in DOMAIN changes : Pair(Here, s) \notin changes[c].pairs
        \/ \E c \in DOMAIN changes : /\ Pair(Here, s) \in changes[c].pairs
                                     /\ rows[Here][s].shown = changes[c].access
Calm == ~disturbed => CalmChanges /\ CalmLoads /\ CalmView /\ CalmRows

Inv == PagesTyped /\ LoadsTyped /\ DialogTyped /\ ChangesTyped /\ Aimed /\ OnlyOne /\ Calm

-----------------------------------------------------------------------------
(* What an action leaves alone.                                            *)

LEMMA LevelTyped ==
  ASSUME NEW u, NEW kind, NEW name
  PROVE  Level(u, kind, name) \in Levels
  BY DEF Level, Levels

LEMMA PagesKept ==
  ASSUME PagesTyped, UNCHANGED <<location, subject, rows, bulk>>
  PROVE  PagesTyped'
  BY DEF PagesTyped, RowsTyped

LEMMA LoadsKept ==
  ASSUME LoadsTyped, UNCHANGED loads
  PROVE  LoadsTyped'
  BY DEF LoadsTyped

LEMMA DialogKept ==
  ASSUME DialogTyped, UNCHANGED dialog
  PROVE  DialogTyped'
  BY DEF DialogTyped

LEMMA WillKept ==
  ASSUME held' = held, NEW R, NEW u, NEW at, NEW access, NEW onebyone
  PROVE  WillReach(R, u, at, access, onebyone)' <=> WillReach(R, u, at, access, onebyone)
<1>1. \A p : (WillHave(R, p)' <=> WillHave(R, p)) /\ (WillLack(R, p)' <=> WillLack(R, p))
  BY DEF WillHave, WillLack
<1> QED BY <1>1 DEF WillReach, WillReachOnDatabase, WillReachOnSchema, WillReachOnTable

LEMMA AimKept ==
  ASSUME held' = held, NEW change, Aim(change)
  PROVE  Aim(change)'
  BY WillKept DEF Aim, WillEnd, OneTable

LEMMA ChangesKept ==
  ASSUME ChangesTyped, Aimed, OnlyOne, UNCHANGED <<held, changes>>,
         left' \in [moves : Nat, changes : Nat, faults : Nat]
  PROVE  ChangesTyped' /\ Aimed' /\ OnlyOne'
<1>1. ChangesTyped' /\ OnlyOne'
  BY DEF ChangesTyped, OnlyOne
<1>2. Aimed'
  BY AimKept DEF Aimed
<1> QED BY <1>1, <1>2

LEMMA LevelOfKept ==
  ASSUME UNCHANGED <<held, location, subject>>
  PROVE  /\ \A p, s : LevelOf(p, s)' = LevelOf(p, s)
         /\ \A p, s : Pair(p, s)' = Pair(p, s)
         /\ \A l : LoadTrue(l)' <=> LoadTrue(l)
<1>1. \A u, kind, name : Level(u, kind, name)' = Level(u, kind, name)
  BY LevelKept
<1>2. \A p, s : LevelOf(p, s)' = LevelOf(p, s)
  BY <1>1 DEF LevelOf
<1>3. \A p, s : Pair(p, s)' = Pair(p, s)
  BY DEF Pair
<1>4. \A l : LoadTrue(l)' <=> LoadTrue(l)
  BY <1>1 DEF LoadTrue, Here
<1> QED BY <1>2, <1>3, <1>4

LEMMA TruthKept ==
  ASSUME UNCHANGED <<held, location, subject, rows>>
  PROVE  /\ \A p, s : IsTrue(p, s)' <=> IsTrue(p, s)
         /\ \A p, s : Pair(p, s)' = Pair(p, s)
         /\ \A l : LoadTrue(l)' <=> LoadTrue(l)
  BY LevelOfKept DEF IsTrue

\* The page of the location, and what it is about.
LEMMA Places ==
  ASSUME NEW loc \in Locations
  PROVE  /\ loc[1] \in Pages /\ loc = <<loc[1], loc[2]>>
         /\ loc[1] = "user" => loc[2] \in Users
         /\ loc[1] = "table" => loc[2] \in Tables
         /\ loc[1] = "users" => loc[2] = Database
<1>1. CASE loc \in {"user"} \X Users
  BY <1>1 DEF Pages
<1>2. CASE loc \in {"table"} \X Tables
  BY <1>2 DEF Pages
<1>3. CASE loc = <<"users", Database>>
  BY <1>3 DEF Pages
<1> QED BY <1>1, <1>2, <1>3 DEF Locations

LEMMA CalmKept ==
  ASSUME Calm, disturbed => disturbed',
         UNCHANGED <<held, location, view, timers, subject, rows, loads, changes>>
  PROVE  Calm'
<1>1. /\ \A p, s : IsTrue(p, s)' <=> IsTrue(p, s)
      /\ \A p, s : Pair(p, s)' = Pair(p, s)
      /\ \A l : LoadTrue(l)' <=> LoadTrue(l)
  BY TruthKept
<1>5. CalmChanges => CalmChanges'
  BY DEF CalmChanges, Here
<1>6. CalmLoads => CalmLoads'
  BY <1>1 DEF CalmLoads, Here
<1>7. CalmView => CalmView'
  BY DEF CalmView, Here
<1>8. CalmRows => CalmRows'
  BY <1>1 DEF CalmRows, Here
<1> QED BY <1>5, <1>6, <1>7, <1>8 DEF Calm

LEMMA StutterStep ==
  ASSUME Inv, UNCHANGED vars
  PROVE  Inv'
<1>1. left' \in [moves : Nat, changes : Nat, faults : Nat]
  BY DEF Inv, ChangesTyped, vars
<1> QED BY <1>1, PagesKept, LoadsKept, DialogKept, ChangesKept, CalmKept DEF Inv, vars, pageVars

\* The loader and the dialog are of no consequence to the page.
LEMMA FadedStep ==
  ASSUME Inv, FadedIn \/ FadedOut
  PROVE  Inv'
<1>1. left' \in [moves : Nat, changes : Nat, faults : Nat]
  BY DEF Inv, ChangesTyped, FadedIn, FadedOut
<1> QED BY <1>1, PagesKept, LoadsKept, DialogKept, ChangesKept, CalmKept
        DEF Inv, FadedIn, FadedOut, pageVars

LEMMA DismissStep ==
  ASSUME Inv, Dismiss
  PROVE  Inv'
<1>1. left' \in [moves : Nat, changes : Nat, faults : Nat]
  BY DEF Inv, ChangesTyped, Dismiss
<1>2. DialogTyped'
  BY DEF Dismiss, DialogTyped, Dialogs
<1> QED BY <1>1, <1>2, PagesKept, LoadsKept, ChangesKept, CalmKept DEF Inv, Dismiss, pageVars

LEMMA OpenFormStep ==
  ASSUME Inv, NEW p \in Pages, NEW u \in Users, NEW at \in {Database, Schema}, OpenForm(p, u, at)
  PROVE  Inv'
<1>1. left' \in [moves : Nat, changes : Nat, faults : Nat]
  BY DEF Inv, ChangesTyped, OpenForm
<1>2. DialogTyped'
  BY DEF OpenForm, DialogTyped, Dialogs
<1>3. /\ UNCHANGED <<held, location, view, timers, pageVars, loads, changes>>
      /\ disturbed' = disturbed
  BY DEF OpenForm
<1> QED BY <1>1, <1>2, <1>3, PagesKept, LoadsKept, ChangesKept, CalmKept DEF Inv, pageVars

LEMMA ApplyStep ==
  ASSUME Inv, NEW p \in Pages, NEW access \in Offered(p), Apply(p, access)
  PROVE  Inv'
<1>1. left' \in [moves : Nat, changes : Nat, faults : Nat]
  BY DEF Inv, ChangesTyped, Apply
<1>2. DialogTyped'
  <2>1. Selected(p) \subseteq Subjects(p)
    BY DEF Inv, PagesTyped, RowsTyped, Selected
  <2>2. PICK items, action : items = Selected(p) /\ action = ActionOf(p)
    OBVIOUS
  <2>3. dialog' = [open |-> "bulk", page |-> p, items |-> items, action |-> action]
    BY <2>2 DEF Apply
  <2>4. /\ items \in SUBSET (Users \cup Tables) /\ items \subseteq Subjects(p)
        /\ action \in {"db-rm-schema-access", "db-update-user-table-access"}
    BY <2>1, <2>2 DEF Subjects, ActionOf
  <2>5. /\ dialog' \in [open : {"bulk"}, page : Pages, items : SUBSET (Users \cup Tables),
                        action : {"db-rm-schema-access", "db-update-user-table-access"}]
        /\ dialog'.items = items /\ dialog'.page = p /\ dialog'.action = action
    BY <2>3, <2>4
  <2> QED BY <2>2, <2>4, <2>5 DEF DialogTyped, Dialogs
<1>3. PagesTyped'
  <2>1. access \in Levels
    BY DEF Offered, Levels
  <2>2. bulk' \in [Pages -> Levels \cup {""}]
    BY <2>1 DEF Inv, PagesTyped, RowsTyped, Apply
  <2> QED BY <2>2 DEF Inv, PagesTyped, RowsTyped, Apply
<1> QED BY <1>1, <1>2, <1>3, LoadsKept, ChangesKept, CalmKept DEF Inv, Apply

LEMMA DisplayStep ==
  ASSUME Inv, NEW p \in Pages, Display(p)
  PROVE  Inv'
<1>1. left' \in [moves : Nat, changes : Nat, faults : Nat]
  BY DEF Inv, ChangesTyped, Display
<1>2. Calm'
  <2> SUFFICES ASSUME ~disturbed' PROVE (CalmChanges /\ CalmLoads /\ CalmView /\ CalmRows)'
    BY DEF Calm
  <2>1. CalmChanges /\ CalmLoads /\ CalmView /\ CalmRows
    BY DEF Inv, Calm, Display
  <2>2. timers = {Here} /\ p = Here
    BY <2>1 DEF CalmView, Display
  <2>3. timers' = {} /\ view' = Here'
    BY <2>2 DEF Display, Here
  <2>4. DOMAIN changes = {}
    BY <2>1, <2>2 DEF CalmChanges
  <2>5. /\ \A l : LoadTrue(l)' <=> LoadTrue(l)
        /\ \A q, s : IsTrue(q, s)' <=> IsTrue(q, s)
    BY TruthKept DEF Display, pageVars
  <2>6. CalmLoads'
    BY <2>1, <2>5 DEF CalmLoads, Here, Display, pageVars
  <2>7. CalmRows'
    BY <2>1, <2>4, <2>5 DEF CalmRows, Here, Display, pageVars
  <2>8. CalmChanges'
    BY <2>4 DEF CalmChanges, Display
  <2> QED BY <2>3, <2>6, <2>7, <2>8 DEF CalmView
<1> QED BY <1>1, <1>2, PagesKept, LoadsKept, DialogKept, ChangesKept DEF Inv, Display, pageVars

-----------------------------------------------------------------------------
(* The steps of a load.                                                    *)

\* A load goes on.
LEMMA BecomeStep ==
  ASSUME Inv, NEW l \in loads, NEW new, Become(l, new), LoadTyped(new), LoadTrue(l) => LoadTrue(new),
         UNCHANGED <<held, location, view, timers, subject, rows, bulk, dialog, changes, left, disturbed>>
  PROVE  Inv'
<1>0. loads' = (loads \ {l}) \cup {new}
  BY DEF Become
<1>1. left' \in [moves : Nat, changes : Nat, faults : Nat]
  BY DEF Inv, ChangesTyped
<1>2. LoadsTyped'
  BY <1>0 DEF Inv, LoadsTyped, LoadTyped
<1>3. Calm'
  <2> SUFFICES ASSUME ~disturbed' PROVE (CalmChanges /\ CalmLoads /\ CalmView /\ CalmRows)'
    BY DEF Calm
  <2>1. CalmChanges /\ CalmLoads /\ CalmView /\ CalmRows
    BY DEF Inv, Calm
  <2>2. loads = {l} /\ LoadTrue(l) /\ loads' = {new}
    BY <1>0, <2>1 DEF CalmLoads
  <2>3. LoadTrue(new)'
    BY <2>2, TruthKept
  <2>4. CalmLoads'
    BY <2>1, <2>2, <2>3 DEF CalmLoads, Here
  <2>5. DOMAIN changes = {}
    BY <2>1, <2>2 DEF CalmChanges
  <2>6. CalmChanges' /\ CalmRows'
    BY <2>2, <2>5 DEF CalmChanges, CalmRows
  <2>7. CalmView'
    BY <2>1 DEF CalmView, Here
  <2> QED BY <2>4, <2>6, <2>7
<1> QED BY <1>1, <1>2, <1>3, PagesKept, DialogKept, ChangesKept DEF Inv

LEMMA NextRequestStep ==
  ASSUME Inv, NEW l \in loads, NextRequest(l)
  PROVE  Inv'
<1>0. UNCHANGED <<held, location, view, timers, subject, rows, bulk, dialog, changes, left, disturbed>>
  BY DEF NextRequest, pageVars
<1>1. LoadTyped(l) /\ subject["user"] \in Users
  BY DEF Inv, LoadsTyped, PagesTyped, RowsTyped
<1>2. CASE l.at = "admin" /\ l.page = "user" /\ Become(l, [l EXCEPT !.at = "people"])
  <2>1. PICK n, page : n = l.n /\ page = l.page
    OBVIOUS
  <2>2. l = [n |-> n, page |-> page, at |-> "admin"]
    BY <1>1, <1>2, <2>1 DEF LoadTyped
  <2>3. PICK new : new = [l EXCEPT !.at = "people"]
    OBVIOUS
  <2>4. new = [n |-> n, page |-> page, at |-> "people"]
    BY ONLY <2>2, <2>3
  <2>5. LoadTyped(new)
    BY <1>1, <2>1, <2>4 DEF LoadTyped
  <2>6. LoadTrue(l) => LoadTrue(new)
    BY <2>1, <2>4 DEF LoadTrue
  <2> QED BY <1>0, <1>2, <2>3, <2>5, <2>6, BecomeStep
<1>3. CASE /\ l.at = "people"
           /\ Become(l, [n |-> l.n, page |-> l.page, at |-> "asked", who |-> subject["user"]])
  <2>1. PICK new, page, who : /\ new = [n |-> l.n, page |-> l.page, at |-> "asked", who |-> subject["user"]]
                              /\ page = l.page /\ who = subject["user"]
    OBVIOUS
  <2>2. new.page = page /\ new.at = "asked" /\ new.who = who
    BY <2>1
  <2>3. LoadTyped(new)
    BY <1>1, <2>1, <2>2 DEF LoadTyped
  <2>4. LoadTrue(l) => LoadTrue(new)
    BY <2>1, <2>2 DEF LoadTrue
  <2> QED BY <1>0, <1>3, <2>1, <2>3, <2>4, BecomeStep
<1>4. CASE /\ l.at = "admin" /\ l.page # "user"
           /\ Become(l, [n |-> l.n, page |-> l.page, at |-> "asked", who |-> "all"])
  <2>1. PICK new, page : new = [n |-> l.n, page |-> l.page, at |-> "asked", who |-> "all"] /\ page = l.page
    OBVIOUS
  <2>2. new.page = page /\ new.at = "asked" /\ page # "user"
    BY <1>4, <2>1
  <2>3. LoadTyped(new)
    BY <1>1, <2>1, <2>2 DEF LoadTyped
  <2>4. LoadTrue(l) => LoadTrue(new)
    BY <2>1, <2>2 DEF LoadTrue
  <2> QED BY <1>0, <1>4, <2>1, <2>3, <2>4, BecomeStep
<1> QED BY <1>2, <1>3, <1>4 DEF NextRequest

LEMMA QueryStep ==
  ASSUME Inv, NEW l \in loads, Query(l)
  PROVE  Inv'
<1>0. UNCHANGED <<held, location, view, timers, subject, rows, bulk, dialog, changes, left, disturbed>>
  BY DEF Query, pageVars
<1>1. LoadTyped(l) /\ l.at = "asked" /\ l.page \in Pages
  BY DEF Inv, LoadsTyped, LoadTyped, Query
<1>2. PICK page, who, got : page = l.page /\ who = l.who /\ got = Answer(l)
  OBVIOUS
<1>3. PICK new : new = [n |-> l.n, page |-> l.page, at |-> "answered", got |-> Answer(l)]
  OBVIOUS
<1>4. new.page = page /\ new.at = "answered" /\ new.got = got
  BY <1>2, <1>3
<1>5. got = CASE page = "user" -> [t \in Tables |-> Level(who, "TABLE", t)]
              [] page = "table" -> [t \in Tables |-> [u \in Users |-> Level(u, "TABLE", t)]]
              [] page = "users" -> [u \in Users |-> Level(u, "SCHEMA", "-")]
  BY <1>2 DEF Answer
<1>6. page \in Pages
  BY <1>1, <1>2
<1>7. got \in Got(page)
  <2>1. \A u, kind, name : Level(u, kind, name) \in Levels
    BY LevelTyped
  <2>2. CASE page = "user"
    BY <1>5, <2>1, <2>2 DEF Got
  <2>3. CASE page = "table"
    BY <1>5, <2>1, <2>3 DEF Got
  <2>4. CASE page = "users"
    BY <1>5, <2>1, <2>4 DEF Got
  <2> QED BY <1>6, <2>2, <2>3, <2>4 DEF Pages
<1>8. LoadTyped(new)
  BY <1>4, <1>6, <1>7 DEF LoadTyped
<1>9. LoadTrue(l) => LoadTrue(new)
  <2> SUFFICES ASSUME LoadTrue(l) PROVE LoadTrue(new)
    OBVIOUS
  <2>1. page = Here /\ (page = "user" => who = subject["user"])
    BY <1>1, <1>2 DEF LoadTrue
  <2>2. CASE page = "user"
    BY <1>4, <1>5, <2>1, <2>2 DEF LoadTrue
  <2>3. CASE page = "table"
    BY <1>4, <1>5, <2>1, <2>3 DEF LoadTrue
  <2>4. CASE page = "users"
    BY <1>4, <1>5, <2>1, <2>4 DEF LoadTrue
  <2> QED BY <1>6, <2>2, <2>3, <2>4 DEF Pages
<1>10. Become(l, new)
  BY <1>3 DEF Query
<1> QED BY <1>0, <1>8, <1>9, <1>10, BecomeStep

\* A load ends in vain, which disturbs the page.
LEMMA LoadLostStep ==
  ASSUME Inv, NEW l \in loads, Asleep(l) \/ LoadFails(l)
  PROVE  Inv'
<1>1. left' \in [moves : Nat, changes : Nat, faults : Nat]
  <2>1. /\ left \in [moves : Nat, changes : Nat, faults : Nat] /\ left.faults > 0
        /\ left' = [left EXCEPT !.faults = @ - 1]
    BY DEF Inv, ChangesTyped, Asleep, LoadFails
  <2> QED BY <2>1
<1>2. LoadsTyped'
  <2>1. loads' = loads \ {l}
    BY DEF Asleep, LoadFails
  <2> QED BY <2>1 DEF Inv, LoadsTyped, LoadTyped
<1>3. Calm'
  BY DEF Calm, Asleep, LoadFails
<1>4. UNCHANGED <<held, location, subject, rows, bulk, dialog, changes>>
  BY DEF Asleep, LoadFails, pageVars
<1> QED BY <1>1, <1>2, <1>3, <1>4, PagesKept, DialogKept, ChangesKept DEF Inv

\* The rows of a page, made from an answer and from those it had.
LEMMA RenderedRows ==
  ASSUME NEW old, NEW S, NEW levels \in [S -> Levels], \A s \in DOMAIN old : old[s] \in Rows,
         NEW r, r = Rendered(old, levels)
  PROVE  /\ DOMAIN r = S
         /\ \A s \in S : /\ r[s] \in Rows /\ r[s].level = levels[s]
                         /\ r[s].stuck \/ r[s].shown = levels[s]
                         /\ \/ r[s].shown = levels[s]
                            \/ /\ s \in DOMAIN old /\ old[s].level = levels[s]
                               /\ r[s].shown = old[s].shown
<1>1. DOMAIN r = S
  BY DEF Rendered
<1>2. ASSUME NEW s \in S
      PROVE  /\ r[s] \in Rows /\ r[s].level = levels[s]
             /\ r[s].stuck \/ r[s].shown = levels[s]
             /\ \/ r[s].shown = levels[s]
                \/ /\ s \in DOMAIN old /\ old[s].level = levels[s]
                   /\ r[s].shown = old[s].shown
  <2>1. PICK level, was, had : level = levels[s] /\ was = old[s].shown /\ had = old[s].level
    OBVIOUS
  <2>2. PICK kept : kept = (s \in DOMAIN old /\ had = level)
    OBVIOUS
  <2>3. PICK shown : shown = IF kept THEN was ELSE level
    OBVIOUS
  <2>4. r[s] = [level |-> level, shown |-> shown, selected |-> FALSE, stuck |-> shown # level]
    BY <2>1, <2>2, <2>3 DEF Rendered
  <2>5. level \in Levels /\ (s \in DOMAIN old => was \in Levels)
    BY <2>1 DEF Rows
  <2>6. shown \in Levels
    BY <2>2, <2>3, <2>5
  <2>7. r[s].level = level /\ r[s].shown = shown /\ r[s].stuck = (shown # level)
    BY <2>4
  <2>8. r[s] \in Rows
    BY <2>4, <2>5, <2>6 DEF Rows
  <2> QED BY <2>1, <2>2, <2>3, <2>7, <2>8
<1> QED BY <1>1, <1>2

LEMMA DeliverStep ==
  ASSUME Inv, NEW l \in loads, Deliver(l)
  PROVE  Inv'
<1>0. /\ UNCHANGED <<held, location, view, timers, subject, bulk, dialog, changes, left, disturbed>>
      /\ loads' = loads \ {l}
  BY DEF Deliver
<1>1. LoadTyped(l) /\ l.at = "answered" /\ PagesTyped
  BY DEF Inv, LoadsTyped, Deliver
<1>2. PICK page, got, levels : /\ page = l.page /\ got = l.got
                               /\ levels = IF page = "table" THEN got[subject["table"]] ELSE got
  OBVIOUS
<1>3. page \in Pages /\ got \in Got(page) /\ subject["table"] \in Tables
  BY <1>1, <1>2 DEF LoadTyped, PagesTyped, RowsTyped
<1>4. levels \in [Subjects(page) -> Levels]
  <2>1. CASE page = "user"
    BY <1>2, <1>3, <2>1 DEF Got, Subjects
  <2>2. CASE page = "table"
    BY <1>2, <1>3, <2>2 DEF Got, Subjects
  <2>3. CASE page = "users"
    BY <1>2, <1>3, <2>3 DEF Got, Subjects
  <2> QED BY <1>3, <2>1, <2>2, <2>3 DEF Pages
<1>5. PICK old, new : old = rows[page] /\ new = Rendered(old, levels)
  OBVIOUS
<1>6. rows' = [rows EXCEPT ![page] = new]
  BY <1>2, <1>5 DEF Deliver
<1>7. /\ DOMAIN rows' = Pages /\ rows'[page] = new
      /\ \A p \in Pages : p # page => rows'[p] = rows[p]
  BY <1>1, <1>3, <1>6 DEF PagesTyped, RowsTyped
<1>8. /\ \A s \in DOMAIN old : old[s] \in Rows
      /\ page = "users" => \A s \in DOMAIN old : old[s].shown = old[s].level
  BY <1>1, <1>3, <1>5 DEF PagesTyped, RowsTyped
<1>9. /\ DOMAIN new = Subjects(page)
      /\ \A s \in Subjects(page) : /\ new[s] \in Rows /\ new[s].level = levels[s]
                                   /\ new[s].stuck \/ new[s].shown = levels[s]
                                   /\ \/ new[s].shown = levels[s]
                                      \/ /\ s \in DOMAIN old /\ old[s].level = levels[s]
                                         /\ new[s].shown = old[s].shown
  BY <1>4, <1>5, <1>8, RenderedRows
<1>10. page = "users" => \A s \in Subjects(page) : new[s].shown = levels[s]
  BY <1>8, <1>9
<1>11. PagesTyped'
  <2>1. \A p \in Pages : /\ DOMAIN rows'[p] \subseteq Subjects(p)
                         /\ \A s \in DOMAIN rows'[p] : rows'[p][s] \in Rows
    BY <1>1, <1>7, <1>9 DEF PagesTyped, RowsTyped
  <2>2. \A s \in DOMAIN rows'["users"] : rows'["users"][s].shown = rows'["users"][s].level
    <3>1. CASE page = "users"
      BY <1>7, <1>9, <1>10, <3>1
    <3>2. CASE page # "users"
      <4>1. rows'["users"] = rows["users"]
        BY <1>7, <3>2 DEF Pages
      <4> QED BY <1>1, <4>1 DEF PagesTyped, RowsTyped
    <3> QED BY <3>1, <3>2
  <2> QED BY <1>0, <1>1, <1>7, <2>1, <2>2 DEF PagesTyped, RowsTyped
<1>12. left' \in [moves : Nat, changes : Nat, faults : Nat]
  BY <1>0 DEF Inv, ChangesTyped
<1>13. LoadsTyped'
  BY <1>0 DEF Inv, LoadsTyped, LoadTyped
<1>14. Calm'
  <2> SUFFICES ASSUME ~disturbed' PROVE (CalmChanges /\ CalmLoads /\ CalmView /\ CalmRows)'
    BY DEF Calm
  <2>1. CalmChanges /\ CalmLoads /\ CalmView
    BY <1>0 DEF Inv, Calm
  <2>2. loads = {l} /\ LoadTrue(l) /\ loads' = {}
    BY <1>0, <2>1 DEF CalmLoads
  <2>3. DOMAIN changes = {}
    BY <2>1, <2>2 DEF CalmChanges
  <2>4. page = Here /\ (page = "user" => DOMAIN old = {})
    BY <1>2, <1>5, <2>1, <2>2 DEF CalmLoads, LoadTrue
  <2>5. \A s \in Subjects(page) : levels[s] = LevelOf(page, s)
    <3>1. CASE page = "user"
      BY <1>1, <1>2, <2>2, <3>1 DEF LoadTrue, LevelOf, Subjects
    <3>2. CASE page = "table"
      BY <1>1, <1>2, <1>3, <2>2, <3>2 DEF LoadTrue, LevelOf, Subjects
    <3>3. CASE page = "users"
      BY <1>1, <1>2, <2>2, <3>3 DEF LoadTrue, LevelOf, Subjects
    <3> QED BY <1>3, <3>1, <3>2, <3>3 DEF Pages
  <2>6. \A s : LevelOf(page, s)' = LevelOf(page, s)
    BY <1>0, LevelKept DEF LevelOf
  <2>7. \A s \in DOMAIN rows'[page] : IsTrue(page, s)'
    <3> SUFFICES ASSUME NEW s \in DOMAIN rows'[page] PROVE IsTrue(page, s)'
      OBVIOUS
    <3>1. s \in Subjects(page) /\ levels[s] = LevelOf(page, s)'
      BY <1>7, <1>9, <2>5, <2>6
    <3>2. rows'[page][s].shown = levels[s] \/ (page = "table" /\ rows'[page][s].stuck)
      BY <1>3, <1>7, <1>9, <1>10, <2>4, <3>1 DEF Pages
    <3> QED BY <3>1, <3>2 DEF IsTrue
  <2>8. Here' = page
    BY <1>0, <2>4 DEF Here
  <2>9. CalmRows'
    BY <1>0, <2>3, <2>7, <2>8 DEF CalmRows
  <2> QED BY <1>0, <2>1, <2>2, <2>3, <2>9 DEF CalmChanges, CalmLoads, CalmView, Here
<1> QED BY <1>0, <1>11, <1>12, <1>13, <1>14, DialogKept, ChangesKept DEF Inv

-----------------------------------------------------------------------------
(* The steps of the user.                                                  *)

LEMMA SelectStep ==
  ASSUME Inv, NEW p \in Pages, NEW s, Select(p, s)
  PROVE  Inv'
<1>0. /\ UNCHANGED <<held, location, view, timers, subject, bulk, loads, dialog, changes, left, disturbed>>
      /\ PagesTyped /\ s \in DOMAIN rows[p]
  BY DEF Select, Inv
<1>1. PICK old, new, flag : /\ old = rows[p][s] /\ flag = ~old.selected
                            /\ new = [old EXCEPT !.selected = flag]
  OBVIOUS
<1>2. old \in Rows /\ flag \in BOOLEAN
  BY <1>0, <1>1 DEF PagesTyped, RowsTyped
<1>3. new \in Rows /\ new.level = old.level /\ new.shown = old.shown /\ new.stuck = old.stuck
  BY <1>1, <1>2 DEF Rows
<1>4. rows' = [rows EXCEPT ![p] = [rows[p] EXCEPT ![s] = new]]
  BY <1>1 DEF Select
<1>5. DOMAIN rows = Pages /\ DOMAIN rows' = Pages
  BY <1>0, <1>4 DEF PagesTyped, RowsTyped
<1>6. \A q \in Pages : DOMAIN rows'[q] = DOMAIN rows[q]
  BY <1>4, <1>5
<1>7. \A q \in Pages : \A r \in DOMAIN rows[q] :
         rows'[q][r] = IF q = p /\ r = s THEN new ELSE rows[q][r]
  BY <1>4, <1>5
<1>8. \A q \in Pages : \A r \in DOMAIN rows[q] :
         /\ rows'[q][r] \in Rows
         /\ rows'[q][r].level = rows[q][r].level
         /\ rows'[q][r].shown = rows[q][r].shown
         /\ rows'[q][r].stuck = rows[q][r].stuck
  BY <1>0, <1>1, <1>3, <1>7 DEF PagesTyped, RowsTyped
<1>9. PagesTyped'
  BY <1>0, <1>5, <1>6, <1>8 DEF PagesTyped, RowsTyped, Pages
<1>10. left' \in [moves : Nat, changes : Nat, faults : Nat]
  BY <1>0 DEF Inv, ChangesTyped
<1>11. Here \in Pages
  BY <1>0, Places DEF PagesTyped, RowsTyped, Here
<1>12. Calm'
  <2> SUFFICES ASSUME ~disturbed' PROVE (CalmChanges /\ CalmLoads /\ CalmView /\ CalmRows)'
    BY DEF Calm
  <2>1. CalmChanges /\ CalmLoads /\ CalmView /\ CalmRows
    BY <1>0 DEF Inv, Calm
  <2>2. \A r : /\ LevelOf(Here, r)' = LevelOf(Here, r)
               /\ Pair(Here, r)' = Pair(Here, r)
    BY <1>0, LevelOfKept DEF Here
  <2>3. \A r \in DOMAIN rows[Here] : IsTrue(Here, r) => IsTrue(Here, r)'
    BY <1>0, <1>8, <1>11, <2>2 DEF IsTrue, Here
  <2>4. CalmRows'
    BY <1>0, <1>6, <1>8, <1>11, <2>1, <2>2, <2>3 DEF CalmRows, Here
  <2>5. \A l : LoadTrue(l) => LoadTrue(l)'
    BY <1>0, LevelOfKept
  <2>6. CalmLoads'
    BY <1>0, <1>6, <2>1, <2>5 DEF CalmLoads, Here, Pages
  <2> QED BY <1>0, <2>1, <2>4, <2>6 DEF CalmChanges, CalmView, Here
<1> QED BY <1>0, <1>9, <1>10, <1>12, LoadsKept, DialogKept, ChangesKept DEF Inv

-----------------------------------------------------------------------------
(* A change of the location.                                               *)

LEMMA ArriveTyped ==
  ASSUME Inv, NEW loc \in Locations, NEW table, RowsTyped(table), Arrive(loc, table),
         location' = loc, bulk' = bulk
  PROVE  PagesTyped' /\ LoadsTyped'
<1> PICK page, about, free : /\ page = loc[1] /\ about = loc[2]
                             /\ loads' = loads \cup {[n |-> free, page |-> page, at |-> "admin"]}
  BY DEF Arrive
<1>1. /\ page \in Pages /\ about \in Users \cup Tables \cup {Database}
      /\ page = "user" => about \in Users
      /\ page = "table" => about \in Tables
  BY Places DEF Pages
<1>2. subject' = [subject EXCEPT ![page] = about]
  BY DEF Arrive
<1>3. /\ subject' \in [Pages -> Users \cup Tables \cup {Database}]
      /\ subject'["user"] \in Users /\ subject'["table"] \in Tables
  BY <1>1, <1>2 DEF Inv, PagesTyped, Pages
<1>4. RowsTyped(rows')
  <2>1. CASE page = "user"
    <3>1. rows' = [table EXCEPT !["user"] = <<>>]
      BY <2>1 DEF Arrive
    <3>2. DOMAIN rows' = Pages
      BY <3>1 DEF RowsTyped
    <3>3. /\ DOMAIN rows'["user"] = {}
          /\ \A p \in Pages : p # "user" => rows'[p] = table[p]
      BY <3>1 DEF RowsTyped, Pages
    <3> QED BY <3>2, <3>3 DEF RowsTyped, Pages
  <2>2. CASE page # "user"
    <3>1. rows' = table
      BY <2>2 DEF Arrive
    <3> QED BY <3>1
  <2> QED BY <2>1, <2>2
<1>5. PagesTyped'
  BY <1>3, <1>4 DEF Inv, PagesTyped
<1>6. LoadsTyped'
  <2>1. PICK new : new = [n |-> free, page |-> page, at |-> "admin"]
    OBVIOUS
  <2>2. LoadTyped(new)
    BY <1>1, <2>1 DEF LoadTyped
  <2> QED BY <2>1, <2>2 DEF Inv, LoadsTyped, LoadTyped
<1> QED BY <1>5, <1>6

\* When nothing is under way but a load, the page is calm.
LEMMA ArriveCalm ==
  ASSUME Inv, NEW loc \in Locations, NEW table, RowsTyped(table), Arrive(loc, table),
         location' = loc, view' = view, loads = {}, timers = {}, DOMAIN changes' = {}
  PROVE  Calm'
<1> PICK page, free, new : /\ page = loc[1]
                           /\ loads' = {new} /\ new = [n |-> free, page |-> page, at |-> "admin"]
  BY DEF Arrive
<1>1. Here' = page
  BY DEF Here
<1>2. LoadTrue(new)'
  <2>1. new.page = page /\ new.at = "admin"
    OBVIOUS
  <2> QED BY <1>1, <2>1 DEF LoadTrue
<1>3. page = "user" => DOMAIN rows'["user"] = {}
  BY DEF Arrive, RowsTyped, Pages
<1>4. CalmLoads'
  BY <1>1, <1>2, <1>3 DEF CalmLoads
<1>5. CalmView'
  BY <1>1 DEF CalmView, Arrive
<1>6. CalmChanges' /\ CalmRows'
  BY DEF CalmChanges, CalmRows
<1> QED BY <1>4, <1>5, <1>6 DEF Calm

LEMMA MoveStep ==
  ASSUME Inv, NEW loc \in Locations, Move(loc)
  PROVE  Inv'
<1>0. /\ UNCHANGED <<held, view, bulk, dialog, changes>>
      /\ location' = loc /\ Arrive(loc, rows) /\ disturbed' = ~Quiet
  BY DEF Move
<1>1. left' \in [moves : Nat, changes : Nat, faults : Nat]
  <2>1. /\ left \in [moves : Nat, changes : Nat, faults : Nat] /\ left.moves > 0
        /\ left' = [left EXCEPT !.moves = @ - 1]
    BY DEF Inv, ChangesTyped, Move
  <2> QED BY <2>1
<1>2. RowsTyped(rows)
  BY DEF Inv, PagesTyped
<1>3. PagesTyped' /\ LoadsTyped'
  BY <1>0, <1>2, ArriveTyped
<1>4. Calm'
  <2>1. CASE Quiet
    <3>1. loads = {} /\ timers = {} /\ DOMAIN changes' = {}
      BY <1>0, <2>1 DEF Quiet
    <3> QED BY <1>0, <1>2, <3>1, ArriveCalm
  <2>2. CASE ~Quiet
    BY <1>0, <2>2 DEF Calm
  <2> QED BY <2>1, <2>2
<1> QED BY <1>0, <1>1, <1>3, <1>4, DialogKept, ChangesKept DEF Inv

-----------------------------------------------------------------------------
(* The end of a change.                                                    *)

LEMMA OverChanges ==
  ASSUME ChangesTyped, Aimed, OnlyOne, NEW c \in DOMAIN changes, Over(c), UNCHANGED <<held, left>>
  PROVE  /\ ChangesTyped' /\ Aimed' /\ OnlyOne'
         /\ DOMAIN changes' = DOMAIN changes \ {c}
<1>1. /\ DOMAIN changes' = DOMAIN changes \ {c}
      /\ \A i \in DOMAIN changes' : i \in DOMAIN changes /\ changes'[i] = changes[i]
  BY DEF Over
<1>2. ChangesTyped'
  BY <1>1 DEF ChangesTyped
<1>3. Aimed'
  <2> SUFFICES ASSUME NEW change \in {changes'[i] : i \in DOMAIN changes'} PROVE Aim(change)'
    BY DEF Aimed
  <2>1. Aim(change)
    BY <1>1 DEF Aimed
  <2> QED BY <2>1, AimKept
<1>4. OnlyOne'
  BY <1>1 DEF OnlyOne
<1> QED BY <1>1, <1>2, <1>3, <1>4

LEMMA UnselectedRows ==
  ASSUME PagesTyped, NEW p \in Pages, NEW table, table = [rows EXCEPT ![p] = Unselect(@)]
  PROVE  RowsTyped(table)
<1> PICK new : new = Unselect(rows[p])
  OBVIOUS
<1>0. RowsTyped(rows)
  BY DEF PagesTyped
<1>1. /\ DOMAIN table = Pages /\ table[p] = new
      /\ \A q \in Pages : q # p => table[q] = rows[q]
  BY <1>0 DEF RowsTyped
<1>2. DOMAIN new = DOMAIN rows[p]
  BY DEF Unselect
<1>3. \A s \in DOMAIN rows[p] : /\ new[s] \in Rows
                                /\ new[s].shown = rows[p][s].shown
                                /\ new[s].level = rows[p][s].level
  <2> SUFFICES ASSUME NEW s \in DOMAIN rows[p]
               PROVE  /\ new[s] \in Rows
                      /\ new[s].shown = rows[p][s].shown
                      /\ new[s].level = rows[p][s].level
    OBVIOUS
  <2> PICK r, u : r = rows[p][s] /\ u = new[s]
    OBVIOUS
  <2>1. r \in Rows
    BY <1>0 DEF RowsTyped
  <2>2. u = [r EXCEPT !.selected = FALSE]
    BY DEF Unselect
  <2>3. u \in Rows /\ u.shown = r.shown /\ u.level = r.level
    BY <2>1, <2>2 DEF Rows
  <2> QED BY <2>3
<1>4. \A q \in Pages : DOMAIN table[q] = DOMAIN rows[q]
  BY <1>1, <1>2
<1>5. \A q \in Pages : \A s \in DOMAIN rows[q] : /\ table[q][s] \in Rows
                                                /\ table[q][s].shown = rows[q][s].shown
                                                /\ table[q][s].level = rows[q][s].level
  BY <1>0, <1>1, <1>3 DEF RowsTyped
<1> QED BY <1>0, <1>1, <1>4, <1>5 DEF RowsTyped, Pages

LEMMA BulkOverStep ==
  ASSUME Inv, NEW c \in DOMAIN changes, BulkOver(c)
  PROVE  Inv'
<1> PICK table : table = [rows EXCEPT ![changes[c].page] = Unselect(@)]
  OBVIOUS
<1>0. /\ UNCHANGED <<held, location, view, bulk, dialog, left>>
      /\ Over(c) /\ Arrive(location, table)
      /\ disturbed' = (loads # {} \/ DOMAIN changes # {c} \/ timers # {})
  BY DEF BulkOver
<1>1. ChangesTyped' /\ Aimed' /\ OnlyOne' /\ DOMAIN changes' = DOMAIN changes \ {c}
  BY <1>0, OverChanges DEF Inv
<1>2. RowsTyped(table)
  <2>1. changes[c].page \in Pages
    BY DEF Inv, ChangesTyped, Changes
  <2> QED BY <2>1, UnselectedRows DEF Inv
<1>3. location \in Locations
  BY DEF Inv, PagesTyped
<1>4. PagesTyped' /\ LoadsTyped'
  BY <1>0, <1>2, <1>3, ArriveTyped
<1>5. Calm'
  <2>1. CASE loads = {} /\ DOMAIN changes = {c} /\ timers = {}
    <3>1. DOMAIN changes' = {}
      BY <1>1, <2>1
    <3> QED BY <1>0, <1>2, <1>3, <2>1, <3>1, ArriveCalm
  <2>2. CASE ~(loads = {} /\ DOMAIN changes = {c} /\ timers = {})
    BY <1>0, <2>2 DEF Calm
  <2> QED BY <2>1, <2>2
<1> QED BY <1>0, <1>1, <1>4, <1>5, DialogKept DEF Inv

LEMMA FormOverStep ==
  ASSUME Inv, NEW c \in DOMAIN changes, FormOver(c)
  PROVE  Inv'
<1>0. /\ UNCHANGED <<held, location, view, bulk, left>>
      /\ Over(c) /\ Arrive(location, rows) /\ dialog' = NoDialog
      /\ disturbed' = (loads # {} \/ DOMAIN changes # {c} \/ timers # {})
  BY DEF FormOver
<1>1. ChangesTyped' /\ Aimed' /\ OnlyOne' /\ DOMAIN changes' = DOMAIN changes \ {c}
  BY <1>0, OverChanges DEF Inv
<1>2. RowsTyped(rows) /\ location \in Locations
  BY DEF Inv, PagesTyped
<1>3. PagesTyped' /\ LoadsTyped'
  BY <1>0, <1>2, ArriveTyped
<1>4. Calm'
  <2>1. CASE loads = {} /\ DOMAIN changes = {c} /\ timers = {}
    <3>1. DOMAIN changes' = {}
      BY <1>1, <2>1
    <3> QED BY <1>0, <1>2, <2>1, <3>1, ArriveCalm
  <2>2. CASE ~(loads = {} /\ DOMAIN changes = {c} /\ timers = {})
    BY <1>0, <2>2 DEF Calm
  <2> QED BY <2>1, <2>2
<1>5. DialogTyped'
  BY <1>0 DEF DialogTyped, Dialogs
<1> QED BY <1>1, <1>3, <1>4, <1>5 DEF Inv

LEMMA DropdownOverStep ==
  ASSUME Inv, NEW c \in DOMAIN changes, DropdownOver(c)
  PROVE  Inv'
<1>0. /\ UNCHANGED <<held, location, view, timers, subject, rows, bulk, loads, dialog, left, disturbed>>
      /\ Over(c) /\ changes[c].requests = <<>> /\ changes[c].by = "dropdown"
  BY DEF DropdownOver, Over, pageVars
<1>1. ChangesTyped' /\ Aimed' /\ OnlyOne' /\ DOMAIN changes' = DOMAIN changes \ {c}
  BY <1>0, OverChanges DEF Inv
<1>2. Calm'
  <2> SUFFICES ASSUME ~disturbed' PROVE (CalmChanges /\ CalmLoads /\ CalmView /\ CalmRows)'
    BY DEF Calm
  <2>1. CalmChanges /\ CalmLoads /\ CalmView /\ CalmRows
    BY <1>0 DEF Inv, Calm
  <2> PICK change : change = changes[c]
    OBVIOUS
  <2>2. change.alone /\ ~change.failed /\ loads = {} /\ Here # "users" /\ DOMAIN changes = {c}
    BY <1>0, <2>1 DEF CalmChanges, Inv, OnlyOne
  <2>3. change \in Changes /\ Aim(change)
    BY DEF Inv, ChangesTyped, Aimed
  <2>4. /\ \A p, s : IsTrue(p, s)' <=> IsTrue(p, s)
        /\ \A l : LoadTrue(l)' <=> LoadTrue(l)
    BY <1>0, TruthKept
  <2>5. PICK u \in Users, t \in Tables : change.pairs = {<<u, t>>}
    BY <1>0, <2>2, <2>3 DEF Aim, OneTable
  <2>6. Level(u, "TABLE", t) = change.access
    <3>1. WillEnd(change)
      BY <2>2, <2>3 DEF Aim
    <3>2. PICK access : access = change.access
      OBVIOUS
    <3>3. WillReach(<<>>, u, t, access, TRUE)
      <4>1. PICK pair : pair = <<u, t>>
        OBVIOUS
      <4>2. pair[1] = u /\ pair[2] = t /\ pair \in change.pairs
        BY <2>5, <4>1
      <4> QED BY <1>0, <3>1, <3>2, <4>2 DEF WillEnd
    <3>4. access \in Levels /\ t \in Ats
      BY <2>3, <3>2 DEF Changes, Ats
    <3>5. Reached(u, t, access, TRUE)
      BY <3>3, <3>4, ReachDone
    <3> QED BY <3>2, <3>5, AtTable DEF Reached, ReachedOnTable
  <2>7. \A s : Pair(Here, s) = <<u, t>> => LevelOf(Here, s) = Level(u, "TABLE", t)
    <3>1. Here \in {"user", "table"}
      BY <2>2, Places DEF Inv, PagesTyped, Here, Pages
    <3> QED BY <3>1 DEF Pair, LevelOf
  <2>8. \A s \in DOMAIN rows[Here] : IsTrue(Here, s)
    <3> SUFFICES ASSUME NEW s \in DOMAIN rows[Here] PROVE IsTrue(Here, s)
      OBVIOUS
    <3>1. \/ IsTrue(Here, s)
          \/ Pair(Here, s) \in change.pairs /\ rows[Here][s].shown = change.access
      BY <1>0, <2>1, <2>2 DEF CalmRows
    <3> QED BY <2>5, <2>6, <2>7, <3>1 DEF IsTrue
  <2>9. DOMAIN changes' = {}
    BY <1>1, <2>2
  <2>10. CalmRows'
    BY <1>0, <2>4, <2>8, <2>9 DEF CalmRows, Here
  <2>11. CalmLoads'
    BY <1>0, <2>1, <2>4 DEF CalmLoads, Here
  <2> QED BY <1>0, <2>1, <2>9, <2>10, <2>11 DEF CalmChanges, CalmView, Here
<1> QED BY <1>0, <1>1, <1>2, PagesKept, LoadsKept, DialogKept DEF Inv

LEMMA ChangeFailsStep ==
  ASSUME Inv, NEW c \in DOMAIN changes, ChangeFails(c)
  PROVE  Inv'
<1>0. /\ UNCHANGED <<held, location, subject, rows, bulk, loads, left, disturbed>>
      /\ Over(c) /\ changes[c].failed /\ dialog' \in {NoDialog, dialog}
  BY DEF ChangeFails, pageVars
<1>1. ChangesTyped' /\ Aimed' /\ OnlyOne'
  BY <1>0, OverChanges DEF Inv
<1>2. Calm'
  BY <1>0 DEF Inv, Calm, CalmChanges
<1>3. DialogTyped'
  BY <1>0 DEF Inv, DialogTyped, Dialogs
<1> QED BY <1>0, <1>1, <1>2, <1>3, PagesKept, LoadsKept DEF Inv

-----------------------------------------------------------------------------
(* The statements of a change.                                             *)

LEMMA Updated ==
  ASSUME NEW old \in Changes, NEW R \in Seq(Batches), NEW new, new = [old EXCEPT !.requests = R]
  PROVE  /\ new \in Changes
         /\ new.requests = R /\ new.by = old.by /\ new.page = old.page /\ new.pairs = old.pairs
         /\ new.access = old.access /\ new.failed = old.failed /\ new.alone = old.alone
  BY DEF Changes

LEMMA FailStep ==
  ASSUME Inv, NEW c \in DOMAIN changes, Fail(c)
  PROVE  Inv'
<1>0. UNCHANGED <<held, location, subject, rows, bulk, loads, dialog>> /\ disturbed' = TRUE
  BY DEF Fail, pageVars
<1>1. left' \in [moves : Nat, changes : Nat, faults : Nat]
  <2>1. /\ left \in [moves : Nat, changes : Nat, faults : Nat] /\ left.faults > 0
        /\ left' = [left EXCEPT !.faults = @ - 1]
    BY DEF Inv, ChangesTyped, Fail
  <2> QED BY <2>1
<1> PICK old, R, rest, new : /\ old = changes[c] /\ R = old.requests
                             /\ rest = (IF old.by = "bulk" \/ Head(Head(R)) = Account THEN <<>> ELSE Tail(R))
                             /\ new = [old EXCEPT !.requests = rest, !.failed = TRUE]
  OBVIOUS
<1>2. old \in Changes /\ R \in Seq(Batches) /\ R # <<>>
  BY DEF Inv, ChangesTyped, Changes, Fail
<1>3. rest \in Seq(Batches)
  <2> HIDE DEF Batches
  <2> QED BY <1>2
<1>4. new \in Changes /\ new.failed
  BY <1>2, <1>3 DEF Changes
<1>5. changes' = [changes EXCEPT ![c] = new]
  BY DEF Fail
<1>6. /\ DOMAIN changes' = DOMAIN changes /\ changes'[c] = new
      /\ \A i \in DOMAIN changes : i # c => changes'[i] = changes[i]
  BY <1>5
<1>7. ChangesTyped'
  BY <1>1, <1>4, <1>6 DEF Inv, ChangesTyped
<1>8. OnlyOne'
  <2>1. new.alone = old.alone
    BY <1>2 DEF Changes
  <2> QED BY <1>6, <2>1 DEF Inv, OnlyOne
<1>9. Aimed'
  <2> SUFFICES ASSUME NEW change \in {changes'[i] : i \in DOMAIN changes'} PROVE Aim(change)'
    BY DEF Aimed
  <2>1. change = new \/ \E i \in DOMAIN changes : change = changes[i]
    BY <1>6
  <2>2. Aim(change)
    BY <1>4, <2>1 DEF Aim, Inv, Aimed
  <2> QED BY <1>0, <2>2, AimKept
<1>10. Calm'
  BY <1>0 DEF Calm
<1> QED BY <1>0, <1>7, <1>8, <1>9, <1>10, PagesKept, LoadsKept, DialogKept DEF Inv

LEMMA ExecuteStep ==
  ASSUME Inv, NEW c \in DOMAIN changes, Execute(c)
  PROVE  Inv'
<1>0. UNCHANGED <<location, view, timers, subject, rows, bulk, loads, dialog, left, disturbed>>
  BY DEF Execute, pageVars
<1> PICK old, R, rest, new : /\ old = changes[c] /\ R = old.requests /\ rest = After(R)
                             /\ new = [old EXCEPT !.requests = rest]
  OBVIOUS
<1>1. old \in Changes /\ R \in Seq(Batches) /\ R # <<>> /\ Run(Head(Head(R)))
  BY DEF Inv, ChangesTyped, Changes, Execute
<1>2. rest \in Seq(Batches)
  BY <1>1, Shifted
<1>3. /\ new \in Changes
      /\ new.requests = rest /\ new.by = old.by /\ new.page = old.page /\ new.pairs = old.pairs
      /\ new.access = old.access /\ new.failed = old.failed /\ new.alone = old.alone
  BY <1>1, <1>2, Updated
<1>4. changes' = [changes EXCEPT ![c] = new]
  BY DEF Execute
<1>5. /\ DOMAIN changes' = DOMAIN changes /\ changes'[c] = new
      /\ \A i \in DOMAIN changes : i # c => changes'[i] = changes[i]
  BY <1>4
<1>6. ChangesTyped'
  BY <1>0, <1>3, <1>5 DEF Inv, ChangesTyped
<1>7. OnlyOne'
  BY <1>3, <1>5 DEF Inv, OnlyOne
<1>8. Aim(new)'
  <2>1. Aim(old)
    BY DEF Inv, Aimed
  <2>2. PICK pairs, access, by : pairs = old.pairs /\ access = old.access /\ by = old.by
    OBVIOUS
  <2>3. pairs \subseteq Users \X Ats
    BY <1>1, <2>2 DEF Changes
  <2>4. WillEnd(old) => WillEnd(new)'
    <3> SUFFICES ASSUME WillEnd(old), NEW pair \in pairs
                 PROVE  WillReach(rest, pair[1], pair[2], access, by # "bulk")'
      BY <1>3, <2>2 DEF WillEnd
    <3>1. PICK u, at, flag : u = pair[1] /\ at = pair[2] /\ flag = (by # "bulk")
      OBVIOUS
    <3>2. at \in Ats
      BY <2>3, <3>1
    <3>3. WillReach(R, u, at, access, flag)
      BY <2>2, <3>1 DEF WillEnd
    <3>4. WillReach(rest, u, at, access, flag)'
      BY <1>1, <3>2, <3>3, ReachKept
    <3> QED BY <3>1, <3>4
  <2>5. OneTable(old) => OneTable(new)'
    <3> SUFFICES ASSUME OneTable(old), by = "dropdown"
                 PROVE  \E u \in Users, t \in Tables : pairs = {<<u, t>>} /\ TableOnly(rest, u, t)
      BY <1>3, <2>2 DEF OneTable
    <3>1. PICK u \in Users, t \in Tables : pairs = {<<u, t>>} /\ TableOnly(R, u, t)
      BY <2>2 DEF OneTable
    <3>2. TableOnly(rest, u, t)
      BY <1>1, <3>1, TableOnlyKept
    <3> QED BY <3>1, <3>2
  <2> QED BY <1>3, <2>1, <2>4, <2>5 DEF Aim
<1>9. Aimed'
  <2> SUFFICES ASSUME NEW change \in {changes'[i] : i \in DOMAIN changes'} PROVE Aim(change)'
    BY DEF Aimed
  <2>1. CASE change = new
    BY <1>8, <2>1
  <2>2. CASE change # new
    <3>1. PICK i \in DOMAIN changes : i # c /\ change = changes[i]
      BY <1>5, <2>2
    <3>2. ~change.alone
      BY <3>1 DEF Inv, OnlyOne
    <3>3. Aim(change)
      BY <3>1 DEF Inv, Aimed
    <3> QED BY <3>2, <3>3 DEF Aim, OneTable
  <2> QED BY <2>1, <2>2
<1>10. Calm'
  <2> SUFFICES ASSUME ~disturbed' PROVE (CalmChanges /\ CalmLoads /\ CalmView /\ CalmRows)'
    BY DEF Calm
  <2>1. CalmChanges /\ CalmLoads /\ CalmView /\ CalmRows
    BY <1>0 DEF Inv, Calm
  <2>2. /\ old.alone /\ ~old.failed /\ loads = {} /\ timers = {} /\ DOMAIN changes = {c}
        /\ old.by = "dropdown" => Here # "users"
    BY <2>1 DEF CalmChanges, Inv, OnlyOne
  <2>3. /\ DOMAIN changes' = {c} /\ changes'[c] = new
        /\ new.alone /\ ~new.failed /\ new.by = old.by /\ new.pairs = old.pairs
        /\ new.access = old.access
        /\ Here' = Here /\ rows' = rows /\ loads' = {} /\ timers' = {}
    BY <1>0, <1>3, <1>5, <2>2 DEF Here
  <2>4. CalmChanges'
    BY ONLY <2>2, <2>3 DEF CalmChanges
  <2>5. CalmRows'
    <3>1. CASE old.by # "dropdown"
      BY <1>3, <1>5, <3>1 DEF CalmRows
    <3>2. CASE old.by = "dropdown"
      <4>1. PICK u \in Users, t \in Tables : old.pairs = {<<u, t>>} /\ TableOnly(R, u, t)
        BY <2>2, <3>2 DEF Inv, Aimed, Aim, OneTable
      <4>2. \A v \in Users, n \in Tables :
               v # u \/ n # t => Level(v, "TABLE", n)' = Level(v, "TABLE", n)
        BY <1>1, <4>1, TableOnlyKept
      <4>3. Here \in {"user", "table"}
        BY <2>2, <3>2, Places DEF Inv, PagesTyped, Here, Pages
      <4>4. ASSUME NEW s \in DOMAIN rows[Here], Pair(Here, s) # <<u, t>>
            PROVE  LevelOf(Here, s)' = LevelOf(Here, s)
        <5>1. s \in Subjects(Here) /\ subject["user"] \in Users /\ subject["table"] \in Tables
          BY <4>3 DEF Inv, PagesTyped, RowsTyped, Pages
        <5>2. CASE Here = "user"
          <6>1. PICK v : v = subject["user"]
            OBVIOUS
          <6>2. v \in Users /\ s \in Tables /\ (v # u \/ s # t)
            BY <4>4, <5>1, <5>2, <6>1 DEF Pair, Subjects
          <6>3. Level(v, "TABLE", s)' = Level(v, "TABLE", s)
            BY <4>2, <6>2
          <6> QED BY <1>0, <5>2, <6>1, <6>3 DEF LevelOf, Here
        <5>3. CASE Here = "table"
          <6>1. PICK n : n = subject["table"]
            OBVIOUS
          <6>2. s \in Users /\ n \in Tables /\ (s # u \/ n # t)
            BY <4>4, <5>1, <5>3, <6>1 DEF Pair, Subjects
          <6>3. Level(s, "TABLE", n)' = Level(s, "TABLE", n)
            BY <4>2, <6>2
          <6> QED BY <1>0, <5>3, <6>1, <6>3 DEF LevelOf, Here
        <5> QED BY <4>3, <5>2, <5>3
      <4>5. \A s : Pair(Here, s)' = Pair(Here, s)
        BY <1>0 DEF Pair, Here
      <4>6. \A s \in DOMAIN rows[Here] :
               \/ IsTrue(Here, s) /\ Pair(Here, s) # <<u, t>>
               \/ Pair(Here, s) = <<u, t>> /\ rows[Here][s].shown = old.access
        BY <2>1, <2>2, <3>2, <4>1 DEF CalmRows
      <4>7. \A s \in DOMAIN rows[Here] :
               \/ IsTrue(Here, s)' /\ Pair(Here, s)' # <<u, t>>
               \/ Pair(Here, s)' = <<u, t>> /\ rows[Here][s].shown = old.access
        BY <1>0, <4>4, <4>5, <4>6 DEF IsTrue, Here
      <4>8. new.pairs = {<<u, t>>} /\ new.access = old.access
        BY <2>3, <4>1
      <4> QED BY ONLY <2>3, <4>7, <4>8 DEF CalmRows
    <3> QED BY <3>1, <3>2
  <2>6. CalmLoads'
    BY <1>0, <2>1, <2>2 DEF CalmLoads, Here
  <2> QED BY <1>0, <2>1, <2>4, <2>5, <2>6 DEF CalmView, Here
<1> QED BY <1>0, <1>6, <1>7, <1>9, <1>10, PagesKept, LoadsKept, DialogKept DEF Inv

-----------------------------------------------------------------------------
(* The beginning of changes.                                               *)

\* Of one that begins, or whose being alone ends.
LEMMA Alonely ==
  ASSUME NEW old \in Changes, NEW alone \in BOOLEAN, NEW change, change = [old EXCEPT !.alone = alone],
         Aim(old), alone /\ ~old.failed => WillEnd(old)
  PROVE  change \in Changes /\ Aim(change) /\ change.alone = alone
<1>1. /\ change \in Changes /\ change.alone = alone
      /\ change.requests = old.requests /\ change.by = old.by /\ change.pairs = old.pairs
      /\ change.access = old.access /\ change.failed = old.failed
  BY DEF Changes
<1> QED BY <1>1 DEF Aim, WillEnd, OneTable

LEMMA BeginChanges ==
  ASSUME Inv, NEW new \in Seq(Changes), Begin(new), held' = held,
         \A i \in DOMAIN new : \A change \in {new[i]} : ~change.failed /\ WillEnd(change) /\ OneTable(change)
  PROVE  /\ ChangesTyped' /\ Aimed' /\ OnlyOne'
         /\ new = <<>> => changes' = changes /\ (disturbed => disturbed')
         /\ new # <<>> /\ ~disturbed' =>
               /\ ~disturbed /\ Quiet
               /\ \E k : \E change : /\ DOMAIN changes' = {k} /\ changes'[k] = change
                                     /\ change = [new[1] EXCEPT !.alone = TRUE]
<1> PICK n, m : n = Len(new) /\ m = left.changes
  OBVIOUS
<1> PICK ids, alone : ids = m - n + 1 .. m /\ alone = (n = 1 /\ DOMAIN changes = {})
  OBVIOUS
<1>1. n \in Nat /\ m \in Nat /\ n <= m /\ DOMAIN new = 1 .. n
  BY DEF Inv, ChangesTyped, Begin
<1>2. left' \in [moves : Nat, changes : Nat, faults : Nat]
  <2>1. left' = [left EXCEPT !.changes = @ - n] /\ left \in [moves : Nat, changes : Nat, faults : Nat]
    BY DEF Begin, Inv, ChangesTyped
  <2>2. left.changes - n \in Nat
    BY <1>1
  <2> QED BY <2>1, <2>2
<1>3. disturbed' = (disturbed \/ (n > 0 /\ ~Quiet) \/ n > 1)
  BY DEF Begin
<1>4. CASE new = <<>>
  <2>1. changes' = changes
    BY <1>4 DEF Begin
  <2>2. disturbed => disturbed'
    BY <1>3
  <2> QED BY <1>2, <1>4, <2>1, <2>2, ChangesKept DEF Inv
<1>5. CASE new # <<>>
  <2>1. n # 0
    BY <1>5, <1>1
  <2>2. changes' = [i \in DOMAIN changes \cup ids |->
                      IF i \in ids THEN [new[m + 1 - i] EXCEPT !.alone = alone]
                      ELSE [changes[i] EXCEPT !.alone = FALSE]]
    BY <1>5 DEF Begin
  <2>3. \A i \in ids : m + 1 - i \in DOMAIN new
    BY <1>1
  <2>4. /\ DOMAIN changes' = DOMAIN changes \cup ids
        /\ \A i \in ids : changes'[i] = [new[m + 1 - i] EXCEPT !.alone = alone]
        /\ \A i \in DOMAIN changes : i \in ids \/ changes'[i] = [changes[i] EXCEPT !.alone = FALSE]
    BY <2>2
  \* Whatever change it is, it is one of those that begin or was there before.
  <2>5. ASSUME NEW i \in DOMAIN changes', NEW change, change = changes'[i]
        PROVE  /\ change \in Changes /\ Aim(change)
               /\ change.alone => n = 1 /\ DOMAIN changes = {} /\ i \in ids
    <3>1. CASE i \in ids
      <4>1. PICK old : old = new[m + 1 - i]
        OBVIOUS
      <4>2. old \in Changes /\ ~old.failed /\ WillEnd(old) /\ OneTable(old)
        BY <2>3, <3>1, <4>1
      <4>3. change = [old EXCEPT !.alone = alone]
        BY <2>4, <2>5, <3>1, <4>1
      <4>4. Aim(old)
        BY <4>2 DEF Aim
      <4>5. change \in Changes /\ Aim(change) /\ change.alone = alone
        BY <4>2, <4>3, <4>4, Alonely
      <4> QED BY <3>1, <4>5
    <3>2. CASE i \notin ids
      <4>1. PICK old : old = changes[i]
        OBVIOUS
      <4>2. old \in Changes /\ Aim(old)
        BY <2>4, <3>2, <4>1 DEF Inv, ChangesTyped, Aimed
      <4>3. change = [old EXCEPT !.alone = FALSE]
        BY <2>4, <2>5, <3>2, <4>1
      <4>4. change \in Changes /\ Aim(change) /\ change.alone = FALSE
        BY <4>2, <4>3, Alonely
      <4> QED BY <4>4
    <3> QED BY <3>1, <3>2
  <2>6. ChangesTyped'
    BY <1>2, <2>5 DEF ChangesTyped
  <2>7. Aimed'
    <3> SUFFICES ASSUME NEW change \in {changes'[i] : i \in DOMAIN changes'} PROVE Aim(change)'
      BY DEF Aimed
    <3>1. Aim(change)
      BY <2>5
    <3> QED BY <3>1, AimKept
  <2>8. OnlyOne'
    <3> SUFFICES ASSUME NEW i \in DOMAIN changes', changes'[i].alone PROVE DOMAIN changes' = {i}
      BY DEF OnlyOne
    <3>1. n = 1 /\ DOMAIN changes = {} /\ i \in ids
      BY <2>5
    <3>2. ids = {m}
      BY <1>1, <3>1
    <3> QED BY <2>4, <3>1, <3>2
  <2>9. ASSUME ~disturbed'
        PROVE  /\ ~disturbed /\ Quiet
               /\ \E k : \E change : /\ DOMAIN changes' = {k} /\ changes'[k] = change
                                     /\ change = [new[1] EXCEPT !.alone = TRUE]
    <3>0. ~disturbed /\ ~(n > 0 /\ ~Quiet) /\ ~(n > 1)
      BY <1>3, <2>9, Zenon
    <3>1. ~disturbed /\ Quiet /\ n = 1
      BY <1>1, <2>1, <3>0
    <3>2. DOMAIN changes = {} /\ alone
      BY <3>1 DEF Quiet
    <3>3. ids = {m} /\ m + 1 - m = 1
      BY <1>1, <3>1
    <3>4. DOMAIN changes' = {m} /\ changes'[m] = [new[1] EXCEPT !.alone = alone]
      BY <2>4, <3>2, <3>3
    <3> QED BY <3>1, <3>2, <3>4
  <2> QED BY <1>5, <2>6, <2>7, <2>8, <2>9
<1> QED BY <1>4, <1>5

\* The dropdown of a row.
LEMMA PickStep ==
  ASSUME Inv, NEW p \in Pages, NEW s \in Subjects(p), NEW access \in Levels, Pick(p, s, access)
  PROVE  Inv'
<1>0. /\ UNCHANGED <<held, location, view, timers, subject, bulk, loads, dialog>>
      /\ PagesTyped /\ p # "users" /\ view = p /\ s \in DOMAIN rows[p]
  BY DEF Pick, Inv, Usable
<1> PICK u, t, R, change, new : /\ <<u, t>> = Pair(p, s) /\ R = SetAccess(u, t, access)
                                /\ change = Change("dropdown", p, {<<u, t>>}, access, R)
                                /\ new = <<change>>
  BY <1>0 DEF Pair, Pages
<1>1. u \in Users /\ t \in Tables /\ t \in Ats
  <2>1. subject["user"] \in Users /\ subject["table"] \in Tables
    BY <1>0 DEF PagesTyped
  <2>2. CASE p = "user"
    BY <2>1, <2>2 DEF Pair, Subjects, Ats
  <2>3. CASE p = "table"
    BY <2>1, <2>3 DEF Pair, Subjects, Ats
  <2> QED BY <1>0, <2>2, <2>3 DEF Pages
<1>2. Begin(new)
  <2>1. PICK pair : pair = Pair(p, s)
    OBVIOUS
  <2>2. pair = <<u, t>> /\ pair[1] = u /\ pair[2] = t
    BY <2>1
  <2>3. Begin(<<Change("dropdown", p, {pair}, access, SetAccess(pair[1], pair[2], access))>>)
    BY <2>1 DEF Pick
  <2> QED BY <2>2, <2>3
<1>3. R \in Seq(Batches)
  BY <1>1, SetTyped
<1>4. /\ change.by = "dropdown" /\ change.page = p /\ change.pairs = {<<u, t>>}
      /\ change.access = access /\ change.requests = R /\ ~change.failed /\ change \in Changes
  <2>1. {<<u, t>>} \in SUBSET (Users \X Ats)
    BY <1>1
  <2> HIDE DEF Batches
  <2> QED BY <1>3, <2>1 DEF Change, Changes
<1>5. WillEnd(change) /\ OneTable(change)
  <2>1. WillReach(R, u, t, access, TRUE)
    BY <1>1, SetReaches
  <2>2. TableOnly(R, u, t)
    BY <1>1, SetTableOnly
  <2>3. PICK pair : pair = <<u, t>>
    OBVIOUS
  <2>4. pair[1] = u /\ pair[2] = t /\ change.pairs = {pair}
    BY <1>4, <2>3
  <2> QED BY <1>1, <1>4, <2>1, <2>2, <2>4 DEF WillEnd, OneTable
<1>6. new \in Seq(Changes) /\ DOMAIN new = {1} /\ new[1] = change /\ new # <<>>
  <2>1. change \in Changes /\ new = <<change>>
    BY <1>4
  <2> QED BY ONLY <2>1
<1>7. /\ ChangesTyped' /\ Aimed' /\ OnlyOne'
      /\ ~disturbed' => /\ ~disturbed /\ Quiet
                        /\ \E k : \E begun : /\ DOMAIN changes' = {k} /\ changes'[k] = begun
                                             /\ begun = [change EXCEPT !.alone = TRUE]
  <2>1. \A i \in DOMAIN new : \A one \in {new[i]} : ~one.failed /\ WillEnd(one) /\ OneTable(one)
    BY ONLY <1>4, <1>5, <1>6
  <2>2. /\ ChangesTyped' /\ Aimed' /\ OnlyOne'
        /\ ~disturbed' => /\ ~disturbed /\ Quiet
                          /\ \E k : \E begun : /\ DOMAIN changes' = {k} /\ changes'[k] = begun
                                               /\ begun = [new[1] EXCEPT !.alone = TRUE]
    BY <1>0, <1>2, <1>6, <2>1, BeginChanges
  <2> QED BY <1>6, <2>2
<1> PICK old, row : /\ old = rows[p][s]
                    /\ row = [[old EXCEPT !.shown = access] EXCEPT !.stuck = FALSE]
  OBVIOUS
<1>8. old \in Rows /\ RowsTyped(rows)
  BY <1>0 DEF PagesTyped, RowsTyped
<1>9. row \in Rows /\ row.shown = access
  BY <1>8 DEF Rows
<1>10. rows' = [rows EXCEPT ![p] = [rows[p] EXCEPT ![s] = row]]
  BY DEF Pick
<1>11. /\ DOMAIN rows' = Pages /\ \A q \in Pages : DOMAIN rows'[q] = DOMAIN rows[q]
       /\ rows'[p][s] = row
       /\ \A q \in Pages : \A r \in DOMAIN rows[q] : q # p \/ r # s => rows'[q][r] = rows[q][r]
  BY <1>0, <1>8, <1>10 DEF RowsTyped
<1>12. RowsTyped(rows')
  BY <1>0, <1>8, <1>9, <1>11 DEF RowsTyped, Pages
<1>13. PagesTyped'
  BY <1>0, <1>12 DEF PagesTyped
<1>14. Calm'
  <2> SUFFICES ASSUME ~disturbed' PROVE (CalmChanges /\ CalmLoads /\ CalmView /\ CalmRows)'
    BY DEF Calm
  <2>1. loads = {} /\ timers = {} /\ DOMAIN changes = {} /\ ~disturbed
    BY <1>7 DEF Quiet
  <2>2. CalmChanges /\ CalmLoads /\ CalmView /\ CalmRows
    BY <2>1 DEF Inv, Calm
  <2>3. PICK k, begun : /\ DOMAIN changes' = {k} /\ changes'[k] = begun
                        /\ begun = [change EXCEPT !.alone = TRUE]
    BY <1>7
  <2>4. /\ begun.by = "dropdown" /\ begun.pairs = {<<u, t>>} /\ begun.access = access
        /\ ~begun.failed /\ begun.alone
    BY <1>4, <2>3 DEF Changes
  <2>5. Here = p /\ Here' = p
    BY <1>0, <2>1, <2>2 DEF CalmView, Here
  <2>6. loads' = {} /\ timers' = {} /\ view' = Here'
    BY <1>0, <2>1, <2>5
  <2>7. CalmChanges'
    BY ONLY <1>0, <2>3, <2>4, <2>5, <2>6 DEF CalmChanges
  <2>8. CalmLoads' /\ CalmView'
    BY <2>6 DEF CalmLoads, CalmView
  <2>9. /\ \A r : LevelOf(p, r)' = LevelOf(p, r)
        /\ \A r : Pair(p, r)' = Pair(p, r)
    BY <1>0, LevelOfKept
  <2>10. \A r \in DOMAIN rows[p] : r # s => IsTrue(p, r) /\ IsTrue(p, r)' /\ Pair(p, r)' # <<u, t>>
    <3> SUFFICES ASSUME NEW r \in DOMAIN rows[p], r # s
                 PROVE  IsTrue(p, r) /\ IsTrue(p, r)' /\ Pair(p, r)' # <<u, t>>
      OBVIOUS
    <3>1. IsTrue(p, r)
      BY <2>1, <2>2, <2>5 DEF CalmRows
    <3>2. rows'[p][r] = rows[p][r]
      BY <1>11
    <3>3. Pair(p, r) # Pair(p, s)
      BY <1>0 DEF Pair, Pages
    <3> QED BY <2>9, <3>1, <3>2, <3>3 DEF IsTrue
  <2>11. Pair(p, s)' = <<u, t>> /\ rows'[p][s].shown = access
    BY <1>9, <1>11, <2>9
  <2>12. DOMAIN rows'[p] = DOMAIN rows[p]
    BY <1>11
  <2>13. CalmRows'
    BY ONLY <2>3, <2>4, <2>5, <2>10, <2>11, <2>12 DEF CalmRows
  <2> QED BY <2>7, <2>8, <2>13
<1> QED BY <1>0, <1>7, <1>13, <1>14, LoadsKept, DialogKept DEF Inv

\* A change that is not a dropdown's covers the page until it is loaded again.
LEMMA BegunCalm ==
  ASSUME Inv, UNCHANGED <<location, view, timers, loads>>,
         NEW change \in Changes, ~change.failed, change.by # "dropdown",
         ~disturbed' => /\ ~disturbed /\ Quiet
                        /\ \E k : \E begun : /\ DOMAIN changes' = {k} /\ changes'[k] = begun
                                             /\ begun = [change EXCEPT !.alone = TRUE]
  PROVE  Calm'
<1> SUFFICES ASSUME ~disturbed' PROVE (CalmChanges /\ CalmLoads /\ CalmView /\ CalmRows)'
  BY DEF Calm
<1>1. loads = {} /\ timers = {} /\ ~disturbed
  BY DEF Quiet
<1>2. CalmView
  BY <1>1 DEF Inv, Calm
<1>3. PICK k, begun : /\ DOMAIN changes' = {k} /\ changes'[k] = begun
                      /\ begun = [change EXCEPT !.alone = TRUE]
  OBVIOUS
<1>4. begun.by # "dropdown" /\ ~begun.failed /\ begun.alone
  BY <1>3 DEF Changes
<1>5. loads' = {} /\ timers' = {} /\ view' = Here'
  BY <1>1, <1>2 DEF CalmView, Here
<1>6. CalmChanges'
  BY ONLY <1>3, <1>4, <1>5 DEF CalmChanges
<1>7. CalmLoads' /\ CalmView'
  BY ONLY <1>5 DEF CalmLoads, CalmView
<1>8. CalmRows'
  BY ONLY <1>3, <1>4 DEF CalmRows
<1> QED BY <1>6, <1>7, <1>8

LEMMA SubmitStep ==
  ASSUME Inv, NEW access \in Levels, Submit(access)
  PROVE  Inv'
<1>0. /\ UNCHANGED <<held, location, view, timers, subject, rows, bulk, loads>>
      /\ dialog.open = "form" /\ dialog' = [dialog EXCEPT !.busy = TRUE]
  BY DEF Submit, pageVars
<1>1. dialog \in [open : {"form"}, page : Pages, user : Users, at : {Database, Schema}, busy : BOOLEAN]
  BY <1>0 DEF Inv, DialogTyped, Dialogs, NoDialog
<1>2. DialogTyped'
  BY <1>0, <1>1 DEF DialogTyped, Dialogs
<1> PICK p, u, at, R, change, new :
      /\ p = dialog.page /\ u = dialog.user /\ at = dialog.at
      /\ R = (IF at = Database THEN <<<<Account>>>> ELSE <<>>) \o SetAccess(u, at, access)
      /\ change = Change("form", p, {<<u, at>>}, access, R)
      /\ new = <<change>>
  OBVIOUS
<1>3. p \in Pages /\ u \in Users /\ at \in Ats
  BY <1>1 DEF Ats
<1>4. Begin(new)
  BY DEF Submit
<1>5. R \in Seq(Batches) /\ WillReach(R, u, at, access, TRUE)
  <2> PICK set : set = SetAccess(u, at, access)
    OBVIOUS
  <2>1. set \in Seq(Batches) /\ WillReach(set, u, at, access, TRUE)
    BY <1>3, SetTyped, SetReaches
  <2>2. CASE at = Database
    <3>1. R = <<<<Account>>>> \o set
      BY <2>2
    <3> QED BY <1>3, <2>1, <3>1, AccountFirst
  <2>3. CASE at # Database
    <3>1. R = <<>> \o set
      BY <2>3
    <3>2. R = set
      <4> HIDE DEF Batches
      <4> QED BY <2>1, <3>1
    <3> QED BY <2>1, <3>2
  <2> QED BY <2>2, <2>3
<1>6. /\ change.by = "form" /\ change.page = p /\ change.pairs = {<<u, at>>}
      /\ change.access = access /\ change.requests = R /\ ~change.failed /\ change \in Changes
  <2>1. {<<u, at>>} \in SUBSET (Users \X Ats)
    BY <1>3
  <2> HIDE DEF Batches
  <2>2. change = [by |-> "form", page |-> p, pairs |-> {<<u, at>>}, access |-> access, requests |-> R,
                  failed |-> FALSE, alone |-> FALSE]
    BY DEF Change
  <2> QED BY ONLY <1>3, <1>5, <2>1, <2>2, access \in Levels DEF Changes
<1>7. WillEnd(change) /\ OneTable(change)
  <2>1. PICK pair : pair = <<u, at>>
    OBVIOUS
  <2>2. pair[1] = u /\ pair[2] = at /\ change.pairs = {pair}
    BY <1>6, <2>1
  <2> QED BY <1>5, <1>6, <2>2 DEF WillEnd, OneTable
<1>8. new \in Seq(Changes) /\ DOMAIN new = {1} /\ new[1] = change /\ new # <<>>
  <2>1. change \in Changes /\ new = <<change>>
    BY <1>6
  <2> QED BY ONLY <2>1
<1>9. \A i \in DOMAIN new : \A one \in {new[i]} : ~one.failed /\ WillEnd(one) /\ OneTable(one)
  BY ONLY <1>6, <1>7, <1>8
<1>10. /\ ChangesTyped' /\ Aimed' /\ OnlyOne'
       /\ ~disturbed' => /\ ~disturbed /\ Quiet
                         /\ \E k : \E begun : /\ DOMAIN changes' = {k} /\ changes'[k] = begun
                                              /\ begun = [new[1] EXCEPT !.alone = TRUE]
  BY <1>0, <1>4, <1>8, <1>9, BeginChanges
<1>11. Calm'
  BY <1>0, <1>6, <1>8, <1>10, BegunCalm
<1> QED BY <1>0, <1>2, <1>10, <1>11, PagesKept, LoadsKept DEF Inv

\* The change of a page that takes a bulk action.
LEMMA BulkChange ==
  ASSUME Inv, NEW p \in Pages, NEW items \in SUBSET Subjects(p), NEW access \in Levels,
         p = "users" => access = "NONE",
         NEW pairs, pairs = {Pair(p, s) : s \in items},
         NEW change, change = Change("bulk", p, pairs, access, SetAccessOfAll(pairs, access))
  PROVE  /\ change \in Changes /\ ~change.failed /\ change.by = "bulk"
         /\ WillEnd(change) /\ OneTable(change)
<1>1. subject["user"] \in Users /\ subject["table"] \in Tables
  BY DEF Inv, PagesTyped
<1>2. \A x \in pairs : x \in Users \X Ats /\ (access # "NONE" => x[2] \in Tables)
  <2> SUFFICES ASSUME NEW x \in pairs PROVE x \in Users \X Ats /\ (access # "NONE" => x[2] \in Tables)
    OBVIOUS
  <2>1. PICK s \in Subjects(p) : x = Pair(p, s)
    OBVIOUS
  <2>2. CASE p = "user"
    BY <1>1, <2>1, <2>2 DEF Pair, Subjects, Ats
  <2>3. CASE p = "table"
    BY <1>1, <2>1, <2>3 DEF Pair, Subjects, Ats
  <2>4. CASE p = "users"
    BY <2>1, <2>4 DEF Pair, Subjects, Ats
  <2> QED BY <2>2, <2>3, <2>4 DEF Pages
<1>3. IsFiniteSet(pairs)
  <2>1. IsFiniteSet(Users) /\ IsFiniteSet(Tables)
    BY NamesAssumption
  <2>2. IsFiniteSet({Database}) /\ IsFiniteSet({Schema})
    BY FS_Singleton
  <2>3. IsFiniteSet({Database} \cup {Schema})
    BY <2>2, FS_Union
  <2>4. IsFiniteSet(Tables \cup ({Database} \cup {Schema}))
    BY <2>1, <2>3, FS_Union
  <2>5. Ats = Tables \cup ({Database} \cup {Schema})
    BY DEF Ats
  <2>6. IsFiniteSet(Users \X Ats)
    BY <2>1, <2>4, <2>5, FS_Product
  <2>7. pairs \in SUBSET (Users \X Ats)
    BY <1>2
  <2> QED BY <2>6, <2>7, FS_Subset
<1> PICK R : R = SetAccessOfAll(pairs, access)
  OBVIOUS
<1>4. \A x \in pairs : Entry(x, access) \in Batches
  <2> SUFFICES ASSUME NEW x \in pairs PROVE Entry(x, access) \in Batches
    OBVIOUS
  <2>1. PICK u, at : u = x[1] /\ at = x[2]
    OBVIOUS
  <2>2. u \in Users /\ at \in Ats
    BY <1>2, <2>1
  <2>3. Entry(x, access) = IF access = "NONE" THEN Revocations(u, at, "READ") ELSE Grants(u, at, access)
    BY <2>1 DEF Entry
  <2>4. access = "NONE" \/ access \in {"READ", "WRITE"}
    BY DEF Levels
  <2> QED BY <2>2, <2>3, <2>4, GrantsTyped, RevocationsTyped
<1>5. R \in Seq(Batches)
  BY <1>3, <1>4, BulkEntries
<1>6. /\ change.by = "bulk" /\ change.pairs = pairs
      /\ change.access = access /\ change.requests = R /\ ~change.failed /\ change \in Changes
  <2> HIDE DEF Batches
  <2>1. pairs \in SUBSET (Users \X Ats)
    BY <1>2
  <2>2. change = [by |-> "bulk", page |-> p, pairs |-> pairs, access |-> access, requests |-> R,
                  failed |-> FALSE, alone |-> FALSE]
    BY DEF Change
  <2> QED BY ONLY <1>5, <2>1, <2>2, access \in Levels, p \in Pages DEF Changes
<1>7. WillEnd(change)
  <2>1. \A x \in pairs : x = <<x[1], x[2]>> /\ x[2] \in Ats /\ (access # "NONE" => x[2] \in Tables)
    BY <1>2
  <2>2. \A pair \in pairs : WillReach(R, pair[1], pair[2], access, FALSE)
    BY <1>3, <2>1, BulkReaches
  <2> QED BY <1>6, <2>2 DEF WillEnd
<1>8. OneTable(change)
  BY <1>6 DEF OneTable
<1> QED BY <1>6, <1>7, <1>8

LEMMA ConfirmStep ==
  ASSUME Inv, Confirm
  PROVE  Inv'
<1> DEFINE Items(p) == IF p = "users" THEN dialog.items ELSE Selected(p)
           Access(p) == IF p = "users" THEN "NONE" ELSE bulk[p]
           Pairs(p) == {Pair(p, s) : s \in Items(p)}
           For(p) == Change("bulk", p, Pairs(p), Access(p), SetAccessOfAll(Pairs(p), Access(p)))
<1> PICK pages, takers, new : /\ pages = {p \in Pages : Takes(p)} /\ takers = SetToSeq(pages)
                              /\ new = [i \in DOMAIN takers |-> For(takers[i])]
  OBVIOUS
<1>0. /\ UNCHANGED <<held, location, view, timers, subject, rows, bulk, loads>>
      /\ dialog.open = "bulk" /\ dialog' = NoDialog
  BY DEF Confirm, pageVars
<1>1. Begin(new)
  BY DEF Confirm
<1>2. DialogTyped'
  BY <1>0 DEF DialogTyped, Dialogs
<1>3. ASSUME NEW p \in pages
      PROVE  \A change \in {For(p)} : /\ change \in Changes /\ ~change.failed /\ change.by = "bulk"
                                      /\ WillEnd(change) /\ OneTable(change)
  <2>1. p \in Pages /\ Takes(p)
    OBVIOUS
  <2>2. Access(p) \in Levels
    <3>1. CASE p = "users"
      BY <3>1 DEF Levels
    <3>2. CASE p # "users"
      <4>1. bulk[p] # ""
        BY <2>1, <3>2 DEF Takes
      <4> QED BY <2>1, <3>2, <4>1 DEF Inv, PagesTyped
    <3> QED BY <3>1, <3>2
  <2>3. Items(p) \subseteq Subjects(p)
    <3>1. CASE p = "users"
      <4>1. dialog.action = "db-rm-schema-access"
        BY <2>1, <3>1 DEF Takes, ActionOf
      <4>2. dialog.items \subseteq Subjects(dialog.page) /\ dialog.action = ActionOf(dialog.page)
        BY <1>0 DEF Inv, DialogTyped, Dialogs, NoDialog
      <4>3. dialog.page = "users"
        BY <4>1, <4>2 DEF ActionOf
      <4> QED BY <3>1, <4>2, <4>3
    <3>2. CASE p # "users"
      BY <2>1, <3>2 DEF Selected, Inv, PagesTyped, RowsTyped
    <3> QED BY <3>1, <3>2
  <2> PICK items, access, pairs : items = Items(p) /\ access = Access(p) /\ pairs = Pairs(p)
    OBVIOUS
  <2>4. For(p) = Change("bulk", p, pairs, access, SetAccessOfAll(pairs, access))
    OBVIOUS
  <2>5. /\ items \in SUBSET Subjects(p) /\ access \in Levels /\ (p = "users" => access = "NONE")
        /\ pairs = {Pair(p, s) : s \in items}
    BY <2>2, <2>3
  <2> HIDE DEF For
  <2> QED BY ONLY Inv, <2>1, <2>4, <2>5, BulkChange
<1>4. /\ DOMAIN takers = 1 .. Len(takers) /\ Len(takers) \in Nat
      /\ \A i \in DOMAIN takers : takers[i] \in pages
  <2>1. IsFiniteSet(Pages)
    <3>1. IsFiniteSet({"user"}) /\ IsFiniteSet({"table"}) /\ IsFiniteSet({"users"})
      BY FS_Singleton
    <3>2. IsFiniteSet({"user"} \cup {"table"})
      BY <3>1, FS_Union
    <3>3. IsFiniteSet(({"user"} \cup {"table"}) \cup {"users"})
      BY <3>1, <3>2, FS_Union
    <3>4. Pages = ({"user"} \cup {"table"}) \cup {"users"}
      BY DEF Pages
    <3> QED BY <3>3, <3>4
  <2>2. pages \in SUBSET Pages
    OBVIOUS
  <2>3. IsFiniteSet(pages)
    BY <2>1, <2>2, FS_Subset
  <2>4. SetToSeq(pages) \in Seq(pages)
    BY ONLY <2>3, Enumerated
  <2> HIDE DEF For, Pairs, Access, Items
  <2>5. takers \in Seq(pages)
    BY <2>4
  <2> QED BY ONLY <2>5
<1> HIDE DEF For, Pairs, Access, Items
<1>5. /\ DOMAIN new = DOMAIN takers
      /\ \A i \in DOMAIN new : \E p \in pages : new[i] = For(p)
  BY <1>4
<1>6. \A i \in DOMAIN new : \A change \in {new[i]} :
         /\ change \in Changes /\ ~change.failed /\ change.by = "bulk"
         /\ WillEnd(change) /\ OneTable(change)
  BY ONLY <1>3, <1>5
<1>7. new \in Seq(Changes)
  <2>1. new \in [1 .. Len(takers) -> Changes]
    <3>1. \A i \in DOMAIN takers : new[i] \in Changes
      BY <1>5, <1>6
    <3>2. new = [i \in DOMAIN takers |-> new[i]]
      OBVIOUS
    <3> QED BY ONLY <1>4, <3>1, <3>2
  <2> QED BY ONLY <1>4, <2>1
<1>8. /\ ChangesTyped' /\ Aimed' /\ OnlyOne'
      /\ new = <<>> => changes' = changes /\ (disturbed => disturbed')
      /\ new # <<>> /\ ~disturbed' =>
            /\ ~disturbed /\ Quiet
            /\ \E k : \E begun : /\ DOMAIN changes' = {k} /\ changes'[k] = begun
                                 /\ begun = [new[1] EXCEPT !.alone = TRUE]
  <2>1. \A i \in DOMAIN new : \A change \in {new[i]} :
           ~change.failed /\ WillEnd(change) /\ OneTable(change)
    BY ONLY <1>6
  <2>2. held' = held
    BY <1>0
  <2> QED BY ONLY Inv, <1>1, <1>7, <2>1, <2>2, BeginChanges
<1>9. Calm'
  <2>1. CASE new = <<>>
    BY <1>0, <1>8, <2>1, CalmKept DEF Inv
  <2>2. CASE new # <<>>
    <3>1. 1 \in DOMAIN new
      <4>1. Len(new) \in Nat /\ DOMAIN new = 1 .. Len(new) /\ Len(new) # 0
        BY ONLY <1>7, <2>2
      <4> QED BY ONLY <4>1
    <3> PICK first : first = new[1]
      OBVIOUS
    <3>2. first \in Changes /\ ~first.failed /\ first.by # "dropdown"
      BY <1>6, <3>1
    <3>3. ~disturbed' => /\ ~disturbed /\ Quiet
                         /\ \E k : \E begun : /\ DOMAIN changes' = {k} /\ changes'[k] = begun
                                              /\ begun = [first EXCEPT !.alone = TRUE]
      BY <1>8, <2>2
    <3> QED BY <1>0, <3>2, <3>3, BegunCalm
  <2> QED BY <2>1, <2>2
<1> QED BY <1>0, <1>2, <1>8, <1>9, PagesKept, LoadsKept DEF Inv

-----------------------------------------------------------------------------
(* The theorems.                                                           *)

LEMMA InitInv == Init => Inv
<1> SUFFICES ASSUME Init PROVE Inv
  OBVIOUS
<1>1. location \in Locations /\ Here \in Pages
  BY Places DEF Init, Here
<1>2. subject \in [Pages -> Users \cup Tables \cup {Database}]
      /\ subject["user"] \in Users /\ subject["table"] \in Tables
  <2>1. \A p \in Pages : \E loc \in Locations : loc[1] = p
    <3>1. PICK u \in Users, t \in Tables : TRUE
      BY NamesAssumption
    <3>2. <<"user", u>> \in Locations /\ <<"table", t>> \in Locations /\ <<"users", Database>> \in Locations
      BY DEF Locations
    <3>3. <<"user", u>>[1] = "user" /\ <<"table", t>>[1] = "table" /\ <<"users", Database>>[1] = "users"
      OBVIOUS
    <3> QED BY <3>2, <3>3 DEF Pages
  <2> DEFINE some(p) == CHOOSE loc \in Locations : loc[1] = p
  <2>2. \A p \in Pages : some(p) \in Locations /\ some(p)[1] = p
    BY <2>1
  <2>3. subject = [p \in Pages |-> IF p = Here THEN location[2] ELSE some(p)[2]]
    BY DEF Init
  <2> HIDE DEF some
  <2>4. ASSUME NEW p \in Pages
        PROVE  /\ subject[p] \in Users \cup Tables \cup {Database}
               /\ p = "user" => subject[p] \in Users
               /\ p = "table" => subject[p] \in Tables
    <3>1. PICK loc \in Locations : loc[1] = p /\ subject[p] = loc[2]
      BY <1>1, <2>2, <2>3 DEF Here
    <3> QED BY <3>1, Places DEF Pages
  <2> QED BY <2>3, <2>4 DEF Pages
<1>3. RowsTyped(rows) /\ \A p \in Pages : DOMAIN rows[p] = {}
  <2>1. rows = [p \in Pages |-> <<>>]
    BY DEF Init
  <2>2. DOMAIN rows = Pages /\ \A p \in Pages : DOMAIN rows[p] = {}
    BY ONLY <2>1
  <2> QED BY ONLY <2>2 DEF RowsTyped, Pages
<1>4. PagesTyped
  BY <1>1, <1>2, <1>3 DEF Init, PagesTyped
<1> PICK page, load : page = Here /\ load = [n |-> 1, page |-> page, at |-> "admin"]
  OBVIOUS
<1>5. loads = {load}
  BY DEF Init
<1>6. load.page = page /\ load.at = "admin" /\ load.n = 1
  OBVIOUS
<1>7. LoadsTyped
  BY <1>1, <1>5, <1>6 DEF LoadsTyped, LoadTyped
<1>8. DialogTyped
  BY DEF Init, DialogTyped, Dialogs
<1>9. DOMAIN changes = {}
  <2>1. changes = <<>>
    BY DEF Init
  <2> QED BY ONLY <2>1
<1>10. ChangesTyped /\ Aimed /\ OnlyOne
  BY <1>9, BudgetsAssumption DEF Init, ChangesTyped, Aimed, OnlyOne
<1>11. Calm
  <2>1. CalmChanges /\ CalmRows
    BY <1>5, <1>9 DEF CalmChanges, CalmRows
  <2>2. LoadTrue(load)
    BY <1>6 DEF LoadTrue
  <2>3. CalmLoads
    BY <1>3, <1>5, <2>2 DEF CalmLoads, Pages
  <2>4. CalmView
    BY DEF Init, CalmView
  <2> QED BY <2>1, <2>3, <2>4 DEF Calm
<1> QED BY <1>4, <1>7, <1>8, <1>10, <1>11 DEF Inv

LEMMA NextInv == Inv /\ [Next]_vars => Inv'
<1> SUFFICES ASSUME Inv, [Next]_vars PROVE Inv'
  OBVIOUS
<1>1. CASE Loading
  BY <1>1, NextRequestStep, QueryStep, DeliverStep DEF Loading
<1>2. CASE Changing
  BY <1>2, ExecuteStep, DropdownOverStep, BulkOverStep, FormOverStep, ChangeFailsStep DEF Changing
<1>3. CASE Failing
  BY <1>3, LoadLostStep, FailStep DEF Failing
<1>4. CASE Using
  BY <1>4, MoveStep, SelectStep, PickStep, ApplyStep, OpenFormStep, DismissStep, ConfirmStep, SubmitStep
     DEF Using
<1>5. CASE Displaying
  BY <1>5, DisplayStep DEF Displaying
<1>6. CASE FadedIn \/ FadedOut
  BY <1>6, FadedStep
<1>7. CASE UNCHANGED vars
  BY <1>7, StutterStep
<1> QED BY <1>1, <1>2, <1>3, <1>4, <1>5, <1>6, <1>7 DEF Next

\* Rows, answers, the dialog and the changes are what their readers take them for,
\* a change that nothing overlaps is the only one, and a page that nothing disturbs
\* has one load or one change under way and, once it is loaded, true rows.
THEOREM AlwaysInv == Spec => []Inv
BY InitInv, NextInv, PTL DEF Spec

\* A change of access that no other overlapped and that was answered well has given
\* each role what it was asked to, however many statements it takes (updateUserAccess
\* and grantBulk of the client, grant and revoke of the administration server).
THEOREM ChangesReach == Spec => []Settled
<1>1. Inv => Settled
  <2> SUFFICES ASSUME Inv, NEW c \in DOMAIN changes, changes[c].requests = <<>>, changes[c].alone,
                      ~changes[c].failed, NEW pair \in changes[c].pairs
               PROVE  Reached(pair[1], pair[2], changes[c].access, changes[c].by # "bulk")
    BY DEF Settled
  <2> PICK change, access, u, at, flag : /\ change = changes[c] /\ access = change.access
                                         /\ u = pair[1] /\ at = pair[2] /\ flag = (change.by # "bulk")
    OBVIOUS
  <2>1. change \in Changes /\ Aim(change)
    BY DEF Inv, ChangesTyped, Aimed
  <2>2. at \in Ats /\ access \in Levels
    BY <2>1 DEF Changes
  <2>3. WillReach(<<>>, u, at, access, flag)
    BY <2>1 DEF Aim, WillEnd
  <2> QED BY <2>2, <2>3, ReachDone
<1> QED BY <1>1, AlwaysInv, PTL

\* When nothing is under way and nothing came between the answers the page was made
\* from, the page in view is the one of the location and shows the access the roles
\* have (the handlers of the location and of the dropdowns of the three pages).
THEOREM PagesShowTruth == Spec => []ShownIsTrue
<1>1. Inv => ShownIsTrue
  <2> SUFFICES ASSUME Inv, Quiet, ~disturbed PROVE ShownIsTrue
    BY DEF ShownIsTrue
  <2>1. loads = {} /\ DOMAIN changes = {} /\ timers = {} /\ CalmView /\ CalmRows
    BY DEF Quiet, Inv, Calm
  <2>2. view = Here /\ \A s \in DOMAIN rows[Here] : IsTrue(Here, s)
    BY <2>1 DEF CalmView, CalmRows
  <2>3. Here \in Pages
    BY Places DEF Inv, PagesTyped, Here
  <2>4. CASE Here = "user"
    BY <2>2, <2>4 DEF ShownIsTrue, IsTrue, LevelOf, Pair
  <2>5. CASE Here = "table"
    BY <2>2, <2>5 DEF ShownIsTrue, IsTrue, LevelOf, Pair
  <2>6. CASE Here = "users"
    BY <2>2, <2>6 DEF ShownIsTrue, IsTrue, LevelOf, Pair
  <2> QED BY <2>3, <2>4, <2>5, <2>6 DEF Pages
<1> QED BY <1>1, AlwaysInv, PTL
=============================================================================
