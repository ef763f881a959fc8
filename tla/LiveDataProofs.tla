--------------------------- MODULE LiveDataProofs ---------------------------
(***************************************************************************)
(* Proofs about LiveData, for any tables, ids, drivers and number of       *)
(* changes.                                                                *)
(*   TypeCorrectness       the types.  TypeInv adds that at most one       *)
(*                         statement is awaited.                           *)
(*   NoRowTwice            RowsInv says of each row where it may be:       *)
(*                         CopyInv that the copy is made while nothing     *)
(*                         else knows of rows, OnceInv that a row that is  *)
(*                         added once is in the copy, the queue or the     *)
(*                         dataset, TurnInv that the additions and         *)
(*                         deletions of a row of the summary come in turn. *)
(*   VersionsNeverFall     OrderInv says that the versions of a row do not *)
(*                         fall on their way from the copy and the queue   *)
(*                         to the dataset.                                 *)
(*   DatasetMirrorsBroker  MirrorInv says that the last event about a row  *)
(*                         tells how the broker has it, that without one   *)
(*                         it is known as the broker has it, and that      *)
(*                         changes follow the row that they are about.     *)
(*   EveryTransactionStored  Stored says that the last statement about a   *)
(*                         row carries the version shown, that an insert   *)
(*                         comes before the others and finds nothing, and  *)
(*                         that no row which save() has come to is left    *)
(*                         with updates only.                              *)
(***************************************************************************)
EXTENDS LiveData, SequenceTheorems, WellFoundedInduction, TLAPS

-----------------------------------------------------------------------------
(* Least elements, and the row that save() comes to.                       *)

\* A set of numbers that is not empty has a least element.
LEMMA Least ==
  ASSUME NEW T \in SUBSET Nat, T # {}
  PROVE  \E x \in T : \A y \in T : x <= y
<1> DEFINE R == {ss \in Nat \X Nat : ss[1] < ss[2]}
<1>1. IsWellFoundedOn(R, Nat)
  BY NatLessThanWellFounded DEF OpToRel
<1>2. PICK x \in T : \A y \in T : <<y, x>> \notin R
  <2> HIDE DEF R
  <2> QED BY <1>1, WFMin
<1>3. ASSUME NEW y \in T  PROVE  x <= y
  <2>1. x \in Nat /\ y \in Nat
    OBVIOUS
  <2>2. <<y, x>> \in Nat \X Nat /\ <<y, x>>[1] = y /\ <<y, x>>[2] = x
    BY <2>1
  <2>3. ~(y < x)
    <3> SUFFICES ASSUME y < x  PROVE FALSE
      OBVIOUS
    <3>1. <<y, x>> \in R
      <4> USE <2>2
      <4> QED OBVIOUS
    <3> QED BY <3>1, <1>2
  <2> QED BY <2>1, <2>3
<1> QED BY <1>3

\* Of some rows of the lists, one comes first.
LEMMA FirstRow ==
  ASSUME NEW T \in SUBSET (Nat \X Nat), T # {}
  PROVE  \E p \in T : \A q \in T : NotBefore(q, p)
<1>1. PICK a \in {p[1] : p \in T} : \A b \in {p[1] : p \in T} : a <= b
  <2> DEFINE A == {p[1] : p \in T}
  <2>1. A \in SUBSET Nat /\ A # {}
    OBVIOUS
  <2> QED BY <2>1, Least
<1>2. PICK c \in {p[2] : p \in {q \in T : q[1] = a}} :
        \A d \in {p[2] : p \in {q \in T : q[1] = a}} : c <= d
  <2> DEFINE C == {p[2] : p \in {q \in T : q[1] = a}}
  <2>1. C \in SUBSET Nat /\ C # {}
    OBVIOUS
  <2> QED BY <2>1, Least
<1>3. PICK p \in T : p[1] = a /\ p[2] = c
  OBVIOUS
<1>4. \A q \in T : NotBefore(q, p)
  <2> TAKE q \in T
  <2>1. a <= q[1] /\ (q[1] = a => c <= q[2])
    BY <1>1, <1>2
  <2>2. a \in Nat /\ c \in Nat /\ q[1] \in Nat /\ q[2] \in Nat
    BY <1>3
  <2> QED BY <2>1, <2>2, <1>3 DEF NotBefore
<1> QED BY <1>4

-----------------------------------------------------------------------------
(* Sequences.                                                              *)

\* The orders in which the tables are copied, saved and subscribed to.
LEMMA OrderTypes ==
  /\ LoadOrder \in Seq(Kind)
  /\ SaveOrder \in Seq(Kind)
  /\ Subscriptions \in Seq(Kind \X Status)
<1>1. \A k : Of(k) \in Seq(Kind)
  BY DEF Of
<1>2. \A s, t \in Seq(Kind) : s \o t \in Seq(Kind)
  BY ConcatProperties
<1>3. SaveOrder \in Seq(Kind)
  BY <1>1, <1>2 DEF SaveOrder
<1>4. LoadOrder \in Seq(Kind)
  BY <1>1, <1>2 DEF LoadOrder
<1> DEFINE C == Seq(Kind \X Status)
<1>5. \A k : \A s \in Status : To(k, s) \in C
  BY DEF To
<1>6. \A s, t \in C : s \o t \in C
  BY ConcatProperties
<1>7. To("accounts", "CHANGED") \in C /\ To("closed", "ADDED") \in C
  BY <1>5 DEF Status
<1>8. \A k : To(k, "ADDED") \in C /\ To(k, "CHANGED") \in C /\ To(k, "DELETED") \in C
  BY <1>5 DEF Status
<1>9. \A k : ToAll(k) \in C
  <2> TAKE k
  <2> HIDE DEF C
  <2> QED BY <1>6, <1>8 DEF ToAll
<1>10. Subscriptions \in C
  <2> HIDE DEF C
  <2> QED BY <1>6, <1>7, <1>9 DEF Subscriptions
<1> QED BY <1>3, <1>4, <1>10

\* RemoveAt takes one element out and keeps the others in order.
LEMMA RemoveAtProperties ==
  ASSUME NEW S, NEW s \in Seq(S), NEW n \in 1 .. Len(s)
  PROVE  /\ RemoveAt(s, n) \in Seq(S)
         /\ Len(RemoveAt(s, n)) = Len(s) - 1
         /\ \A m \in 1 .. Len(s) - 1 :
              RemoveAt(s, n)[m] = IF m < n THEN s[m] ELSE s[m + 1]
<1> DEFINE a == SubSeq(s, 1, n - 1)
           b == SubSeq(s, n + 1, Len(s))
<1>0. Len(s) \in Nat /\ n \in Nat
  OBVIOUS
<1>1. /\ a \in Seq(S) /\ Len(a) = n - 1
      /\ \A i \in 1 .. n - 1 : a[i] = s[i]
  <2>1. \A i \in 1 .. n - 1 : s[i] \in S
    OBVIOUS
  <2> QED BY <1>0, <2>1, SubSeqProperties
<1>2. /\ b \in Seq(S) /\ Len(b) = Len(s) - n
      /\ \A i \in 1 .. Len(s) - n : b[i] = s[n + i]
  <2>1. \A i \in n + 1 .. Len(s) : s[i] \in S
    OBVIOUS
  <2>2. /\ b \in Seq(S)
        /\ Len(b) = IF n + 1 <= Len(s) THEN Len(s) - (n + 1) + 1 ELSE 0
        /\ \A i \in 1 .. Len(s) - (n + 1) + 1 : b[i] = s[n + 1 + i - 1]
    BY <1>0, <2>1, SubSeqProperties
  <2> QED BY <1>0, <2>2
<1>3. /\ a \o b \in Seq(S) /\ Len(a \o b) = Len(a) + Len(b)
      /\ \A i \in 1 .. Len(a) + Len(b) :
           (a \o b)[i] = IF i <= Len(a) THEN a[i] ELSE b[i - Len(a)]
  <2> HIDE DEF a, b
  <2> QED BY <1>1, <1>2, ConcatProperties
<1>4. RemoveAt(s, n) = a \o b
  BY DEF RemoveAt
<1>5. ASSUME NEW m \in 1 .. Len(s) - 1
      PROVE  (a \o b)[m] = IF m < n THEN s[m] ELSE s[m + 1]
  <2> HIDE DEF a, b
  <2>1. CASE m < n
    BY <1>0, <1>1, <1>2, <1>3, <2>1
  <2>2. CASE ~(m < n)
    <3>1. (a \o b)[m] = b[m - (n - 1)]
      BY <1>0, <1>1, <1>2, <1>3, <2>2
    <3>2. b[m - (n - 1)] = s[n + (m - (n - 1))]
      <4>1. m - (n - 1) \in 1 .. Len(s) - n
        BY <1>0, <2>2
      <4> QED BY <1>2, <4>1
    <3>3. n + (m - (n - 1)) = m + 1
      BY <1>0
    <3> QED BY <2>2, <3>1, <3>2, <3>3
  <2> QED BY <2>1, <2>2
<1>6. Len(a) + Len(b) = Len(s) - 1
  <2> HIDE DEF a, b
  <2> QED BY <1>0, <1>1, <1>2
<1>7. Len(a \o b) = Len(s) - 1
  <2> HIDE DEF a, b
  <2> QED BY <1>3, <1>6
<1> HIDE DEF a, b
<1> QED BY <1>3, <1>4, <1>5, <1>7

-----------------------------------------------------------------------------
(* The lists of the dataset.                                               *)

\* The row with an id is where First says.
LEMMA FirstPlace ==
  ASSUME NEW list \in Seq(Element), NEW i, Holds(list, i)
  PROVE  First(list, i) \in 1 .. Len(list) /\ list[First(list, i)].id = i
<1>1. Places(list, i) \subseteq 1 .. Len(list) /\ Places(list, i) # {}
  BY DEF Places, Holds
<1>2. PICK n \in Places(list, i) : \A m \in Places(list, i) : n <= m
  BY <1>1, Least
<1>3. First(list, i) \in Places(list, i)
  BY <1>2 DEF First
<1> QED BY <1>1, <1>3 DEF Places

\* Lists stay lists.
LEMMA ListTypes ==
  ASSUME NEW list \in Seq(Element), NEW row \in Element
  PROVE  /\ Append(list, row) \in Seq(Element)
         /\ Update(list, row) \in Seq(Element)
         /\ Delete(list, row.id) \in Seq(Element)
<1>1. Update(list, row) \in Seq(Element)
  <2>1. CASE Holds(list, row.id)
    BY <2>1, FirstPlace, ExceptSeq DEF Update
  <2>2. CASE ~Holds(list, row.id)
    BY <2>2 DEF Update
  <2> QED BY <2>1, <2>2
<1>2. Delete(list, row.id) \in Seq(Element)
  <2>1. CASE Holds(list, row.id)
    BY <2>1, FirstPlace, RemoveAtProperties DEF Delete
  <2>2. CASE ~Holds(list, row.id)
    BY <2>2 DEF Delete
  <2> QED BY <2>1, <2>2
<1> QED BY <1>1, <1>2

-----------------------------------------------------------------------------
(* The statements: at most one of them is awaited, and it is the one that  *)
(* save() waits for.                                                       *)

NoneAwaited(s) == \A n \in 1 .. Len(s) : ~s[n].awaited
OneAwaited(s) == \A m, n \in 1 .. Len(s) : s[m].awaited /\ s[n].awaited => m = n

TypeInv ==
  /\ TypeOK
  /\ OneAwaited(stmts)
  /\ ~shown => at = <<>>

\* A place in the lists is not the <<>> that says that save() waits for nothing.
LEMMA PairNotEmpty ==
  ASSUME NEW p \in Nat \X Nat
  PROVE  p # <<>>
<1>1. PICK a \in Nat, b \in Nat : p = <<a, b>>
  OBVIOUS
<1>2. Len(<<a, b>>) = 2 /\ Len(<<>>) = 0
  OBVIOUS
<1> QED BY <1>1, <1>2

\* Sending a statement that nobody waits for.
LEMMA SentUnawaited ==
  ASSUME NEW s \in Seq(Statement), NEW op \in {"insert", "update", "upsert"},
         NEW k \in Kind, NEW row \in Element
  PROVE  LET t == Sent(s, op, k, row, FALSE) IN
         /\ t \in Seq(Statement)
         /\ OneAwaited(s) => OneAwaited(t)
         /\ NoneAwaited(t) <=> NoneAwaited(s)
<1> DEFINE st == [op |-> op, kind |-> k, row |-> row, awaited |-> FALSE]
           t == Append(s, st)
<1>1. st \in Statement /\ ~st.awaited
  BY DEF Statement
<1>2. /\ t \in Seq(Statement) /\ Len(t) = Len(s) + 1
      /\ \A n \in 1 .. Len(s) : t[n] = s[n]
      /\ t[Len(s) + 1] = st
  <2> HIDE DEF st
  <2> QED BY <1>1, AppendProperties
<1> HIDE DEF t, st
<1>3. Len(s) \in Nat
  OBVIOUS
<1>4. OneAwaited(s) => OneAwaited(t)
  BY <1>1, <1>2, <1>3 DEF OneAwaited
<1>5. NoneAwaited(t) <=> NoneAwaited(s)
  <2>1. \A n \in 1 .. Len(s) + 1 : n \in 1 .. Len(s) \/ n = Len(s) + 1
    BY <1>3
  <2>2. \A n \in 1 .. Len(s) : n \in 1 .. Len(t)
    BY <1>2, <1>3
  <2> QED BY <1>1, <1>2, <2>1, <2>2 DEF NoneAwaited
<1>6. Sent(s, op, k, row, FALSE) = t \/ Sent(s, op, k, row, FALSE) = s
  BY DEF Sent, t, st
<1> QED BY <1>2, <1>4, <1>5, <1>6

\* The rows that save() may come to are rows of the lists.
LEMMA RowTypes ==
  ASSUME NEW d \in [Kind -> Seq(Element)], NEW p \in Rows(d)
  PROVE  /\ p \in Nat \X Nat
         /\ SaveOrder[p[1]] \in Kind
         /\ d[SaveOrder[p[1]]][p[2]] \in Element
<1>1. PICK n \in 1 .. Len(SaveOrder) : p \in {<<n, m>> : m \in 1 .. Len(d[SaveOrder[n]])}
  BY DEF Rows
<1>2. PICK m \in 1 .. Len(d[SaveOrder[n]]) : p = <<n, m>>
  BY <1>1
<1>3. SaveOrder[n] \in Kind
  BY OrderTypes
<1>4. d[SaveOrder[n]] \in Seq(Element)
  BY <1>3
<1>5. n \in Nat /\ m \in Nat
  BY <1>4, OrderTypes
<1>6. d[SaveOrder[n]][m] \in Element
  BY <1>4
<1> QED BY <1>2, <1>3, <1>5, <1>6

\* save() goes on when nothing is awaited: then the one statement it sends is.
LEMMA SaveFromTypes ==
  ASSUME NEW d \in [Kind -> Seq(Element)], NEW from, NEW sent \in Seq(Statement),
         NoneAwaited(sent), inited \in BOOLEAN, SaveFrom(d, from, sent)
  PROVE  /\ at' \in {<<>>} \cup (Nat \X Nat)
         /\ inited' \in BOOLEAN
         /\ stmts' \in Seq(Statement)
         /\ OneAwaited(stmts')
         /\ (at' # <<>>) <=> ~NoneAwaited(stmts')
<1> DEFINE todo == {p \in Rows(d) : NotBefore(p, from)}
           next == CHOOSE p \in todo : \A q \in todo : NotBefore(q, p)
<1>1. CASE todo = {} \/ serializer = "none"
  BY <1>1 DEF SaveFrom, OneAwaited, NoneAwaited
<1>2. CASE todo # {} /\ serializer # "none"
  <2>1. todo \in SUBSET (Nat \X Nat)
    BY RowTypes
  <2>2. \E p \in todo : \A q \in todo : NotBefore(q, p)
    <3> HIDE DEF todo
    <3> QED BY <1>2, <2>1, FirstRow
  <2>3. next \in todo
    <3> HIDE DEF todo
    <3> QED BY <2>2
  <2> DEFINE kind == SaveOrder[next[1]]
             st == [op |-> "upsert", kind |-> kind, row |-> d[kind][next[2]],
                    awaited |-> TRUE]
  <2>4. next \in Rows(d)
    BY <2>3
  <2>5. at' = next /\ inited' = inited /\ stmts' = Append(sent, st)
    BY <1>2 DEF SaveFrom, Sent
  <2> HIDE DEF next
  <2>6. next \in Nat \X Nat /\ st \in Statement
    BY <2>4, RowTypes DEF Statement
  <2>7. st.awaited
    OBVIOUS
  <2> HIDE DEF st
  <2>8. /\ stmts' \in Seq(Statement) /\ Len(stmts') = Len(sent) + 1
        /\ \A n \in 1 .. Len(sent) : stmts'[n] = sent[n]
        /\ stmts'[Len(sent) + 1] = st
    BY <2>5, <2>6, AppendProperties
  <2>9. Len(sent) \in Nat
    OBVIOUS
  <2>10. OneAwaited(stmts')
    <3>1. \A n \in 1 .. Len(stmts') : stmts'[n].awaited => n = Len(sent) + 1
      BY <2>8, <2>9 DEF NoneAwaited
    <3> QED BY <3>1 DEF OneAwaited
  <2>11. ~NoneAwaited(stmts')
    <3>1. Len(sent) + 1 \in 1 .. Len(stmts')
      BY <2>8, <2>9
    <3> QED BY <3>1, <2>7, <2>8 DEF NoneAwaited
  <2>12. at' # <<>>
    BY <2>5, <2>6, PairNotEmpty
  <2> QED BY <2>5, <2>6, <2>8, <2>10, <2>11, <2>12
<1> QED BY <1>1, <1>2

-----------------------------------------------------------------------------
(* Type correctness.                                                       *)

\* The types hold at the start.
LEMMA InitTypes ==
  ASSUME Init
  PROVE  TypeInv
<1>1. broker \in [Kind -> [Id -> [ver : Nat, live : BOOLEAN]]]
  <2>1. /\ [ver |-> 0, live |-> FALSE] \in [ver : Nat, live : BOOLEAN]
        /\ [ver |-> 1, live |-> TRUE] \in [ver : Nat, live : BOOLEAN]
    OBVIOUS
  <2>2. broker \in [Kind -> [Id -> {[ver |-> 0, live |-> FALSE], [ver |-> 1, live |-> TRUE]}]]
    BY DEF Init
  <2>3. \A k \in Kind : broker[k] \in [Id -> [ver : Nat, live : BOOLEAN]]
    <3> TAKE k \in Kind
    <3>1. broker[k] \in [Id -> {[ver |-> 0, live |-> FALSE], [ver |-> 1, live |-> TRUE]}]
      BY <2>2
    <3> QED BY <2>1, <3>1
  <2> QED BY <2>2, <2>3
<1>2. toRead \in Seq(Kind) /\ calls \in Seq(Kind \X Status)
  BY OrderTypes DEF Init
<1>3. \A S : <<>> \in Seq(S)
  OBVIOUS
<1>4. 0 \in 0 .. MaxChanges
  BY ChangesAssumption
<1>5. Len(stmts) = 0
  BY DEF Init
<1>6. NoneAwaited(stmts) /\ OneAwaited(stmts)
  BY <1>5 DEF NoneAwaited, OneAwaited
<1> QED BY <1>1, <1>2, <1>3, <1>4, <1>6 DEF Init, TypeInv, TypeOK, NoneAwaited

\* A change the broker makes.
LEMMA NotifyTypes ==
  ASSUME TypeInv, NEW k \in Kind, NEW i \in Id, NEW s \in Status, NEW v \in Nat,
         Notify(k, i, s, v)
  PROVE  chan' \in Seq(Event) /\ missed' \subseteq Kind \X Id
<1>1. [kind |-> k, status |-> s, row |-> [id |-> i, ver |-> v]] \in Event
  BY DEF Event, Element
<1>2. chan \in Seq(Event) /\ missed \subseteq Kind \X Id
  BY DEF TypeInv, TypeOK
<1>3. chan' \in Seq(Event)
  <2> DEFINE e == [kind |-> k, status |-> s, row |-> [id |-> i, ver |-> v]]
  <2>1. chan' = chan \/ chan' = Append(chan, e)
    BY DEF Notify
  <2> HIDE DEF e
  <2> QED BY <1>1, <1>2, <2>1 DEF e
<1>4. missed' \subseteq Kind \X Id
  BY <1>2 DEF Notify
<1> QED BY <1>3, <1>4

\* A changed row is a row.
LEMMA RowChanges ==
  ASSUME NEW row \in [ver : Nat, live : BOOLEAN]
  PROVE  /\ [ver |-> row.ver + 1, live |-> TRUE] \in [ver : Nat, live : BOOLEAN]
         /\ [row EXCEPT !.ver = @ + 1] \in [ver : Nat, live : BOOLEAN]
         /\ [row EXCEPT !.live = FALSE] \in [ver : Nat, live : BOOLEAN]
<1>1. row.ver + 1 \in Nat
  OBVIOUS
<1>2. [row EXCEPT !.ver = @ + 1] = [ver |-> row.ver + 1, live |-> row.live]
  OBVIOUS
<1>3. [row EXCEPT !.live = FALSE] = [ver |-> row.ver, live |-> FALSE]
  <2>1. \A b : [row EXCEPT !.live = b] = [ver |-> row.ver, live |-> b]
    OBVIOUS
  <2> QED BY <2>1
<1> QED BY <1>1, <1>2, <1>3

\* The broker's changes keep the types.
LEMMA BrokerTypes ==
  ASSUME TypeInv, NEW k \in Kind, NEW i \in Id,
         BrokerAdds(k, i) \/ BrokerChanges(k, i) \/ BrokerDeletes(k, i)
  PROVE  TypeInv'
<1> USE DEF TypeInv, TypeOK
<1>1. broker[k][i] \in [ver : Nat, live : BOOLEAN]
  OBVIOUS
<1>2. \E s \in Status : \E v \in Nat : Notify(k, i, s, v)
  <2>1. CASE BrokerAdds(k, i)
    <3>1. broker[k][i].ver + 1 \in Nat
      BY <1>1
    <3> QED BY <2>1, <3>1 DEF BrokerAdds, Status
  <2>2. CASE BrokerChanges(k, i)
    <3>1. broker[k][i].ver + 1 \in Nat
      BY <1>1
    <3> QED BY <2>2, <3>1 DEF BrokerChanges, Status
  <2>3. CASE BrokerDeletes(k, i)
    BY <1>1, <2>3 DEF BrokerDeletes, Status
  <2> QED BY <2>1, <2>2, <2>3
<1>3. chan' \in Seq(Event) /\ missed' \subseteq Kind \X Id
  BY <1>2, NotifyTypes
<1>4. changes' \in 0 .. MaxChanges
  BY ChangesAssumption DEF BrokerAdds, BrokerChanges, BrokerDeletes, Counted
<1>5. broker' \in [Kind -> [Id -> [ver : Nat, live : BOOLEAN]]]
  <2>1. broker \in [Kind -> [Id -> [ver : Nat, live : BOOLEAN]]]
    OBVIOUS
  <2>2. /\ [ver |-> broker[k][i].ver + 1, live |-> TRUE] \in [ver : Nat, live : BOOLEAN]
        /\ [broker[k][i] EXCEPT !.ver = @ + 1] \in [ver : Nat, live : BOOLEAN]
        /\ [broker[k][i] EXCEPT !.live = FALSE] \in [ver : Nat, live : BOOLEAN]
    BY <1>1, RowChanges
  <2> DEFINE With(row) == [broker EXCEPT ![k][i] = row]
  <2>3. \A row \in [ver : Nat, live : BOOLEAN] :
          With(row) \in [Kind -> [Id -> [ver : Nat, live : BOOLEAN]]]
    BY <2>1
  <2>4. CASE BrokerAdds(k, i)
    <3>1. broker' = With([ver |-> broker[k][i].ver + 1, live |-> TRUE])
      BY <2>4 DEF BrokerAdds
    <3> QED BY <2>2, <2>3, <3>1
  <2>5. CASE BrokerChanges(k, i)
    <3>1. broker' = With([broker[k][i] EXCEPT !.ver = @ + 1])
      BY <2>5 DEF BrokerChanges
    <3> QED BY <2>2, <2>3, <3>1
  <2>6. CASE BrokerDeletes(k, i)
    <3>1. broker' = With([broker[k][i] EXCEPT !.live = FALSE])
      BY <2>6 DEF BrokerDeletes
    <3> QED BY <2>2, <2>3, <3>1
  <2> QED BY <2>4, <2>5, <2>6
<1>6. UNCHANGED <<native, node, store>>
  BY DEF BrokerAdds, BrokerChanges, BrokerDeletes
<1> QED BY <1>3, <1>4, <1>5, <1>6 DEF native, node, store, saving, OneAwaited

\* The load worker.
LEMMA WorkerTypes ==
  ASSUME TypeInv, (\E i \in Id : ReadRow(i)) \/ TableRead \/ Subscribe
  PROVE  TypeInv'
<1> USE DEF TypeInv, TypeOK, node, store, saving, OneAwaited
<1>1. ASSUME NEW i \in Id, ReadRow(i)  PROVE TypeInv'
  <2>1. Head(toRead) \in Kind
    BY <1>1 DEF ReadRow
  <2>2. broker[Head(toRead)][i] \in [ver : Nat, live : BOOLEAN]
    BY <2>1
  <2>3. [id |-> i, ver |-> broker[Head(toRead)][i].ver] \in Element
    BY <2>2 DEF Element
  <2>4. Append(loaded[Head(toRead)], [id |-> i, ver |-> broker[Head(toRead)][i].ver])
          \in Seq(Element)
    BY <2>1, <2>3
  <2>5. loaded' \in [Kind -> Seq(Element)]
    BY <1>1, <2>1, <2>4 DEF ReadRow
  <2> QED BY <1>1, <2>5 DEF ReadRow
<1>2. CASE TableRead
  <2>1. toRead \in Seq(Kind) /\ toRead # <<>>
    BY <1>2 DEF TableRead
  <2>2. toRead' \in Seq(Kind) /\ unread' \subseteq Id
    BY <1>2, <2>1, HeadTailProperties DEF TableRead
  <2>3. UNCHANGED <<broker, changes, loaded, calls, chan, node, store, missed>>
    BY <1>2 DEF TableRead
  <2> QED BY <2>2, <2>3
<1>3. CASE Subscribe
  <2>1. calls \in Seq(Kind \X Status) /\ calls # <<>>
    BY <1>3 DEF Subscribe
  <2>2. calls' \in Seq(Kind \X Status)
    BY <1>3, <2>1, HeadTailProperties DEF Subscribe
  <2>3. UNCHANGED <<broker, changes, toRead, unread, loaded, chan, node, store, missed>>
    BY <1>3 DEF Subscribe
  <2> QED BY <2>2, <2>3
<1> QED BY <1>1, <1>2, <1>3

\* The pump.
LEMMA PumpTypes ==
  ASSUME TypeInv, PumpStart \/ PumpEnd
  PROVE  TypeInv'
BY DEF TypeInv, TypeOK, PumpStart, PumpEnd, native, store, saving, OneAwaited

\* The handlers.
LEMMA HandlerTypes ==
  ASSUME TypeInv, handleEvent
  PROVE  /\ data' \in [Kind -> Seq(Element)]
         /\ stmts' \in Seq(Statement)
         /\ OneAwaited(stmts')
         /\ NoneAwaited(stmts') <=> NoneAwaited(stmts)
         /\ missed' \subseteq Kind \X Id
<1> DEFINE e == Head(chan)
<1>1. /\ e \in Event /\ data \in [Kind -> Seq(Element)] /\ stmts \in Seq(Statement)
      /\ missed \subseteq Kind \X Id /\ OneAwaited(stmts)
  BY DEF TypeInv, TypeOK, handleEvent
<1>2. \/ e.kind = "accounts" /\ onAccount(e)
      \/ e.kind = "orders" /\ onOrder(e)
      \/ e.kind = "trades" /\ onTrade(e)
      \/ e.kind = "closed" /\ onClosedTrade(e)
      \/ e.kind = "summary" /\ onSummary(e)
  BY DEF handleEvent
<1>3. missed' \subseteq Kind \X Id
  <2>1. missed' = Forgotten(e)
    BY DEF handleEvent
  <2> HIDE DEF e
  <2> QED BY <1>1, <2>1 DEF Forgotten, Event, Element
<1> HIDE DEF e
<1>4. /\ e.kind \in Kind /\ e.status \in Status
      /\ e.row \in Element /\ e.row.id \in Id
  BY <1>1 DEF Event, Element
<1> DEFINE list == data[e.kind]
<1>5. /\ list \in Seq(Element)
      /\ Append(list, e.row) \in Seq(Element)
      /\ Update(list, e.row) \in Seq(Element)
      /\ Delete(list, e.row.id) \in Seq(Element)
  BY <1>1, <1>4, ListTypes
<1>6. data' \in [Kind -> Seq(Element)]
  <2>1. data' = data \/ \E new \in Seq(Element) : data' = [data EXCEPT ![e.kind] = new]
    <3>1. CASE e.kind = "accounts" /\ onAccount(e)
      BY <1>5, <3>1 DEF onAccount
    <3>2. CASE e.kind = "orders" /\ onOrder(e)
      BY <1>5, <3>2 DEF onOrder
    <3>3. CASE e.kind = "trades" /\ onTrade(e)
      BY <1>5, <3>3 DEF onTrade
    <3>4. CASE e.kind = "closed" /\ onClosedTrade(e)
      BY <1>5, <3>4 DEF onClosedTrade
    <3>5. CASE e.kind = "summary" /\ onSummary(e)
      BY <1>4, <1>5, <3>5 DEF onSummary, Status
    <3> QED BY <1>2, <3>1, <3>2, <3>3, <3>4, <3>5
  <2> QED BY <1>1, <1>4, <2>1
<1>7. \/ stmts' = stmts
      \/ \E op \in {"insert", "update", "upsert"}, row \in Element :
           stmts' = Sent(stmts, op, e.kind, row, FALSE)
  <2>1. CASE e.kind = "trades" /\ onTrade(e)
    <3>1. Holds(list, e.row.id) => list[First(list, e.row.id)] \in Element
      BY <1>5, FirstPlace
    <3> QED BY <1>4, <2>1, <3>1 DEF onTrade
  <2>2. CASE ~(e.kind = "trades" /\ onTrade(e))
    BY <1>2, <1>4, <2>2 DEF onAccount, onOrder, onClosedTrade, onSummary
  <2> QED BY <2>1, <2>2
<1>8. /\ stmts' \in Seq(Statement)
      /\ OneAwaited(stmts')
      /\ NoneAwaited(stmts') <=> NoneAwaited(stmts)
  <2>1. CASE stmts' = stmts
    BY <1>1, <2>1
  <2>2. ASSUME NEW op \in {"insert", "update", "upsert"}, NEW row \in Element,
               stmts' = Sent(stmts, op, e.kind, row, FALSE)
        PROVE  /\ stmts' \in Seq(Statement)
               /\ OneAwaited(stmts')
               /\ NoneAwaited(stmts') <=> NoneAwaited(stmts)
    BY <1>1, <1>4, <2>2, SentUnawaited
  <2> QED BY <1>7, <2>1, <2>2
<1> QED BY <1>3, <1>6, <1>8

\* The handling of an event keeps the types.
LEMMA HandleTypes ==
  ASSUME TypeInv, handleEvent
  PROVE  TypeInv'
<1>1. chan' \in Seq(Event)
  BY DEF handleEvent, TypeInv, TypeOK
<1>2. UNCHANGED <<broker, changes, native, pumping, shown, saving, serializer, db>>
  BY DEF handleEvent
<1> QED BY <1>1, <1>2, HandlerTypes
        DEF TypeInv, TypeOK, native, saving, NoneAwaited

\* The copy is shown.
LEMMA ShowTypes ==
  ASSUME TypeInv, ShowSnapshot
  PROVE  TypeInv'
<1>1. Snapshot \in [Kind -> Seq(Element)]
  <2>1. \A k \in Kind : data[k] \o loaded[k] \in Seq(Element)
    BY ConcatProperties DEF TypeInv, TypeOK
  <2> QED BY <2>1 DEF Snapshot
<1>2. /\ stmts \in Seq(Statement) /\ NoneAwaited(stmts) /\ inited \in BOOLEAN
      /\ SaveFrom(Snapshot, <<1, 1>>, stmts)
  BY DEF TypeInv, TypeOK, ShowSnapshot, NoneAwaited
<1>3. /\ at' \in {<<>>} \cup (Nat \X Nat) /\ inited' \in BOOLEAN
      /\ stmts' \in Seq(Statement) /\ OneAwaited(stmts')
      /\ (at' # <<>>) <=> ~NoneAwaited(stmts')
  BY <1>1, <1>2, SaveFromTypes
<1>4. /\ data' = Snapshot /\ shown' = TRUE
      /\ UNCHANGED <<broker, changes, native, chan, pumping, serializer, db, missed>>
  BY DEF ShowSnapshot
<1> QED BY <1>1, <1>3, <1>4 DEF TypeInv, TypeOK, native, NoneAwaited

\* The database.
LEMMA DatabaseTypes ==
  ASSUME TypeInv, NEW n \in 1 .. Len(stmts), RunStatement(n)
  PROVE  TypeInv'
<1> DEFINE rest == RemoveAt(stmts, n)
<1>1. stmts \in Seq(Statement) /\ OneAwaited(stmts)
  BY DEF TypeInv, TypeOK
<1>2. Len(stmts) \in Nat /\ stmts[n] \in Statement
  BY <1>1
<1>3. /\ rest \in Seq(Statement) /\ Len(rest) = Len(stmts) - 1
      /\ \A m \in 1 .. Len(stmts) - 1 :
           rest[m] = IF m < n THEN stmts[m] ELSE stmts[m + 1]
  BY <1>1, RemoveAtProperties
<1> HIDE DEF rest
<1>4. db' \in [Kind -> [Id -> Nat]]
  <2>1. db' = Run(stmts[n])
    BY DEF RunStatement
  <2>2. db \in [Kind -> [Id -> Nat]]
    BY DEF TypeInv, TypeOK
  <2>3. /\ stmts[n].kind \in Kind /\ stmts[n].row.id \in Id
        /\ stmts[n].row.ver \in Nat
        /\ stmts[n].op \in {"insert", "update", "upsert"}
    BY <1>2 DEF Statement, Element
  <2> QED BY <2>1, <2>2, <2>3 DEF Run
<1>5. UNCHANGED <<broker, changes, native, chan, pumping, data, shown, serializer, missed>>
  BY DEF RunStatement
<1>6. CASE stmts[n].awaited
  <2>1. NoneAwaited(rest)
    <3> SUFFICES ASSUME NEW m \in 1 .. Len(rest), rest[m].awaited  PROVE FALSE
      BY DEF NoneAwaited
    <3>1. CASE m < n
      BY <1>1, <1>2, <1>3, <1>6, <3>1 DEF OneAwaited
    <3>2. CASE ~(m < n)
      BY <1>1, <1>2, <1>3, <1>6, <3>2 DEF OneAwaited
    <3> QED BY <3>1, <3>2
  <2>2. SaveFrom(data, <<at[1], at[2] + 1>>, rest)
    BY <1>6 DEF RunStatement, rest
  <2>3. data \in [Kind -> Seq(Element)] /\ inited \in BOOLEAN
    BY DEF TypeInv, TypeOK
  <2>4. /\ at' \in {<<>>} \cup (Nat \X Nat) /\ inited' \in BOOLEAN
        /\ stmts' \in Seq(Statement) /\ OneAwaited(stmts')
        /\ (at' # <<>>) <=> ~NoneAwaited(stmts')
    BY <1>3, <2>1, <2>2, <2>3, SaveFromTypes
  <2>5. shown
    BY <1>6 DEF TypeInv, TypeOK
  <2> QED BY <1>4, <1>5, <2>4, <2>5 DEF TypeInv, TypeOK, native, NoneAwaited
<1>7. CASE ~stmts[n].awaited
  <2>1. stmts' = rest /\ UNCHANGED saving
    BY <1>7 DEF RunStatement, rest
  <2>2. OneAwaited(rest)
    <3> SUFFICES ASSUME NEW l \in 1 .. Len(rest), NEW m \in 1 .. Len(rest),
                        rest[l].awaited, rest[m].awaited
                 PROVE  l = m
      BY DEF OneAwaited
    <3>1. \A j \in 1 .. Len(rest) : j \in 1 .. Len(stmts) /\ j + 1 \in 1 .. Len(stmts)
      BY <1>2, <1>3
    <3> DEFINE Old(j) == IF j < n THEN j ELSE j + 1
    <3>2. \A j \in 1 .. Len(rest) : Old(j) \in 1 .. Len(stmts) /\ rest[j] = stmts[Old(j)]
      BY <1>2, <1>3, <3>1
    <3>3. Old(l) = Old(m)
      <4> HIDE DEF Old
      <4> QED BY <1>1, <3>2 DEF OneAwaited
    <3> QED BY <1>2, <1>3, <3>3
  <2>3. NoneAwaited(rest) <=> NoneAwaited(stmts)
    <3>1. ASSUME NoneAwaited(rest), NEW m \in 1 .. Len(stmts)  PROVE ~stmts[m].awaited
      <4>1. CASE m < n
        BY <1>2, <1>3, <3>1, <4>1 DEF NoneAwaited
      <4>2. CASE m = n
        BY <1>7, <4>2
      <4>3. CASE m > n
        <5>1. m - 1 \in 1 .. Len(rest) /\ rest[m - 1] = stmts[m]
          BY <1>2, <1>3, <4>3
        <5> QED BY <3>1, <5>1 DEF NoneAwaited
      <4> QED BY <1>2, <4>1, <4>2, <4>3
    <3>2. ASSUME NoneAwaited(stmts)  PROVE NoneAwaited(rest)
      <4>1. \A j \in 1 .. Len(rest) : j \in 1 .. Len(stmts) /\ j + 1 \in 1 .. Len(stmts)
        BY <1>2, <1>3
      <4> QED BY <1>3, <3>2, <4>1 DEF NoneAwaited
    <3> QED BY <3>1, <3>2 DEF NoneAwaited
  <2> QED BY <1>3, <1>4, <1>5, <2>1, <2>2, <2>3
          DEF TypeInv, TypeOK, native, saving, NoneAwaited
<1> QED BY <1>6, <1>7

\* The types are invariant, and at any time save() waits for at most one
\* statement, and for none before the copy is shown.
LEMMA TypeInvariance == Spec => []TypeInv
<1>1. Init => TypeInv
  BY InitTypes
<1>2. TypeInv /\ [Next]_vars => TypeInv'
  <2> SUFFICES ASSUME TypeInv, [Next]_vars  PROVE TypeInv'
    OBVIOUS
  <2>1. ASSUME NEW k \in Kind, NEW i \in Id,
               BrokerAdds(k, i) \/ BrokerChanges(k, i) \/ BrokerDeletes(k, i)
        PROVE  TypeInv'
    BY <2>1, BrokerTypes
  <2>2. CASE (\E i \in Id : ReadRow(i)) \/ TableRead \/ Subscribe
    BY <2>2, WorkerTypes
  <2>3. CASE PumpStart \/ PumpEnd
    BY <2>3, PumpTypes
  <2>4. CASE handleEvent
    BY <2>4, HandleTypes
  <2>5. CASE ShowSnapshot
    BY <2>5, ShowTypes
  <2>6. CASE Database
    BY <2>6, DatabaseTypes DEF Database
  <2>7. CASE UNCHANGED vars
    BY <2>7 DEF vars, native, node, store, saving, TypeInv, TypeOK, OneAwaited
  <2> QED BY <2>1, <2>2, <2>3, <2>4, <2>5, <2>6, <2>7 DEF Next
<1> QED BY <1>1, <1>2, PTL DEF Spec

\* The lists hold rows, the queue events, and save() waits if and only if a
\* statement is awaited: what save() of index.js relies on to go on exactly once.
THEOREM TypeCorrectness == Spec => []TypeOK
<1>1. TypeInv => TypeOK
  BY DEF TypeInv
<1> QED BY <1>1, TypeInvariance, PTL

-----------------------------------------------------------------------------
(* What the functions of dataset.js do to the ids of a list.               *)

Once(list) == \A m, n \in DOMAIN list : list[m].id = list[n].id => m = n
OnceOf(list, i) == \A m, n \in DOMAIN list : list[m].id = i /\ list[n].id = i => m = n

\* A list holds an id if it is in one of its places.
LEMMA HoldsAt ==
  ASSUME NEW list, NEW i
  PROVE  Holds(list, i) <=> \E n \in DOMAIN list : list[n].id = i
BY DEF Holds, Places

\* Each row is there once if the row with any id is.
LEMMA OnceEach ==
  ASSUME NEW list \in Seq(Element)
  PROVE  Once(list) <=> \A i \in Id : OnceOf(list, i)
<1>1. \A n \in DOMAIN list : list[n].id \in Id
  <2>1. \A n \in DOMAIN list : list[n] \in Element
    OBVIOUS
  <2>2. \A row \in Element : row.id \in Id
    BY DEF Element
  <2> QED BY <2>1, <2>2
<1> QED BY <1>1 DEF Once, OnceOf

\* Append adds the id of its row.
LEMMA AppendRow ==
  ASSUME NEW list \in Seq(Element), NEW row \in Element, NEW i
  PROVE  /\ Holds(Append(list, row), i) <=> Holds(list, i) \/ row.id = i
         /\ OnceOf(list, i) /\ ~(Holds(list, i) /\ row.id = i) => OnceOf(Append(list, row), i)
<1> DEFINE new == Append(list, row)
<1>1. /\ new \in Seq(Element) /\ Len(new) = Len(list) + 1
      /\ \A n \in 1 .. Len(list) : new[n] = list[n]
      /\ new[Len(list) + 1] = row
  BY AppendProperties
<1> HIDE DEF new
<1>2. Len(list) \in Nat /\ DOMAIN list = 1 .. Len(list) /\ DOMAIN new = 1 .. Len(list) + 1
  BY <1>1
<1>3. /\ \A n \in DOMAIN new : n \in DOMAIN list \/ n = Len(list) + 1
      /\ DOMAIN list \subseteq DOMAIN new /\ Len(list) + 1 \in DOMAIN new
  BY <1>2
<1>4. Holds(new, i) <=> Holds(list, i) \/ row.id = i
  BY <1>1, <1>2, <1>3, HoldsAt
<1>5. ASSUME OnceOf(list, i), ~(Holds(list, i) /\ row.id = i)  PROVE OnceOf(new, i)
  BY <1>1, <1>2, <1>3, <1>5, HoldsAt DEF OnceOf
<1> QED BY <1>4, <1>5 DEF new

\* Update changes no id.
LEMMA UpdateRow ==
  ASSUME NEW list \in Seq(Element), NEW row \in Element, NEW i
  PROVE  /\ Holds(Update(list, row), i) <=> Holds(list, i)
         /\ OnceOf(list, i) => OnceOf(Update(list, row), i)
<1> DEFINE new == Update(list, row)
<1>1. DOMAIN new = DOMAIN list /\ \A n \in DOMAIN list : new[n].id = list[n].id
  <2>1. CASE Holds(list, row.id)
    BY <2>1, FirstPlace DEF Update
  <2>2. CASE ~Holds(list, row.id)
    BY <2>2 DEF Update
  <2> QED BY <2>1, <2>2
<1> HIDE DEF new
<1>2. Holds(new, i) <=> Holds(list, i)
  BY <1>1, HoldsAt
<1>3. OnceOf(list, i) => OnceOf(new, i)
  BY <1>1 DEF OnceOf
<1> QED BY <1>2, <1>3 DEF new

\* Delete takes out the row with an id if it is there once, and nothing else.
LEMMA DeleteRow ==
  ASSUME NEW list \in Seq(Element), NEW j, NEW i
  PROVE  /\ Holds(Delete(list, j), i) => Holds(list, i)
         /\ OnceOf(list, i) => OnceOf(Delete(list, j), i)
         /\ OnceOf(list, j) => ~Holds(Delete(list, j), j)
<1>1. CASE Holds(list, j)
  <2> DEFINE new == Delete(list, j)
             p == First(list, j)
             Old(n) == IF n < p THEN n ELSE n + 1
  <2>1. p \in 1 .. Len(list) /\ list[p].id = j
    BY <1>1, FirstPlace
  <2>2. new = RemoveAt(list, p)
    BY <1>1 DEF Delete
  <2> HIDE DEF new, p
  <2>3. /\ Len(list) \in Nat /\ DOMAIN list = 1 .. Len(list)
        /\ new \in Seq(Element) /\ Len(new) = Len(list) - 1
        /\ \A n \in 1 .. Len(list) - 1 : new[n] = IF n < p THEN list[n] ELSE list[n + 1]
    <3>1. Len(list) \in Nat /\ DOMAIN list = 1 .. Len(list)
      OBVIOUS
    <3>2. /\ new \in Seq(Element) /\ Len(new) = Len(list) - 1
          /\ \A n \in 1 .. Len(list) - 1 : new[n] = IF n < p THEN list[n] ELSE list[n + 1]
      BY <2>1, <2>2, RemoveAtProperties
    <3> QED BY <3>1, <3>2
  <2>4. DOMAIN new = 1 .. Len(list) - 1
    BY <2>3
  <2>5. \A n \in DOMAIN new : Old(n) \in DOMAIN list /\ Old(n) # p /\ new[n] = list[Old(n)]
    BY <2>1, <2>3, <2>4
  <2>6. \A m, n \in DOMAIN new : Old(m) = Old(n) => m = n
    BY <2>1, <2>3, <2>4
  <2> HIDE DEF Old
  <2>7. Holds(new, i) => Holds(list, i)
    BY <2>5, HoldsAt
  <2>8. OnceOf(list, i) => OnceOf(new, i)
    BY <2>5, <2>6 DEF OnceOf
  <2>9. OnceOf(list, j) => ~Holds(new, j)
    BY <2>1, <2>3, <2>5, HoldsAt DEF OnceOf
  <2> QED BY <2>7, <2>8, <2>9 DEF new
<1>2. CASE ~Holds(list, j)
  BY <1>2 DEF Delete
<1> QED BY <1>1, <1>2

\* Two lists, one behind the other.
LEMMA BothRows ==
  ASSUME NEW s \in Seq(Element), NEW t \in Seq(Element), NEW i
  PROVE  /\ Holds(s \o t, i) <=> Holds(s, i) \/ Holds(t, i)
         /\ OnceOf(s, i) /\ OnceOf(t, i) /\ ~(Holds(s, i) /\ Holds(t, i)) => OnceOf(s \o t, i)
<1> DEFINE u == s \o t
<1>1. /\ u \in Seq(Element) /\ Len(u) = Len(s) + Len(t)
      /\ \A n \in 1 .. Len(s) + Len(t) : u[n] = IF n <= Len(s) THEN s[n] ELSE t[n - Len(s)]
  BY ConcatProperties
<1> HIDE DEF u
<1>2. /\ Len(s) \in Nat /\ Len(t) \in Nat
      /\ DOMAIN s = 1 .. Len(s) /\ DOMAIN t = 1 .. Len(t) /\ DOMAIN u = 1 .. Len(s) + Len(t)
  BY <1>1
<1>3. \A n \in DOMAIN u :
        \/ n \in DOMAIN s /\ u[n] = s[n]
        \/ n > Len(s) /\ n - Len(s) \in DOMAIN t /\ u[n] = t[n - Len(s)]
  BY <1>1, <1>2
<1>4. /\ \A n \in DOMAIN s : n \in DOMAIN u /\ u[n] = s[n]
      /\ \A n \in DOMAIN t : n + Len(s) \in DOMAIN u /\ u[n + Len(s)] = t[n]
  BY <1>1, <1>2
<1>5. Holds(u, i) <=> Holds(s, i) \/ Holds(t, i)
  <2>1. ASSUME Holds(u, i)  PROVE Holds(s, i) \/ Holds(t, i)
    <3>1. PICK n \in DOMAIN u : u[n].id = i
      BY <2>1, HoldsAt
    <3> QED BY <1>3, <3>1, HoldsAt
  <2>2. ASSUME Holds(s, i)  PROVE Holds(u, i)
    <3>1. PICK n \in DOMAIN s : s[n].id = i
      BY <2>2, HoldsAt
    <3> QED BY <1>4, <3>1, HoldsAt
  <2>3. ASSUME Holds(t, i)  PROVE Holds(u, i)
    <3>1. PICK n \in DOMAIN t : t[n].id = i
      BY <2>3, HoldsAt
    <3> QED BY <1>4, <3>1, HoldsAt
  <2> QED BY <2>1, <2>2, <2>3
<1>6. ASSUME OnceOf(s, i), OnceOf(t, i), ~(Holds(s, i) /\ Holds(t, i)),
             NEW m \in DOMAIN u, NEW n \in DOMAIN u, u[m].id = i, u[n].id = i
      PROVE  m = n
  <2>1. CASE Holds(s, i)
    <3>1. /\ m \in DOMAIN s /\ u[m] = s[m] /\ n \in DOMAIN s /\ u[n] = s[n]
      BY <1>3, <1>6, <2>1, HoldsAt
    <3> QED BY <1>6, <3>1 DEF OnceOf
  <2>2. CASE ~Holds(s, i)
    <3>1. /\ m - Len(s) \in DOMAIN t /\ u[m] = t[m - Len(s)]
          /\ n - Len(s) \in DOMAIN t /\ u[n] = t[n - Len(s)]
      BY <1>3, <1>6, <2>2, HoldsAt
    <3>2. m - Len(s) = n - Len(s)
      BY <1>6, <3>1 DEF OnceOf
    <3> QED BY <1>2, <3>2
  <2> QED BY <2>1, <2>2
<1> QED BY <1>5, <1>6 DEF u, OnceOf

-----------------------------------------------------------------------------
(* The orders of copying and subscribing.                                  *)

Distinct(s) == \A m, n \in 1 .. Len(s) : s[m] = s[n] => m = n
Members(s) == {s[n] : n \in 1 .. Len(s)}

\* What is in two sequences, one behind the other.
LEMMA ConcatMembers ==
  ASSUME NEW S, NEW s \in Seq(S), NEW t \in Seq(S)
  PROVE  /\ Members(s) \cup Members(t) = Members(s \o t)
         /\ Distinct(s) /\ Distinct(t) /\ Members(s) \cap Members(t) = {} => Distinct(s \o t)
<1> DEFINE u == s \o t
<1>1. /\ u \in Seq(S) /\ Len(u) = Len(s) + Len(t)
      /\ \A n \in 1 .. Len(s) + Len(t) : u[n] = IF n <= Len(s) THEN s[n] ELSE t[n - Len(s)]
  BY ConcatProperties
<1> HIDE DEF u
<1>2. Len(s) \in Nat /\ Len(t) \in Nat
  OBVIOUS
<1>3. \A n \in 1 .. Len(u) :
        \/ n \in 1 .. Len(s) /\ u[n] = s[n]
        \/ n > Len(s) /\ n - Len(s) \in 1 .. Len(t) /\ u[n] = t[n - Len(s)]
  BY <1>1, <1>2
<1>4. /\ \A n \in 1 .. Len(s) : n \in 1 .. Len(u) /\ u[n] = s[n]
      /\ \A n \in 1 .. Len(t) : n + Len(s) \in 1 .. Len(u) /\ u[n + Len(s)] = t[n]
  <2>1. \A n \in 1 .. Len(s) : n \in 1 .. Len(s) + Len(t) /\ n <= Len(s)
    BY <1>2
  <2>2. \A n \in 1 .. Len(t) :
          n + Len(s) \in 1 .. Len(s) + Len(t) /\ ~(n + Len(s) <= Len(s)) /\ n + Len(s) - Len(s) = n
    BY <1>2
  <2> QED BY <1>1, <2>1, <2>2
<1>5. Members(s) \cup Members(t) = Members(u)
  <2>1. \A x \in Members(u) : x \in Members(s) \cup Members(t)
    BY <1>3 DEF Members
  <2>2. \A x \in Members(s) \cup Members(t) : x \in Members(u)
    BY <1>4 DEF Members
  <2> QED BY <2>1, <2>2
<1>6. ASSUME Distinct(s), Distinct(t), Members(s) \cap Members(t) = {},
             NEW m \in 1 .. Len(u), NEW n \in 1 .. Len(u), u[m] = u[n]
      PROVE  m = n
  <2>1. CASE m \in 1 .. Len(s) /\ u[m] = s[m] /\ n \in 1 .. Len(s) /\ u[n] = s[n]
    BY <1>6, <2>1 DEF Distinct
  <2>2. CASE /\ m - Len(s) \in 1 .. Len(t) /\ u[m] = t[m - Len(s)]
             /\ n - Len(s) \in 1 .. Len(t) /\ u[n] = t[n - Len(s)]
    <3>1. m - Len(s) = n - Len(s)
      BY <1>6, <2>2 DEF Distinct
    <3> QED BY <1>2, <3>1
  <2>3. \A x \in 1 .. Len(s), y \in 1 .. Len(t) : s[x] # t[y]
    BY <1>6 DEF Members
  <2> QED BY <1>3, <1>6, <2>1, <2>2, <2>3
<1> QED BY <1>5, <1>6 DEF u, Distinct

\* No table is copied twice.
LEMMA LoadOrderDistinct == Distinct(LoadOrder)
<1>1. \A k : Of(k) \in Seq(Kind) /\ Members(Of(k)) \subseteq {k} /\ Distinct(Of(k))
  <2> TAKE k
  <2>1. CASE k \in Kind
    <3>1. Of(k) = <<k>> /\ Len(<<k>>) = 1 /\ <<k>>[1] = k
      BY <2>1 DEF Of
    <3> QED BY <2>1, <3>1 DEF Members, Distinct
  <2>2. CASE k \notin Kind
    <3>1. Of(k) = <<>> /\ Len(<<>>) = 0
      BY <2>2 DEF Of
    <3> QED BY <3>1 DEF Members, Distinct
  <2> QED BY <2>1, <2>2
<1>2. \A s \in Seq(Kind) : \A k : k \notin Members(s) /\ Distinct(s) =>
        /\ s \o Of(k) \in Seq(Kind)
        /\ Members(s \o Of(k)) \subseteq Members(s) \cup {k}
        /\ Distinct(s \o Of(k))
  BY <1>1, ConcatMembers, ConcatProperties
<1> DEFINE a == Of("accounts")
           b == a \o Of("orders")
           c == b \o Of("trades")
           d == c \o Of("closed")
<1>3. a \in Seq(Kind) /\ Members(a) \subseteq {"accounts"} /\ Distinct(a)
  BY <1>1
<1>4. b \in Seq(Kind) /\ Members(b) \subseteq {"accounts", "orders"} /\ Distinct(b)
  <2> HIDE DEF a
  <2> QED BY <1>2, <1>3
<1>5. c \in Seq(Kind) /\ Members(c) \subseteq {"accounts", "orders", "trades"} /\ Distinct(c)
  <2> HIDE DEF b
  <2> QED BY <1>2, <1>4
<1>6. /\ d \in Seq(Kind) /\ Members(d) \subseteq {"accounts", "orders", "trades", "closed"}
      /\ Distinct(d)
  <2> HIDE DEF c
  <2> QED BY <1>2, <1>5
<1>7. Distinct(d \o Of("summary"))
  <2> HIDE DEF d
  <2> QED BY <1>2, <1>6
<1> QED BY <1>7 DEF LoadOrder

\* Every change the broker makes is subscribed to in the end.
LEMMA SubscribedToAll ==
  ASSUME NEW k \in Kind, NEW s \in Changes(k)
  PROVE  <<k, s>> \in Members(Subscriptions)
<1> DEFINE C == Seq(Kind \X Status)
<1>1. \A r : \A q \in Status : To(r, q) \in C /\ (r \in Kind => <<r, q>> \in Members(To(r, q)))
  <2> TAKE r
  <2> TAKE q \in Status
  <2>1. To(r, q) \in C
    <3>1. CASE r \in Kind
      <4>1. <<r, q>> \in Kind \X Status
        BY <3>1
      <4> QED BY <3>1, <4>1 DEF To
    <3>2. CASE r \notin Kind
      BY <3>2 DEF To
    <3> QED BY <3>1, <3>2
  <2>2. ASSUME r \in Kind  PROVE <<r, q>> \in Members(To(r, q))
    <3>1. To(r, q) = << <<r, q>> >> /\ Len(<< <<r, q>> >>) = 1 /\ << <<r, q>> >>[1] = <<r, q>>
      BY <2>2 DEF To
    <3> QED BY <3>1 DEF Members
  <2> QED BY <2>1, <2>2
<1>2. \A u, v \in C : u \o v \in C /\ Members(u) \cup Members(v) = Members(u \o v)
  BY ConcatMembers, ConcatProperties
<1> HIDE DEF C
<1>3. "ADDED" \in Status /\ "CHANGED" \in Status /\ "DELETED" \in Status
  BY DEF Status
<1>4. \A r : ToAll(r) \in C /\ (r \in Kind => \A q \in Status : <<r, q>> \in Members(ToAll(r)))
  <2> TAKE r
  <2>1. /\ To(r, "ADDED") \in C /\ To(r, "CHANGED") \in C /\ To(r, "DELETED") \in C
    BY <1>1, <1>3
  <2>2. /\ ToAll(r) \in C
        /\ Members(ToAll(r)) =
             Members(To(r, "ADDED")) \cup Members(To(r, "CHANGED")) \cup Members(To(r, "DELETED"))
    BY <1>2, <2>1 DEF ToAll
  <2>3. ASSUME r \in Kind, NEW q \in Status  PROVE <<r, q>> \in Members(ToAll(r))
    BY <1>1, <2>2, <2>3 DEF Status
  <2> QED BY <2>2, <2>3
<1> DEFINE A == To("accounts", "CHANGED")
           O == ToAll("orders")
           T == ToAll("trades")
           X == To("closed", "ADDED")
           U == ToAll("summary")
<1>5. A \in C /\ O \in C /\ T \in C /\ X \in C /\ U \in C
  BY <1>1, <1>3, <1>4
<1>6. Members(Subscriptions) = Members(A) \cup Members(O) \cup Members(T) \cup Members(X) \cup Members(U)
  <2>1. Subscriptions = A \o O \o T \o X \o U
    BY DEF Subscriptions
  <2> HIDE DEF A, O, T, X, U
  <2>2. A \o O \in C /\ Members(A \o O) = Members(A) \cup Members(O)
    BY <1>2, <1>5
  <2>3. A \o O \o T \in C /\ Members(A \o O \o T) = Members(A \o O) \cup Members(T)
    BY <1>2, <1>5, <2>2
  <2>4. /\ A \o O \o T \o X \in C
        /\ Members(A \o O \o T \o X) = Members(A \o O \o T) \cup Members(X)
    BY <1>2, <1>5, <2>3
  <2>5. Members(A \o O \o T \o X \o U) = Members(A \o O \o T \o X) \cup Members(U)
    BY <1>2, <1>5, <2>4
  <2> QED BY <2>1, <2>2, <2>3, <2>4, <2>5
<1>7. CASE k = "accounts"
  <2>1. s = "CHANGED"
    BY <1>7 DEF Changes
  <2> QED BY <1>1, <1>3, <1>6, <1>7, <2>1
<1>8. CASE k = "closed"
  <2>1. s = "ADDED"
    BY <1>8 DEF Changes
  <2> QED BY <1>1, <1>3, <1>6, <1>8, <2>1
<1>9. CASE k \in {"orders", "trades", "summary"}
  <2>1. s \in Status
    BY <1>9 DEF Changes
  <2> QED BY <1>4, <1>6, <1>9, <2>1
<1> QED BY <1>7, <1>8, <1>9, KindAssumption DEF AllKinds

-----------------------------------------------------------------------------
(* The copy: no row is read twice, and while tables are read nothing but   *)
(* the copy knows of rows, for all subscriptions are still to be made.     *)

CopyInv ==
  /\ \A k \in Kind, i \in Id : OnceOf(loaded[k], i)
  /\ \A n \in 1 .. Len(chan) : chan[n].status \in Changes(chan[n].kind)
  /\ \A k \in Kind, i \in Id : broker[k][i].live => broker[k][i].ver # 0
  /\ \A k \in Kind, i \in Id : ~WasRead(k, i) => ~Holds(loaded[k], i)
  /\ Distinct(toRead)
  /\ toRead # <<>> => chan = <<>> /\ data = [k \in Kind |-> <<>>] /\ calls = Subscriptions

\* An empty list holds nothing.
LEMMA EmptyHoldsNothing == \A i : ~Holds(<<>>, i) /\ OnceOf(<<>>, i)
<1>1. DOMAIN <<>> = {}
  OBVIOUS
<1> QED BY <1>1, HoldsAt DEF OnceOf

\* What an event put at the end of the queue or taken from its front leaves.
LEMMA QueueEnds ==
  ASSUME TypeOK
  PROVE  /\ \A e \in Event :
              chan' = Append(chan, e) =>
                /\ Len(chan') = Len(chan) + 1
                /\ \A n \in 1 .. Len(chan) : chan'[n] = chan[n]
                /\ chan'[Len(chan) + 1] = e
         /\ chan # <<>> /\ chan' = Tail(chan) =>
              /\ Len(chan') = Len(chan) - 1 /\ Len(chan) >= 1
              /\ Head(chan) = chan[1]
              /\ \A n \in 1 .. Len(chan) - 1 : chan'[n] = chan[n + 1]
<1>1. chan \in Seq(Event)
  BY DEF TypeOK
<1> QED BY <1>1, AppendProperties, HeadTailProperties

\* The event a change of the broker becomes, if it becomes one.
LEMMA BrokerStep ==
  ASSUME TypeInv, NEW k \in Kind, NEW i \in Id,
         BrokerAdds(k, i) \/ BrokerChanges(k, i) \/ BrokerDeletes(k, i)
  PROVE  \E s \in Changes(k), v \in Nat :
           /\ Notify(k, i, s, v)
           /\ s \in Status
           /\ s = "ADDED" => BrokerAdds(k, i)
           /\ s = "CHANGED" => BrokerChanges(k, i)
           /\ s = "DELETED" => BrokerDeletes(k, i)
<1>1. broker[k][i] \in [ver : Nat, live : BOOLEAN]
  BY DEF TypeInv, TypeOK
<1>2. broker[k][i].ver \in Nat /\ broker[k][i].ver + 1 \in Nat
  BY <1>1
<1>3. CASE BrokerAdds(k, i)
  BY <1>2, <1>3 DEF BrokerAdds, Status
<1>4. CASE BrokerChanges(k, i)
  BY <1>2, <1>4 DEF BrokerChanges, Status
<1>5. CASE BrokerDeletes(k, i)
  BY <1>2, <1>5 DEF BrokerDeletes, Status
<1> QED BY <1>3, <1>4, <1>5

\* How the row changes.
LEMMA BrokerRow ==
  ASSUME TypeInv, NEW k \in Kind, NEW i \in Id,
         BrokerAdds(k, i) \/ BrokerChanges(k, i) \/ BrokerDeletes(k, i)
  PROVE  /\ \A r \in Kind, j \in Id : <<r, j>> # <<k, i>> => broker'[r][j] = broker[r][j]
         /\ BrokerAdds(k, i) => broker'[k][i].live /\ broker'[k][i].ver # 0
         /\ BrokerChanges(k, i) \/ BrokerDeletes(k, i) => broker[k][i].live
         /\ BrokerChanges(k, i) => broker'[k][i].live /\ broker'[k][i].ver # 0
         /\ BrokerDeletes(k, i) => ~broker'[k][i].live /\ broker'[k][i].ver = broker[k][i].ver
<1>1. /\ broker \in [Kind -> [Id -> [ver : Nat, live : BOOLEAN]]]
      /\ broker[k] \in [Id -> [ver : Nat, live : BOOLEAN]]
      /\ broker[k][i] \in [ver : Nat, live : BOOLEAN]
  BY DEF TypeInv, TypeOK
<1>2. broker[k][i].ver + 1 # 0
  BY <1>1
<1>3. CASE BrokerAdds(k, i)
  <2>1. broker' = [broker EXCEPT ![k][i] = [ver |-> broker[k][i].ver + 1, live |-> TRUE]]
    BY <1>3 DEF BrokerAdds
  <2>2. broker[k][i].live = FALSE
    BY <1>1, <1>3 DEF BrokerAdds
  <2> QED BY <1>1, <1>2, <2>1, <2>2 DEF BrokerChanges, BrokerDeletes
<1>4. CASE BrokerChanges(k, i)
  <2>1. broker' = [broker EXCEPT ![k][i].ver = @ + 1] /\ broker[k][i].live
    BY <1>4 DEF BrokerChanges
  <2>2. ~BrokerAdds(k, i)
    BY <2>1 DEF BrokerAdds
  <2>3. broker'[k][i].ver = broker[k][i].ver + 1 /\ broker'[k][i].live = broker[k][i].live
    BY <1>1, <2>1
  <2>4. ~BrokerDeletes(k, i)
    <3>1. BrokerDeletes(k, i) => broker'[k][i].ver = broker[k][i].ver
      BY <1>1 DEF BrokerDeletes
    <3> QED BY <1>1, <2>3, <3>1
  <2> QED BY <1>1, <1>2, <2>1, <2>2, <2>3, <2>4
<1>5. CASE BrokerDeletes(k, i)
  <2>1. broker' = [broker EXCEPT ![k][i].live = FALSE] /\ broker[k][i].live
    BY <1>5 DEF BrokerDeletes
  <2>2. ~BrokerAdds(k, i)
    BY <2>1 DEF BrokerAdds
  <2>3. broker'[k][i].ver = broker[k][i].ver /\ broker'[k][i].live = FALSE
    BY <1>1, <2>1
  <2>4. ~BrokerChanges(k, i)
    <3>1. BrokerChanges(k, i) => broker'[k][i].ver = broker[k][i].ver + 1
      BY <1>1 DEF BrokerChanges
    <3> QED BY <1>1, <2>3, <3>1
  <2> QED BY <1>1, <2>1, <2>2, <2>3, <2>4
<1> QED BY <1>3, <1>4, <1>5

\* The copy at the start.
LEMMA CopyInit ==
  ASSUME Init
  PROVE  CopyInv
<1>1. \A k \in Kind, i \in Id : OnceOf(loaded[k], i) /\ ~Holds(loaded[k], i)
  BY EmptyHoldsNothing DEF Init
<1>2. Len(chan) = 0
  BY DEF Init
<1>3. \A k \in Kind, i \in Id : broker[k][i].live => broker[k][i].ver # 0
  <2> TAKE k \in Kind, i \in Id
  <2>1. broker[k] \in [Id -> {[ver |-> 0, live |-> FALSE], [ver |-> 1, live |-> TRUE]}]
    BY DEF Init
  <2>2. CASE broker[k][i] = [ver |-> 0, live |-> FALSE]
    BY <2>2
  <2>3. CASE broker[k][i] = [ver |-> 1, live |-> TRUE]
    BY <2>3
  <2> QED BY <2>1, <2>2, <2>3
<1>4. Distinct(toRead)
  BY LoadOrderDistinct DEF Init
<1> QED BY <1>1, <1>2, <1>3, <1>4 DEF CopyInv, Init

\* The broker's changes: while tables are read no event comes of them.
LEMMA CopyBroker ==
  ASSUME TypeInv, CopyInv, NEW k \in Kind, NEW i \in Id,
         BrokerAdds(k, i) \/ BrokerChanges(k, i) \/ BrokerDeletes(k, i)
  PROVE  CopyInv'
<1>1. PICK s \in Changes(k), v \in Nat : Notify(k, i, s, v) /\ s \in Status
  BY BrokerStep
<1>2. UNCHANGED <<toRead, unread, loaded, calls, data>>
  BY DEF BrokerAdds, BrokerChanges, BrokerDeletes, native, node
<1>3. \A n \in 1 .. Len(chan') : chan'[n].status \in Changes(chan'[n].kind)
  <2>1. CASE chan' = chan
    BY <2>1 DEF CopyInv
  <2>2. CASE ~Unsubscribed(k, s)
    <3> DEFINE e == [kind |-> k, status |-> s, row |-> [id |-> i, ver |-> v]]
    <3>1. e \in Event /\ e.kind = k /\ e.status = s
      BY <1>1 DEF Event, Element
    <3>2. chan' = Append(chan, e)
      BY <1>1, <2>2 DEF Notify
    <3> HIDE DEF e
    <3>3. /\ Len(chan') = Len(chan) + 1
          /\ \A n \in 1 .. Len(chan) : chan'[n] = chan[n]
          /\ chan'[Len(chan) + 1] = e
      BY <3>1, <3>2, QueueEnds DEF TypeInv
    <3>4. Len(chan) \in Nat
      BY DEF TypeInv, TypeOK
    <3> QED BY <3>1, <3>3, <3>4 DEF CopyInv
  <2> QED BY <1>1, <2>1, <2>2 DEF Notify
<1>4. \A r \in Kind, j \in Id : broker'[r][j].live => broker'[r][j].ver # 0
  <2> TAKE r \in Kind, j \in Id
  <2>1. CASE <<r, j>> # <<k, i>>
    BY <2>1, BrokerRow DEF CopyInv
  <2>2. CASE r = k /\ j = i
    BY <2>2, BrokerRow
  <2> QED BY <2>1, <2>2
<1>5. toRead' # <<>> => chan' = <<>> /\ data' = [r \in Kind |-> <<>>] /\ calls' = Subscriptions
  <2> SUFFICES ASSUME toRead # <<>>
               PROVE  chan' = <<>> /\ data' = [r \in Kind |-> <<>>] /\ calls' = Subscriptions
    BY <1>2
  <2>1. chan = <<>> /\ data = [r \in Kind |-> <<>>] /\ calls = Subscriptions
    BY DEF CopyInv
  <2>2. Unsubscribed(k, s)
    BY <2>1, SubscribedToAll DEF Unsubscribed, Members
  <2> QED BY <1>1, <1>2, <2>1, <2>2 DEF Notify
<1> QED BY <1>2, <1>3, <1>4, <1>5 DEF CopyInv, WasRead

\* The row that is read next is not in the copy, and it will not be read again.
LEMMA CopyReads ==
  ASSUME TypeInv, CopyInv, NEW i \in Id, ReadRow(i)
  PROVE  CopyInv'
<1> DEFINE k == Head(toRead)
           row == [id |-> i, ver |-> broker[k][i].ver]
<1>1. toRead # <<>> /\ toRead \in Seq(Kind) /\ loaded \in [Kind -> Seq(Element)] /\ i \in unread
  BY DEF ReadRow, TypeInv, TypeOK
<1>2. k \in Kind /\ k = toRead[1] /\ Len(toRead) \in Nat /\ 1 \in 1 .. Len(toRead)
  BY <1>1, HeadTailProperties, EmptySeq
<1>3. ~Holds(loaded[k], i)
  BY <1>1, <1>2 DEF CopyInv, WasRead
<1>4. row \in Element
  BY <1>2 DEF TypeInv, TypeOK, Element
<1>5. /\ \A r \in Kind : r # k => loaded'[r] = loaded[r]
      /\ loaded'[k] = loaded[k] \/ loaded'[k] = Append(loaded[k], row)
  BY <1>1, <1>2 DEF ReadRow
<1>6. UNCHANGED <<broker, toRead, calls, chan, data>> /\ unread' = unread \ {i}
  BY DEF ReadRow, node
<1>7. row.id = i
  OBVIOUS
<1> HIDE DEF k, row
<1>8. \A r \in Kind, j \in Id :
        /\ OnceOf(loaded'[r], j)
        /\ Holds(loaded'[r], j) => Holds(loaded[r], j) \/ (r = k /\ j = i)
  <2> TAKE r \in Kind, j \in Id
  <2>1. OnceOf(loaded[r], j)
    BY DEF CopyInv
  <2>2. CASE loaded'[r] = loaded[r]
    BY <2>1, <2>2
  <2>3. CASE r = k /\ loaded'[k] = Append(loaded[k], row)
    BY <1>1, <1>2, <1>3, <1>4, <1>7, <2>1, <2>3, AppendRow
  <2> QED BY <1>5, <2>2, <2>3
<1>9. \A r \in Kind, j \in Id : ~WasRead(r, j)' => ~Holds(loaded[r], j) /\ ~(r = k /\ j = i)
  <2> SUFFICES ASSUME NEW r \in Kind, NEW j \in Id, ~WasRead(r, j)'
               PROVE  ~Holds(loaded[r], j) /\ ~(r = k /\ j = i)
    OBVIOUS
  <2>1. PICK n \in 1 .. Len(toRead) : toRead[n] = r /\ (n = 1 => j \in unread \ {i})
    BY <1>6 DEF WasRead
  <2>2. ~WasRead(r, j)
    BY <2>1 DEF WasRead
  <2>3. r = k => n = 1
    BY <1>2, <2>1 DEF CopyInv, Distinct
  <2> QED BY <2>1, <2>2, <2>3 DEF CopyInv
<1> QED BY <1>6, <1>8, <1>9 DEF CopyInv

\* The next table.
LEMMA CopyNextTable ==
  ASSUME TypeInv, CopyInv, TableRead
  PROVE  CopyInv'
<1>1. toRead # <<>> /\ toRead \in Seq(Kind) /\ toRead' = Tail(toRead)
  BY DEF TableRead, TypeInv, TypeOK
<1>2. /\ Len(toRead) \in Nat /\ Len(toRead') = Len(toRead) - 1
      /\ \A n \in 1 .. Len(toRead) - 1 : toRead'[n] = toRead[n + 1]
  BY <1>1, HeadTailProperties
<1>3. UNCHANGED <<broker, loaded, calls, chan, data>> /\ unread' = Id
  BY DEF TableRead, node
<1>4. Distinct(toRead')
  BY <1>2 DEF CopyInv, Distinct
<1>5. \A r \in Kind, j \in Id : ~WasRead(r, j)' => ~WasRead(r, j)
  <2> SUFFICES ASSUME NEW r \in Kind, NEW j \in Id, ~WasRead(r, j)'  PROVE ~WasRead(r, j)
    OBVIOUS
  <2>1. PICK n \in 1 .. Len(toRead') : toRead'[n] = r
    BY DEF WasRead
  <2>2. n + 1 \in 1 .. Len(toRead) /\ toRead[n + 1] = r /\ n + 1 # 1
    BY <1>2, <2>1
  <2> QED BY <2>2 DEF WasRead
<1> QED BY <1>1, <1>3, <1>4, <1>5 DEF CopyInv

\* What happens when nothing is left to read.
LEMMA CopyLater ==
  ASSUME TypeInv, CopyInv,
         UNCHANGED <<broker, toRead, unread, loaded>>,
         toRead = <<>> \/ UNCHANGED <<calls, chan, data>>,
         chan' = chan \/ (chan # <<>> /\ chan' = Tail(chan))
  PROVE  CopyInv'
<1>1. \A n \in 1 .. Len(chan') : chan'[n].status \in Changes(chan'[n].kind)
  <2>1. CASE chan' = chan
    BY <2>1 DEF CopyInv
  <2>2. CASE chan # <<>> /\ chan' = Tail(chan)
    <3>1. /\ Len(chan') = Len(chan) - 1 /\ Len(chan) \in Nat
          /\ \A n \in 1 .. Len(chan) - 1 : chan'[n] = chan[n + 1]
      BY <2>2, QueueEnds DEF TypeInv, TypeOK
    <3>2. \A n \in 1 .. Len(chan) - 1 : n + 1 \in 1 .. Len(chan)
      BY <3>1
    <3> QED BY <3>1, <3>2 DEF CopyInv
  <2> QED BY <2>1, <2>2
<1> QED BY <1>1 DEF CopyInv, WasRead

\* The next state.
LEMMA CopyNext ==
  ASSUME TypeInv, CopyInv, [Next]_vars
  PROVE  CopyInv'
<1>1. ASSUME NEW k \in Kind, NEW i \in Id,
             BrokerAdds(k, i) \/ BrokerChanges(k, i) \/ BrokerDeletes(k, i)
      PROVE  CopyInv'
  BY <1>1, CopyBroker
<1>2. CASE \E i \in Id : ReadRow(i)
  BY <1>2, CopyReads
<1>3. CASE TableRead
  BY <1>3, CopyNextTable
<1>4. CASE Subscribe
  BY <1>4, CopyLater DEF Subscribe, node
<1>5. CASE PumpStart \/ PumpEnd
  BY <1>5, CopyLater DEF PumpStart, PumpEnd, native
<1>6. CASE handleEvent
  <2>1. toRead = <<>> /\ chan # <<>> /\ chan' = Tail(chan)
    BY <1>6 DEF handleEvent, CopyInv
  <2> QED BY <1>6, <2>1, CopyLater DEF handleEvent, native
<1>7. CASE ShowSnapshot
  BY <1>7, CopyLater DEF ShowSnapshot, native
<1>8. CASE Database
  BY <1>8, CopyLater DEF Database, RunStatement, native
<1>9. CASE UNCHANGED vars
  BY <1>9, CopyLater DEF vars, native, node
<1> QED BY <1>1, <1>2, <1>3, <1>4, <1>5, <1>6, <1>7, <1>8, <1>9 DEF Next

-----------------------------------------------------------------------------
(* The queue and the handlers, row by row.                                 *)

About(n, k, i, s) == chan[n].kind = k /\ chan[n].row.id = i /\ chan[n].status = s

\* The change of a row adds at most an event about that row.
LEMMA NotifyAbout ==
  ASSUME TypeInv, NEW k \in Kind, NEW i \in Id, NEW s \in Status, NEW v \in Nat,
         Notify(k, i, s, v)
  PROVE  /\ Len(chan) \in Nat /\ Len(chan') \in {Len(chan), Len(chan) + 1}
         /\ \A n \in 1 .. Len(chan) : \A r, j, q : About(n, r, j, q)' <=> About(n, r, j, q)
         /\ \A n \in 1 .. Len(chan') : n > Len(chan) =>
              \A r, j, q : About(n, r, j, q)' <=> r = k /\ j = i /\ q = s
         /\ Len(chan') = Len(chan) => Unsubscribed(k, s)
<1> DEFINE e == [kind |-> k, status |-> s, row |-> [id |-> i, ver |-> v]]
<1>1. Len(chan) \in Nat
  BY DEF TypeInv, TypeOK
<1>2. CASE Unsubscribed(k, s)
  BY <1>1, <1>2 DEF Notify, About
<1>3. CASE ~Unsubscribed(k, s)
  <2>1. e \in Event /\ e.kind = k /\ e.status = s /\ e.row.id = i
    BY DEF Event, Element
  <2>2. chan' = Append(chan, e)
    BY <1>3 DEF Notify
  <2> HIDE DEF e
  <2>3. /\ Len(chan') = Len(chan) + 1
        /\ \A n \in 1 .. Len(chan) : chan'[n] = chan[n]
        /\ chan'[Len(chan) + 1] = e
    BY <2>1, <2>2, QueueEnds DEF TypeInv
  <2>4. \A n \in 1 .. Len(chan) : \A r, j, q : About(n, r, j, q)' <=> About(n, r, j, q)
    BY <2>3 DEF About
  <2>5. \A n \in 1 .. Len(chan') : n > Len(chan) =>
          \A r, j, q : About(n, r, j, q)' <=> r = k /\ j = i /\ q = s
    <3>1. \A n \in 1 .. Len(chan') : n > Len(chan) => n = Len(chan) + 1
      BY <1>1, <2>3
    <3> QED BY <2>1, <2>3, <3>1 DEF About
  <2>6. Len(chan') # Len(chan)
    BY <1>1, <2>3
  <2> QED BY <1>1, <2>3, <2>4, <2>5, <2>6
<1> QED BY <1>2, <1>3

\* The handling of an event takes the first event off.
LEMMA TailAbout ==
  ASSUME TypeInv, handleEvent
  PROVE  /\ Len(chan) \in Nat /\ Len(chan) >= 1 /\ Len(chan') = Len(chan) - 1
         /\ \A n \in 1 .. Len(chan) - 1 : \A r, j, q : About(n, r, j, q)' <=> About(n + 1, r, j, q)
         /\ Head(chan) = chan[1]
<1>1. chan # <<>> /\ chan' = Tail(chan)
  BY DEF handleEvent
<1>2. /\ Len(chan') = Len(chan) - 1 /\ Len(chan) >= 1
      /\ Head(chan) = chan[1]
      /\ \A n \in 1 .. Len(chan) - 1 : chan'[n] = chan[n + 1]
  BY <1>1, QueueEnds DEF TypeInv
<1>3. Len(chan) \in Nat
  BY DEF TypeInv, TypeOK
<1> QED BY <1>2, <1>3 DEF About

\* What the handlers do to the lists.
LEMMA HandlerLists ==
  ASSUME TypeInv, CopyInv, handleEvent
  PROVE  LET e == Head(chan) IN
         /\ e.kind \in Kind /\ e.row \in Element
         /\ \A r \in Kind : r # e.kind => data'[r] = data[r]
         /\ e.status = "ADDED" => data'[e.kind] = Append(data[e.kind], e.row)
         /\ e.status # "ADDED" =>
              data'[e.kind] \in {data[e.kind], Update(data[e.kind], e.row),
                                Delete(data[e.kind], e.row.id)}
         /\ e.kind = "summary" /\ e.status = "DELETED" =>
              data'[e.kind] = Delete(data[e.kind], e.row.id)
<1> DEFINE e == Head(chan)
<1>1. /\ e = chan[1] /\ 1 \in 1 .. Len(chan)
  BY TailAbout
<1>2. /\ e \in Event /\ data \in [Kind -> Seq(Element)]
  BY DEF TypeInv, TypeOK, handleEvent
<1>3. \/ e.kind = "accounts" /\ onAccount(e)
      \/ e.kind = "orders" /\ onOrder(e)
      \/ e.kind = "trades" /\ onTrade(e)
      \/ e.kind = "closed" /\ onClosedTrade(e)
      \/ e.kind = "summary" /\ onSummary(e)
  BY DEF handleEvent
<1>4. e.status \in Changes(e.kind)
  BY <1>1 DEF CopyInv
<1> HIDE DEF e
<1>5. e.kind \in Kind /\ e.status \in Status /\ e.row \in Element
  BY <1>2 DEF Event
<1>6. CASE e.kind = "accounts" /\ onAccount(e)
  <2>1. e.status = "CHANGED"
    BY <1>4, <1>6 DEF Changes
  <2> QED BY <1>2, <1>5, <1>6, <2>1 DEF onAccount, e
<1>7. CASE e.kind = "orders" /\ onOrder(e)
  BY <1>2, <1>5, <1>7 DEF onOrder, e
<1>8. CASE e.kind = "trades" /\ onTrade(e)
  BY <1>2, <1>5, <1>8 DEF onTrade, e
<1>9. CASE e.kind = "closed" /\ onClosedTrade(e)
  <2>1. e.status = "ADDED"
    BY <1>4, <1>9 DEF Changes
  <2> QED BY <1>2, <1>5, <1>9, <2>1 DEF onClosedTrade, e
<1>10. CASE e.kind = "summary" /\ onSummary(e)
  BY <1>2, <1>5, <1>10 DEF onSummary, e, Status
<1> QED BY <1>3, <1>6, <1>7, <1>8, <1>9, <1>10 DEF e

\* What they do to one row.
LEMMA HandlerRow ==
  ASSUME TypeInv, CopyInv, handleEvent, NEW r \in Kind, NEW j \in Id,
         OnceOf(data[r], j),
         About(1, r, j, "ADDED") => ~Holds(data[r], j)
  PROVE  /\ OnceOf(data'[r], j)
         /\ Holds(data'[r], j) => Holds(data[r], j) \/ About(1, r, j, "ADDED")
         /\ r = "summary" /\ About(1, r, j, "DELETED") => ~Holds(data'[r], j)
<1> DEFINE e == Head(chan)
<1>1. /\ e.kind \in Kind /\ e.row \in Element
      /\ r # e.kind => data'[r] = data[r]
      /\ e.status = "ADDED" => data'[e.kind] = Append(data[e.kind], e.row)
      /\ e.status # "ADDED" =>
           data'[e.kind] \in {data[e.kind], Update(data[e.kind], e.row),
                             Delete(data[e.kind], e.row.id)}
      /\ e.kind = "summary" /\ e.status = "DELETED" =>
           data'[e.kind] = Delete(data[e.kind], e.row.id)
  BY HandlerLists
<1>2. \A q : About(1, r, j, q) <=> e.kind = r /\ e.row.id = j /\ e.status = q
  BY TailAbout DEF About
<1>3. data[r] \in Seq(Element)
  BY DEF TypeInv, TypeOK
<1> HIDE DEF e
<1>4. CASE r # e.kind
  BY <1>1, <1>2, <1>4
<1>5. CASE r = e.kind /\ e.status = "ADDED"
  <2>1. data'[r] = Append(data[r], e.row)
    BY <1>1, <1>5
  <2>2. About(1, r, j, "ADDED") <=> e.row.id = j
    BY <1>2, <1>5
  <2>3. ~About(1, r, j, "DELETED")
    BY <1>2, <1>5
  <2> QED BY <1>1, <1>3, <2>1, <2>2, <2>3, AppendRow
<1>6. CASE r = e.kind /\ e.status # "ADDED"
  <2>1. CASE data'[r] = data[r] /\ ~(r = "summary" /\ e.status = "DELETED")
    BY <1>2, <2>1
  <2>2. CASE data'[r] = Update(data[r], e.row) /\ ~(r = "summary" /\ e.status = "DELETED")
    BY <1>1, <1>2, <1>3, <2>2, UpdateRow
  <2>3. CASE data'[r] = Delete(data[r], e.row.id)
    BY <1>1, <1>2, <1>3, <2>3, DeleteRow
  <2> QED BY <1>1, <1>6, <2>1, <2>2, <2>3
<1> QED BY <1>4, <1>5, <1>6

-----------------------------------------------------------------------------
(* Rows that are added once are in one place: the copy, the queue or the   *)
(* dataset.                                                                *)

Coming(k, i) == \E n \in 1 .. Len(chan) : About(n, k, i, "ADDED")

OnceInv(k, i) ==
  /\ OnceOf(data[k], i)
  /\ \A m, n \in 1 .. Len(chan) : About(m, k, i, "ADDED") /\ About(n, k, i, "ADDED") => m = n
  /\ broker[k][i].ver = 0 => ~Holds(loaded[k], i) /\ ~Holds(data[k], i) /\ ~Coming(k, i)
  /\ Holds(data[k], i) => ~Coming(k, i)
  /\ ~shown /\ Holds(loaded[k], i) => ~Holds(data[k], i) /\ ~Coming(k, i)

\* A row is read into the copy while nothing else knows of rows.
LEMMA ReadStep ==
  ASSUME TypeInv, CopyInv, NEW i \in Id, ReadRow(i), NEW r \in Kind, NEW j \in Id
  PROVE  /\ Holds(loaded'[r], j) => Holds(loaded[r], j) \/ broker[r][j].live
         /\ ~Holds(data[r], j) /\ OnceOf(data[r], j) /\ chan = <<>> /\ Len(chan) = 0
         /\ UNCHANGED <<broker, chan, data, shown, missed>>
<1> DEFINE k == Head(toRead)
           row == [id |-> i, ver |-> broker[k][i].ver]
<1>1. toRead # <<>> /\ toRead \in Seq(Kind) /\ loaded \in [Kind -> Seq(Element)]
  BY DEF ReadRow, TypeInv, TypeOK
<1>2. k \in Kind
  BY <1>1, HeadTailProperties
<1>3. row \in Element /\ row.id = i
  BY <1>2 DEF TypeInv, TypeOK, Element
<1>4. /\ r # k => loaded'[r] = loaded[r]
      /\ loaded'[k] = loaded[k] \/ (broker[k][i].live /\ loaded'[k] = Append(loaded[k], row))
  BY <1>1, <1>2 DEF ReadRow
<1> HIDE DEF k, row
<1>5. Holds(loaded'[r], j) => Holds(loaded[r], j) \/ broker[r][j].live
  <2>1. CASE loaded'[r] = loaded[r]
    BY <2>1
  <2>2. CASE r = k /\ broker[k][i].live /\ loaded'[k] = Append(loaded[k], row)
    <3>1. Holds(Append(loaded[k], row), j) => Holds(loaded[k], j) \/ row.id = j
      BY <1>1, <1>2, <1>3, AppendRow
    <3> QED BY <1>3, <2>2, <3>1
  <2> QED BY <1>4, <2>1, <2>2
<1>6. chan = <<>> /\ data = [q \in Kind |-> <<>>]
  BY <1>1 DEF CopyInv
<1>7. UNCHANGED <<broker, chan, data, shown, missed>>
  BY DEF ReadRow, node
<1> QED BY <1>5, <1>6, <1>7, EmptyHoldsNothing

\* The broker adds such a row once.
LEMMA OnceBroker ==
  ASSUME TypeInv, CopyInv, NEW k \in Kind, NEW i \in Id,
         BrokerAdds(k, i) \/ BrokerChanges(k, i) \/ BrokerDeletes(k, i),
         NEW r \in Kind, r # "summary", NEW j \in Id, OnceInv(r, j)
  PROVE  OnceInv(r, j)'
<1>1. PICK s \in Changes(k), v \in Nat :
        /\ Notify(k, i, s, v)
        /\ s \in Status
        /\ s = "ADDED" => BrokerAdds(k, i)
        /\ s = "CHANGED" => BrokerChanges(k, i)
        /\ s = "DELETED" => BrokerDeletes(k, i)
  BY BrokerStep
<1>2. UNCHANGED <<loaded, data, shown>>
  BY DEF BrokerAdds, BrokerChanges, BrokerDeletes, native, node
<1>3. /\ Len(chan) \in Nat /\ Len(chan') \in {Len(chan), Len(chan) + 1}
      /\ \A n \in 1 .. Len(chan) : About(n, r, j, "ADDED")' <=> About(n, r, j, "ADDED")
      /\ \A n \in 1 .. Len(chan') : n > Len(chan) =>
           (About(n, r, j, "ADDED")' <=> r = k /\ j = i /\ "ADDED" = s)
  BY <1>1, NotifyAbout
<1>4. CASE r = k /\ j = i /\ "ADDED" = s
  <2>1. broker[r][j].ver = 0 /\ broker'[r][j].ver # 0
    BY <1>1, <1>4, BrokerRow DEF BrokerAdds
  <2>2. ~Holds(loaded[r], j) /\ ~Holds(data[r], j) /\ ~Coming(r, j)
    BY <2>1 DEF OnceInv
  <2>3. \A n \in 1 .. Len(chan') : About(n, r, j, "ADDED")' => n = Len(chan) + 1
    BY <1>3, <2>2 DEF Coming
  <2> QED BY <1>2, <2>1, <2>2, <2>3 DEF OnceInv
<1>5. CASE ~(r = k /\ j = i /\ "ADDED" = s)
  <2>1. \A n \in 1 .. Len(chan') :
          About(n, r, j, "ADDED")' => n \in 1 .. Len(chan) /\ About(n, r, j, "ADDED")
    BY <1>3, <1>5
  <2>2. Coming(r, j)' => Coming(r, j)
    BY <2>1 DEF Coming
  <2>3. broker'[r][j].ver = 0 => broker[r][j].ver = 0
    <3>1. CASE r = k /\ j = i
      BY <1>1, <1>5, <3>1, BrokerRow DEF CopyInv, Status
    <3>2. CASE ~(r = k /\ j = i)
      BY <3>2, BrokerRow
    <3> QED BY <3>1, <3>2
  <2> QED BY <1>2, <2>1, <2>2, <2>3 DEF OnceInv
<1> QED BY <1>4, <1>5

\* The worker reads it before it is anywhere else.
LEMMA OnceRead ==
  ASSUME TypeInv, CopyInv, NEW i \in Id, ReadRow(i),
         NEW r \in Kind, NEW j \in Id, OnceInv(r, j)
  PROVE  OnceInv(r, j)'
<1>1. /\ Holds(loaded'[r], j) => Holds(loaded[r], j) \/ broker[r][j].live
      /\ ~Holds(data[r], j) /\ OnceOf(data[r], j) /\ Len(chan) = 0
      /\ UNCHANGED <<broker, chan, data, shown, missed>>
  BY ReadStep
<1>2. ~Coming(r, j)'
  BY <1>1 DEF Coming
<1> QED BY <1>1, <1>2 DEF OnceInv, CopyInv

\* The event that adds it is handled once.
LEMMA OnceHandle ==
  ASSUME TypeInv, CopyInv, handleEvent, NEW r \in Kind, NEW j \in Id, OnceInv(r, j)
  PROVE  OnceInv(r, j)'
<1>1. UNCHANGED <<broker, loaded, shown>>
  BY DEF handleEvent, native
<1>2. /\ Len(chan) \in Nat /\ Len(chan) >= 1 /\ Len(chan') = Len(chan) - 1
      /\ \A n \in 1 .. Len(chan) - 1 : About(n, r, j, "ADDED")' <=> About(n + 1, r, j, "ADDED")
  BY TailAbout
<1>3. 1 \in 1 .. Len(chan) /\ \A n \in 1 .. Len(chan') : n + 1 \in 1 .. Len(chan) /\ n + 1 # 1
  BY <1>2
<1>4. About(1, r, j, "ADDED") => Coming(r, j) /\ ~Coming(r, j)'
  BY <1>2, <1>3 DEF Coming, OnceInv
<1>5. Coming(r, j)' => Coming(r, j)
  BY <1>2, <1>3 DEF Coming
<1>6. /\ OnceOf(data'[r], j)
      /\ Holds(data'[r], j) => Holds(data[r], j) \/ About(1, r, j, "ADDED")
  BY <1>4, HandlerRow DEF OnceInv
<1>7. \A m, n \in 1 .. Len(chan') : About(m, r, j, "ADDED")' /\ About(n, r, j, "ADDED")' => m = n
  <2> TAKE m, n \in 1 .. Len(chan')
  <2>1. About(m, r, j, "ADDED")' /\ About(n, r, j, "ADDED")' => m + 1 = n + 1
    BY <1>2, <1>3 DEF OnceInv
  <2> QED BY <1>2, <2>1
<1> QED BY <1>1, <1>4, <1>5, <1>6, <1>7 DEF OnceInv

\* The copy is put behind the rows that came as events.
LEMMA OnceShow ==
  ASSUME TypeInv, CopyInv, ShowSnapshot, NEW r \in Kind, NEW j \in Id, OnceInv(r, j)
  PROVE  OnceInv(r, j)'
<1>1. UNCHANGED <<broker, loaded, chan>> /\ ~shown /\ shown'
  BY DEF ShowSnapshot, native
<1>2. data'[r] = data[r] \o loaded[r]
  BY DEF ShowSnapshot, Snapshot
<1>3. data[r] \in Seq(Element) /\ loaded[r] \in Seq(Element)
  BY DEF TypeInv, TypeOK
<1>4. /\ Holds(data'[r], j) <=> Holds(data[r], j) \/ Holds(loaded[r], j)
      /\ OnceOf(data'[r], j)
  BY <1>1, <1>2, <1>3, BothRows DEF OnceInv, CopyInv
<1>5. Coming(r, j)' <=> Coming(r, j)
  BY <1>1 DEF Coming, About
<1>6. \A n : About(n, r, j, "ADDED")' <=> About(n, r, j, "ADDED")
  BY <1>1 DEF About
<1> QED BY <1>1, <1>4, <1>5, <1>6 DEF OnceInv

-----------------------------------------------------------------------------
(* Rows of the summary come and go: between two additions there is a       *)
(* deletion, as long as no change of the row was missed.                   *)

Present(k, i) == Holds(data[k], i) \/ (~shown /\ Holds(loaded[k], i))

TurnInv(k, i) ==
  /\ OnceOf(data[k], i)
  /\ ~shown => ~(Holds(data[k], i) /\ Holds(loaded[k], i))
  /\ \A m, n \in 1 .. Len(chan) :
       m < n /\ About(m, k, i, "ADDED") /\ About(n, k, i, "ADDED") =>
         \E l \in 1 .. Len(chan) : m < l /\ l < n /\ About(l, k, i, "DELETED")
  /\ \A n \in 1 .. Len(chan) :
       About(n, k, i, "ADDED") /\ Present(k, i) =>
         \E l \in 1 .. Len(chan) : l < n /\ About(l, k, i, "DELETED")
  /\ \A n \in 1 .. Len(chan) :
       About(n, k, i, "ADDED") /\ ~broker[k][i].live =>
         \E l \in 1 .. Len(chan) : n < l /\ About(l, k, i, "DELETED")
  /\ Present(k, i) /\ ~broker[k][i].live =>
       \E l \in 1 .. Len(chan) : About(l, k, i, "DELETED")

\* A row that comes nowhere as an event and is not shown.
LEMMA TurnNothing ==
  ASSUME NEW k, NEW i, OnceOf(data[k], i), ~Present(k, i), Len(chan) = 0
  PROVE  TurnInv(k, i)
<1>1. 1 .. Len(chan) = {}
  OBVIOUS
<1>2. ~shown => ~(Holds(data[k], i) /\ Holds(loaded[k], i))
  BY DEF Present
<1> QED BY <1>1, <1>2 DEF TurnInv

\* The broker adds and deletes a row in turn.
LEMMA TurnBroker ==
  ASSUME TypeInv, CopyInv, NEW k \in Kind, NEW i \in Id,
         BrokerAdds(k, i) \/ BrokerChanges(k, i) \/ BrokerDeletes(k, i),
         NEW r \in Kind, NEW j \in Id, <<r, j>> \notin missed', TurnInv(r, j)
  PROVE  TurnInv(r, j)'
<1>1. PICK s \in Changes(k), v \in Nat :
        /\ Notify(k, i, s, v)
        /\ s \in Status
        /\ s = "ADDED" => BrokerAdds(k, i)
        /\ s = "CHANGED" => BrokerChanges(k, i)
        /\ s = "DELETED" => BrokerDeletes(k, i)
  BY BrokerStep
<1>2. UNCHANGED <<toRead, unread, loaded, calls, data, shown>>
  BY DEF BrokerAdds, BrokerChanges, BrokerDeletes, native, node
<1>3. /\ Len(chan) \in Nat /\ Len(chan') \in {Len(chan), Len(chan) + 1}
      /\ \A n \in 1 .. Len(chan) : \A q : About(n, r, j, q)' <=> About(n, r, j, q)
      /\ \A n \in 1 .. Len(chan') : n > Len(chan) =>
           \A q : About(n, r, j, q)' <=> r = k /\ j = i /\ q = s
      /\ Len(chan') = Len(chan) => Unsubscribed(k, s)
  BY <1>1, NotifyAbout
<1>4. \A n \in 1 .. Len(chan) : n \in 1 .. Len(chan')
  BY <1>3
<1>5. \A n \in 1 .. Len(chan') : n \in 1 .. Len(chan) \/ (n > Len(chan) /\ n = Len(chan'))
  BY <1>3
<1>6. Present(r, j)' <=> Present(r, j)
  BY <1>2 DEF Present
<1>7. CASE ~(r = k /\ j = i /\ s \in {"ADDED", "DELETED"})
  <2>1. broker'[r][j].live = broker[r][j].live
    <3>1. CASE r = k /\ j = i
      <4>1. s = "CHANGED"
        BY <1>1, <1>7, <3>1 DEF Status
      <4>2. broker' = [broker EXCEPT ![k][i].ver = @ + 1]
        BY <1>1, <4>1 DEF BrokerChanges
      <4> QED BY <3>1, <4>2 DEF TypeInv, TypeOK
    <3>2. CASE ~(r = k /\ j = i)
      BY <3>2, BrokerRow
    <3> QED BY <3>1, <3>2
  <2>2. \A n \in 1 .. Len(chan') : About(n, r, j, "ADDED")' =>
          n \in 1 .. Len(chan) /\ About(n, r, j, "ADDED")
    BY <1>3, <1>5, <1>7
  <2>3. \A n \in 1 .. Len(chan) : About(n, r, j, "DELETED") =>
          n \in 1 .. Len(chan') /\ About(n, r, j, "DELETED")'
    BY <1>3, <1>4
  <2> QED BY <1>2, <1>6, <2>1, <2>2, <2>3 DEF TurnInv
<1>8. CASE r = k /\ j = i /\ s = "ADDED"
  <2>1. ~broker[r][j].live /\ broker'[r][j].live
    BY <1>1, <1>8, BrokerRow DEF BrokerAdds
  <2>2. \A n \in 1 .. Len(chan) : About(n, r, j, "DELETED") =>
          n \in 1 .. Len(chan') /\ About(n, r, j, "DELETED")'
    BY <1>3, <1>4
  <2>3. ASSUME NEW m \in 1 .. Len(chan'), NEW n \in 1 .. Len(chan'), m < n,
               About(m, r, j, "ADDED")', About(n, r, j, "ADDED")'
        PROVE  \E l \in 1 .. Len(chan') : m < l /\ l < n /\ About(l, r, j, "DELETED")'
    <3>1. m \in 1 .. Len(chan) /\ About(m, r, j, "ADDED")
      BY <1>3, <1>5, <2>3
    <3>2. CASE n \in 1 .. Len(chan)
      BY <1>3, <2>2, <2>3, <3>1, <3>2 DEF TurnInv
    <3>3. CASE n > Len(chan)
      <4>1. PICK l \in 1 .. Len(chan) : m < l /\ About(l, r, j, "DELETED")
        BY <2>1, <3>1 DEF TurnInv
      <4> QED BY <1>3, <2>2, <3>3, <4>1
    <3> QED BY <1>5, <3>2, <3>3
  <2>4. ASSUME NEW n \in 1 .. Len(chan'), About(n, r, j, "ADDED")', Present(r, j)
        PROVE  \E l \in 1 .. Len(chan') : l < n /\ About(l, r, j, "DELETED")'
    <3>1. CASE n \in 1 .. Len(chan)
      BY <1>3, <2>2, <2>4, <3>1 DEF TurnInv
    <3>2. CASE n > Len(chan)
      <4>1. PICK l \in 1 .. Len(chan) : About(l, r, j, "DELETED")
        BY <2>1, <2>4 DEF TurnInv
      <4> QED BY <1>3, <2>2, <3>2, <4>1
    <3> QED BY <1>5, <3>1, <3>2
  <2> QED BY <1>2, <1>6, <2>1, <2>3, <2>4 DEF TurnInv
<1>9. CASE r = k /\ j = i /\ s = "DELETED"
  <2>1. CASE Unsubscribed(k, s)
    <3>1. chan' = chan /\ ~WasRead(r, j)
      BY <1>1, <1>9, <2>1 DEF Notify
    <3>2. toRead # <<>> /\ ~Holds(loaded[r], j)
      <4>1. \E n \in 1 .. Len(toRead) : toRead[n] = r
        BY <3>1 DEF WasRead
      <4>2. Len(<<>>) = 0
        OBVIOUS
      <4> QED BY <3>1, <4>1, <4>2 DEF CopyInv
    <3>3. data[r] = <<>> /\ chan = <<>>
      BY <3>2 DEF CopyInv
    <3>4. (OnceOf(data[r], j) /\ ~Present(r, j) /\ Len(chan) = 0)'
      BY <1>2, <3>1, <3>2, <3>3, EmptyHoldsNothing DEF Present
    <3> QED BY <1>2, <3>4, TurnNothing DEF TurnInv, Present, About
  <2>2. CASE ~Unsubscribed(k, s)
    <3>1. Len(chan') = Len(chan) + 1
      BY <1>3, <2>2
    <3>2. Len(chan') \in 1 .. Len(chan')
      BY <1>3, <3>1
    <3>3. \A n \in 1 .. Len(chan') : n > Len(chan) => About(n, r, j, "DELETED")'
      BY <1>3, <1>9
    <3>4. \A n \in 1 .. Len(chan') : About(n, r, j, "ADDED")' =>
            n \in 1 .. Len(chan) /\ About(n, r, j, "ADDED")
      BY <1>3, <1>5, <1>9
    <3>5. \A n \in 1 .. Len(chan) : About(n, r, j, "DELETED") =>
            n \in 1 .. Len(chan') /\ About(n, r, j, "DELETED")'
      BY <1>3, <1>4
    <3>6. \A n \in 1 .. Len(chan) :
            \E l \in 1 .. Len(chan') : n < l /\ About(l, r, j, "DELETED")'
      BY <1>3, <3>1, <3>2, <3>3
    <3>7. \E l \in 1 .. Len(chan') : About(l, r, j, "DELETED")'
      BY <1>3, <3>1, <3>2, <3>3
    <3> QED BY <1>2, <1>6, <3>4, <3>5, <3>6, <3>7 DEF TurnInv
  <2> QED BY <2>1, <2>2
<1> QED BY <1>1, <1>7, <1>8, <1>9

\* The worker reads a row that is in no list and of which no event is in the queue.
LEMMA TurnRead ==
  ASSUME TypeInv, CopyInv, NEW i \in Id, ReadRow(i),
         NEW r \in Kind, NEW j \in Id, TurnInv(r, j)
  PROVE  TurnInv(r, j)'
<1>1. /\ Holds(loaded'[r], j) => Holds(loaded[r], j) \/ broker[r][j].live
      /\ ~Holds(data[r], j) /\ OnceOf(data[r], j) /\ Len(chan) = 0
      /\ UNCHANGED <<broker, chan, data, shown, missed>>
  BY ReadStep
<1>2. 1 .. Len(chan) = {}
  BY <1>1
<1>3. Present(r, j)' => Present(r, j) \/ broker[r][j].live
  BY <1>1 DEF Present
<1> QED BY <1>1, <1>2, <1>3 DEF TurnInv

\* The events are handled in turn.
LEMMA TurnHandle ==
  ASSUME TypeInv, CopyInv, handleEvent, "summary" \in Kind, NEW j \in Id,
         <<"summary", j>> \notin missed', TurnInv("summary", j)
  PROVE  TurnInv("summary", j)'
<1> DEFINE r == "summary"
<1>1. UNCHANGED <<broker, loaded, shown>>
  BY DEF handleEvent, native
<1>2. /\ Len(chan) \in Nat /\ Len(chan) >= 1 /\ Len(chan') = Len(chan) - 1
      /\ \A n \in 1 .. Len(chan) - 1 : \A q : About(n, r, j, q)' <=> About(n + 1, r, j, q)
  BY TailAbout
<1>3. 1 \in 1 .. Len(chan) /\ \A n \in 1 .. Len(chan') : n + 1 \in 1 .. Len(chan) /\ n + 1 > 1
  BY <1>2
<1>4. About(1, r, j, "ADDED") => ~Present(r, j)
  BY <1>3 DEF TurnInv
<1>5. /\ OnceOf(data'[r], j)
      /\ Holds(data'[r], j) => Holds(data[r], j) \/ About(1, r, j, "ADDED")
      /\ About(1, r, j, "DELETED") => ~Holds(data'[r], j)
  <2>1. About(1, r, j, "ADDED") => ~Holds(data[r], j)
    BY <1>4 DEF Present
  <2>2. OnceOf(data[r], j)
    BY DEF TurnInv
  <2> QED BY <2>1, <2>2, HandlerRow
<1>6. ~(About(1, r, j, "ADDED") /\ About(1, r, j, "DELETED"))
  BY DEF About
\* A deletion behind the first event is still there.
<1>7. \A l \in 1 .. Len(chan) : l > 1 /\ About(l, r, j, "DELETED") =>
        l - 1 \in 1 .. Len(chan') /\ About(l - 1, r, j, "DELETED")'
  <2> TAKE l \in 1 .. Len(chan)
  <2> HAVE l > 1 /\ About(l, r, j, "DELETED")
  <2>1. l - 1 \in 1 .. Len(chan) - 1 /\ l - 1 + 1 = l
    BY <1>2
  <2> QED BY <1>2, <2>1
<1>8. ASSUME NEW m \in 1 .. Len(chan'), NEW n \in 1 .. Len(chan'), m < n,
             About(m, r, j, "ADDED")', About(n, r, j, "ADDED")'
      PROVE  \E l \in 1 .. Len(chan') : m < l /\ l < n /\ About(l, r, j, "DELETED")'
  <2>1. PICK l \in 1 .. Len(chan) : m + 1 < l /\ l < n + 1 /\ About(l, r, j, "DELETED")
    BY <1>2, <1>3, <1>8 DEF TurnInv
  <2>2. l - 1 \in 1 .. Len(chan') /\ About(l - 1, r, j, "DELETED")'
    BY <1>2, <1>7, <2>1
  <2> QED BY <1>2, <2>1, <2>2
<1>9. ASSUME NEW n \in 1 .. Len(chan'), About(n, r, j, "ADDED")', ~broker'[r][j].live
      PROVE  \E l \in 1 .. Len(chan') : n < l /\ About(l, r, j, "DELETED")'
  <2>1. PICK l \in 1 .. Len(chan) : n + 1 < l /\ About(l, r, j, "DELETED")
    BY <1>1, <1>2, <1>3, <1>9 DEF TurnInv
  <2>2. l - 1 \in 1 .. Len(chan') /\ About(l - 1, r, j, "DELETED")'
    BY <1>2, <1>7, <2>1
  <2> QED BY <1>2, <2>1, <2>2
<1>10. CASE About(1, r, j, "ADDED")
  <2>1. ~shown => ~Holds(loaded[r], j)
    BY <1>4, <1>10 DEF Present
  <2>2. ASSUME NEW n \in 1 .. Len(chan'), About(n, r, j, "ADDED")'
        PROVE  \E l \in 1 .. Len(chan') : l < n /\ About(l, r, j, "DELETED")'
    <3>1. PICK l \in 1 .. Len(chan) : 1 < l /\ l < n + 1 /\ About(l, r, j, "DELETED")
      BY <1>2, <1>3, <1>10, <2>2 DEF TurnInv
    <3>2. l - 1 \in 1 .. Len(chan') /\ About(l - 1, r, j, "DELETED")'
      BY <1>2, <1>7, <3>1
    <3> QED BY <1>2, <3>1, <3>2
  <2>3. ASSUME ~broker'[r][j].live
        PROVE  \E l \in 1 .. Len(chan') : About(l, r, j, "DELETED")'
    <3>1. PICK l \in 1 .. Len(chan) : 1 < l /\ About(l, r, j, "DELETED")
      BY <1>1, <1>3, <1>10, <2>3 DEF TurnInv
    <3> QED BY <1>2, <1>7, <3>1
  <2> QED BY <1>1, <1>5, <1>8, <1>9, <2>1, <2>2, <2>3 DEF TurnInv
<1>11. CASE About(1, r, j, "DELETED")
  <2>1. ~Holds(data'[r], j)
    BY <1>5, <1>11
  <2>2. ~shown => ~Holds(loaded[r], j)
    <3>1. Head(chan).kind = r /\ Head(chan).row.id = j /\ Head(chan).status = "DELETED"
      BY <1>11, TailAbout DEF About
    <3>2. missed' = Forgotten(Head(chan))
      BY DEF handleEvent
    <3>3. ~shown => Holds(data[r], j)
      BY <3>1, <3>2 DEF Forgotten
    <3> QED BY <3>3 DEF TurnInv
  <2>3. ~Present(r, j)'
    BY <1>1, <2>1, <2>2 DEF Present
  <2> QED BY <1>1, <1>5, <1>8, <1>9, <2>1, <2>3 DEF TurnInv
<1>12. CASE ~About(1, r, j, "ADDED") /\ ~About(1, r, j, "DELETED")
  <2>1. Present(r, j)' => Present(r, j)
    BY <1>1, <1>5, <1>12 DEF Present
  <2>2. ASSUME NEW n \in 1 .. Len(chan'), About(n, r, j, "ADDED")', Present(r, j)
        PROVE  \E l \in 1 .. Len(chan') : l < n /\ About(l, r, j, "DELETED")'
    <3>1. PICK l \in 1 .. Len(chan) : l < n + 1 /\ About(l, r, j, "DELETED")
      BY <1>2, <1>3, <2>2 DEF TurnInv
    <3>2. l > 1
      BY <1>2, <1>12, <3>1
    <3>3. l - 1 \in 1 .. Len(chan') /\ About(l - 1, r, j, "DELETED")'
      BY <1>2, <1>7, <3>1, <3>2
    <3> QED BY <1>2, <3>1, <3>2, <3>3
  <2>3. ASSUME Present(r, j), ~broker'[r][j].live
        PROVE  \E l \in 1 .. Len(chan') : About(l, r, j, "DELETED")'
    <3>1. PICK l \in 1 .. Len(chan) : About(l, r, j, "DELETED")
      BY <1>1, <2>3 DEF TurnInv
    <3>2. l > 1
      BY <1>2, <1>12, <3>1
    <3> QED BY <1>2, <1>7, <3>1, <3>2
  <2>4. ~shown' => ~(Holds(data'[r], j) /\ Holds(loaded'[r], j))
    BY <1>1, <1>5, <1>12 DEF TurnInv
  <2> QED BY <1>5, <1>8, <1>9, <2>1, <2>2, <2>3, <2>4 DEF TurnInv
<1> QED BY <1>10, <1>11, <1>12

\* The copy is put behind the rows that came as events.
LEMMA TurnShow ==
  ASSUME TypeInv, CopyInv, ShowSnapshot, NEW r \in Kind, NEW j \in Id, TurnInv(r, j)
  PROVE  TurnInv(r, j)'
<1>1. UNCHANGED <<broker, chan>> /\ ~shown /\ shown'
  BY DEF ShowSnapshot, native
<1>2. data'[r] = data[r] \o loaded[r]
  BY DEF ShowSnapshot, Snapshot
<1>3. data[r] \in Seq(Element) /\ loaded[r] \in Seq(Element)
  BY DEF TypeInv, TypeOK
<1>4. /\ Holds(data'[r], j) <=> Holds(data[r], j) \/ Holds(loaded[r], j)
      /\ OnceOf(data'[r], j)
  BY <1>1, <1>2, <1>3, BothRows DEF TurnInv, CopyInv
<1>5. Present(r, j)' <=> Present(r, j)
  BY <1>1, <1>4 DEF Present
<1>6. \A n, q : About(n, r, j, q)' <=> About(n, r, j, q)
  BY <1>1 DEF About
<1> QED BY <1>1, <1>4, <1>5, <1>6 DEF TurnInv

-----------------------------------------------------------------------------
(* No row is shown twice.                                                  *)

RowInv(k, i) ==
  IF k = "summary" THEN <<k, i>> \notin missed => TurnInv(k, i) ELSE OnceInv(k, i)

RowsInv == TypeInv /\ CopyInv /\ \A k \in Kind, i \in Id : RowInv(k, i)

\* At the start a row is with the broker only.
LEMMA RowsInit ==
  ASSUME Init
  PROVE  RowsInv
<1>1. ASSUME NEW k \in Kind, NEW i \in Id  PROVE RowInv(k, i)
  <2>1. /\ ~Holds(data[k], i) /\ OnceOf(data[k], i) /\ ~Holds(loaded[k], i)
        /\ chan = <<>> /\ Len(chan) = 0
    BY EmptyHoldsNothing DEF Init
  <2>2. ~Coming(k, i) /\ 1 .. Len(chan) = {}
    BY <2>1 DEF Coming
  <2>3. ~Present(k, i)
    BY <2>1 DEF Present
  <2>4. TurnInv(k, i)
    BY <2>1, <2>3, TurnNothing
  <2>5. OnceInv(k, i)
    BY <2>1, <2>2 DEF OnceInv
  <2> QED BY <2>4, <2>5 DEF RowInv
<1> QED BY <1>1, InitTypes, CopyInit DEF RowsInv

\* A step that changes neither the tables nor the queue nor the lists.
LEMMA RowsSame ==
  ASSUME RowsInv, UNCHANGED <<broker, loaded, chan, data, shown, missed>>
  PROVE  \A k \in Kind, i \in Id : RowInv(k, i)'
<1> TAKE k \in Kind, i \in Id
<1>1. RowInv(k, i)
  BY DEF RowsInv
<1>2. \A n, q : About(n, k, i, q)' <=> About(n, k, i, q)
  BY DEF About
<1>3. (Present(k, i)' <=> Present(k, i)) /\ (Coming(k, i)' <=> Coming(k, i))
  BY <1>2 DEF Present, Coming
<1> QED BY <1>1, <1>2, <1>3 DEF RowInv, TurnInv, OnceInv

\* Each action, row by row.
LEMMA RowsNext ==
  ASSUME RowsInv, Next
  PROVE  \A r \in Kind, j \in Id : RowInv(r, j)'
<1> TAKE r \in Kind, j \in Id
<1>0. TypeInv /\ CopyInv /\ RowInv(r, j)
  BY DEF RowsInv
<1>1. ASSUME NEW k \in Kind, NEW i \in Id,
             BrokerAdds(k, i) \/ BrokerChanges(k, i) \/ BrokerDeletes(k, i)
      PROVE  RowInv(r, j)'
  <2>1. missed \subseteq missed'
    BY <1>1 DEF BrokerAdds, BrokerChanges, BrokerDeletes, Notify
  <2>2. CASE r # "summary"
    BY <1>0, <1>1, <2>2, OnceBroker DEF RowInv
  <2>3. CASE r = "summary"
    BY <1>0, <1>1, <2>1, <2>3, TurnBroker DEF RowInv
  <2> QED BY <2>2, <2>3
<1>2. ASSUME NEW i \in Id, ReadRow(i)  PROVE RowInv(r, j)'
  BY <1>0, <1>2, OnceRead, TurnRead DEF RowInv, ReadRow
<1>3. CASE TableRead
  BY <1>3, RowsSame DEF TableRead, node
<1>4. CASE Subscribe
  BY <1>4, RowsSame DEF Subscribe, node
<1>5. CASE PumpStart \/ PumpEnd
  BY <1>5, RowsSame DEF PumpStart, PumpEnd, native
<1>6. CASE handleEvent
  <2>1. missed \subseteq missed'
    BY <1>6 DEF handleEvent, Forgotten
  <2>2. CASE r # "summary"
    BY <1>0, <1>6, <2>2, OnceHandle DEF RowInv
  <2>3. CASE r = "summary"
    BY <1>0, <1>6, <2>1, <2>3, TurnHandle DEF RowInv
  <2> QED BY <2>2, <2>3
<1>7. CASE ShowSnapshot
  <2>1. missed' = missed
    BY <1>7 DEF ShowSnapshot
  <2> QED BY <1>0, <1>7, <2>1, OnceShow, TurnShow DEF RowInv
<1>8. CASE Database
  BY <1>8, RowsSame DEF Database, RunStatement, native
<1> QED BY <1>1, <1>2, <1>3, <1>4, <1>5, <1>6, <1>7, <1>8 DEF Next

\* In any state, each row is where RowInv says.
LEMMA RowsInvariance == Spec => []RowsInv
<1>1. Init => RowsInv
  BY RowsInit
<1>2. RowsInv /\ [Next]_vars => RowsInv' \/ ~TypeInv'
  <2> SUFFICES ASSUME RowsInv, [Next]_vars, TypeInv'  PROVE RowsInv'
    OBVIOUS
  <2>1. CopyInv'
    BY CopyNext DEF RowsInv
  <2>2. CASE Next
    BY <2>1, <2>2, RowsNext DEF RowsInv
  <2>3. CASE UNCHANGED vars
    BY <2>1, <2>3, RowsSame DEF RowsInv, vars, native, node
  <2> QED BY <2>2, <2>3
<1> QED BY <1>1, <1>2, TypeInvariance, PTL DEF Spec

\* No list of the dataset ever holds a row twice, however the copy, the
\* subscriptions and the events of Order2Go and events.js interleave; a row of
\* the summary only if a change of it was missed.
THEOREM NoRowTwice == Spec => []NoDuplicates
<1>1. RowsInv => NoDuplicates
  <2> SUFFICES ASSUME RowsInv, NEW k \in Kind, NEW m \in DOMAIN data[k], NEW n \in DOMAIN data[k],
                      data[k][m].id = data[k][n].id,
                      k = "summary" => <<k, data[k][m].id>> \notin missed
               PROVE  m = n
    BY DEF NoDuplicates
  <2>1. data[k][m].id \in Id
    <3>1. data[k] \in Seq(Element)
      BY DEF RowsInv, TypeInv, TypeOK
    <3>2. data[k][m] \in Element
      BY <3>1
    <3> QED BY <3>2 DEF Element
  <2>2. OnceOf(data[k], data[k][m].id)
    BY <2>1 DEF RowsInv, RowInv, TurnInv, OnceInv
  <2> QED BY <2>2 DEF OnceOf
<1> QED BY <1>1, RowsInvariance, PTL

-----------------------------------------------------------------------------
(* Versions: what a list shows of a row.                                   *)

Versions(list, i) == {list[n].ver : n \in Places(list, i)}

\* A version that is shown is that of some place.
LEMMA VersionsAt ==
  ASSUME NEW list, NEW i
  PROVE  /\ \A v : v \in Versions(list, i) <=> \E n \in DOMAIN list : list[n].id = i /\ list[n].ver = v
         /\ Holds(list, i) <=> Versions(list, i) # {}
BY DEF Versions, Holds, Places

\* A row that is there once is shown in one version, that of its first place.
LEMMA OneVersion ==
  ASSUME NEW list \in Seq(Element), NEW i, Holds(list, i)
  PROVE  /\ list[First(list, i)].ver \in Versions(list, i)
         /\ OnceOf(list, i) => Versions(list, i) = {list[First(list, i)].ver}
<1>1. First(list, i) \in DOMAIN list /\ list[First(list, i)].id = i
  BY FirstPlace
<1>2. list[First(list, i)].ver \in Versions(list, i)
  BY <1>1, VersionsAt
<1>3. ASSUME OnceOf(list, i), NEW v \in Versions(list, i)  PROVE v = list[First(list, i)].ver
  <2>1. PICK n \in DOMAIN list : list[n].id = i /\ list[n].ver = v
    BY VersionsAt
  <2>2. n = First(list, i)
    BY <1>1, <1>3, <2>1 DEF OnceOf
  <2> QED BY <2>1, <2>2
<1> QED BY <1>2, <1>3

\* Append adds the version of its row.
LEMMA AppendVersions ==
  ASSUME NEW list \in Seq(Element), NEW row \in Element, NEW i
  PROVE  /\ row.id = i => Versions(Append(list, row), i) = Versions(list, i) \cup {row.ver}
         /\ row.id # i => Versions(Append(list, row), i) = Versions(list, i)
<1> DEFINE new == Append(list, row)
<1>1. /\ new \in Seq(Element) /\ Len(new) = Len(list) + 1
      /\ \A n \in 1 .. Len(list) : new[n] = list[n]
      /\ new[Len(list) + 1] = row
  BY AppendProperties
<1> HIDE DEF new
<1>2. Len(list) \in Nat /\ DOMAIN list = 1 .. Len(list) /\ DOMAIN new = 1 .. Len(list) + 1
  BY <1>1
<1>3. /\ \A n \in DOMAIN new : n \in DOMAIN list \/ n = Len(list) + 1
      /\ DOMAIN list \subseteq DOMAIN new /\ Len(list) + 1 \in DOMAIN new
  BY <1>2
<1>4. \A v : v \in Versions(new, i) <=> v \in Versions(list, i) \/ (row.id = i /\ row.ver = v)
  BY <1>1, <1>2, <1>3, VersionsAt
<1> QED BY <1>4 DEF new

\* Update replaces the version of a row that is there once, and touches no other.
LEMMA UpdateVersions ==
  ASSUME NEW list \in Seq(Element), NEW row \in Element, NEW i
  PROVE  /\ row.id # i => Versions(Update(list, row), i) = Versions(list, i)
         /\ row.id = i => Versions(Update(list, row), i) \subseteq Versions(list, i) \cup {row.ver}
         /\ row.id = i /\ Holds(list, i) /\ OnceOf(list, i) =>
              Versions(Update(list, row), i) = {row.ver}
<1> DEFINE new == Update(list, row)
           p == First(list, row.id)
<1>1. CASE Holds(list, row.id)
  <2>1. /\ p \in DOMAIN list /\ list[p].id = row.id
        /\ DOMAIN new = DOMAIN list /\ new[p] = row
        /\ \A n \in DOMAIN list : n # p => new[n] = list[n]
    BY <1>1, FirstPlace DEF Update
  <2> HIDE DEF new, p
  <2>2. ASSUME row.id # i
        PROVE  \A v : v \in Versions(new, i) <=> v \in Versions(list, i)
    BY <2>1, <2>2, VersionsAt
  <2>3. ASSUME row.id = i
        PROVE  \A v \in Versions(new, i) : v \in Versions(list, i) \/ v = row.ver
    BY <2>1, <2>3, VersionsAt
  <2>4. ASSUME row.id = i, OnceOf(list, i)
        PROVE  \A v : v \in Versions(new, i) <=> v = row.ver
    BY <2>1, <2>4, VersionsAt DEF OnceOf
  <2>5. row.id # i => Versions(new, i) = Versions(list, i)
    BY <2>2
  <2>6. row.id = i /\ OnceOf(list, i) => Versions(new, i) = {row.ver}
    BY <2>4
  <2> QED BY <2>3, <2>5, <2>6 DEF new
<1>2. CASE ~Holds(list, row.id)
  BY <1>2 DEF Update
<1> QED BY <1>1, <1>2

\* Delete touches no other row.
LEMMA DeleteVersions ==
  ASSUME NEW list \in Seq(Element), NEW j, NEW i
  PROVE  /\ Versions(Delete(list, j), i) \subseteq Versions(list, i)
         /\ j # i => Versions(Delete(list, j), i) = Versions(list, i)
<1>1. CASE Holds(list, j)
  <2> DEFINE new == Delete(list, j)
             p == First(list, j)
             Old(n) == IF n < p THEN n ELSE n + 1
             New(n) == IF n < p THEN n ELSE n - 1
  <2>1. p \in 1 .. Len(list) /\ list[p].id = j
    BY <1>1, FirstPlace
  <2>2. new = RemoveAt(list, p)
    BY <1>1 DEF Delete
  <2> HIDE DEF new, p
  <2>3. Len(list) \in Nat /\ DOMAIN list = 1 .. Len(list)
    OBVIOUS
  <2>4. /\ new \in Seq(Element) /\ Len(new) = Len(list) - 1
        /\ \A n \in 1 .. Len(list) - 1 : new[n] = IF n < p THEN list[n] ELSE list[n + 1]
    BY <2>1, <2>2, RemoveAtProperties
  <2>5. DOMAIN new = 1 .. Len(list) - 1
    BY <2>3, <2>4
  <2>6. \A n \in DOMAIN new : Old(n) \in DOMAIN list /\ new[n] = list[Old(n)]
    BY <2>1, <2>3, <2>4, <2>5
  <2>7. \A n \in DOMAIN list : n # p => New(n) \in DOMAIN new /\ new[New(n)] = list[n]
    <3> TAKE n \in DOMAIN list
    <3> HAVE n # p
    <3>1. CASE n < p
      BY <2>1, <2>3, <2>4, <2>5, <3>1
    <3>2. CASE ~(n < p)
      <4>1. n - 1 \in 1 .. Len(list) - 1 /\ ~(n - 1 < p) /\ n - 1 + 1 = n
        BY <2>1, <2>3, <3>2
      <4> QED BY <2>4, <2>5, <3>2, <4>1
    <3> QED BY <3>1, <3>2
  <2> HIDE DEF Old, New
  <2>8. \A v \in Versions(new, i) : v \in Versions(list, i)
    BY <2>6, VersionsAt
  <2>9. ASSUME j # i  PROVE \A v \in Versions(list, i) : v \in Versions(new, i)
    BY <2>1, <2>7, <2>9, VersionsAt
  <2> QED BY <2>8, <2>9 DEF new
<1>2. CASE ~Holds(list, j)
  BY <1>2 DEF Delete
<1> QED BY <1>1, <1>2

\* Two lists, one behind the other.
LEMMA BothVersions ==
  ASSUME NEW s \in Seq(Element), NEW t \in Seq(Element), NEW i
  PROVE  Versions(s \o t, i) = Versions(s, i) \cup Versions(t, i)
<1> DEFINE u == s \o t
<1>1. /\ u \in Seq(Element) /\ Len(u) = Len(s) + Len(t)
      /\ \A n \in 1 .. Len(s) + Len(t) : u[n] = IF n <= Len(s) THEN s[n] ELSE t[n - Len(s)]
  BY ConcatProperties
<1> HIDE DEF u
<1>2. /\ Len(s) \in Nat /\ Len(t) \in Nat
      /\ DOMAIN s = 1 .. Len(s) /\ DOMAIN t = 1 .. Len(t) /\ DOMAIN u = 1 .. Len(s) + Len(t)
  BY <1>1
<1>3. \A n \in DOMAIN u :
        \/ n \in DOMAIN s /\ u[n] = s[n]
        \/ n - Len(s) \in DOMAIN t /\ u[n] = t[n - Len(s)]
  BY <1>1, <1>2
<1>4. /\ \A n \in DOMAIN s : n \in DOMAIN u /\ u[n] = s[n]
      /\ \A n \in DOMAIN t : n + Len(s) \in DOMAIN u /\ u[n + Len(s)] = t[n]
  BY <1>1, <1>2
<1>5. \A v : v \in Versions(u, i) <=> v \in Versions(s, i) \/ v \in Versions(t, i)
  BY <1>3, <1>4, VersionsAt
<1> QED BY <1>5 DEF u

IsAbout(e, k, i) == e.kind = k /\ e.row.id = i

\* Versions are numbers.
LEMMA VersionTypes ==
  ASSUME NEW list \in Seq(Element), NEW i
  PROVE  \A v \in Versions(list, i) : v \in Nat
<1>1. \A n \in DOMAIN list : list[n] \in Element
  OBVIOUS
<1>2. \A row \in Element : row.ver \in Nat
  BY DEF Element
<1> QED BY <1>1, <1>2, VersionsAt

\* The worker reads the version that a row has.
LEMMA ReadVersions ==
  ASSUME TypeInv, CopyInv, NEW i \in Id, ReadRow(i), NEW r \in Kind, NEW j \in Id
  PROVE  /\ Versions(loaded'[r], j) =
              IF r = Head(toRead) /\ j = i /\ broker[r][j].live
              THEN Versions(loaded[r], j) \cup {broker[r][j].ver} ELSE Versions(loaded[r], j)
         /\ \A v \in Versions(loaded'[r], j) :
              v \in Versions(loaded[r], j) \/ (broker[r][j].live /\ v = broker[r][j].ver)
<1> DEFINE k == Head(toRead)
           row == [id |-> i, ver |-> broker[k][i].ver]
<1>1. toRead # <<>> /\ toRead \in Seq(Kind) /\ loaded \in [Kind -> Seq(Element)]
  BY DEF ReadRow, TypeInv, TypeOK
<1>2. k \in Kind
  BY <1>1, HeadTailProperties
<1>3. row \in Element /\ row.id = i /\ row.ver = broker[k][i].ver
  BY <1>2 DEF TypeInv, TypeOK, Element
<1>4. /\ r # k => loaded'[r] = loaded[r]
      /\ broker[k][i].live => loaded'[k] = Append(loaded[k], row)
      /\ ~broker[k][i].live => loaded'[k] = loaded[k]
  BY <1>1, <1>2 DEF ReadRow
<1>5. loaded[r] \in Seq(Element)
  BY <1>1
<1> HIDE DEF k, row
<1>6. CASE loaded'[r] = loaded[r] /\ ~(r = k /\ broker[k][i].live)
  BY <1>6 DEF k
<1>7. CASE r = k /\ broker[k][i].live /\ loaded'[r] = Append(loaded[r], row)
  <2>1. row.id = j => Versions(Append(loaded[r], row), j) = Versions(loaded[r], j) \cup {row.ver}
    <3>1. \A list \in Seq(Element), x \in Element :
            x.id = j => Versions(Append(list, x), j) = Versions(list, j) \cup {x.ver}
      BY AppendVersions
    <3> QED BY <1>3, <1>5, <3>1, Zenon
  <2>2. row.id # j => Versions(Append(loaded[r], row), j) = Versions(loaded[r], j)
    BY <1>3, <1>5, AppendVersions
  <2>3. Versions(loaded'[r], j) =
          IF j = i THEN Versions(loaded[r], j) \cup {broker[r][i].ver} ELSE Versions(loaded[r], j)
    <3> DEFINE was == Versions(loaded[r], j)
               new == Versions(Append(loaded[r], row), j)
    <3>1. new = IF j = i THEN was \cup {row.ver} ELSE was
      BY <1>3, <2>1, <2>2
    <3>2. row.ver = broker[r][i].ver
      BY <1>3, <1>7
    <3> HIDE DEF new
    <3>3. Versions(loaded'[r], j) = new
      BY <1>7 DEF new
    <3> QED BY <3>1, <3>2, <3>3
  <2>4. CASE j = i
    BY <1>7, <2>3, <2>4 DEF k
  <2>5. CASE j # i
    BY <1>7, <2>3, <2>5 DEF k
  <2> QED BY <2>4, <2>5
<1> QED BY <1>4, <1>6, <1>7

-----------------------------------------------------------------------------
(* The queue carries the versions the broker's rows have had.              *)

\* What the broker tells of a change: the version the row has now.
LEMMA BrokerTells ==
  ASSUME TypeInv, CopyInv, NEW k \in Kind, NEW i \in Id,
         BrokerAdds(k, i) \/ BrokerChanges(k, i) \/ BrokerDeletes(k, i)
  PROVE  /\ \E s \in Changes(k), v \in Nat :
              /\ Notify(k, i, s, v) /\ s \in Status /\ v = broker'[k][i].ver
              /\ s = "DELETED" <=> ~broker'[k][i].live
              /\ s = "CHANGED" => broker[k][i].live
         /\ broker[k][i].ver \in Nat /\ broker'[k][i].ver \in Nat
         /\ broker[k][i].ver <= broker'[k][i].ver /\ 0 < broker'[k][i].ver
         /\ \A r \in Kind, j \in Id : ~(r = k /\ j = i) => broker'[r][j] = broker[r][j]
         /\ UNCHANGED <<toRead, unread, loaded, calls, data, shown>>
<1>1. /\ broker \in [Kind -> [Id -> [ver : Nat, live : BOOLEAN]]]
      /\ broker[k] \in [Id -> [ver : Nat, live : BOOLEAN]]
      /\ broker[k][i] \in [ver : Nat, live : BOOLEAN]
      /\ broker[k][i].ver \in Nat /\ broker[k][i].ver + 1 \in Nat
  BY DEF TypeInv, TypeOK
<1>2. \A r \in Kind, j \in Id : ~(r = k /\ j = i) => broker'[r][j] = broker[r][j]
  BY BrokerRow
<1>3. UNCHANGED <<toRead, unread, loaded, calls, data, shown>>
  BY DEF BrokerAdds, BrokerChanges, BrokerDeletes, native, node
<1>4. CASE BrokerAdds(k, i)
  <2>1. broker' = [broker EXCEPT ![k][i] = [ver |-> broker[k][i].ver + 1, live |-> TRUE]]
    BY <1>4 DEF BrokerAdds
  <2>2. broker'[k][i].ver = broker[k][i].ver + 1 /\ broker'[k][i].live = TRUE
    BY <1>1, <2>1
  <2>3. "ADDED" \in Changes(k) /\ Notify(k, i, "ADDED", broker[k][i].ver + 1)
    BY <1>4 DEF BrokerAdds
  <2> QED BY <1>1, <1>2, <1>3, <2>2, <2>3 DEF Status
<1>5. CASE BrokerChanges(k, i)
  <2>1. broker' = [broker EXCEPT ![k][i].ver = @ + 1] /\ broker[k][i].live
    BY <1>5 DEF BrokerChanges
  <2>2. broker'[k][i].ver = broker[k][i].ver + 1 /\ broker'[k][i].live = broker[k][i].live
    BY <1>1, <2>1
  <2>3. "CHANGED" \in Changes(k) /\ Notify(k, i, "CHANGED", broker[k][i].ver + 1)
    BY <1>5 DEF BrokerChanges
  <2> QED BY <1>1, <1>2, <1>3, <2>1, <2>2, <2>3 DEF Status
<1>6. CASE BrokerDeletes(k, i)
  <2>1. broker' = [broker EXCEPT ![k][i].live = FALSE] /\ broker[k][i].live
    BY <1>6 DEF BrokerDeletes
  <2>2. broker'[k][i].ver = broker[k][i].ver /\ broker'[k][i].live = FALSE
    BY <1>1, <2>1
  <2>3. "DELETED" \in Changes(k) /\ Notify(k, i, "DELETED", broker[k][i].ver)
    BY <1>6 DEF BrokerDeletes
  <2>4. 0 < broker[k][i].ver
    <3>1. broker[k][i].ver # 0
      BY <2>1 DEF CopyInv
    <3> QED BY <1>1, <3>1
  <2> QED BY <1>1, <1>2, <1>3, <2>1, <2>2, <2>3, <2>4 DEF Status
<1> QED BY <1>4, <1>5, <1>6

\* The event is put behind the others, unless nobody has subscribed to it.
LEMMA NotifyQueue ==
  ASSUME TypeInv, NEW k \in Kind, NEW i \in Id, NEW s \in Status, NEW v \in Nat,
         Notify(k, i, s, v)
  PROVE  /\ Len(chan) \in Nat
         /\ \A n \in 1 .. Len(chan) : chan[n] \in Event /\ chan'[n] = chan[n]
         /\ \/ /\ Unsubscribed(k, s) /\ chan' = chan
               /\ WasRead(k, i) => <<k, i>> \in missed'
            \/ /\ ~Unsubscribed(k, s) /\ Len(chan') = Len(chan) + 1
               /\ chan'[Len(chan) + 1] = [kind |-> k, status |-> s, row |-> [id |-> i, ver |-> v]]
<1>1. Len(chan) \in Nat /\ \A n \in 1 .. Len(chan) : chan[n] \in Event
  BY DEF TypeInv, TypeOK
<1>2. CASE Unsubscribed(k, s)
  BY <1>1, <1>2 DEF Notify
<1>3. CASE ~Unsubscribed(k, s)
  <2> DEFINE e == [kind |-> k, status |-> s, row |-> [id |-> i, ver |-> v]]
  <2>1. e \in Event
    BY DEF Event, Element
  <2>2. chan' = Append(chan, e)
    BY <1>3 DEF Notify
  <2> HIDE DEF e
  <2>3. /\ Len(chan') = Len(chan) + 1
        /\ \A n \in 1 .. Len(chan) : chan'[n] = chan[n]
        /\ chan'[Len(chan) + 1] = e
    BY <2>1, <2>2, QueueEnds DEF TypeInv
  <2> QED BY <1>1, <1>3, <2>3 DEF e
<1> QED BY <1>2, <1>3

\* The handling of an event takes the first one off.
LEMMA TailQueue ==
  ASSUME TypeInv, handleEvent
  PROVE  /\ Len(chan) \in Nat /\ Len(chan) >= 1 /\ Len(chan') = Len(chan) - 1
         /\ Head(chan) = chan[1]
         /\ \A n \in 1 .. Len(chan) : chan[n] \in Event
         /\ \A n \in 1 .. Len(chan') : n + 1 \in 1 .. Len(chan) /\ chan'[n] = chan[n + 1]
         /\ UNCHANGED <<broker, toRead, unread, loaded, calls, shown>>
<1>1. chan # <<>> /\ chan' = Tail(chan)
  BY DEF handleEvent
<1>2. /\ Len(chan') = Len(chan) - 1 /\ Len(chan) >= 1
      /\ Head(chan) = chan[1]
      /\ \A n \in 1 .. Len(chan) - 1 : chan'[n] = chan[n + 1]
  BY <1>1, QueueEnds DEF TypeInv
<1>3. Len(chan) \in Nat /\ \A n \in 1 .. Len(chan) : chan[n] \in Event
  BY DEF TypeInv, TypeOK
<1>4. UNCHANGED <<broker, toRead, unread, loaded, calls, shown>>
  BY DEF handleEvent, native
<1> QED BY <1>2, <1>3, <1>4

\* The versions that the handlers show are those shown before and the event's.
LEMMA HandlerVersions ==
  ASSUME TypeInv, CopyInv, handleEvent, NEW r \in Kind, NEW j \in Id
  PROVE  /\ IsAbout(chan[1], r, j) =>
              Versions(data'[r], j) \subseteq Versions(data[r], j) \cup {chan[1].row.ver}
         /\ ~IsAbout(chan[1], r, j) => Versions(data'[r], j) = Versions(data[r], j)
<1> DEFINE e == Head(chan)
<1>1. /\ e.kind \in Kind /\ e.row \in Element
      /\ r # e.kind => data'[r] = data[r]
      /\ e.status = "ADDED" => data'[e.kind] = Append(data[e.kind], e.row)
      /\ e.status # "ADDED" =>
           data'[e.kind] \in {data[e.kind], Update(data[e.kind], e.row),
                             Delete(data[e.kind], e.row.id)}
  BY HandlerLists
<1>2. e = chan[1]
  BY TailQueue
<1>3. data[r] \in Seq(Element)
  BY DEF TypeInv, TypeOK
<1> HIDE DEF e
<1>4. CASE r # e.kind
  BY <1>1, <1>2, <1>4 DEF IsAbout
<1>5. CASE r = e.kind
  <2>1. data'[r] \in {data[r], Append(data[r], e.row), Update(data[r], e.row),
                     Delete(data[r], e.row.id)}
    BY <1>1, <1>5
  <2>2. IsAbout(chan[1], r, j) <=> e.row.id = j
    BY <1>2, <1>5 DEF IsAbout
  <2>3. CASE data'[r] = data[r]
    BY <2>3
  <2>4. CASE data'[r] = Append(data[r], e.row)
    <3>1. \A row \in Element :
            Versions(Append(data[r], row), j) \subseteq Versions(data[r], j) \cup {row.ver}
      BY <1>3, AppendVersions
    <3>2. \A row \in Element :
            row.id # j => Versions(Append(data[r], row), j) = Versions(data[r], j)
      BY <1>3, AppendVersions
    <3> QED BY <1>1, <1>2, <2>2, <2>4, <3>1, <3>2
  <2>5. CASE data'[r] = Update(data[r], e.row)
    <3>1. \A row \in Element :
            /\ row.id # j => Versions(Update(data[r], row), j) = Versions(data[r], j)
            /\ row.id = j =>
                 Versions(Update(data[r], row), j) \subseteq Versions(data[r], j) \cup {row.ver}
      BY <1>3, UpdateVersions
    <3> QED BY <1>1, <1>2, <2>2, <2>5, <3>1
  <2>6. CASE data'[r] = Delete(data[r], e.row.id)
    <3>1. /\ Versions(data'[r], j) \subseteq Versions(data[r], j)
          /\ e.row.id # j => Versions(data'[r], j) = Versions(data[r], j)
      BY <1>3, <2>6, DeleteVersions
    <3> QED BY <1>2, <2>2, <3>1
  <2> QED BY <2>1, <2>3, <2>4, <2>5, <2>6
<1> QED BY <1>4, <1>5

\* The versions of a row never fall on their way from the copy and the queue to
\* the dataset.
OrderInv(k, i) ==
  /\ \A v \in Versions(data[k], i) \cup Versions(loaded[k], i) :
       /\ 0 < v /\ v <= broker[k][i].ver
       /\ \A n \in 1 .. Len(chan) : IsAbout(chan[n], k, i) => v <= chan[n].row.ver
  /\ \A n \in 1 .. Len(chan) : IsAbout(chan[n], k, i) =>
       /\ 0 < chan[n].row.ver /\ chan[n].row.ver <= broker[k][i].ver
       /\ \A m \in 1 .. n : IsAbout(chan[m], k, i) => chan[m].row.ver <= chan[n].row.ver

Order == \A k \in Kind, i \in Id : OrderInv(k, i)

\* A change of the broker is told with the highest version so far.
LEMMA OrderBroker ==
  ASSUME TypeInv, CopyInv, NEW k \in Kind, NEW i \in Id,
         BrokerAdds(k, i) \/ BrokerChanges(k, i) \/ BrokerDeletes(k, i),
         NEW r \in Kind, NEW j \in Id, OrderInv(r, j)
  PROVE  OrderInv(r, j)'
<1>1. PICK s \in Changes(k), v \in Nat :
        Notify(k, i, s, v) /\ s \in Status /\ v = broker'[k][i].ver
  BY BrokerTells
<1>2. /\ broker[k][i].ver \in Nat /\ broker'[k][i].ver \in Nat
      /\ broker[k][i].ver <= broker'[k][i].ver /\ 0 < broker'[k][i].ver
      /\ ~(r = k /\ j = i) => broker'[r][j] = broker[r][j]
      /\ UNCHANGED <<loaded, data>>
  BY BrokerTells
<1>3. /\ Len(chan) \in Nat
      /\ \A n \in 1 .. Len(chan) : chan[n] \in Event /\ chan'[n] = chan[n]
      /\ \/ chan' = chan
         \/ /\ Len(chan') = Len(chan) + 1
            /\ chan'[Len(chan) + 1] = [kind |-> k, status |-> s, row |-> [id |-> i, ver |-> v]]
  BY <1>1, NotifyQueue
<1>4. /\ broker[r][j].ver \in Nat /\ broker'[r][j].ver \in Nat
      /\ broker[r][j].ver <= broker'[r][j].ver
      /\ data[r] \in Seq(Element) /\ loaded[r] \in Seq(Element)
  <2>1. broker[r][j] \in [ver : Nat, live : BOOLEAN]
    BY DEF TypeInv, TypeOK
  <2>2. data[r] \in Seq(Element) /\ loaded[r] \in Seq(Element)
    BY DEF TypeInv, TypeOK
  <2>3. CASE r = k /\ j = i
    BY <1>2, <2>2, <2>3
  <2>4. CASE ~(r = k /\ j = i)
    BY <1>2, <2>1, <2>2, <2>4
  <2> QED BY <2>3, <2>4
<1>5. \A v1 \in Versions(data[r], j) \cup Versions(loaded[r], j) : v1 \in Nat
  BY <1>4, VersionTypes
<1>6. \A n \in 1 .. Len(chan) : chan[n].row.ver \in Nat
  BY <1>3 DEF Event, Element
\* An event of the new queue is an old one, or it is the last and new.
<1>7. \A n \in 1 .. Len(chan') :
        \/ n \in 1 .. Len(chan) /\ chan'[n] = chan[n]
        \/ /\ n = Len(chan') /\ n > Len(chan)
           /\ chan'[n].row.ver = v
           /\ IsAbout(chan'[n], r, j) => r = k /\ j = i
  BY <1>3 DEF IsAbout
<1>8. \A v1 \in Versions(data'[r], j) \cup Versions(loaded'[r], j) :
        /\ 0 < v1 /\ v1 <= broker'[r][j].ver
        /\ \A n \in 1 .. Len(chan') : IsAbout(chan'[n], r, j) => v1 <= chan'[n].row.ver
  <2> TAKE v1 \in Versions(data'[r], j) \cup Versions(loaded'[r], j)
  <2>1. v1 \in Nat /\ 0 < v1 /\ v1 <= broker[r][j].ver /\ v1 <= broker'[r][j].ver
    BY <1>2, <1>4, <1>5 DEF OrderInv
  <2>2. \A n \in 1 .. Len(chan) : IsAbout(chan[n], r, j) => v1 <= chan[n].row.ver
    BY <1>2 DEF OrderInv
  <2> QED BY <1>1, <1>7, <2>1, <2>2
<1>9. ASSUME NEW n \in 1 .. Len(chan'), IsAbout(chan'[n], r, j)
      PROVE  /\ 0 < chan'[n].row.ver /\ chan'[n].row.ver <= broker'[r][j].ver
             /\ \A m \in 1 .. n : IsAbout(chan'[m], r, j) => chan'[m].row.ver <= chan'[n].row.ver
  <2>1. CASE n \in 1 .. Len(chan) /\ chan'[n] = chan[n]
    <3>1. /\ 0 < chan[n].row.ver /\ chan[n].row.ver <= broker[r][j].ver
          /\ \A m \in 1 .. n : IsAbout(chan[m], r, j) => chan[m].row.ver <= chan[n].row.ver
      BY <1>9, <2>1 DEF OrderInv
    <3>2. \A m \in 1 .. n : chan'[m] = chan[m]
      BY <1>3, <2>1
    <3>3. chan[n].row.ver <= broker'[r][j].ver
      <4>1. chan[n].row.ver <= broker[r][j].ver
        BY <3>1
      <4> QED BY <1>4, <1>6, <2>1, <4>1
    <3>4. \A m \in 1 .. n : IsAbout(chan'[m], r, j) => chan'[m].row.ver <= chan'[n].row.ver
      BY <2>1, <3>1, <3>2
    <3> QED BY <2>1, <3>1, <3>3, <3>4
  <2>2. CASE n > Len(chan) /\ n = Len(chan') /\ chan'[n].row.ver = v /\ r = k /\ j = i
    <3>1. \A m \in 1 .. Len(chan) : IsAbout(chan[m], r, j) => chan[m].row.ver <= v
      BY <1>1, <1>4, <1>6, <2>2 DEF OrderInv
    <3>2. \A m \in 1 .. n : m \in 1 .. Len(chan) \/ m = n
      BY <1>3, <2>2
    <3> QED BY <1>1, <1>2, <1>3, <2>2, <3>1, <3>2
  <2> QED BY <1>7, <1>9, <2>1, <2>2
<1> QED BY <1>8, <1>9 DEF OrderInv

\* The worker reads the version the row has; no event is in the queue.
LEMMA OrderRead ==
  ASSUME TypeInv, CopyInv, NEW i \in Id, ReadRow(i),
         NEW r \in Kind, NEW j \in Id, OrderInv(r, j)
  PROVE  OrderInv(r, j)'
<1>1. /\ Len(chan) = 0 /\ UNCHANGED <<broker, chan, data>>
      /\ \A v \in Versions(loaded'[r], j) :
           v \in Versions(loaded[r], j) \/ (broker[r][j].live /\ v = broker[r][j].ver)
  BY ReadStep, ReadVersions
<1>2. broker[r][j].ver \in Nat /\ (broker[r][j].live => 0 < broker[r][j].ver)
  <2>1. broker[r][j] \in [ver : Nat, live : BOOLEAN]
    BY DEF TypeInv, TypeOK
  <2> QED BY <2>1 DEF CopyInv
<1>3. 1 .. Len(chan) = {}
  BY <1>1
<1> QED BY <1>1, <1>2, <1>3 DEF OrderInv

\* A handler shows the version of its event, the lowest in the queue.
LEMMA OrderHandle ==
  ASSUME TypeInv, CopyInv, handleEvent, NEW r \in Kind, NEW j \in Id, OrderInv(r, j)
  PROVE  OrderInv(r, j)'
<1>1. /\ Len(chan) \in Nat /\ Len(chan) >= 1 /\ Len(chan') = Len(chan) - 1
      /\ \A n \in 1 .. Len(chan) : chan[n] \in Event
      /\ \A n \in 1 .. Len(chan') : n + 1 \in 1 .. Len(chan) /\ chan'[n] = chan[n + 1]
      /\ UNCHANGED <<broker, loaded>>
  BY TailQueue
<1>2. \A v \in Versions(data'[r], j) :
        v \in Versions(data[r], j) \/ (IsAbout(chan[1], r, j) /\ v = chan[1].row.ver)
  BY HandlerVersions
<1>3. 1 \in 1 .. Len(chan)
  BY <1>1
<1>4. \A v \in Versions(data'[r], j) \cup Versions(loaded'[r], j) :
        /\ 0 < v /\ v <= broker'[r][j].ver
        /\ \A n \in 1 .. Len(chan') : IsAbout(chan'[n], r, j) => v <= chan'[n].row.ver
  <2> TAKE v \in Versions(data'[r], j) \cup Versions(loaded'[r], j)
  <2>1. CASE v \in Versions(data[r], j) \cup Versions(loaded[r], j)
    BY <1>1, <2>1 DEF OrderInv
  <2>2. CASE IsAbout(chan[1], r, j) /\ v = chan[1].row.ver
    <3>1. \A n \in 1 .. Len(chan') : 1 \in 1 .. n + 1
      BY <1>1
    <3> QED BY <1>1, <1>3, <2>2, <3>1 DEF OrderInv
  <2> QED BY <1>1, <1>2, <2>1, <2>2
<1>5. ASSUME NEW n \in 1 .. Len(chan'), IsAbout(chan'[n], r, j)
      PROVE  /\ 0 < chan'[n].row.ver /\ chan'[n].row.ver <= broker'[r][j].ver
             /\ \A m \in 1 .. n : IsAbout(chan'[m], r, j) => chan'[m].row.ver <= chan'[n].row.ver
  <2>1. n + 1 \in 1 .. Len(chan) /\ chan'[n] = chan[n + 1]
    BY <1>1
  <2>2. \A m \in 1 .. n : m + 1 \in 1 .. n + 1 /\ chan'[m] = chan[m + 1]
    <3> TAKE m \in 1 .. n
    <3>1. m \in 1 .. Len(chan') /\ m + 1 \in 1 .. n + 1
      BY <1>1
    <3> QED BY <1>1, <3>1
  <2> QED BY <1>1, <1>5, <2>1, <2>2 DEF OrderInv
<1> QED BY <1>4, <1>5 DEF OrderInv

\* The copy is put behind what is there.
LEMMA OrderShow ==
  ASSUME TypeInv, ShowSnapshot, NEW r \in Kind, NEW j \in Id, OrderInv(r, j)
  PROVE  OrderInv(r, j)'
<1>1. UNCHANGED <<broker, loaded, chan>> /\ data'[r] = data[r] \o loaded[r]
  BY DEF ShowSnapshot, Snapshot, native
<1>2. data[r] \in Seq(Element) /\ loaded[r] \in Seq(Element)
  BY DEF TypeInv, TypeOK
<1>3. Versions(data'[r], j) = Versions(data[r], j) \cup Versions(loaded[r], j)
  BY <1>1, <1>2, BothVersions
<1>4. \A v \in Versions(data'[r], j) \cup Versions(loaded'[r], j) :
        v \in Versions(data[r], j) \cup Versions(loaded[r], j)
  BY <1>1, <1>3
<1> QED BY <1>1, <1>4 DEF OrderInv

\* A step that changes neither the tables nor the queue nor the lists.
LEMMA OrderSame ==
  ASSUME Order, UNCHANGED <<broker, loaded, chan, data>>
  PROVE  Order'
BY DEF Order, OrderInv

\* At the start nothing is shown and nothing is in the queue.
LEMMA OrderInit ==
  ASSUME Init
  PROVE  Order
<1> SUFFICES ASSUME NEW k \in Kind, NEW i \in Id  PROVE OrderInv(k, i)
  BY DEF Order
<1>1. data[k] = <<>> /\ loaded[k] = <<>> /\ Len(chan) = 0
  BY DEF Init
<1>2. Versions(<<>>, i) = {} /\ 1 .. Len(chan) = {}
  BY <1>1, EmptyHoldsNothing, VersionsAt
<1> QED BY <1>1, <1>2 DEF OrderInv

\* Each action, row by row.
LEMMA OrderNext ==
  ASSUME RowsInv, Order, [Next]_vars
  PROVE  Order'
<1>1. TypeInv /\ CopyInv /\ \A r \in Kind, j \in Id : OrderInv(r, j)
  BY DEF RowsInv, Order
<1>2. ASSUME NEW k \in Kind, NEW i \in Id,
             BrokerAdds(k, i) \/ BrokerChanges(k, i) \/ BrokerDeletes(k, i)
      PROVE  Order'
  <2>1. \A r \in Kind, j \in Id : OrderInv(r, j)'
    BY <1>1, <1>2, OrderBroker
  <2> QED BY <2>1 DEF Order
<1>3. ASSUME NEW i \in Id, ReadRow(i)  PROVE Order'
  <2>1. \A r \in Kind, j \in Id : OrderInv(r, j)'
    BY <1>1, <1>3, OrderRead
  <2> QED BY <2>1 DEF Order
<1>4. CASE TableRead \/ Subscribe
  BY <1>4, OrderSame DEF TableRead, Subscribe, node
<1>5. CASE PumpStart \/ PumpEnd
  BY <1>5, OrderSame DEF PumpStart, PumpEnd, native
<1>6. CASE handleEvent
  <2>1. \A r \in Kind, j \in Id : OrderInv(r, j)'
    BY <1>1, <1>6, OrderHandle
  <2> QED BY <2>1 DEF Order
<1>7. CASE ShowSnapshot
  <2>1. \A r \in Kind, j \in Id : OrderInv(r, j)'
    BY <1>1, <1>7, OrderShow
  <2> QED BY <2>1 DEF Order
<1>8. CASE Database
  BY <1>8, OrderSame DEF Database, RunStatement, native
<1>9. CASE UNCHANGED vars
  BY <1>9, OrderSame DEF vars, native, node
<1> QED BY <1>2, <1>3, <1>4, <1>5, <1>6, <1>7, <1>8, <1>9 DEF Next

\* Versions come in their order, from the broker to the dataset.
LEMMA OrderInvariance == Spec => []Order
<1>1. Init => Order
  BY OrderInit
<1>2. RowsInv /\ Order /\ [Next]_vars => Order'
  BY OrderNext
<1> QED BY <1>1, <1>2, RowsInvariance, PTL DEF Spec

\* While a row is in the copy and that is not shown, it is not in a list; it
\* never is there twice.
LEMMA OncePlace ==
  ASSUME RowsInv, NEW k \in Kind, NEW i \in Id,
         k = "summary" => <<k, i>> \notin missed
  PROVE  /\ OnceOf(data[k], i)
         /\ ~shown /\ Holds(data[k], i) => ~Holds(loaded[k], i)
         /\ data[k] \in Seq(Element) /\ loaded[k] \in Seq(Element)
<1>1. RowInv(k, i) /\ data[k] \in Seq(Element) /\ loaded[k] \in Seq(Element)
  BY DEF RowsInv, TypeInv, TypeOK
<1> QED BY <1>1 DEF RowInv, OnceInv, TurnInv

\* What has been missed stays missed.
LEMMA MissedGrows ==
  ASSUME Next
  PROVE  missed \subseteq missed'
<1>1. ASSUME NEW k \in Kind, NEW i \in Id,
             BrokerAdds(k, i) \/ BrokerChanges(k, i) \/ BrokerDeletes(k, i)
      PROVE  missed \subseteq missed'
  BY <1>1 DEF BrokerAdds, BrokerChanges, BrokerDeletes, Notify
<1>2. CASE handleEvent
  BY <1>2 DEF handleEvent, Forgotten
<1> QED BY <1>1, <1>2
        DEF Next, ReadRow, TableRead, Subscribe, PumpStart, PumpEnd, ShowSnapshot, Database,
            RunStatement

\* A step changes the list of a table in two ways only.
LEMMA ListChanges ==
  ASSUME Next
  PROVE  UNCHANGED data \/ handleEvent \/ ShowSnapshot
BY DEF Next, BrokerAdds, BrokerChanges, BrokerDeletes, ReadRow, TableRead, Subscribe,
       PumpStart, PumpEnd, Database, RunStatement, node

\* No list ever shows an earlier version of a row it showed: neither the copy
\* (setOrders and its like push it behind what events have put there) nor a late
\* event of the queue brings an old version back.
THEOREM VersionsNeverFall == Spec => NeverBackwards
<1> DEFINE A == \A k \in Kind, i \in Id :
                  /\ Holds(data[k], i) /\ Holds(data'[k], i)
                  /\ k = "summary" => <<k, i>> \notin missed'
                  => data[k][First(data[k], i)].ver <= data'[k][First(data'[k], i)].ver
<1>1. RowsInv /\ RowsInv' /\ Order /\ [Next]_vars => [A]_vars
  <2> SUFFICES ASSUME RowsInv, RowsInv', Order, Next,
                      NEW k \in Kind, NEW i \in Id,
                      Holds(data[k], i), Holds(data'[k], i),
                      k = "summary" => <<k, i>> \notin missed'
               PROVE  data[k][First(data[k], i)].ver <= data'[k][First(data'[k], i)].ver
    OBVIOUS
  <2>1. data[k] \in Seq(Element) /\ data'[k] \in Seq(Element)
    BY DEF RowsInv, TypeInv, TypeOK
  <2>2. PICK v : v = data[k][First(data[k], i)].ver
    OBVIOUS
  <2>3. PICK w : w = data'[k][First(data'[k], i)].ver
    OBVIOUS
  <2>4. v \in Versions(data[k], i) /\ w \in Versions(data'[k], i)
    BY <2>1, <2>2, <2>3, OneVersion
  <2>5. missed \subseteq missed'
    BY MissedGrows
  <2>6. /\ OnceOf(data[k], i) /\ (~shown => ~Holds(loaded[k], i)) /\ loaded[k] \in Seq(Element)
    BY <2>5, OncePlace
  <2>7. Versions(data[k], i) = {v} /\ v \in Nat
    BY <2>1, <2>2, <2>4, <2>6, OneVersion, VersionTypes
  <2>8. CASE UNCHANGED data
    <3>1. w \in Versions(data[k], i)
      BY <2>4, <2>8
    <3> QED BY <2>2, <2>3, <2>7, <3>1
  <2>9. CASE handleEvent
    <3>1. w \in Versions(data[k], i) \/ (IsAbout(chan[1], k, i) /\ w = chan[1].row.ver)
      BY <2>4, <2>9, HandlerVersions DEF RowsInv
    <3>2. 1 \in 1 .. Len(chan)
      BY <2>9, TailQueue DEF RowsInv
    <3>3. IsAbout(chan[1], k, i) => v <= chan[1].row.ver
      BY <2>4, <3>2 DEF Order, OrderInv
    <3>4. v <= w
      BY <2>7, <3>1, <3>3
    <3> QED BY <2>2, <2>3, <3>4
  <2>10. CASE ShowSnapshot
    <3>1. data'[k] = data[k] \o loaded[k] /\ ~Holds(loaded[k], i)
      BY <2>6, <2>10 DEF ShowSnapshot, Snapshot
    <3>2. Versions(data[k] \o loaded[k], i) = Versions(data[k], i)
      <4>1. Versions(loaded[k], i) = {}
        BY <3>1, VersionsAt
      <4>2. Versions(data[k] \o loaded[k], i) = Versions(data[k], i) \cup Versions(loaded[k], i)
        BY <2>1, <2>6, BothVersions
      <4> QED BY <4>1, <4>2
    <3>3. w \in Versions(data[k], i)
      BY <2>4, <3>1, <3>2
    <3> QED BY <2>2, <2>3, <2>7, <3>3
  <2> QED BY <2>8, <2>9, <2>10, ListChanges
<1> QED BY <1>1, RowsInvariance, OrderInvariance, PTL DEF Spec, NeverBackwards

-----------------------------------------------------------------------------
(* What the dataset shows, with the events still to come, is what the      *)
(* broker has.                                                             *)

\* What is shown of a row or will be with the copy.
Known(k, i) == Versions(data[k], i) \cup (IF shown THEN {} ELSE Versions(loaded[k], i))

\* A row that no event is about is shown as it is.
Settled(k, i) ==
  NothingPending(k, i) /\ WasRead(k, i) =>
    /\ broker[k][i].live => Known(k, i) = {broker[k][i].ver}
    /\ ~broker[k][i].live /\ k # "orders" => Known(k, i) = {}

\* The last event about a row tells how it is.
IsLast(n, k, i) ==
  IsAbout(chan[n], k, i) /\ \A m \in 1 .. Len(chan) : IsAbout(chan[m], k, i) => m <= n

LastTells(k, i) ==
  \A n \in 1 .. Len(chan) : IsLast(n, k, i) =>
    /\ chan[n].status = "DELETED" <=> ~broker[k][i].live
    /\ chan[n].row.ver = broker[k][i].ver

\* A row that an event changes will be there when the event is handled.
ChangesFollow(k, i) ==
  \A n \in 1 .. Len(chan) : About(n, k, i, "CHANGED") =>
    /\ Present(k, i) \/ \E m \in 1 .. Len(chan) : m < n /\ About(m, k, i, "ADDED")
    /\ \A l \in 1 .. Len(chan) : l < n /\ About(l, k, i, "DELETED") =>
         \E m \in 1 .. Len(chan) : l < m /\ m < n /\ About(m, k, i, "ADDED")

MirrorInv(k, i) == Settled(k, i) /\ LastTells(k, i) /\ ChangesFollow(k, i)

Mirrored ==
  /\ toRead # <<>> => ~shown
  /\ \A k \in Kind, i \in Id : <<k, i>> \notin missed => MirrorInv(k, i)

\* A set of places that is not empty has a last one.
LEMMA Greatest ==
  ASSUME NEW N \in Nat, NEW T \in SUBSET (1 .. N), T # {}
  PROVE  \E x \in T : \A y \in T : y <= x
<1> DEFINE U == {N - x : x \in T}
<1>1. U \in SUBSET Nat /\ U # {}
  <2>1. \A x \in T : N - x \in Nat
    OBVIOUS
  <2>2. PICK x \in T : TRUE
    OBVIOUS
  <2>3. N - x \in U
    OBVIOUS
  <2> QED BY <2>1, <2>3
<1>2. PICK u \in U : \A y \in U : u <= y
  <2> HIDE DEF U
  <2> QED BY <1>1, Least
<1>3. PICK x \in T : u = N - x
  BY <1>2
<1>4. \A y \in T : y <= x
  <2> TAKE y \in T
  <2>1. u <= N - y
    BY <1>2
  <2> QED BY <1>3, <2>1
<1> QED BY <1>4

\* Of the events about a row one is the last.
LEMMA SomeLast ==
  ASSUME TypeInv, NEW k, NEW i, ~NothingPending(k, i)
  PROVE  \E n \in 1 .. Len(chan) : IsLast(n, k, i)
<1> DEFINE T == {n \in 1 .. Len(chan) : IsAbout(chan[n], k, i)}
<1>1. T \in SUBSET (1 .. Len(chan)) /\ T # {} /\ Len(chan) \in Nat
  <2>1. PICK n \in 1 .. Len(chan) : IsAbout(chan[n], k, i)
    BY DEF NothingPending, IsAbout
  <2>2. n \in T
    BY <2>1
  <2>3. chan \in Seq(Event)
    BY DEF TypeInv, TypeOK
  <2>4. Len(chan) \in Nat
    BY <2>3
  <2> QED BY <2>2, <2>4
<1>2. PICK n \in T : \A m \in T : m <= n
  <2> HIDE DEF T
  <2> QED BY <1>1, Greatest
<1> QED BY <1>2 DEF IsLast

\* A row that exists is there or comes, and it comes after any deletion.
LEMMA LiveComes ==
  ASSUME TypeInv, CopyInv, NEW k \in Kind, NEW i \in Id, MirrorInv(k, i),
         WasRead(k, i), broker[k][i].live
  PROVE  /\ Present(k, i) \/ Coming(k, i)
         /\ \A l \in 1 .. Len(chan) : About(l, k, i, "DELETED") =>
              \E m \in 1 .. Len(chan) : l < m /\ About(m, k, i, "ADDED")
<1>1. CASE NothingPending(k, i)
  <2>1. Known(k, i) # {}
    BY <1>1 DEF MirrorInv, Settled
  <2>2. Present(k, i)
    BY <2>1, VersionsAt DEF Known, Present
  <2>3. \A l \in 1 .. Len(chan) : ~About(l, k, i, "DELETED")
    BY <1>1 DEF NothingPending, About
  <2> QED BY <2>2, <2>3
<1>2. CASE ~NothingPending(k, i)
  <2>1. PICK n \in 1 .. Len(chan) : IsLast(n, k, i)
    BY <1>2, SomeLast
  <2>2. chan[n].status # "DELETED" /\ chan[n].status \in Status
    <3>1. chan[n] \in Event
      BY DEF TypeInv, TypeOK
    <3> QED BY <2>1, <3>1 DEF MirrorInv, LastTells, Event
  <2>3. About(n, k, i, "ADDED") \/ About(n, k, i, "CHANGED")
    BY <2>1, <2>2 DEF IsLast, IsAbout, About, Status
  <2>4. \A l \in 1 .. Len(chan) : About(l, k, i, "DELETED") => l < n
    <3> TAKE l \in 1 .. Len(chan)
    <3> HAVE About(l, k, i, "DELETED")
    <3>1. l <= n /\ l # n
      BY <2>1, <2>2 DEF IsLast, IsAbout, About
    <3> QED BY <3>1
  <2>5. CASE About(n, k, i, "ADDED")
    BY <2>4, <2>5 DEF Coming
  <2>6. CASE About(n, k, i, "CHANGED")
    BY <2>4, <2>6 DEF MirrorInv, ChangesFollow, Coming
  <2> QED BY <2>3, <2>5, <2>6
<1> QED BY <1>1, <1>2

\* While a table is still to be copied, nobody is told of changes.
LEMMA ReadBeforeTold ==
  ASSUME CopyInv, NEW k \in Kind, NEW s \in Changes(k), NEW i,
         ~Unsubscribed(k, s) \/ chan # <<>>
  PROVE  toRead = <<>> /\ WasRead(k, i)
<1>1. toRead = <<>>
  <2> SUFFICES ASSUME toRead # <<>>  PROVE Unsubscribed(k, s) /\ chan = <<>>
    OBVIOUS
  <2>1. calls = Subscriptions /\ chan = <<>>
    BY DEF CopyInv
  <2>2. Unsubscribed(k, s) <=> <<k, s>> \in Members(calls)
    BY DEF Unsubscribed, Members
  <2> QED BY <2>1, <2>2, SubscribedToAll
<1>2. 1 .. Len(toRead) = {}
  BY <1>1
<1> QED BY <1>1, <1>2 DEF WasRead

\* The broker: the event it puts into the queue is the last and tells how the
\* row is; a change nobody is told of is missed, or made before the row is copied.
LEMMA MirrorBroker ==
  ASSUME TypeInv, CopyInv, NEW k \in Kind, NEW i \in Id,
         BrokerAdds(k, i) \/ BrokerChanges(k, i) \/ BrokerDeletes(k, i),
         NEW r \in Kind, NEW j \in Id, <<r, j>> \notin missed', MirrorInv(r, j)
  PROVE  MirrorInv(r, j)'
<1>1. PICK s \in Changes(k), v \in Nat :
        /\ Notify(k, i, s, v) /\ s \in Status /\ v = broker'[k][i].ver
        /\ s = "DELETED" <=> ~broker'[k][i].live
        /\ s = "CHANGED" => broker[k][i].live
  BY BrokerTells
<1>2. /\ ~(r = k /\ j = i) => broker'[r][j] = broker[r][j]
      /\ UNCHANGED <<toRead, unread, loaded, calls, data, shown>>
  BY BrokerTells
<1>3. /\ Len(chan) \in Nat
      /\ \A n \in 1 .. Len(chan) : chan[n] \in Event /\ chan'[n] = chan[n]
      /\ \/ /\ Unsubscribed(k, s) /\ chan' = chan
            /\ WasRead(k, i) => <<k, i>> \in missed'
         \/ /\ ~Unsubscribed(k, s) /\ Len(chan') = Len(chan) + 1
            /\ chan'[Len(chan) + 1] = [kind |-> k, status |-> s, row |-> [id |-> i, ver |-> v]]
  BY <1>1, NotifyQueue
<1>4. /\ Known(r, j)' = Known(r, j) /\ (Present(r, j)' <=> Present(r, j))
      /\ WasRead(r, j)' <=> WasRead(r, j)
  BY <1>2 DEF Known, Present, WasRead
<1>5. \A n \in 1 .. Len(chan) :
        /\ IsAbout(chan'[n], r, j) <=> IsAbout(chan[n], r, j)
        /\ \A q : About(n, r, j, q)' <=> About(n, r, j, q)
        /\ n \in 1 .. Len(chan')
  BY <1>3 DEF About
<1>6. \A n \in 1 .. Len(chan') : n \in 1 .. Len(chan) \/ (n = Len(chan) + 1 /\ n = Len(chan'))
  BY <1>3
<1>7. CASE \A n \in 1 .. Len(chan') : IsAbout(chan'[n], r, j) => n \in 1 .. Len(chan)
  <2>1. CASE ~(r = k /\ j = i)
    <3>1. Settled(r, j)'
      <4>1. NothingPending(r, j)' => NothingPending(r, j)
        BY <1>5 DEF NothingPending, IsAbout
      <4> QED BY <1>2, <1>4, <2>1, <4>1 DEF MirrorInv, Settled
    <3>2. LastTells(r, j)'
      <4> SUFFICES ASSUME NEW n \in 1 .. Len(chan'), IsLast(n, r, j)'
                   PROVE  /\ chan'[n].status = "DELETED" <=> ~broker'[r][j].live
                          /\ chan'[n].row.ver = broker'[r][j].ver
        BY DEF LastTells
      <4>1. n \in 1 .. Len(chan) /\ IsLast(n, r, j)
        BY <1>5, <1>7 DEF IsLast
      <4> QED BY <1>2, <1>3, <2>1, <4>1 DEF MirrorInv, LastTells
    <3>3. ChangesFollow(r, j)'
      <4> SUFFICES ASSUME NEW n \in 1 .. Len(chan'), About(n, r, j, "CHANGED")'
                   PROVE  /\ Present(r, j) \/ \E m \in 1 .. Len(chan') : m < n /\ About(m, r, j, "ADDED")'
                          /\ \A l \in 1 .. Len(chan') : l < n /\ About(l, r, j, "DELETED")' =>
                               \E m \in 1 .. Len(chan') : l < m /\ m < n /\ About(m, r, j, "ADDED")'
        BY <1>4 DEF ChangesFollow
      <4>1. \A m \in 1 .. Len(chan') : \A q : About(m, r, j, q)' => m \in 1 .. Len(chan)
        BY <1>7 DEF About, IsAbout
      <4>2. n \in 1 .. Len(chan) /\ About(n, r, j, "CHANGED")
        BY <1>5, <4>1
      <4>3. /\ Present(r, j) \/ \E m \in 1 .. Len(chan) : m < n /\ About(m, r, j, "ADDED")
            /\ \A l \in 1 .. Len(chan) : l < n /\ About(l, r, j, "DELETED") =>
                 \E m \in 1 .. Len(chan) : l < m /\ m < n /\ About(m, r, j, "ADDED")
        BY <4>2 DEF MirrorInv, ChangesFollow
      <4> QED BY <1>5, <4>1, <4>3
    <3> QED BY <3>1, <3>2, <3>3 DEF MirrorInv
  <2>2. CASE r = k /\ j = i
    <3>1. chan' = chan /\ ~WasRead(k, i)
      <4>1. ~(Len(chan') = Len(chan) + 1 /\
              chan'[Len(chan) + 1] = [kind |-> k, status |-> s, row |-> [id |-> i, ver |-> v]])
        BY <1>3, <1>7, <2>2 DEF IsAbout
      <4> QED BY <1>3, <2>2, <4>1
    <3>2. chan = <<>>
      BY <3>1, ReadBeforeTold
    <3>3. 1 .. Len(chan') = {}
      BY <3>1, <3>2
    <3> QED BY <1>4, <2>2, <3>1, <3>3 DEF MirrorInv, Settled, LastTells, ChangesFollow
  <2> QED BY <2>1, <2>2
<1>8. CASE \E n \in 1 .. Len(chan') : IsAbout(chan'[n], r, j) /\ n \notin 1 .. Len(chan)
  <2>0. PICK N : N = Len(chan) + 1
    OBVIOUS
  <2>1. /\ ~Unsubscribed(k, s) /\ Len(chan') = N /\ N \in 1 .. N
        /\ chan'[N] = [kind |-> k, status |-> s, row |-> [id |-> i, ver |-> v]]
        /\ IsAbout(chan'[N], r, j)
    BY <1>3, <1>6, <1>8, <2>0
  <2>2. /\ r = k /\ j = i
        /\ chan'[N].status = s /\ chan'[N].row.ver = v
        /\ \A q : About(N, r, j, q)' <=> q = s
    BY <2>1 DEF IsAbout, About
  <2>3. Settled(r, j)'
    <3>1. ~NothingPending(r, j)'
      BY <2>1 DEF NothingPending, IsAbout
    <3> QED BY <3>1 DEF Settled
  <2>4. LastTells(r, j)'
    <3> SUFFICES ASSUME NEW n \in 1 .. Len(chan'), IsLast(n, r, j)'
                 PROVE  /\ chan'[n].status = "DELETED" <=> ~broker'[r][j].live
                        /\ chan'[n].row.ver = broker'[r][j].ver
      BY DEF LastTells
    <3>1. N <= n
      BY <2>1 DEF IsLast
    <3>2. n = N
      BY <1>3, <2>0, <2>1, <3>1
    <3> QED BY <1>1, <2>2, <3>2
  <2>5. ASSUME NEW n \in 1 .. Len(chan'), About(n, r, j, "CHANGED")'
        PROVE  /\ Present(r, j) \/ \E m \in 1 .. Len(chan') : m < n /\ About(m, r, j, "ADDED")'
               /\ \A l \in 1 .. Len(chan') : l < n /\ About(l, r, j, "DELETED")' =>
                    \E m \in 1 .. Len(chan') : l < m /\ m < n /\ About(m, r, j, "ADDED")'
    <3>1. CASE n \in 1 .. Len(chan)
      <4>1. About(n, r, j, "CHANGED")
        BY <1>5, <2>5, <3>1
      <4>2. /\ Present(r, j) \/ \E m \in 1 .. Len(chan) : m < n /\ About(m, r, j, "ADDED")
            /\ \A l \in 1 .. Len(chan) : l < n /\ About(l, r, j, "DELETED") =>
                 \E m \in 1 .. Len(chan) : l < m /\ m < n /\ About(m, r, j, "ADDED")
        BY <3>1, <4>1 DEF MirrorInv, ChangesFollow
      <4>3. \A l \in 1 .. Len(chan') : l < n => l \in 1 .. Len(chan)
        BY <1>3, <2>0, <2>1, <3>1
      <4> QED BY <1>5, <4>2, <4>3
    <3>2. CASE n \notin 1 .. Len(chan)
      <4>1. n = N /\ s = "CHANGED"
        BY <1>6, <2>0, <2>2, <2>5, <3>2
      <4>2. WasRead(r, j)
        BY <2>1, <2>2, ReadBeforeTold
      <4>3. /\ Present(r, j) \/ Coming(r, j)
            /\ \A l \in 1 .. Len(chan) : About(l, r, j, "DELETED") =>
                 \E m \in 1 .. Len(chan) : l < m /\ About(m, r, j, "ADDED")
        BY <1>1, <2>2, <4>1, <4>2, LiveComes
      <4>4. \A m \in 1 .. Len(chan) : m < n
        BY <1>3, <2>0, <4>1
      <4>5. \A l \in 1 .. Len(chan') : l < n => l \in 1 .. Len(chan)
        BY <1>3, <2>0, <2>1, <4>1
      <4> QED BY <1>5, <4>3, <4>4, <4>5 DEF Coming
    <3> QED BY <3>1, <3>2
  <2>6. ChangesFollow(r, j)'
    BY <1>4, <2>5 DEF ChangesFollow
  <2> QED BY <2>3, <2>4, <2>6 DEF MirrorInv
<1> QED BY <1>7, <1>8

\* The worker copies a row as it is; no event has told anything yet.
LEMMA MirrorRead ==
  ASSUME TypeInv, CopyInv, NEW i \in Id, ReadRow(i), ~shown,
         NEW r \in Kind, NEW j \in Id, MirrorInv(r, j)
  PROVE  MirrorInv(r, j)'
<1>1. /\ ~Holds(data[r], j) /\ Len(chan) = 0
      /\ UNCHANGED <<broker, chan, data, shown, toRead>> /\ unread' = unread \ {i}
  BY ReadStep DEF ReadRow
<1>2. 1 .. Len(chan') = {} /\ NothingPending(r, j) /\ Versions(data[r], j) = {}
  BY <1>1, VersionsAt DEF NothingPending
<1>3. /\ Known(r, j) = Versions(loaded[r], j)
      /\ Known(r, j)' = Versions(loaded'[r], j)
  BY <1>1, <1>2 DEF Known
<1>4. Settled(r, j)'
  <2>1. CASE r = Head(toRead) /\ j = i
    <3>1. ~WasRead(r, j)
      <4>1. toRead # <<>> /\ i \in unread /\ toRead \in Seq(Kind)
        BY DEF ReadRow, TypeInv, TypeOK
      <4>2. 1 \in 1 .. Len(toRead) /\ toRead[1] = r
        BY <2>1, <4>1, HeadTailProperties, EmptySeq
      <4> QED BY <2>1, <4>1, <4>2 DEF WasRead
    <3>2. Versions(loaded[r], j) = {}
      BY <3>1, VersionsAt DEF CopyInv
    <3>3. Versions(loaded'[r], j) = IF broker[r][j].live THEN {broker[r][j].ver} ELSE {}
      BY <2>1, <3>2, ReadVersions
    <3> QED BY <1>1, <1>3, <3>3 DEF Settled
  <2>2. CASE ~(r = Head(toRead) /\ j = i)
    <3>1. Versions(loaded'[r], j) = Versions(loaded[r], j)
      <4>1. Versions(loaded'[r], j) =
              IF r = Head(toRead) /\ j = i /\ broker[r][j].live
              THEN Versions(loaded[r], j) \cup {broker[r][j].ver} ELSE Versions(loaded[r], j)
        BY ReadVersions
      <4> QED BY <2>2, <4>1
    <3>2. WasRead(r, j)' => WasRead(r, j)
      <4> SUFFICES ASSUME WasRead(r, j)', NEW n \in 1 .. Len(toRead), toRead[n] = r
                   PROVE  n = 1 /\ j \notin unread
        BY DEF WasRead
      <4>1. n = 1 /\ j \notin unread \ {i}
        BY <1>1 DEF WasRead
      <4>2. toRead[1] = Head(toRead)
        BY HeadTailProperties DEF ReadRow, TypeInv, TypeOK
      <4> QED BY <2>2, <4>1, <4>2
    <3> QED BY <1>1, <1>2, <1>3, <3>1, <3>2 DEF MirrorInv, Settled
  <2> QED BY <2>1, <2>2
<1> QED BY <1>2, <1>4 DEF MirrorInv, LastTells, ChangesFollow

\* A step that changes neither the tables nor the queue nor the lists; at the
\* end of a table all its rows have been read.
LEMMA MirrorSame ==
  ASSUME UNCHANGED <<broker, loaded, chan, data, shown>>,
         NEW r \in Kind, NEW j \in Id, MirrorInv(r, j),
         WasRead(r, j)' => WasRead(r, j)
  PROVE  MirrorInv(r, j)'
<1>1. /\ Known(r, j)' = Known(r, j) /\ (Present(r, j)' <=> Present(r, j))
      /\ NothingPending(r, j)' <=> NothingPending(r, j)
      /\ \A n : IsLast(n, r, j)' <=> IsLast(n, r, j)
      /\ \A n, q : About(n, r, j, q)' <=> About(n, r, j, q)
  BY DEF Known, Present, NothingPending, IsLast, IsAbout, About
<1>2. Settled(r, j)'
  BY <1>1 DEF MirrorInv, Settled
<1>3. LastTells(r, j)'
  BY <1>1 DEF MirrorInv, LastTells
<1>4. ChangesFollow(r, j)'
  BY <1>1 DEF MirrorInv, ChangesFollow
<1> QED BY <1>2, <1>3, <1>4 DEF MirrorInv

\* The rows of the next table have not been read, those of this one have.
LEMMA TableWasRead ==
  ASSUME TypeInv, TableRead, NEW r, NEW j \in Id, WasRead(r, j)'
  PROVE  WasRead(r, j)
<1>1. toRead # <<>> /\ toRead \in Seq(Kind) /\ toRead' = Tail(toRead) /\ unread = {} /\ unread' = Id
  BY DEF TableRead, TypeInv, TypeOK
<1>2. /\ Len(toRead) \in Nat /\ Len(toRead') = Len(toRead) - 1
      /\ \A n \in 1 .. Len(toRead) - 1 : toRead'[n] = toRead[n + 1]
  BY <1>1, HeadTailProperties
<1> SUFFICES ASSUME NEW n \in 1 .. Len(toRead), toRead[n] = r, n # 1  PROVE FALSE
  BY <1>1 DEF WasRead
<1>3. n - 1 \in 1 .. Len(toRead) - 1 /\ toRead'[n - 1] = r
  <2>1. n - 1 \in 1 .. Len(toRead) - 1 /\ n - 1 + 1 = n
    BY <1>2
  <2> QED BY <1>2, <2>1
<1>4. n - 1 \in 1 .. Len(toRead')
  BY <1>2, <1>3
<1> QED BY <1>1, <1>3, <1>4 DEF WasRead

\* The copy is put behind the rows that came as events.
LEMMA MirrorShow ==
  ASSUME TypeInv, ShowSnapshot, NEW r \in Kind, NEW j \in Id, MirrorInv(r, j)
  PROVE  MirrorInv(r, j)'
<1>1. UNCHANGED <<broker, chan, toRead, unread>> /\ ~shown /\ shown'
  BY DEF ShowSnapshot, native
<1>2. data'[r] = data[r] \o loaded[r]
  BY DEF ShowSnapshot, Snapshot
<1>3. data[r] \in Seq(Element) /\ loaded[r] \in Seq(Element)
  BY DEF TypeInv, TypeOK
<1>4. Versions(data[r] \o loaded[r], j) = Versions(data[r], j) \cup Versions(loaded[r], j)
  BY <1>3, BothVersions
<1>5. Known(r, j)' = Known(r, j)
  BY <1>1, <1>2, <1>4 DEF Known
<1>6. Present(r, j)' <=> Present(r, j)
  BY <1>1, <1>2, <1>3, BothRows DEF Present
<1>7. /\ NothingPending(r, j)' <=> NothingPending(r, j)
      /\ WasRead(r, j)' <=> WasRead(r, j)
      /\ \A n : IsLast(n, r, j)' <=> IsLast(n, r, j)
      /\ \A n, q : About(n, r, j, q)' <=> About(n, r, j, q)
  BY <1>1 DEF NothingPending, WasRead, IsLast, IsAbout, About
<1>8. Settled(r, j)'
  BY <1>1, <1>5, <1>7 DEF MirrorInv, Settled
<1>9. LastTells(r, j)'
  BY <1>1, <1>7 DEF MirrorInv, LastTells
<1>10. ChangesFollow(r, j)'
  BY <1>1, <1>6, <1>7 DEF MirrorInv, ChangesFollow
<1> QED BY <1>8, <1>9, <1>10 DEF MirrorInv

\* What each kind of event does to the list of its table.
LEMMA HandlerExactly ==
  ASSUME TypeInv, CopyInv, handleEvent
  PROVE  LET e == Head(chan) IN
         /\ e.status = "ADDED" => data'[e.kind] = Append(data[e.kind], e.row)
         /\ e.status = "CHANGED" => data'[e.kind] = Update(data[e.kind], e.row)
         /\ e.status = "DELETED" /\ e.kind # "orders" =>
              data'[e.kind] = Delete(data[e.kind], e.row.id)
         /\ e.status = "DELETED" /\ e.kind = "orders" => data'[e.kind] = data[e.kind]
         /\ e.status = "DELETED" => e.kind \in {"orders", "trades", "summary"}
         /\ e.status \in Status /\ e.kind \in Kind /\ e.row \in Element
         /\ missed' = Forgotten(e)
<1> DEFINE e == Head(chan)
<1>1. e = chan[1] /\ 1 \in 1 .. Len(chan) /\ e \in Event
  BY TailQueue
<1>2. data \in [Kind -> Seq(Element)] /\ missed' = Forgotten(e)
  BY DEF TypeInv, TypeOK, handleEvent
<1>3. \/ e.kind = "accounts" /\ onAccount(e)
      \/ e.kind = "orders" /\ onOrder(e)
      \/ e.kind = "trades" /\ onTrade(e)
      \/ e.kind = "closed" /\ onClosedTrade(e)
      \/ e.kind = "summary" /\ onSummary(e)
  BY DEF handleEvent
<1>4. e.status \in Changes(e.kind)
  BY <1>1 DEF CopyInv
<1> HIDE DEF e
<1>5. e.kind \in Kind /\ e.status \in Status /\ e.row \in Element
  BY <1>1 DEF Event
<1>6. CASE e.kind = "accounts" /\ onAccount(e)
  <2>1. e.status = "CHANGED"
    BY <1>4, <1>6 DEF Changes
  <2> QED BY <1>2, <1>5, <1>6, <2>1 DEF onAccount, e
<1>7. CASE e.kind = "orders" /\ onOrder(e)
  <2>1. CASE e.status = "CHANGED" /\ ~Holds(data["orders"], e.row.id)
    BY <1>2, <1>5, <1>7, <2>1 DEF onOrder, Update, e
  <2>2. CASE ~(e.status = "CHANGED" /\ ~Holds(data["orders"], e.row.id))
    BY <1>2, <1>5, <1>7, <2>2 DEF onOrder, e
  <2> QED BY <2>1, <2>2
<1>8. CASE e.kind = "trades" /\ onTrade(e)
  BY <1>2, <1>5, <1>8 DEF onTrade, e
<1>9. CASE e.kind = "closed" /\ onClosedTrade(e)
  <2>1. e.status = "ADDED"
    BY <1>4, <1>9 DEF Changes
  <2> QED BY <1>2, <1>5, <1>9, <2>1 DEF onClosedTrade, e
<1>10. CASE e.kind = "summary" /\ onSummary(e)
  BY <1>2, <1>5, <1>10 DEF onSummary, e
<1> QED BY <1>3, <1>6, <1>7, <1>8, <1>9, <1>10 DEF e

\* What the handling of an event about a row makes of what is known of the row.
LEMMA HandlerKnown ==
  ASSUME TypeInv, CopyInv, handleEvent, NEW r \in Kind, NEW j \in Id,
         <<r, j>> \notin missed', RowInv(r, j), MirrorInv(r, j),
         r = "summary" => <<r, j>> \notin missed,
         IsAbout(chan[1], r, j)
  PROVE  /\ chan[1].status # "DELETED" => Known(r, j)' = {chan[1].row.ver}
         /\ chan[1].status = "DELETED" /\ r # "orders" => Known(r, j)' = {}
         /\ chan[1].status # "DELETED" => Present(r, j)'
<1> DEFINE e == chan[1]
<1>1. /\ e.status = "ADDED" => data'[r] = Append(data[r], e.row)
      /\ e.status = "CHANGED" => data'[r] = Update(data[r], e.row)
      /\ e.status = "DELETED" /\ r # "orders" => data'[r] = Delete(data[r], j)
      /\ e.status \in Status /\ e.row \in Element /\ missed' = Forgotten(e)
      /\ e.kind = r /\ e.row.id = j
  BY HandlerExactly, TailQueue DEF IsAbout
<1>2. /\ 1 \in 1 .. Len(chan) /\ \A q : About(1, r, j, q) <=> q = e.status
      /\ UNCHANGED <<loaded, shown>> /\ Len(chan) \in Nat
  BY TailQueue DEF IsAbout, About
<1>3. data[r] \in Seq(Element) /\ loaded[r] \in Seq(Element)
  BY DEF TypeInv, TypeOK
<1>4. /\ OnceOf(data[r], j)
      /\ ~shown /\ Holds(data[r], j) => ~Holds(loaded[r], j)
      /\ e.status = "ADDED" => ~Present(r, j)
  <2>1. CASE r = "summary"
    BY <1>2, <2>1 DEF RowInv, TurnInv
  <2>2. CASE r # "summary"
    <3>1. OnceInv(r, j) /\ (e.status = "ADDED" => Coming(r, j))
      BY <1>2, <2>2 DEF RowInv, Coming
    <3> QED BY <3>1 DEF OnceInv, Present
  <2> QED BY <2>1, <2>2
\* A change or a deletion before the copy is shown is not forgotten: the row is there.
<1>5. ~shown /\ e.status # "ADDED" => Holds(data[r], j)
  BY <1>1 DEF Forgotten
<1>6. Known(r, j)' = Versions(data'[r], j) \cup (IF shown THEN {} ELSE Versions(loaded[r], j))
  BY <1>2 DEF Known
<1> HIDE DEF e
<1>7. CASE e.status = "ADDED"
  <2>1. Versions(Append(data[r], e.row), j) = Versions(data[r], j) \cup {e.row.ver}
    <3>1. \A list \in Seq(Element), x \in Element :
            x.id = j => Versions(Append(list, x), j) = Versions(list, j) \cup {x.ver}
      BY AppendVersions
    <3> QED BY <1>1, <1>3, <3>1, Zenon
  <2>2. Versions(data[r], j) = {} /\ (~shown => Versions(loaded[r], j) = {})
    BY <1>4, <1>7, VersionsAt DEF Present
  <2>3. Known(r, j)' = {e.row.ver}
    BY <1>1, <1>6, <1>7, <2>1, <2>2
  <2>4. Holds(data'[r], j)
    BY <1>1, <1>7, <2>1, VersionsAt
  <2> QED BY <1>7, <2>3, <2>4 DEF Present, e
<1>8. CASE e.status = "CHANGED"
  <2>1. Holds(data[r], j)
    <3>1. ~\E m \in 1 .. Len(chan) : m < 1 /\ About(m, r, j, "ADDED")
      BY <1>2
    <3>2. Present(r, j)
      BY <1>2, <1>8, <3>1 DEF MirrorInv, ChangesFollow
    <3> QED BY <1>5, <1>8, <3>2 DEF Present
  <2>2. Versions(Update(data[r], e.row), j) = {e.row.ver}
    BY <1>1, <1>3, <1>4, <2>1, UpdateVersions
  <2>3. ~shown => Versions(loaded[r], j) = {}
    BY <1>4, <2>1, VersionsAt
  <2>4. Known(r, j)' = {e.row.ver}
    BY <1>1, <1>6, <1>8, <2>2, <2>3
  <2>5. Holds(data'[r], j)
    BY <1>1, <1>8, <2>2, VersionsAt
  <2> QED BY <1>8, <2>4, <2>5 DEF Present, e
<1>9. CASE e.status = "DELETED"
  <2> SUFFICES ASSUME r # "orders"  PROVE Known(r, j)' = {}
    BY <1>9 DEF e
  <2>1. ~Holds(Delete(data[r], j), j)
    BY <1>3, <1>4, DeleteRow
  <2>2. Versions(data'[r], j) = {}
    BY <1>1, <1>9, <2>1, VersionsAt
  <2>3. ~shown => Versions(loaded[r], j) = {}
    BY <1>4, <1>5, <1>9, VersionsAt
  <2> QED BY <1>6, <2>2, <2>3
<1> QED BY <1>1, <1>7, <1>8, <1>9 DEF Status

\* The handling of the last event about a row shows the row as it is.
LEMMA MirrorHandle ==
  ASSUME TypeInv, CopyInv, handleEvent, NEW r \in Kind, NEW j \in Id,
         <<r, j>> \notin missed, <<r, j>> \notin missed', RowInv(r, j), MirrorInv(r, j)
  PROVE  MirrorInv(r, j)'
<1>1. /\ Len(chan) \in Nat /\ Len(chan) >= 1 /\ Len(chan') = Len(chan) - 1
      /\ \A n \in 1 .. Len(chan') : n + 1 \in 1 .. Len(chan) /\ chan'[n] = chan[n + 1]
      /\ UNCHANGED <<broker, toRead, unread, loaded, shown>>
  BY TailQueue
<1>2. \A n \in 1 .. Len(chan') :
        /\ IsAbout(chan'[n], r, j) <=> IsAbout(chan[n + 1], r, j)
        /\ \A q : About(n, r, j, q)' <=> About(n + 1, r, j, q)
  BY <1>1 DEF About
\* What is behind the first event is still there.
<1>3. \A m \in 1 .. Len(chan) : m # 1 =>
        /\ m - 1 \in 1 .. Len(chan') /\ m - 1 < m
        /\ IsAbout(chan'[m - 1], r, j) <=> IsAbout(chan[m], r, j)
        /\ \A q : About(m - 1, r, j, q)' <=> About(m, r, j, q)
  <2> TAKE m \in 1 .. Len(chan)
  <2> HAVE m # 1
  <2>1. m - 1 \in 1 .. Len(chan') /\ m - 1 + 1 = m /\ m - 1 < m
    BY <1>1
  <2> QED BY <1>2, <2>1
<1>4. WasRead(r, j)' <=> WasRead(r, j)
  BY <1>1 DEF WasRead
<1>5. ~IsAbout(chan[1], r, j) =>
        Known(r, j)' = Known(r, j) /\ (Present(r, j)' <=> Present(r, j))
  <2>1. ~IsAbout(chan[1], r, j) => Versions(data'[r], j) = Versions(data[r], j)
    BY HandlerVersions
  <2> QED BY <1>1, <2>1, VersionsAt DEF Known, Present
<1>6. IsAbout(chan[1], r, j) =>
        /\ chan[1].status # "DELETED" => Known(r, j)' = {chan[1].row.ver} /\ Present(r, j)'
        /\ chan[1].status = "DELETED" /\ r # "orders" => Known(r, j)' = {}
  BY HandlerKnown
<1>7. Settled(r, j)'
  <2>1. CASE ~IsAbout(chan[1], r, j)
    <3>1. NothingPending(r, j)' => NothingPending(r, j)
      BY <1>3, <2>1 DEF NothingPending, IsAbout
    <3> QED BY <1>1, <1>4, <1>5, <2>1, <3>1 DEF MirrorInv, Settled
  <2>2. CASE IsAbout(chan[1], r, j)
    <3> SUFFICES ASSUME NothingPending(r, j)'
                 PROVE  /\ broker[r][j].live => Known(r, j)' = {broker[r][j].ver}
                        /\ ~broker[r][j].live /\ r # "orders" => Known(r, j)' = {}
      BY <1>1 DEF Settled
    <3>1. 1 \in 1 .. Len(chan) /\ IsLast(1, r, j)
      BY <1>1, <1>3, <2>2 DEF NothingPending, IsAbout, IsLast
    <3>2. /\ chan[1].status = "DELETED" <=> ~broker[r][j].live
          /\ chan[1].row.ver = broker[r][j].ver
      BY <3>1 DEF MirrorInv, LastTells
    <3> QED BY <1>6, <2>2, <3>2
  <2> QED BY <2>1, <2>2
<1>8. LastTells(r, j)'
  <2> SUFFICES ASSUME NEW n \in 1 .. Len(chan'), IsLast(n, r, j)'
               PROVE  /\ chan'[n].status = "DELETED" <=> ~broker'[r][j].live
                      /\ chan'[n].row.ver = broker'[r][j].ver
    BY DEF LastTells
  <2>1. IsLast(n + 1, r, j)
    <3>1. IsAbout(chan[n + 1], r, j)
      BY <1>2 DEF IsLast
    <3>2. ASSUME NEW m \in 1 .. Len(chan), IsAbout(chan[m], r, j)  PROVE m <= n + 1
      <4>1. CASE m = 1
        BY <1>1, <4>1
      <4>2. CASE m # 1
        <5>1. m - 1 \in 1 .. Len(chan') /\ IsAbout(chan'[m - 1], r, j)
          BY <1>3, <3>2, <4>2
        <5>2. m - 1 <= n
          BY <5>1 DEF IsLast
        <5> QED BY <1>1, <5>2
      <4> QED BY <4>1, <4>2
    <3> QED BY <3>1, <3>2 DEF IsLast
  <2> QED BY <1>1, <2>1 DEF MirrorInv, LastTells
<1>9. ChangesFollow(r, j)'
  <2> SUFFICES ASSUME NEW n \in 1 .. Len(chan'), About(n, r, j, "CHANGED")'
               PROVE  /\ Present(r, j)' \/ \E m \in 1 .. Len(chan') : m < n /\ About(m, r, j, "ADDED")'
                      /\ \A l \in 1 .. Len(chan') : l < n /\ About(l, r, j, "DELETED")' =>
                           \E m \in 1 .. Len(chan') : l < m /\ m < n /\ About(m, r, j, "ADDED")'
    BY DEF ChangesFollow
  <2>1. /\ n + 1 \in 1 .. Len(chan) /\ About(n + 1, r, j, "CHANGED")
        /\ Present(r, j) \/ \E m \in 1 .. Len(chan) : m < n + 1 /\ About(m, r, j, "ADDED")
        /\ \A l \in 1 .. Len(chan) : l < n + 1 /\ About(l, r, j, "DELETED") =>
             \E m \in 1 .. Len(chan) : l < m /\ m < n + 1 /\ About(m, r, j, "ADDED")
    BY <1>1, <1>2 DEF MirrorInv, ChangesFollow
  <2>2. ASSUME NEW m \in 1 .. Len(chan), m # 1, m < n + 1, About(m, r, j, "ADDED")
        PROVE  \E o \in 1 .. Len(chan') : o < n /\ About(o, r, j, "ADDED")'
    <3>1. m - 1 < n
      BY <1>1, <2>2
    <3> QED BY <1>3, <2>2, <3>1
  <2>3. Present(r, j)' \/ \E m \in 1 .. Len(chan') : m < n /\ About(m, r, j, "ADDED")'
    <3>1. CASE IsAbout(chan[1], r, j) /\ chan[1].status # "DELETED"
      BY <1>6, <3>1
    <3>2. CASE IsAbout(chan[1], r, j) /\ chan[1].status = "DELETED"
      <4>1. 1 \in 1 .. Len(chan) /\ 1 < n + 1 /\ About(1, r, j, "DELETED")
        BY <1>1, <3>2 DEF IsAbout, About
      <4>2. PICK m \in 1 .. Len(chan) : 1 < m /\ m < n + 1 /\ About(m, r, j, "ADDED")
        BY <2>1, <4>1
      <4>3. m # 1
        BY <4>2
      <4> QED BY <2>2, <4>2, <4>3
    <3>3. CASE ~IsAbout(chan[1], r, j)
      <4>1. ~About(1, r, j, "ADDED")
        BY <3>3 DEF IsAbout, About
      <4> QED BY <1>5, <2>1, <2>2, <3>3, <4>1
    <3> QED BY <3>1, <3>2, <3>3
  <2>4. ASSUME NEW l \in 1 .. Len(chan'), l < n, About(l, r, j, "DELETED")'
        PROVE  \E m \in 1 .. Len(chan') : l < m /\ m < n /\ About(m, r, j, "ADDED")'
    <3>1. l + 1 \in 1 .. Len(chan) /\ l + 1 < n + 1 /\ About(l + 1, r, j, "DELETED")
      BY <1>1, <1>2, <2>4
    <3>2. PICK m \in 1 .. Len(chan) : l + 1 < m /\ m < n + 1 /\ About(m, r, j, "ADDED")
      BY <2>1, <3>1
    <3>3. m # 1 /\ l < m - 1 /\ m - 1 < n
      BY <1>1, <3>2
    <3> QED BY <1>3, <3>2, <3>3
  <2> QED BY <2>3, <2>4
<1> QED BY <1>7, <1>8, <1>9 DEF MirrorInv

\* Every table is to be copied.
LEMMA AllToRead ==
  ASSUME NEW k \in Kind
  PROVE  \E n \in 1 .. Len(LoadOrder) : LoadOrder[n] = k
<1>1. \A r : Of(r) \in Seq(Kind) /\ (r \in Kind => r \in Members(Of(r)))
  <2> TAKE r
  <2>1. r \in Kind => r \in Members(<<r>>)
    <3>1. Len(<<r>>) = 1 /\ <<r>>[1] = r
      OBVIOUS
    <3> QED BY <3>1 DEF Members
  <2> QED BY <2>1 DEF Of
<1>2. \A s, t \in Seq(Kind) : s \o t \in Seq(Kind) /\ Members(s) \cup Members(t) = Members(s \o t)
  BY ConcatMembers, ConcatProperties
<1> DEFINE a == Of("accounts")
           o == Of("orders")
           t == Of("trades")
           c == Of("closed")
           u == Of("summary")
<1>3. /\ a \in Seq(Kind) /\ o \in Seq(Kind) /\ t \in Seq(Kind) /\ c \in Seq(Kind) /\ u \in Seq(Kind)
      /\ k \in Members(a) \cup Members(o) \cup Members(t) \cup Members(c) \cup Members(u)
  BY <1>1, KindAssumption DEF AllKinds
<1>4. LoadOrder = a \o o \o t \o c \o u
  BY DEF LoadOrder
<1> HIDE DEF a, o, t, c, u
<1>5. a \o o \in Seq(Kind) /\ Members(a \o o) = Members(a) \cup Members(o)
  BY <1>2, <1>3
<1>6. a \o o \o t \in Seq(Kind) /\ Members(a \o o \o t) = Members(a \o o) \cup Members(t)
  BY <1>2, <1>3, <1>5
<1>7. /\ a \o o \o t \o c \in Seq(Kind)
      /\ Members(a \o o \o t \o c) = Members(a \o o \o t) \cup Members(c)
  BY <1>2, <1>3, <1>6
<1>8. Members(LoadOrder) = Members(a \o o \o t \o c) \cup Members(u)
  BY <1>2, <1>3, <1>4, <1>7
<1>9. k \in Members(LoadOrder)
  BY <1>3, <1>5, <1>6, <1>7, <1>8
<1> QED BY <1>9 DEF Members

\* At the start nothing has been read and nothing told.
LEMMA MirrorInit ==
  ASSUME Init
  PROVE  Mirrored
<1>1. toRead = LoadOrder /\ unread = Id /\ ~shown /\ Len(chan) = 0 /\ 1 .. Len(chan) = {}
  BY DEF Init
<1>2. ASSUME NEW k \in Kind, NEW i \in Id  PROVE MirrorInv(k, i)
  <2>1. ~WasRead(k, i)
    BY <1>1, AllToRead DEF WasRead
  <2> QED BY <1>1, <2>1 DEF MirrorInv, Settled, LastTells, ChangesFollow
<1> QED BY <1>1, <1>2 DEF Mirrored

\* Each action, row by row.
LEMMA MirrorNext ==
  ASSUME RowsInv, Mirrored, Next
  PROVE  Mirrored'
<1>1. TypeInv /\ CopyInv /\ \A r \in Kind, j \in Id : RowInv(r, j)
  BY DEF RowsInv
<1>2. toRead' # <<>> => ~shown'
  <2>1. CASE ShowSnapshot
    BY <2>1 DEF ShowSnapshot, native
  <2>2. CASE TableRead
    BY <2>2 DEF TableRead, Mirrored, node
  <2>3. CASE ~ShowSnapshot /\ ~TableRead
    <3>1. UNCHANGED <<toRead, shown>>
      BY <2>3 DEF Next, BrokerAdds, BrokerChanges, BrokerDeletes, ReadRow, Subscribe, PumpStart,
                  PumpEnd, handleEvent, Database, RunStatement, native, node
    <3> QED BY <3>1 DEF Mirrored
  <2> QED BY <2>1, <2>2, <2>3
<1>3. ASSUME NEW r \in Kind, NEW j \in Id, <<r, j>> \notin missed'  PROVE MirrorInv(r, j)'
  <2>1. <<r, j>> \notin missed /\ MirrorInv(r, j) /\ RowInv(r, j)
    BY <1>1, <1>3, MissedGrows DEF Mirrored
  <2>2. ASSUME NEW k \in Kind, NEW i \in Id,
               BrokerAdds(k, i) \/ BrokerChanges(k, i) \/ BrokerDeletes(k, i)
        PROVE  MirrorInv(r, j)'
    BY <1>1, <1>3, <2>1, <2>2, MirrorBroker
  <2>3. ASSUME NEW i \in Id, ReadRow(i)  PROVE MirrorInv(r, j)'
    <3>1. ~shown
      BY <2>3 DEF ReadRow, Mirrored
    <3> QED BY <1>1, <2>1, <2>3, <3>1, MirrorRead
  <2>4. CASE TableRead
    BY <1>1, <2>1, <2>4, TableWasRead, MirrorSame DEF TableRead, node
  <2>5. CASE Subscribe \/ PumpStart \/ PumpEnd \/ Database
    <3>1. UNCHANGED <<broker, toRead, unread, loaded, chan, data, shown>>
      BY <2>5 DEF Subscribe, PumpStart, PumpEnd, Database, RunStatement, native, node
    <3>2. WasRead(r, j)' => WasRead(r, j)
      BY <3>1 DEF WasRead
    <3> QED BY <2>1, <3>1, <3>2, MirrorSame
  <2>6. CASE handleEvent
    BY <1>1, <1>3, <2>1, <2>6, MirrorHandle
  <2>7. CASE ShowSnapshot
    BY <1>1, <2>1, <2>7, MirrorShow
  <2> QED BY <2>2, <2>3, <2>4, <2>5, <2>6, <2>7 DEF Next
<1> QED BY <1>2, <1>3 DEF Mirrored

\* Once the copy is shown, every row of which no event is in the queue is shown
\* as the broker has it, unless a change of it was missed: the copy made by
\* loadData, the queue and the handlers of events.js lose and invent nothing.
THEOREM DatasetMirrorsBroker == Spec => []Mirror
<1>1. Init => Mirrored
  BY MirrorInit
<1>2. RowsInv /\ Mirrored /\ [Next]_vars => Mirrored'
  <2> SUFFICES ASSUME RowsInv, Mirrored, [Next]_vars  PROVE Mirrored'
    OBVIOUS
  <2>1. CASE Next
    BY <2>1, MirrorNext
  <2>2. CASE UNCHANGED vars
    <3>1. UNCHANGED <<broker, toRead, unread, loaded, chan, data, shown, missed>>
      BY <2>2 DEF vars, native, node
    <3>2. \A k \in Kind, i \in Id : WasRead(k, i)' => WasRead(k, i)
      BY <3>1 DEF WasRead
    <3>3. \A k \in Kind, i \in Id : <<k, i>> \notin missed => MirrorInv(k, i)'
      BY <3>1, <3>2, MirrorSame DEF Mirrored
    <3> QED BY <3>1, <3>3 DEF Mirrored
  <2> QED BY <2>1, <2>2
<1>3. RowsInv /\ Mirrored => Mirror
  <2> SUFFICES ASSUME RowsInv, Mirrored, shown, NEW k \in Kind, NEW i \in Id,
                      <<k, i>> \notin missed, NothingPending(k, i)
               PROVE  Agrees(k, i)
    BY DEF Mirror
  <2>1. WasRead(k, i)
    <3>1. toRead = <<>>
      BY DEF Mirrored
    <3>2. 1 .. Len(toRead) = {}
      BY <3>1
    <3> QED BY <3>2 DEF WasRead
  <2>2. /\ broker[k][i].live => Versions(data[k], i) = {broker[k][i].ver}
        /\ ~broker[k][i].live /\ k # "orders" => Versions(data[k], i) = {}
    BY <2>1 DEF Mirrored, MirrorInv, Settled, Known
  <2>3. data[k] \in Seq(Element)
    BY DEF RowsInv, TypeInv, TypeOK
  <2>4. ASSUME broker[k][i].live
        PROVE  Holds(data[k], i) /\ data[k][First(data[k], i)].ver = broker[k][i].ver
    <3>1. Holds(data[k], i)
      BY <2>2, <2>4, VersionsAt
    <3>2. data[k][First(data[k], i)].ver \in Versions(data[k], i)
      BY <2>3, <3>1, OneVersion
    <3> QED BY <2>2, <2>4, <3>1, <3>2
  <2>5. ~broker[k][i].live /\ k # "orders" => ~Holds(data[k], i)
    BY <2>2, VersionsAt
  <2> QED BY <2>4, <2>5 DEF Agrees
<1> QED BY <1>1, <1>2, <1>3, RowsInvariance, PTL DEF Spec

-----------------------------------------------------------------------------
(* What is stored: the statements about a row are run in the order in      *)
(* which they were sent, and the last of them carries the version shown.   *)

\* The tables of TransactionsAreStored.
Kept == Kind \cap {"orders", "closed"}

OnRow(st, k, i) == st.kind = k /\ st.row.id = i
LastOn(s, n, k, i) == OnRow(s[n], k, i) /\ \A m \in 1 .. Len(s) : OnRow(s[m], k, i) => m <= n

\* A row of which list is the list, s the statements under way and d the version
\* in the database.
InStore(k, i, list, s, d) ==
  /\ \A n \in 1 .. Len(s) : OnRow(s[n], k, i) => s[n].row.ver # 0 /\ Holds(list, i)
  /\ d # 0 => Holds(list, i)
  /\ \A n \in 1 .. Len(s) : OnRow(s[n], k, i) /\ s[n].op = "insert" =>
       d = 0 /\ \A m \in 1 .. Len(s) : OnRow(s[m], k, i) => n <= m
  /\ \A n \in 1 .. Len(s) : LastOn(s, n, k, i) => Versions(list, i) = {s[n].row.ver}
  /\ d # 0 /\ (\A n \in 1 .. Len(s) : ~OnRow(s[n], k, i)) => Versions(list, i) = {d}

\* It is in the database or will be.
Covered(k, i, s, d) ==
  d # 0 \/ \E n \in 1 .. Len(s) : OnRow(s[n], k, i) /\ s[n].op # "update"

\* save() has come to the row at place b of the table a of its order, or is done.
Reached(a, b) == inited \/ (at # <<>> /\ NotBefore(at, <<a, b>>))

Saved ==
  \A a \in 1 .. Len(SaveOrder) : \A b \in DOMAIN data[SaveOrder[a]] :
    SaveOrder[a] \in Kept /\ Reached(a, b) =>
      LET k == SaveOrder[a]
          i == data[k][b].id
      IN  Covered(k, i, stmts, db[k][i])

Stored ==
  serializer \notin {"none", "sqlite"} =>
    /\ inited => shown
    /\ Saved
    /\ \A k \in Kept, i \in Id : InStore(k, i, data[k], stmts, db[k][i])

\* A statement is sent about the row with the version that is shown.
LEMMA SendOn ==
  ASSUME NEW k, NEW i, NEW list, NEW new, NEW s \in Seq(Statement), NEW d, NEW st \in Statement,
         InStore(k, i, list, s, d), OnRow(st, k, i), st.row.ver # 0,
         Versions(new, i) = {st.row.ver},
         st.op = "insert" => ~Holds(list, i)
  PROVE  /\ InStore(k, i, new, Append(s, st), d)
         /\ Covered(k, i, s, d) \/ st.op # "update" => Covered(k, i, Append(s, st), d)
<1> DEFINE t == Append(s, st)
<1>1. /\ Len(t) = Len(s) + 1 /\ t[Len(s) + 1] = st
      /\ \A n \in 1 .. Len(s) : t[n] = s[n]
  BY AppendProperties
<1> HIDE DEF t
<1>2. Len(s) \in Nat
  OBVIOUS
<1>3. /\ \A n \in 1 .. Len(t) : n \in 1 .. Len(s) \/ n = Len(s) + 1
      /\ \A n \in 1 .. Len(s) : n \in 1 .. Len(t) /\ n < Len(s) + 1
      /\ Len(s) + 1 \in 1 .. Len(t)
  BY <1>1, <1>2
<1>4. Holds(new, i)
  BY VersionsAt
<1>5. \A n \in 1 .. Len(t) : OnRow(t[n], k, i) => t[n].row.ver # 0 /\ Holds(new, i)
  BY <1>1, <1>3, <1>4 DEF InStore
<1>6. ASSUME NEW n \in 1 .. Len(t), OnRow(t[n], k, i), t[n].op = "insert"
      PROVE  d = 0 /\ \A m \in 1 .. Len(t) : OnRow(t[m], k, i) => n <= m
  <2>1. CASE n \in 1 .. Len(s)
    <3>1. d = 0 /\ \A m \in 1 .. Len(s) : OnRow(s[m], k, i) => n <= m
      BY <1>1, <1>6, <2>1 DEF InStore
    <3>2. n <= Len(s) + 1
      BY <1>2, <2>1
    <3> QED BY <1>1, <1>3, <3>1, <3>2
  <2>2. CASE n = Len(s) + 1
    <3>1. ~Holds(list, i)
      BY <1>1, <1>6, <2>2
    <3>2. d = 0 /\ \A m \in 1 .. Len(s) : ~OnRow(s[m], k, i)
      BY <3>1 DEF InStore
    <3>3. n <= n
      BY <1>2, <2>2
    <3> QED BY <1>1, <1>3, <2>2, <3>2, <3>3
  <2> QED BY <1>3, <2>1, <2>2
<1>7. ASSUME NEW n \in 1 .. Len(t), LastOn(t, n, k, i)
      PROVE  Versions(new, i) = {t[n].row.ver}
  <2>1. Len(s) + 1 <= n
    BY <1>1, <1>3, <1>7 DEF LastOn
  <2>2. n = Len(s) + 1
    BY <1>1, <1>2, <2>1
  <2> QED BY <1>1, <2>2
<1>8. ~\A n \in 1 .. Len(t) : ~OnRow(t[n], k, i)
  BY <1>1, <1>3
<1>9. InStore(k, i, new, t, d)
  BY <1>4, <1>5, <1>6, <1>7, <1>8 DEF InStore
<1>10. Covered(k, i, s, d) \/ st.op # "update" => Covered(k, i, t, d)
  BY <1>1, <1>3 DEF Covered
<1> QED BY <1>9, <1>10 DEF t

\* A statement about another row is sent.
LEMMA SendOff ==
  ASSUME NEW k, NEW i, NEW list, NEW new, NEW s \in Seq(Statement), NEW d, NEW st \in Statement,
         InStore(k, i, list, s, d), ~OnRow(st, k, i),
         Versions(new, i) = Versions(list, i)
  PROVE  /\ InStore(k, i, new, Append(s, st), d)
         /\ Covered(k, i, s, d) => Covered(k, i, Append(s, st), d)
<1> DEFINE t == Append(s, st)
<1>1. /\ Len(t) = Len(s) + 1 /\ t[Len(s) + 1] = st
      /\ \A n \in 1 .. Len(s) : t[n] = s[n]
  BY AppendProperties
<1> HIDE DEF t
<1>2. Len(s) \in Nat
  OBVIOUS
<1>3. /\ \A n \in 1 .. Len(t) : OnRow(t[n], k, i) => n \in 1 .. Len(s) /\ OnRow(s[n], k, i) /\ t[n] = s[n]
      /\ \A n \in 1 .. Len(s) : n \in 1 .. Len(t) /\ t[n] = s[n]
  BY <1>1, <1>2
<1>4. Holds(new, i) <=> Holds(list, i)
  BY VersionsAt
<1>5. \A n \in 1 .. Len(t) : LastOn(t, n, k, i) => n \in 1 .. Len(s) /\ LastOn(s, n, k, i)
  BY <1>3 DEF LastOn
<1>6. InStore(k, i, new, t, d)
  BY <1>3, <1>4, <1>5 DEF InStore
<1>7. Covered(k, i, s, d) => Covered(k, i, t, d)
  BY <1>3 DEF Covered
<1> QED BY <1>6, <1>7 DEF t

\* Nothing is sent, and the list shows the row as before.
LEMMA SendNothing ==
  ASSUME NEW k, NEW i, NEW list, NEW new, NEW s, NEW d,
         InStore(k, i, list, s, d),
         Versions(new, i) = Versions(list, i) \/ ~Holds(list, i)
  PROVE  InStore(k, i, new, s, d)
<1>1. CASE Versions(new, i) = Versions(list, i)
  <2>1. Holds(new, i) <=> Holds(list, i)
    BY <1>1, VersionsAt
  <2> QED BY <1>1, <2>1 DEF InStore
<1>2. CASE ~Holds(list, i)
  <2>1. d = 0 /\ \A n \in 1 .. Len(s) : ~OnRow(s[n], k, i)
    BY <1>2 DEF InStore
  <2> QED BY <2>1 DEF InStore, LastOn
<1> QED BY <1>1, <1>2

\* What the database makes of the version of a row it has.
Ran(st, old) ==
  CASE st.op = "insert" -> IF old = 0 THEN st.row.ver ELSE old
    [] st.op = "update" -> IF old = 0 THEN old ELSE st.row.ver
    [] st.op = "upsert" -> st.row.ver

\* The first statement is run.
LEMMA RunFirst ==
  ASSUME NEW k, NEW i, NEW list, NEW s \in Seq(Statement), NEW d, Len(s) >= 1,
         InStore(k, i, list, s, d)
  PROVE  LET t == RemoveAt(s, 1)
             new == IF OnRow(s[1], k, i) THEN Ran(s[1], d) ELSE d
         IN  /\ InStore(k, i, list, t, new)
             /\ Covered(k, i, s, d) => Covered(k, i, t, new)
<1> DEFINE t == RemoveAt(s, 1)
           new == IF OnRow(s[1], k, i) THEN Ran(s[1], d) ELSE d
<1>1. /\ Len(s) \in Nat /\ 1 \in 1 .. Len(s)
      /\ Len(t) = Len(s) - 1
      /\ \A n \in 1 .. Len(s) - 1 : t[n] = s[n + 1]
  <2>1. Len(s) \in Nat /\ 1 \in 1 .. Len(s)
    OBVIOUS
  <2>2. /\ Len(t) = Len(s) - 1
        /\ \A n \in 1 .. Len(s) - 1 : t[n] = IF n < 1 THEN s[n] ELSE s[n + 1]
    BY <2>1, RemoveAtProperties
  <2> QED BY <2>1, <2>2
<1>2. s[1].op \in {"insert", "update", "upsert"}
  <2>1. s[1] \in Statement
    BY <1>1
  <2> QED BY <2>1 DEF Statement
<1> HIDE DEF t
<1>3. \A n \in 1 .. Len(t) : n + 1 \in 1 .. Len(s) /\ t[n] = s[n + 1]
  BY <1>1
<1>4. \A m \in 1 .. Len(s) : m # 1 => m - 1 \in 1 .. Len(t) /\ t[m - 1] = s[m]
  <2> TAKE m \in 1 .. Len(s)
  <2> HAVE m # 1
  <2>1. m - 1 \in 1 .. Len(s) - 1 /\ m - 1 + 1 = m
    BY <1>1
  <2> QED BY <1>1, <2>1
\* The row in the database: an insert finds nothing there.
<1>5. OnRow(s[1], k, i) =>
        /\ s[1].row.ver # 0 /\ Holds(list, i)
        /\ s[1].op = "insert" => d = 0 /\ new = s[1].row.ver
        /\ s[1].op = "update" => new = IF d = 0 THEN 0 ELSE s[1].row.ver
        /\ s[1].op = "upsert" => new = s[1].row.ver
  <2> SUFFICES ASSUME OnRow(s[1], k, i)
               PROVE  /\ s[1].row.ver # 0 /\ Holds(list, i)
                      /\ s[1].op = "insert" => d = 0 /\ new = s[1].row.ver
                      /\ s[1].op = "update" => new = IF d = 0 THEN 0 ELSE s[1].row.ver
                      /\ s[1].op = "upsert" => new = s[1].row.ver
    OBVIOUS
  <2>1. s[1].op = "insert" => d = 0
    BY <1>1 DEF InStore
  <2>2. s[1].row.ver # 0 /\ Holds(list, i)
    BY <1>1 DEF InStore
  <2>3. new = Ran(s[1], d)
    OBVIOUS
  <2> QED BY <2>1, <2>2, <2>3 DEF Ran
<1>6. ~OnRow(s[1], k, i) => new = d
  OBVIOUS
<1> HIDE DEF new
<1>7. \A n \in 1 .. Len(t) : OnRow(t[n], k, i) => t[n].row.ver # 0 /\ Holds(list, i)
  BY <1>3 DEF InStore
<1>8. new # 0 => Holds(list, i)
  BY <1>5, <1>6 DEF InStore
<1>9. ASSUME NEW n \in 1 .. Len(t), OnRow(t[n], k, i), t[n].op = "insert"
      PROVE  new = 0 /\ \A m \in 1 .. Len(t) : OnRow(t[m], k, i) => n <= m
  <2>1. n + 1 \in 1 .. Len(s) /\ OnRow(s[n + 1], k, i) /\ s[n + 1].op = "insert"
    BY <1>3, <1>9
  <2>2. d = 0 /\ \A m \in 1 .. Len(s) : OnRow(s[m], k, i) => n + 1 <= m
    BY <2>1 DEF InStore
  <2>3. ~OnRow(s[1], k, i)
    <3>1. ~(n + 1 <= 1)
      BY <1>1
    <3> QED BY <1>1, <2>2, <3>1
  <2>4. \A m \in 1 .. Len(t) : OnRow(t[m], k, i) => n + 1 <= m + 1
    BY <1>3, <2>2
  <2>5. \A m \in 1 .. Len(t) : n + 1 <= m + 1 => n <= m
    BY <1>1
  <2> QED BY <1>6, <2>2, <2>3, <2>4, <2>5
<1>10. ASSUME NEW n \in 1 .. Len(t), LastOn(t, n, k, i)
       PROVE  Versions(list, i) = {t[n].row.ver}
  <2>1. n + 1 \in 1 .. Len(s) /\ t[n] = s[n + 1] /\ OnRow(s[n + 1], k, i)
    BY <1>3, <1>10 DEF LastOn
  <2>2. ASSUME NEW m \in 1 .. Len(s), OnRow(s[m], k, i)  PROVE m <= n + 1
    <3>1. CASE m = 1
      BY <1>1, <3>1
    <3>2. CASE m # 1
      <4>1. m - 1 \in 1 .. Len(t) /\ OnRow(t[m - 1], k, i)
        BY <1>4, <2>2, <3>2
      <4>2. m - 1 <= n
        BY <1>10, <4>1 DEF LastOn
      <4> QED BY <1>1, <4>2
    <3> QED BY <3>1, <3>2
  <2> QED BY <2>1, <2>2 DEF InStore, LastOn
<1>11. ASSUME new # 0, \A n \in 1 .. Len(t) : ~OnRow(t[n], k, i)
       PROVE  Versions(list, i) = {new}
  <2>1. \A m \in 1 .. Len(s) : OnRow(s[m], k, i) => m = 1
    BY <1>4, <1>11
  <2>2. CASE OnRow(s[1], k, i)
    <3>1. LastOn(s, 1, k, i)
      BY <1>1, <2>1, <2>2 DEF LastOn
    <3>2. Versions(list, i) = {s[1].row.ver}
      BY <1>1, <3>1 DEF InStore
    <3>3. new = s[1].row.ver
      BY <1>2, <1>5, <1>11, <2>2
    <3> QED BY <3>2, <3>3
  <2>3. CASE ~OnRow(s[1], k, i)
    BY <1>6, <1>11, <2>1, <2>3 DEF InStore
  <2> QED BY <2>2, <2>3
<1>12. InStore(k, i, list, t, new)
  BY <1>7, <1>8, <1>9, <1>10, <1>11 DEF InStore
<1>13. ASSUME Covered(k, i, s, d)  PROVE Covered(k, i, t, new)
  <2>1. CASE d # 0
    <3>1. new # 0
      BY <1>2, <1>5, <1>6, <2>1
    <3> QED BY <3>1 DEF Covered
  <2>2. ASSUME NEW n \in 1 .. Len(s), OnRow(s[n], k, i), s[n].op # "update"
        PROVE  Covered(k, i, t, new)
    <3>1. CASE n = 1
      <4>1. new # 0
        BY <1>2, <1>5, <2>2, <3>1
      <4> QED BY <4>1 DEF Covered
    <3>2. CASE n # 1
      BY <1>4, <2>2, <3>2 DEF Covered
    <3> QED BY <3>1, <3>2
  <2> QED BY <1>13, <2>1, <2>2 DEF Covered
<1> QED BY <1>12, <1>13 DEF t, new

\* A place of the lists that save() may come to.
LEMMA RowPlaces ==
  ASSUME NEW d \in [Kind -> Seq(Element)]
  PROVE  /\ \A a \in 1 .. Len(SaveOrder) : \A b \in DOMAIN d[SaveOrder[a]] : <<a, b>> \in Rows(d)
         /\ \A p \in Rows(d) : \E a \in 1 .. Len(SaveOrder) :
              \E b \in DOMAIN d[SaveOrder[a]] : p = <<a, b>>
         /\ Len(SaveOrder) \in Nat
         /\ \A a \in 1 .. Len(SaveOrder) : SaveOrder[a] \in Kind
         /\ \A k \in Kind : d[k] \in Seq(Element) /\ DOMAIN d[k] = 1 .. Len(d[k])
<1>1. Len(SaveOrder) \in Nat /\ \A a \in 1 .. Len(SaveOrder) : SaveOrder[a] \in Kind
  BY OrderTypes
<1>2. \A k \in Kind : d[k] \in Seq(Element) /\ DOMAIN d[k] = 1 .. Len(d[k])
  OBVIOUS
<1>3. ASSUME NEW a \in 1 .. Len(SaveOrder), NEW b \in DOMAIN d[SaveOrder[a]]
      PROVE  <<a, b>> \in Rows(d)
  BY <1>1, <1>2, <1>3 DEF Rows
<1>4. ASSUME NEW p \in Rows(d)
      PROVE  \E a \in 1 .. Len(SaveOrder) : \E b \in DOMAIN d[SaveOrder[a]] : p = <<a, b>>
  <2>1. PICK a \in 1 .. Len(SaveOrder) : p \in {<<a, m>> : m \in 1 .. Len(d[SaveOrder[a]])}
    BY <1>4 DEF Rows
  <2> QED BY <1>1, <1>2, <2>1
<1> QED BY <1>1, <1>2, <1>3, <1>4

\* save() goes on: it sends nothing, or the row of the first place that is not
\* before the one it starts at.
LEMMA SaveStep ==
  ASSUME NEW d \in [Kind -> Seq(Element)], NEW from, NEW sent, serializer # "none",
         SaveFrom(d, from, sent)
  PROVE  \/ /\ stmts' = sent /\ inited' = TRUE
            /\ \A p \in Rows(d) : ~NotBefore(p, from)
         \/ \E a \in 1 .. Len(SaveOrder) : \E b \in DOMAIN d[SaveOrder[a]] :
              /\ at' = <<a, b>> /\ inited' = inited
              /\ \A p \in Rows(d) : NotBefore(p, from) => NotBefore(p, <<a, b>>)
              /\ stmts' = Append(sent, [op |-> "upsert", kind |-> SaveOrder[a],
                                       row |-> d[SaveOrder[a]][b], awaited |-> TRUE])
<1> DEFINE todo == {p \in Rows(d) : NotBefore(p, from)}
           next == CHOOSE p \in todo : \A q \in todo : NotBefore(q, p)
<1>1. CASE todo = {}
  BY <1>1 DEF SaveFrom
<1>2. CASE todo # {}
  <2>1. todo \in SUBSET (Nat \X Nat)
    BY RowTypes
  <2>2. \E p \in todo : \A q \in todo : NotBefore(q, p)
    <3> HIDE DEF todo
    <3> QED BY <1>2, <2>1, FirstRow
  <2>3. next \in todo /\ \A q \in todo : NotBefore(q, next)
    <3> HIDE DEF todo
    <3> QED BY <2>2
  <2>4. PICK a \in 1 .. Len(SaveOrder) : \E b \in DOMAIN d[SaveOrder[a]] : next = <<a, b>>
    BY <2>3, RowPlaces
  <2>5. PICK b \in DOMAIN d[SaveOrder[a]] : next = <<a, b>>
    BY <2>4
  <2>6. /\ at' = next /\ inited' = inited
        /\ stmts' = Append(sent, [op |-> "upsert", kind |-> SaveOrder[next[1]],
                                 row |-> d[SaveOrder[next[1]]][next[2]], awaited |-> TRUE])
    BY <1>2 DEF SaveFrom, Sent
  <2>7. \A p \in Rows(d) : NotBefore(p, from) => NotBefore(p, next)
    BY <2>3
  <2> HIDE DEF next
  <2> QED BY <2>6, <2>7, <2>5
<1> QED BY <1>1, <1>2

\* It has come to a row if it has come to a later one.
LEMMA BeforeOrAfter ==
  ASSUME NEW a \in Nat, NEW b \in Nat, NEW m \in Nat, NEW n \in Nat
  PROVE  /\ NotBefore(<<m, n>>, <<a, b>>) /\ NotBefore(<<a, b>>, <<m, n>>) => m = a /\ n = b
         /\ ~NotBefore(<<a, b>>, <<m, n + 1>>) => NotBefore(<<m, n>>, <<a, b>>)
         /\ a >= 1 /\ b >= 1 => NotBefore(<<a, b>>, <<1, 1>>)
BY DEF NotBefore

\* What save() sends when it goes on keeps what is stored, and covers the row it
\* has come to.
LEMMA SaveStores ==
  ASSUME NEW d \in [Kind -> Seq(Element)], NEW D \in [Kind -> [Id -> Nat]],
         NEW m \in Nat, NEW n \in Nat, NEW sent \in Seq(Statement),
         serializer # "none", SaveFrom(d, <<m, n>>, sent),
         \A k \in Kept, i \in Id :
           /\ InStore(k, i, d[k], sent, D[k][i])
           /\ OnceOf(d[k], i) /\ \A v \in Versions(d[k], i) : v # 0,
         \A a \in 1 .. Len(SaveOrder) : \A b \in DOMAIN d[SaveOrder[a]] :
           SaveOrder[a] \in Kept /\ (inited \/ ~NotBefore(<<a, b>>, <<m, n>>)) =>
             Covered(SaveOrder[a], d[SaveOrder[a]][b].id, sent, D[SaveOrder[a]][d[SaveOrder[a]][b].id])
  PROVE  /\ \A k \in Kept, i \in Id : InStore(k, i, d[k], stmts', D[k][i])
         /\ \A a \in 1 .. Len(SaveOrder) : \A b \in DOMAIN d[SaveOrder[a]] :
              SaveOrder[a] \in Kept /\ (inited' \/ (at' # <<>> /\ NotBefore(at', <<a, b>>))) =>
                Covered(SaveOrder[a], d[SaveOrder[a]][b].id, stmts',
                        D[SaveOrder[a]][d[SaveOrder[a]][b].id])
<1>0. /\ Kept \subseteq Kind
      /\ Len(SaveOrder) \in Nat
      /\ \A a \in 1 .. Len(SaveOrder) : SaveOrder[a] \in Kind
      /\ \A k \in Kind : d[k] \in Seq(Element) /\ DOMAIN d[k] = 1 .. Len(d[k])
      /\ \A a \in 1 .. Len(SaveOrder) : \A b \in DOMAIN d[SaveOrder[a]] :
           /\ <<a, b>> \in Rows(d) /\ d[SaveOrder[a]][b].id \in Id
           /\ d[SaveOrder[a]][b] \in Element /\ a \in Nat /\ b \in Nat
  <2>1. ASSUME NEW a \in 1 .. Len(SaveOrder), NEW b \in DOMAIN d[SaveOrder[a]]
        PROVE  /\ <<a, b>> \in Rows(d) /\ d[SaveOrder[a]][b].id \in Id
               /\ d[SaveOrder[a]][b] \in Element /\ a \in Nat /\ b \in Nat
    <3>1. <<a, b>> \in Rows(d) /\ d[SaveOrder[a]] \in Seq(Element)
      BY <2>1, RowPlaces
    <3>2. d[SaveOrder[a]][b] \in Element /\ a \in Nat /\ b \in Nat
      BY <3>1, RowPlaces
    <3> QED BY <3>1, <3>2 DEF Element
  <2> QED BY <2>1, RowPlaces DEF Kept
<1>1. CASE /\ stmts' = sent
           /\ \A p \in Rows(d) : ~NotBefore(p, <<m, n>>)
  BY <1>0, <1>1
<1>2. ASSUME NEW a0 \in 1 .. Len(SaveOrder), NEW b0 \in DOMAIN d[SaveOrder[a0]],
             at' = <<a0, b0>>, inited' = inited,
             \A p \in Rows(d) : NotBefore(p, <<m, n>>) => NotBefore(p, <<a0, b0>>),
             stmts' = Append(sent, [op |-> "upsert", kind |-> SaveOrder[a0],
                                   row |-> d[SaveOrder[a0]][b0], awaited |-> TRUE])
      PROVE  /\ \A k \in Kept, i \in Id : InStore(k, i, d[k], stmts', D[k][i])
             /\ \A a \in 1 .. Len(SaveOrder) : \A b \in DOMAIN d[SaveOrder[a]] :
                  SaveOrder[a] \in Kept /\ (inited' \/ (at' # <<>> /\ NotBefore(at', <<a, b>>))) =>
                    Covered(SaveOrder[a], d[SaveOrder[a]][b].id, stmts',
                            D[SaveOrder[a]][d[SaveOrder[a]][b].id])
  <2>1. PICK st : st = [op |-> "upsert", kind |-> SaveOrder[a0],
                        row |-> d[SaveOrder[a0]][b0], awaited |-> TRUE]
    OBVIOUS
  <2>2. /\ st \in Statement /\ st.op = "upsert" /\ st.kind = SaveOrder[a0]
        /\ st.row = d[SaveOrder[a0]][b0]
    BY <1>0, <2>1 DEF Statement
  <2>3. stmts' = Append(sent, st)
    BY <1>2, <2>1
  <2>4. ASSUME NEW k \in Kept, NEW i \in Id
        PROVE  /\ InStore(k, i, d[k], Append(sent, st), D[k][i])
               /\ Covered(k, i, sent, D[k][i]) \/ OnRow(st, k, i) =>
                    Covered(k, i, Append(sent, st), D[k][i])
    <3>1. /\ InStore(k, i, d[k], sent, D[k][i])
          /\ OnceOf(d[k], i) /\ \A v \in Versions(d[k], i) : v # 0
          /\ d[k] \in Seq(Element)
      BY <1>0
    <3>2. CASE OnRow(st, k, i)
      <4>1. b0 \in DOMAIN d[k] /\ d[k][b0].id = i /\ st.row.ver = d[k][b0].ver
        BY <2>2, <3>2 DEF OnRow
      <4>2. Versions(d[k], i) = {st.row.ver}
        <5>1. st.row.ver \in Versions(d[k], i)
          BY <4>1, VersionsAt
        <5>2. Holds(d[k], i)
          BY <5>1, VersionsAt
        <5> QED BY <3>1, <5>1, <5>2, OneVersion
      <4>3. st.row.ver # 0
        BY <3>1, <4>2
      <4>4. st.op # "insert" /\ st.op # "update"
        BY <2>2
      <4> QED BY <2>2, <3>1, <3>2, <4>2, <4>3, <4>4, SendOn
    <3>3. CASE ~OnRow(st, k, i)
      BY <2>2, <3>1, <3>3, SendOff
    <3> QED BY <3>2, <3>3
  <2>5. ASSUME NEW a \in 1 .. Len(SaveOrder), NEW b \in DOMAIN d[SaveOrder[a]],
               SaveOrder[a] \in Kept, inited \/ NotBefore(<<a0, b0>>, <<a, b>>)
        PROVE  Covered(SaveOrder[a], d[SaveOrder[a]][b].id, Append(sent, st),
                       D[SaveOrder[a]][d[SaveOrder[a]][b].id])
    <3>1. CASE inited \/ ~NotBefore(<<a, b>>, <<m, n>>)
      <4>1. Covered(SaveOrder[a], d[SaveOrder[a]][b].id, sent,
                    D[SaveOrder[a]][d[SaveOrder[a]][b].id])
        BY <2>5, <3>1
      <4> QED BY <1>0, <2>4, <2>5, <4>1
    <3>2. CASE NotBefore(<<a, b>>, <<m, n>>) /\ NotBefore(<<a0, b0>>, <<a, b>>)
      <4>1. NotBefore(<<a, b>>, <<a0, b0>>)
        BY <1>0, <1>2, <3>2
      <4>2. a \in Nat /\ b \in Nat /\ a0 \in Nat /\ b0 \in Nat
        BY <1>0
      <4>3. a = a0 /\ b = b0
        BY <3>2, <4>1, <4>2 DEF NotBefore
      <4>4. OnRow(st, SaveOrder[a], d[SaveOrder[a]][b].id)
        BY <2>2, <4>3 DEF OnRow
      <4> QED BY <1>0, <2>4, <2>5, <4>4
    <3> QED BY <2>5, <3>1, <3>2
  <2> QED BY <1>2, <2>3, <2>4, <2>5
<1> QED BY <1>1, <1>2, SaveStep

\* What the handlers send about orders and closed positions.
LEMMA HandlerSends ==
  ASSUME TypeInv, CopyInv, handleEvent, serializer # "none", NEW k \in Kept
  PROVE  LET e == Head(chan) IN
         \/ /\ e.kind = k /\ e.status = "ADDED"
            /\ data'[k] = Append(data[k], e.row)
            /\ stmts' = Append(stmts, [op |-> "insert", kind |-> k, row |-> e.row, awaited |-> FALSE])
         \/ /\ e.kind = k /\ e.status = "CHANGED" /\ Holds(data[k], e.row.id)
            /\ data'[k] = Update(data[k], e.row)
            /\ stmts' = Append(stmts, [op |-> "update", kind |-> k, row |-> e.row, awaited |-> FALSE])
         \/ data'[k] = data[k] /\ stmts' = stmts
         \/ /\ data'[k] = data[k]
            /\ \E st \in Statement : st.kind # k /\ stmts' = Append(stmts, st)
<1> DEFINE e == Head(chan)
<1>1. e = chan[1] /\ 1 \in 1 .. Len(chan) /\ e \in Event
  BY TailQueue
<1>2. data \in [Kind -> Seq(Element)] /\ k \in Kind /\ k \in {"orders", "closed"}
  BY DEF TypeInv, TypeOK, Kept
<1>3. \/ e.kind = "accounts" /\ onAccount(e)
      \/ e.kind = "orders" /\ onOrder(e)
      \/ e.kind = "trades" /\ onTrade(e)
      \/ e.kind = "closed" /\ onClosedTrade(e)
      \/ e.kind = "summary" /\ onSummary(e)
  BY DEF handleEvent
<1>4. e.status \in Changes(e.kind)
  BY <1>1 DEF CopyInv
<1> HIDE DEF e
<1>5. e.kind \in Kind /\ e.status \in Status /\ e.row \in Element
  BY <1>1 DEF Event
<1>6. CASE e.kind = "accounts" /\ onAccount(e)
  BY <1>2, <1>5, <1>6 DEF onAccount
<1>7. CASE e.kind = "orders" /\ onOrder(e)
  <2>1. CASE k = "orders"
    BY <1>2, <1>5, <1>7, <2>1 DEF onOrder, Sent, e
  <2>2. CASE k = "closed"
    <3>1. data'[k] = data[k]
      BY <1>2, <1>7, <2>2 DEF onOrder
    <3>2. \/ stmts' = stmts
          \/ \E op \in {"insert", "update", "upsert"} :
               stmts' = Append(stmts, [op |-> op, kind |-> "orders", row |-> e.row, awaited |-> FALSE])
      BY <1>7 DEF onOrder, Sent
    <3>3. \A op \in {"insert", "update", "upsert"} :
            [op |-> op, kind |-> "orders", row |-> e.row, awaited |-> FALSE] \in Statement
      BY <1>5, <1>7 DEF Statement
    <3> QED BY <2>2, <3>1, <3>2, <3>3
  <2> QED BY <1>2, <2>1, <2>2
<1>8. CASE e.kind = "trades" /\ onTrade(e)
  <2>1. data'[k] = data[k]
    BY <1>2, <1>8 DEF onTrade
  <2>2. data["trades"] \in Seq(Element)
    BY <1>2, <1>5, <1>8
  <2>3. Holds(data["trades"], e.row.id) =>
          data["trades"][First(data["trades"], e.row.id)] \in Element
    <3>1. Holds(data["trades"], e.row.id) =>
            First(data["trades"], e.row.id) \in 1 .. Len(data["trades"])
      BY <2>2, FirstPlace
    <3> QED BY <2>2, <3>1
  <2>4. \/ stmts' = stmts
        \/ \E op \in {"insert", "update", "upsert"}, row \in Element :
             stmts' = Append(stmts, [op |-> op, kind |-> "trades", row |-> row, awaited |-> FALSE])
    BY <1>5, <1>8, <2>3 DEF onTrade, Sent
  <2>5. \A op \in {"insert", "update", "upsert"}, row \in Element :
          [op |-> op, kind |-> "trades", row |-> row, awaited |-> FALSE] \in Statement
    BY <1>5, <1>8 DEF Statement
  <2> QED BY <1>2, <2>1, <2>4, <2>5
<1>9. CASE e.kind = "closed" /\ onClosedTrade(e)
  <2>1. e.status = "ADDED"
    BY <1>4, <1>9 DEF Changes
  <2>2. CASE k = "closed"
    BY <1>2, <1>5, <1>9, <2>1, <2>2 DEF onClosedTrade, Sent, e
  <2>3. CASE k = "orders"
    <3>1. [op |-> "insert", kind |-> "closed", row |-> e.row, awaited |-> FALSE] \in Statement
      BY <1>5, <1>9 DEF Statement
    <3> QED BY <1>2, <1>9, <2>3, <3>1 DEF onClosedTrade, Sent
  <2> QED BY <1>2, <2>2, <2>3
<1>10. CASE e.kind = "summary" /\ onSummary(e)
  BY <1>2, <1>5, <1>10 DEF onSummary
<1> QED BY <1>3, <1>6, <1>7, <1>8, <1>9, <1>10

\* The handlers, row by row: a row that is new in its list has been sent.
LEMMA StoredHandleRow ==
  ASSUME TypeInv, CopyInv, handleEvent, serializer # "none",
         NEW k \in Kept, NEW i \in Id,
         RowInv(k, i), OrderInv(k, i), InStore(k, i, data[k], stmts, db[k][i])
  PROVE  /\ InStore(k, i, data'[k], stmts', db[k][i])
         /\ Covered(k, i, stmts, db[k][i]) \/ (Holds(data'[k], i) /\ ~Holds(data[k], i)) =>
              Covered(k, i, stmts', db[k][i])
<1> DEFINE e == Head(chan)
<1>0. /\ k \in Kind /\ k # "summary"
      /\ data[k] \in Seq(Element) /\ stmts \in Seq(Statement)
  BY DEF TypeInv, TypeOK, Kept
<1>1. /\ e = chan[1] /\ 1 \in 1 .. Len(chan) /\ e \in Event
  BY TailQueue
<1>2. /\ \/ /\ e.kind = k /\ e.status = "ADDED"
            /\ data'[k] = Append(data[k], e.row)
            /\ stmts' = Append(stmts, [op |-> "insert", kind |-> k, row |-> e.row, awaited |-> FALSE])
         \/ /\ e.kind = k /\ e.status = "CHANGED" /\ Holds(data[k], e.row.id)
            /\ data'[k] = Update(data[k], e.row)
            /\ stmts' = Append(stmts, [op |-> "update", kind |-> k, row |-> e.row, awaited |-> FALSE])
         \/ data'[k] = data[k] /\ stmts' = stmts
         \/ /\ data'[k] = data[k]
            /\ \E st \in Statement : st.kind # k /\ stmts' = Append(stmts, st)
  BY HandlerSends
<1>3. /\ OnceOf(data[k], i)
      /\ e.kind = k /\ e.row.id = i /\ e.status = "ADDED" => ~Holds(data[k], i)
      /\ e.kind = k /\ e.row.id = i => 0 < e.row.ver
  <2>1. OnceInv(k, i)
    BY <1>0 DEF RowInv
  <2>2. e.kind = k /\ e.row.id = i /\ e.status = "ADDED" => Coming(k, i)
    BY <1>1 DEF Coming, About
  <2>3. e.kind = k /\ e.row.id = i => 0 < e.row.ver
    BY <1>1 DEF OrderInv, IsAbout
  <2> QED BY <2>1, <2>2, <2>3 DEF OnceInv
<1> HIDE DEF e
<1>4. e.row \in Element /\ e.row.ver \in Nat
  BY <1>1 DEF Event, Element
<1>5. CASE data'[k] = data[k] /\ stmts' = stmts
  BY <1>5
<1>6. ASSUME data'[k] = data[k], NEW st \in Statement, st.kind # k, stmts' = Append(stmts, st)
      PROVE  /\ InStore(k, i, data'[k], stmts', db[k][i])
             /\ Covered(k, i, stmts, db[k][i]) => Covered(k, i, stmts', db[k][i])
  <2>1. ~OnRow(st, k, i)
    BY <1>6 DEF OnRow
  <2> QED BY <1>0, <1>6, <2>1, SendOff
<1>7. CASE /\ e.kind = k /\ e.status = "ADDED"
           /\ data'[k] = Append(data[k], e.row)
           /\ stmts' = Append(stmts, [op |-> "insert", kind |-> k, row |-> e.row, awaited |-> FALSE])
  <2>1. PICK st : st = [op |-> "insert", kind |-> k, row |-> e.row, awaited |-> FALSE]
    OBVIOUS
  <2>2. st \in Statement /\ st.kind = k /\ st.row = e.row /\ st.op = "insert"
    BY <1>0, <1>4, <2>1 DEF Statement
  <2>3. CASE e.row.id = i
    <3>1. ~Holds(data[k], i) /\ e.row.ver # 0
      BY <1>3, <1>4, <1>7, <2>3
    <3>2. Versions(data'[k], i) = {e.row.ver}
      <4>1. \A list \in Seq(Element), x \in Element :
              x.id = i => Versions(Append(list, x), i) = Versions(list, i) \cup {x.ver}
        BY AppendVersions
      <4>2. Versions(Append(data[k], e.row), i) = Versions(data[k], i) \cup {e.row.ver}
        BY <1>0, <1>4, <2>3, <4>1, Zenon
      <4>3. Versions(data[k], i) = {}
        BY <3>1, VersionsAt
      <4> QED BY <1>7, <4>2, <4>3
    <3>3. OnRow(st, k, i)
      BY <2>2, <2>3 DEF OnRow
    <3>4. stmts' = Append(stmts, st)
      BY <1>7, <2>1
    <3>5. st.op # "update"
      BY <2>2
    <3> QED BY <1>0, <2>2, <3>1, <3>2, <3>3, <3>4, <3>5, SendOn
  <2>4. CASE e.row.id # i
    <3>1. Versions(data'[k], i) = Versions(data[k], i)
      <4>1. Versions(Append(data[k], e.row), i) = Versions(data[k], i)
        BY <1>0, <1>4, <2>4, AppendVersions
      <4> QED BY <1>7, <4>1
    <3>2. ~OnRow(st, k, i)
      BY <2>2, <2>4 DEF OnRow
    <3>3. stmts' = Append(stmts, st)
      BY <1>7, <2>1
    <3>4. Holds(data'[k], i) <=> Holds(data[k], i)
      BY <3>1, VersionsAt
    <3> QED BY <1>0, <2>2, <3>1, <3>2, <3>3, <3>4, SendOff
  <2> QED BY <2>3, <2>4
<1>8. CASE /\ e.kind = k /\ e.status = "CHANGED" /\ Holds(data[k], e.row.id)
           /\ data'[k] = Update(data[k], e.row)
           /\ stmts' = Append(stmts, [op |-> "update", kind |-> k, row |-> e.row, awaited |-> FALSE])
  <2>1. PICK st : st = [op |-> "update", kind |-> k, row |-> e.row, awaited |-> FALSE]
    OBVIOUS
  <2>2. st \in Statement /\ st.kind = k /\ st.row = e.row /\ st.op = "update"
    BY <1>0, <1>4, <2>1 DEF Statement
  <2>3. Holds(data'[k], i) => Holds(data[k], i)
    BY <1>0, <1>4, <1>8, UpdateRow
  <2>4. stmts' = Append(stmts, st)
    BY <1>8, <2>1
  <2>5. CASE e.row.id = i
    <3>1. Versions(data'[k], i) = {e.row.ver}
      <4>1. \A list \in Seq(Element), x \in Element :
              x.id = i /\ Holds(list, i) /\ OnceOf(list, i) =>
                Versions(Update(list, x), i) = {x.ver}
        BY UpdateVersions
      <4>2. Holds(data[k], i)
        BY <1>8, <2>5
      <4>3. Versions(Update(data[k], e.row), i) = {e.row.ver}
        BY <1>0, <1>3, <1>4, <2>5, <4>1, <4>2, Zenon
      <4> QED BY <1>8, <4>3
    <3>2. OnRow(st, k, i) /\ st.op # "insert" /\ st.row.ver # 0
      BY <1>3, <1>4, <1>8, <2>2, <2>5 DEF OnRow
    <3> QED BY <1>0, <2>2, <2>3, <2>4, <3>1, <3>2, SendOn
  <2>6. CASE e.row.id # i
    <3>1. Versions(data'[k], i) = Versions(data[k], i)
      BY <1>0, <1>4, <1>8, <2>6, UpdateVersions
    <3>2. ~OnRow(st, k, i)
      BY <2>2, <2>6 DEF OnRow
    <3> QED BY <1>0, <2>2, <2>3, <2>4, <3>1, <3>2, SendOff
  <2> QED BY <2>5, <2>6
<1> QED BY <1>2, <1>5, <1>6, <1>7, <1>8

\* save() comes to every table whose rows are kept.
LEMMA AllToSave ==
  ASSUME NEW k \in Kept
  PROVE  \E a \in 1 .. Len(SaveOrder) : SaveOrder[a] = k
<1>1. \A r : Of(r) \in Seq(Kind) /\ (r \in Kind => r \in Members(Of(r)))
  <2> TAKE r
  <2>1. r \in Kind => r \in Members(<<r>>)
    <3>1. Len(<<r>>) = 1 /\ <<r>>[1] = r
      OBVIOUS
    <3> QED BY <3>1 DEF Members
  <2> QED BY <2>1 DEF Of
<1>2. \A s, t \in Seq(Kind) : s \o t \in Seq(Kind) /\ Members(s) \cup Members(t) = Members(s \o t)
  BY ConcatMembers, ConcatProperties
<1> DEFINE u == Of("accounts")
           o == Of("orders")
           t == Of("trades")
           c == Of("closed")
<1>3. /\ u \in Seq(Kind) /\ o \in Seq(Kind) /\ t \in Seq(Kind) /\ c \in Seq(Kind)
      /\ k \in Members(o) \cup Members(c)
  BY <1>1 DEF Kept
<1>4. SaveOrder = u \o o \o t \o c
  BY DEF SaveOrder
<1> HIDE DEF u, o, t, c
<1>5. u \o o \in Seq(Kind) /\ Members(u \o o) = Members(u) \cup Members(o)
  BY <1>2, <1>3
<1>6. u \o o \o t \in Seq(Kind) /\ Members(u \o o \o t) = Members(u \o o) \cup Members(t)
  BY <1>2, <1>3, <1>5
<1>7. Members(SaveOrder) = Members(u \o o \o t) \cup Members(c)
  BY <1>2, <1>3, <1>4, <1>6
<1>8. k \in Members(SaveOrder)
  BY <1>3, <1>5, <1>6, <1>7
<1> QED BY <1>8 DEF Members

\* A row of a list has an id and is held by it.
LEMMA RowHeld ==
  ASSUME TypeInv, NEW k \in Kind, NEW b \in DOMAIN data[k]
  PROVE  /\ data[k][b] \in Element /\ data[k][b].id \in Id /\ data[k][b].ver \in Nat
         /\ Holds(data[k], data[k][b].id)
         /\ data[k][b].ver \in Versions(data[k], data[k][b].id)
<1>1. data[k] \in Seq(Element)
  BY DEF TypeInv, TypeOK
<1>2. data[k][b] \in Element
  BY <1>1
<1>3. data[k][b].ver \in Versions(data[k], data[k][b].id)
  BY VersionsAt
<1>4. Holds(data[k], data[k][b].id)
  BY <1>3, VersionsAt
<1> QED BY <1>2, <1>3, <1>4 DEF Element

\* An event: the rows save() has come to stay covered, and a row that is new in
\* its list is covered by the statement that the handler sends.
LEMMA StoredHandle ==
  ASSUME RowsInv, Order, handleEvent, serializer # "none", Saved,
         \A k \in Kept, i \in Id : InStore(k, i, data[k], stmts, db[k][i])
  PROVE  /\ Saved'
         /\ \A k \in Kept, i \in Id : InStore(k, i, data'[k], stmts', db'[k][i])
<1>1. /\ TypeInv /\ CopyInv /\ db' = db /\ at' = at /\ inited' = inited
      /\ Kept \subseteq Kind
      /\ \A k \in Kept, i \in Id : k \in Kind /\ RowInv(k, i) /\ OrderInv(k, i)
  BY DEF RowsInv, Order, handleEvent, saving, Kept
<1>2. ASSUME NEW k \in Kept, NEW i \in Id
      PROVE  /\ InStore(k, i, data'[k], stmts', db'[k][i])
             /\ Covered(k, i, stmts, db[k][i]) \/ (Holds(data'[k], i) /\ ~Holds(data[k], i)) =>
                  Covered(k, i, stmts', db'[k][i])
  <2>1. /\ InStore(k, i, data'[k], stmts', db[k][i])
        /\ Covered(k, i, stmts, db[k][i]) \/ (Holds(data'[k], i) /\ ~Holds(data[k], i)) =>
             Covered(k, i, stmts', db[k][i])
    <3>1. InStore(k, i, data[k], stmts, db[k][i]) /\ RowInv(k, i) /\ OrderInv(k, i)
      BY <1>1
    <3> QED BY <1>1, <3>1, StoredHandleRow
  <2> QED BY <1>1, <2>1
<1>3. ASSUME NEW a \in 1 .. Len(SaveOrder), NEW b \in DOMAIN data'[SaveOrder[a]],
             SaveOrder[a] \in Kept, Reached(a, b)'
      PROVE  Covered(SaveOrder[a], data'[SaveOrder[a]][b].id, stmts',
                     db'[SaveOrder[a]][data'[SaveOrder[a]][b].id])
  <2>1. PICK k \in Kept : k = SaveOrder[a]
    BY <1>3
  <2>2. Reached(a, b) /\ k \in Kind
    BY <1>1, <1>3 DEF Reached
  <2>3. /\ data[k] \in Seq(Element) /\ Head(chan).row \in Element /\ Head(chan).row.id \in Id
        /\ Head(chan) = chan[1] /\ 1 \in 1 .. Len(chan)
    <3>1. data[k] \in Seq(Element) /\ Head(chan).row \in Element
      BY <1>1, <2>2, HandlerLists DEF TypeInv, TypeOK
    <3>2. Head(chan) = chan[1] /\ 1 \in 1 .. Len(chan)
      BY <1>1, TailQueue
    <3> QED BY <3>1, <3>2 DEF Element
  <2>4. \/ data'[k] = data[k]
        \/ data'[k] = Append(data[k], Head(chan).row) /\ ~Holds(data[k], Head(chan).row.id)
        \/ data'[k] = Update(data[k], Head(chan).row) /\ Holds(data[k], Head(chan).row.id)
    <3>1. \/ data'[k] = data[k]
          \/ /\ Head(chan).kind = k /\ Head(chan).status = "ADDED"
             /\ data'[k] = Append(data[k], Head(chan).row)
          \/ data'[k] = Update(data[k], Head(chan).row) /\ Holds(data[k], Head(chan).row.id)
      BY <1>1, HandlerSends
    <3>2. ASSUME Head(chan).kind = k, Head(chan).status = "ADDED"
          PROVE  ~Holds(data[k], Head(chan).row.id)
      <4>1. Coming(k, Head(chan).row.id)
        BY <2>3, <3>2 DEF Coming, About
      <4>2. OnceInv(k, Head(chan).row.id)
        <5>1. RowInv(k, Head(chan).row.id) /\ k # "summary"
          BY <1>1, <2>3 DEF Kept
        <5> QED BY <5>1 DEF RowInv
      <4> QED BY <4>1, <4>2 DEF OnceInv
    <3> QED BY <3>1, <3>2
  <2> DEFINE row == Head(chan).row
             i == data'[k][b].id
  <2>5. b \in DOMAIN data'[k]
    BY <1>3, <2>1
  <2>6. \/ b \in DOMAIN data[k] /\ i = data[k][b].id
        \/ i \in Id /\ Holds(data'[k], i) /\ ~Holds(data[k], i)
    <3>1. CASE data'[k] = data[k]
      BY <2>5, <3>1
    <3>2. CASE data'[k] = Update(data[k], row) /\ Holds(data[k], row.id)
      <4>1. /\ First(data[k], row.id) \in DOMAIN data[k]
            /\ data[k][First(data[k], row.id)].id = row.id
        BY <2>3, <3>2, FirstPlace
      <4>2. /\ DOMAIN data'[k] = DOMAIN data[k]
            /\ \A n \in DOMAIN data[k] :
                 data'[k][n] = IF n = First(data[k], row.id) THEN row ELSE data[k][n]
        BY <3>2, <4>1 DEF Update
      <4> QED BY <2>5, <4>1, <4>2
    <3>3. CASE data'[k] = Append(data[k], row) /\ ~Holds(data[k], row.id)
      <4>1. /\ Len(data[k]) \in Nat /\ DOMAIN data[k] = 1 .. Len(data[k])
            /\ DOMAIN data'[k] = 1 .. Len(data[k]) + 1
            /\ \A n \in 1 .. Len(data[k]) : data'[k][n] = data[k][n]
            /\ data'[k][Len(data[k]) + 1] = row
        <5>1. /\ Append(data[k], row) \in Seq(Element)
              /\ Len(Append(data[k], row)) = Len(data[k]) + 1
              /\ \A n \in 1 .. Len(data[k]) : Append(data[k], row)[n] = data[k][n]
              /\ Append(data[k], row)[Len(data[k]) + 1] = row
          BY <2>3, AppendProperties
        <5> QED BY <2>3, <3>3, <5>1
      <4>2. CASE b \in DOMAIN data[k]
        BY <4>1, <4>2
      <4>3. CASE b \notin DOMAIN data[k]
        <5>1. b = Len(data[k]) + 1
          BY <2>5, <4>1, <4>3
        <5>2. i = row.id /\ row.id \in Id
          BY <2>3, <4>1, <5>1
        <5>3. Holds(data'[k], i)
          BY <2>5, HoldsAt
        <5> QED BY <3>3, <5>2, <5>3
      <4> QED BY <4>2, <4>3
    <3> QED BY <2>4, <3>1, <3>2, <3>3
  <2>7. CASE b \in DOMAIN data[k] /\ i = data[k][b].id
    <3>1. i \in Id
      BY <1>1, <2>2, <2>7, RowHeld
    <3>2. Covered(k, i, stmts, db[k][i])
      BY <2>1, <2>2, <2>7 DEF Saved
    <3> QED BY <1>2, <2>1, <3>1, <3>2
  <2>8. CASE i \in Id /\ Holds(data'[k], i) /\ ~Holds(data[k], i)
    BY <1>2, <2>1, <2>8
  <2> QED BY <2>6, <2>7, <2>8
<1> QED BY <1>2, <1>3 DEF Saved

\* What save() needs of the lists to go on: each row is there once, in a version
\* the broker has had.
LEMMA ListsOnce ==
  ASSUME RowsInv, Order
  PROVE  \A k \in Kept, i \in Id : OnceOf(data[k], i) /\ \A v \in Versions(data[k], i) : v # 0
<1> TAKE k \in Kept, i \in Id
<1>1. k \in Kind /\ k # "summary"
  BY DEF Kept
<1>2. RowInv(k, i) /\ OrderInv(k, i)
  BY <1>1 DEF RowsInv, Order
<1>3. OnceOf(data[k], i)
  BY <1>1, <1>2 DEF RowInv, OnceInv
<1>4. \A v \in Versions(data[k], i) : 0 < v
  BY <1>2 DEF OrderInv
<1>5. \A v \in Versions(data[k], i) : v # 0
  BY <1>4
<1> QED BY <1>3, <1>5

\* The copy is shown: nothing of it has been written, and save() starts with
\* its first row.
LEMMA StoredShow ==
  ASSUME RowsInv, RowsInv', Order', ShowSnapshot, serializer # "none", Saved, inited => shown,
         \A k \in Kept, i \in Id : InStore(k, i, data[k], stmts, db[k][i])
  PROVE  /\ Saved'
         /\ \A k \in Kept, i \in Id : InStore(k, i, data'[k], stmts', db'[k][i])
<1>1. /\ ~shown /\ ~inited /\ data' = Snapshot /\ db' = db
      /\ SaveFrom(Snapshot, <<1, 1>>, stmts)
  BY DEF ShowSnapshot
<1>2. /\ data' \in [Kind -> Seq(Element)] /\ db' \in [Kind -> [Id -> Nat]]
      /\ stmts \in Seq(Statement) /\ Kept \subseteq Kind
  BY <1>1 DEF RowsInv, TypeInv, TypeOK, Kept
<1>3. \A k \in Kept, i \in Id : OnceOf(data'[k], i) /\ \A v \in Versions(data'[k], i) : v # 0
  <2> TAKE k \in Kept, i \in Id
  <2>1. k \in Kind /\ k # "summary"
    BY DEF Kept
  <2>2. RowInv(k, i)' /\ OrderInv(k, i)'
    BY <2>1 DEF RowsInv, Order
  <2>3. OnceOf(data'[k], i)
    BY <2>1, <2>2 DEF RowInv, OnceInv
  <2>4. \A v \in Versions(data'[k], i) : 0 < v
    BY <2>2 DEF OrderInv
  <2>5. \A v \in Versions(data'[k], i) : v # 0
    BY <2>4
  <2> QED BY <2>3, <2>5
<1>4. ASSUME NEW k \in Kept, NEW i \in Id
      PROVE  InStore(k, i, data'[k], stmts, db'[k][i])
  <2>1. /\ ~(Holds(data[k], i) /\ Holds(loaded[k], i))
        /\ data[k] \in Seq(Element) /\ loaded[k] \in Seq(Element)
    BY <1>1, <1>2, OncePlace DEF Kept
  <2>2. data'[k] = data[k] \o loaded[k]
    BY <1>1, <1>2 DEF Snapshot
  <2>3. Versions(data'[k], i) = Versions(data[k], i) \cup Versions(loaded[k], i)
    BY <2>1, <2>2, BothVersions
  <2>4. Holds(data[k], i) => Versions(data'[k], i) = Versions(data[k], i)
    BY <2>1, <2>3, VersionsAt
  <2>5. InStore(k, i, data[k], stmts, db[k][i])
    OBVIOUS
  <2>6. InStore(k, i, data'[k], stmts, db[k][i])
    BY <2>4, <2>5, SendNothing
  <2> QED BY <1>1, <2>6
<1>5. \A a \in 1 .. Len(SaveOrder) : \A b \in DOMAIN data'[SaveOrder[a]] : NotBefore(<<a, b>>, <<1, 1>>)
  <2> TAKE a \in 1 .. Len(SaveOrder)
  <2> TAKE b \in DOMAIN data'[SaveOrder[a]]
  <2>1. Len(SaveOrder) \in Nat /\ SaveOrder[a] \in Kind
    BY OrderTypes
  <2>2. data'[SaveOrder[a]] \in Seq(Element)
    BY <1>2, <2>1
  <2>3. a \in Nat /\ a >= 1 /\ b \in Nat /\ b >= 1
    BY <2>1, <2>2
  <2> QED BY <2>3, BeforeOrAfter
<1>6. PICK d \in [Kind -> Seq(Element)], D \in [Kind -> [Id -> Nat]] : d = data' /\ D = db'
  BY <1>2
<1>7. /\ \A k \in Kept, i \in Id : InStore(k, i, d[k], stmts', D[k][i])
      /\ \A a \in 1 .. Len(SaveOrder) : \A b \in DOMAIN d[SaveOrder[a]] :
           SaveOrder[a] \in Kept /\ (inited' \/ (at' # <<>> /\ NotBefore(at', <<a, b>>))) =>
             Covered(SaveOrder[a], d[SaveOrder[a]][b].id, stmts',
                     D[SaveOrder[a]][d[SaveOrder[a]][b].id])
  <2>1. SaveFrom(d, <<1, 1>>, stmts) /\ 1 \in Nat
    BY <1>1, <1>6
  <2>2. \A k \in Kept, i \in Id :
          /\ InStore(k, i, d[k], stmts, D[k][i])
          /\ OnceOf(d[k], i) /\ \A v \in Versions(d[k], i) : v # 0
    BY <1>3, <1>4, <1>6
  <2>3. \A a \in 1 .. Len(SaveOrder) : \A b \in DOMAIN d[SaveOrder[a]] :
          ~(inited \/ ~NotBefore(<<a, b>>, <<1, 1>>))
    BY <1>1, <1>5, <1>6
  <2> QED BY <1>2, <2>1, <2>2, <2>3, SaveStores
<1> QED BY <1>6, <1>7 DEF Saved, Reached

\* The database runs the first of the statements sent; if save() waits for it,
\* it goes on behind the row it was at.
LEMMA StoredRun ==
  ASSUME RowsInv, Order, RunStatement(1), Len(stmts) >= 1, serializer # "none", Saved,
         \A k \in Kept, i \in Id : InStore(k, i, data[k], stmts, db[k][i])
  PROVE  /\ Saved'
         /\ \A k \in Kept, i \in Id : InStore(k, i, data'[k], stmts', db'[k][i])
<1>1. /\ data \in [Kind -> Seq(Element)] /\ db \in [Kind -> [Id -> Nat]]
      /\ stmts \in Seq(Statement) /\ Kept \subseteq Kind
      /\ TypeInv /\ 1 \in 1 .. Len(stmts)
  BY DEF RowsInv, TypeInv, TypeOK, Kept
<1>2. /\ data' = data /\ db' = Run(stmts[1])
      /\ stmts[1].awaited => SaveFrom(data, <<at[1], at[2] + 1>>, RemoveAt(stmts, 1))
      /\ ~stmts[1].awaited => stmts' = RemoveAt(stmts, 1) /\ at' = at /\ inited' = inited
  BY DEF RunStatement, saving
<1>3. db' \in [Kind -> [Id -> Nat]]
  <2>1. TypeInv'
    BY <1>1, DatabaseTypes
  <2> QED BY <2>1 DEF TypeInv, TypeOK
<1>4. RemoveAt(stmts, 1) \in Seq(Statement)
  BY <1>1, RemoveAtProperties
<1>5. ASSUME NEW k \in Kept, NEW i \in Id
      PROVE  db'[k][i] = IF OnRow(stmts[1], k, i) THEN Ran(stmts[1], db[k][i]) ELSE db[k][i]
  <2>1. stmts[1] \in Statement /\ k \in Kind
    BY <1>1
  <2>2. stmts[1].kind \in Kind /\ stmts[1].row.id \in Id
    BY <2>1 DEF Statement, Element
  <2>3. db' = [db EXCEPT ![stmts[1].kind][stmts[1].row.id] =
                 Ran(stmts[1], db[stmts[1].kind][stmts[1].row.id])]
    BY <1>2 DEF Run, Ran
  <2> QED BY <1>1, <2>1, <2>2, <2>3 DEF OnRow
<1>6. ASSUME NEW k \in Kept, NEW i \in Id
      PROVE  /\ InStore(k, i, data[k], RemoveAt(stmts, 1), db'[k][i])
             /\ Covered(k, i, stmts, db[k][i]) => Covered(k, i, RemoveAt(stmts, 1), db'[k][i])
  <2>1. InStore(k, i, data[k], stmts, db[k][i])
    OBVIOUS
  <2> QED BY <1>1, <1>5, <2>1, RunFirst
<1>7. ASSUME NEW a \in 1 .. Len(SaveOrder), NEW b \in DOMAIN data[SaveOrder[a]],
             SaveOrder[a] \in Kept, Reached(a, b)
      PROVE  Covered(SaveOrder[a], data[SaveOrder[a]][b].id, RemoveAt(stmts, 1),
                     db'[SaveOrder[a]][data[SaveOrder[a]][b].id])
  <2>1. Covered(SaveOrder[a], data[SaveOrder[a]][b].id, stmts,
                db[SaveOrder[a]][data[SaveOrder[a]][b].id])
    BY <1>7 DEF Saved
  <2>2. data[SaveOrder[a]][b].id \in Id
    BY <1>1, <1>7, RowHeld
  <2> QED BY <1>6, <1>7, <2>1, <2>2
<1>8. CASE ~stmts[1].awaited
  <2>1. \A k \in Kept, i \in Id : InStore(k, i, data'[k], stmts', db'[k][i])
    BY <1>2, <1>6, <1>8
  <2>2. Saved'
    BY <1>2, <1>7, <1>8 DEF Saved, Reached
  <2> QED BY <2>1, <2>2
<1>9. CASE stmts[1].awaited
  <2>1. at # <<>> /\ at \in Nat \X Nat
    BY <1>1, <1>9 DEF TypeInv, TypeOK
  <2>2. PICK m \in Nat, n \in Nat : at = <<m, n>>
    BY <2>1
  <2>3. SaveFrom(data, <<m, n + 1>>, RemoveAt(stmts, 1))
    BY <1>2, <1>9, <2>2
  <2>4. PICK D \in [Kind -> [Id -> Nat]] : D = db'
    BY <1>3
  <2>5. ASSUME NEW a \in 1 .. Len(SaveOrder), NEW b \in DOMAIN data[SaveOrder[a]],
               SaveOrder[a] \in Kept, inited \/ ~NotBefore(<<a, b>>, <<m, n + 1>>)
        PROVE  Covered(SaveOrder[a], data[SaveOrder[a]][b].id, RemoveAt(stmts, 1),
                       D[SaveOrder[a]][data[SaveOrder[a]][b].id])
    <3>1. Reached(a, b)
      <4>1. a \in Nat /\ b \in Nat
        <5>1. Len(SaveOrder) \in Nat /\ SaveOrder[a] \in Kind
          BY OrderTypes
        <5>2. data[SaveOrder[a]] \in Seq(Element)
          BY <1>1, <5>1
        <5> QED BY <5>1, <5>2
      <4>2. inited \/ NotBefore(<<m, n>>, <<a, b>>)
        BY <2>5, <4>1, BeforeOrAfter
      <4> QED BY <2>1, <2>2, <4>2 DEF Reached
    <3> QED BY <1>7, <2>4, <2>5, <3>1
  <2>6. \A k \in Kept, i \in Id :
          /\ InStore(k, i, data[k], RemoveAt(stmts, 1), D[k][i])
          /\ OnceOf(data[k], i) /\ \A v \in Versions(data[k], i) : v # 0
    BY <1>6, <2>4, ListsOnce
  <2>7. n + 1 \in Nat
    OBVIOUS
  <2>8. /\ \A k \in Kept, i \in Id : InStore(k, i, data[k], stmts', D[k][i])
        /\ \A a \in 1 .. Len(SaveOrder) : \A b \in DOMAIN data[SaveOrder[a]] :
             SaveOrder[a] \in Kept /\ (inited' \/ (at' # <<>> /\ NotBefore(at', <<a, b>>))) =>
               Covered(SaveOrder[a], data[SaveOrder[a]][b].id, stmts',
                       D[SaveOrder[a]][data[SaveOrder[a]][b].id])
    BY <1>1, <1>4, <2>3, <2>5, <2>6, <2>7, SaveStores
  <2> QED BY <1>2, <2>4, <2>8 DEF Saved, Reached
<1> QED BY <1>8, <1>9

\* At the start nothing is sent, shown or in the database.
LEMMA StoredInit ==
  ASSUME Init
  PROVE  Stored
<1>1. ASSUME NEW k \in Kept, NEW i \in Id  PROVE InStore(k, i, data[k], stmts, db[k][i])
  <2>1. Kept \subseteq Kind
    BY DEF Kept
  <2>2. stmts = <<>> /\ db[k][i] = 0
    BY <2>1 DEF Init
  <2>3. 1 .. Len(stmts) = {}
    BY <2>2
  <2> QED BY <2>2, <2>3 DEF InStore
<1>2. Saved
  BY DEF Init, Saved, Reached
<1> QED BY <1>1, <1>2 DEF Init, Stored

\* A step that is none of these three leaves what is stored as it is.
LEMMA StoredSame ==
  ASSUME Stored, UNCHANGED <<data, shown, at, inited, serializer, stmts, db>>
  PROVE  Stored'
<1>1. Saved => Saved'
  BY DEF Saved, Reached
<1> QED BY <1>1 DEF Stored

\* The actions.
LEMMA StoredNext ==
  ASSUME RowsInv, Order, Stored, RowsInv', Order', Next
  PROVE  Stored'
<1>1. CASE \/ \E k \in Kind, i \in Id : BrokerAdds(k, i) \/ BrokerChanges(k, i) \/ BrokerDeletes(k, i)
           \/ (\E i \in Id : ReadRow(i)) \/ TableRead \/ Subscribe \/ PumpStart \/ PumpEnd
  <2>1. UNCHANGED <<data, shown, at, inited, serializer, stmts, db>>
    BY <1>1 DEF BrokerAdds, BrokerChanges, BrokerDeletes, ReadRow, TableRead, Subscribe,
                PumpStart, PumpEnd, node, saving, store
  <2> QED BY <2>1, StoredSame
<1>2. CASE handleEvent \/ ShowSnapshot \/ Database
  <2> SUFFICES ASSUME serializer' \notin {"none", "sqlite"}
               PROVE  /\ inited' => shown'
                      /\ Saved'
                      /\ \A k \in Kept, i \in Id : InStore(k, i, data'[k], stmts', db'[k][i])
    BY DEF Stored
  <2>1. serializer' = serializer
    BY <1>2 DEF handleEvent, ShowSnapshot, Database, RunStatement
  <2>2. /\ serializer \notin {"none", "sqlite"} /\ serializer # "none" /\ serializer # "sqlite"
        /\ inited => shown
        /\ Saved
        /\ \A k \in Kept, i \in Id : InStore(k, i, data[k], stmts, db[k][i])
    BY <2>1 DEF Stored
  <2>3. CASE handleEvent
    <3>1. inited' => shown'
      BY <2>2, <2>3 DEF handleEvent, saving
    <3> QED BY <2>2, <2>3, <3>1, StoredHandle
  <2>4. CASE ShowSnapshot
    <3>1. shown'
      BY <2>4 DEF ShowSnapshot
    <3> QED BY <2>2, <2>4, <3>1, StoredShow
  <2>5. CASE Database
    <3>1. Len(stmts) \in Nat
      BY DEF RowsInv, TypeInv, TypeOK
    <3>2. RunStatement(1) /\ Len(stmts) >= 1 /\ 1 \in 1 .. Len(stmts)
      BY <2>2, <2>5, <3>1 DEF Database
    <3>3. inited' => shown'
      <4>1. CASE stmts[1].awaited
        <5>1. at # <<>>
          BY <3>2, <4>1 DEF RowsInv, TypeInv, TypeOK
        <5> QED BY <3>2, <5>1 DEF RowsInv, TypeInv, RunStatement
      <4>2. CASE ~stmts[1].awaited
        BY <2>2, <3>2, <4>2 DEF RunStatement, saving
      <4> QED BY <4>1, <4>2
    <3> QED BY <2>2, <3>2, <3>3, StoredRun
  <2> QED BY <1>2, <2>3, <2>4, <2>5
<1> QED BY <1>1, <1>2 DEF Next

\* Once the strategy is initialised and no statement is under way, every order
\* and every closed position shown is in the database in the version shown: what
\* save() of index.js and the handlers of events.js write without waiting adds up.
\* SQLite runs statements in parallel, where an update may overtake its insert.
THEOREM EveryTransactionStored == Spec => [](serializer # "sqlite" => TransactionsAreStored)
<1>1. Init => Stored
  BY StoredInit
<1>2. RowsInv /\ Order /\ Stored /\ [Next]_vars /\ RowsInv' /\ Order' => Stored'
  <2> SUFFICES ASSUME RowsInv, Order, Stored, [Next]_vars, RowsInv', Order'  PROVE Stored'
    OBVIOUS
  <2>1. CASE Next
    BY <2>1, StoredNext
  <2>2. CASE UNCHANGED vars
    BY <2>2, StoredSame DEF vars, node, saving, store
  <2> QED BY <2>1, <2>2
<1>3. RowsInv /\ Stored => (serializer # "sqlite" => TransactionsAreStored)
  <2> SUFFICES ASSUME RowsInv, Stored, serializer # "sqlite", inited, serializer # "none",
                      stmts = <<>>, NEW k \in Kept, NEW n \in DOMAIN data[k]
               PROVE  db[k][data[k][n].id] = data[k][n].ver
    BY DEF TransactionsAreStored, Kept
  <2>1. k \in Kind
    BY DEF Kept
  <2>2. PICK i \in Id : i = data[k][n].id /\ data[k][n].ver \in Versions(data[k], i)
    BY <2>1, RowHeld DEF RowsInv
  <2>3. 1 .. Len(stmts) = {}
    OBVIOUS
  <2>4. Covered(k, i, stmts, db[k][i])
    <3>1. PICK a \in 1 .. Len(SaveOrder) : SaveOrder[a] = k
      BY AllToSave
    <3>2. Reached(a, n)
      BY DEF Reached
    <3>3. Saved
      BY DEF Stored
    <3> QED BY <2>2, <3>1, <3>2, <3>3 DEF Saved
  <2>5. db[k][i] # 0
    BY <2>3, <2>4 DEF Covered
  <2>6. Versions(data[k], i) = {db[k][i]}
    <3>1. InStore(k, i, data[k], stmts, db[k][i])
      BY DEF Stored
    <3> QED BY <2>3, <2>5, <3>1 DEF InStore
  <2> QED BY <2>2, <2>6
<1> QED BY <1>1, <1>2, <1>3, RowsInvariance, OrderInvariance, PTL DEF Spec
=============================================================================
