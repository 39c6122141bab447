---------------------- MODULE ConnectionManagerProofs ----------------------
(***************************************************************************)
(* Proofs about ConnectionManager for any number of connections and any     *)
(* finite number of threads.                                                *)
(***************************************************************************)
EXTENDS ConnectionManager, FiniteSetTheorems, TLAPS

\* No element occurs twice.
Distinct(s) == \A i, j \in DOMAIN s : s[i] = s[j] => i = j

\* insert_tail() adds one element at the end of the list.
LEMMA AppendElements ==
  ASSUME NEW S, NEW s \in Seq(S), NEW c \in S, c \notin Elements(s), Distinct(s)
  PROVE  /\ Append(s, c) \in Seq(S)
         /\ Elements(Append(s, c)) = Elements(s) \cup {c}
         /\ Distinct(Append(s, c))
         /\ Len(Append(s, c)) = Len(s) + 1
<1>1. /\ Append(s, c) \in Seq(S)
      /\ Len(Append(s, c)) = Len(s) + 1
      /\ DOMAIN Append(s, c) = 1..(Len(s) + 1)
      /\ DOMAIN s = 1..Len(s)
      /\ \A i \in 1..Len(s) : Append(s, c)[i] = s[i]
      /\ Append(s, c)[Len(s) + 1] = c
      /\ Len(s) \in Nat
  OBVIOUS
<1>2. Elements(Append(s, c)) = Elements(s) \cup {c}
  BY <1>1 DEF Elements
<1>3. Distinct(Append(s, c))
  BY <1>1 DEF Elements, Distinct
<1>4. QED
  BY <1>1, <1>2, <1>3

\* iterator.remove() unlinks exactly one element of the list.
LEMMA WithoutElements ==
  ASSUME NEW S, NEW s \in Seq(S), NEW c \in Elements(s), Distinct(s)
  PROVE  /\ Without(s, c) \in Seq(S)
         /\ Elements(Without(s, c)) = Elements(s) \ {c}
         /\ Distinct(Without(s, c))
         /\ Len(Without(s, c)) = Len(s) - 1
<1> DEFINE i == CHOOSE j \in DOMAIN s : s[j] = c
           w == Without(s, c)
<1>1. /\ i \in 1..Len(s)
      /\ s[i] = c
      /\ \A j \in 1..Len(s) : s[j] = c => j = i
      /\ DOMAIN s = 1..Len(s)
      /\ Len(s) \in Nat
      /\ \A j \in 1..Len(s) : s[j] \in S
  BY DEF Elements, Distinct
<1> HIDE DEF i
<1>2. w = [j \in 1..(Len(s) - 1) |-> IF j < i THEN s[j] ELSE s[j + 1]]
  BY DEF Without, i
<1>3. /\ w \in Seq(S)
      /\ Len(w) = Len(s) - 1
      /\ DOMAIN w = 1..(Len(s) - 1)
      /\ \A j \in 1..(Len(s) - 1) : w[j] = IF j < i THEN s[j] ELSE s[j + 1]
  BY <1>1, <1>2
<1> HIDE DEF w
<1>4. Elements(w) \subseteq Elements(s) \ {c}
  <2> SUFFICES ASSUME NEW j \in 1..(Len(s) - 1)
               PROVE  w[j] \in Elements(s) \ {c}
    BY <1>3 DEF Elements
  <2> DEFINE k == IF j < i THEN j ELSE j + 1
  <2>1. k \in DOMAIN s /\ k # i /\ w[j] = s[k]
    BY <1>1, <1>3
  <2>2. QED
    BY <1>1, <2>1 DEF Elements
<1>5. ASSUME NEW x \in Elements(s) \ {c}
      PROVE  x \in Elements(w)
  <2>1. PICK j \in 1..Len(s) : s[j] = x
    BY <1>1 DEF Elements
  <2>2. CASE j < i
    <3>1. j \in DOMAIN w /\ w[j] = x
      BY <1>1, <1>3, <2>1, <2>2
    <3>2. QED
      BY <3>1 DEF Elements
  <2>3. CASE j > i
    <3>1. j - 1 \in DOMAIN w /\ w[j - 1] = x
      BY <1>1, <1>3, <2>1, <2>3
    <3>2. QED
      BY <3>1 DEF Elements
  <2>4. QED
    BY <1>1, <2>1, <2>2, <2>3
<1>6. Distinct(w)
  <2> SUFFICES ASSUME NEW j \in DOMAIN w, NEW k \in DOMAIN w, w[j] = w[k]
               PROVE  j = k
    BY DEF Distinct
  <2> DEFINE at(x) == IF x < i THEN x ELSE x + 1
  <2>1. /\ at(j) \in DOMAIN s /\ w[j] = s[at(j)]
        /\ at(k) \in DOMAIN s /\ w[k] = s[at(k)]
    BY <1>1, <1>3
  <2>2. at(j) = at(k)
    BY <2>1 DEF Distinct
  <2>3. QED
    BY <1>1, <1>3, <2>2
<1>7. QED
  BY <1>3, <1>4, <1>5, <1>6 DEF w
-----------------------------------------------------------------------------
(* Counting references.                                                     *)

LEMMA HoldersFinite ==
  ASSUME NEW c
  PROVE  /\ IsFiniteSet(HoldersOf(c))
         /\ Cardinality(HoldersOf(c)) \in Nat
<1>1. HoldersOf(c) \in SUBSET Thread
  BY DEF HoldersOf
<1>2. IsFiniteSet(HoldersOf(c))
  BY <1>1, FS_Subset, ConstantsAssumption
<1>3. QED
  BY <1>2, FS_CardinalityType

\* Taking one reference adds the thread to the owners.
LEMMA HoldersAdd ==
  ASSUME NEW H, IsFiniteSet(H), NEW t, t \notin H
  PROVE  Cardinality(H \cup {t}) = Cardinality(H) + 1
BY FS_AddElement

\* Giving one up removes it.
LEMMA HoldersRemove ==
  ASSUME NEW H, IsFiniteSet(H), NEW t \in H
  PROVE  /\ Cardinality(H \ {t}) = Cardinality(H) - 1
         /\ Cardinality(H) > 0
<1>1. Cardinality(H \ {t}) = Cardinality(H) - 1 /\ IsFiniteSet(H \ {t})
  BY FS_RemoveElement
<1>2. Cardinality(H \ {t}) \in Nat /\ Cardinality(H) \in Nat
  BY <1>1, FS_CardinalityType
<1>3. QED
  BY <1>1, <1>2

\* An owned reference keeps the object alive: exact counting excludes every
\* use after the object has been deleted.
LEMMA OwnedIsAlive ==
  ASSUME IInv, NEW c \in Connection,
         \/ operation[c]
         \/ OpenReference(c)
         \/ c \in Registered
         \/ \E t \in Thread : c \in held[t]
  PROVE  count[c] > 0
<1> DEFINE n == Cardinality(HoldersOf(c))
<1>1. n \in Nat
  BY HoldersFinite
<1>2. count[c] = Ref(operation[c]) + Ref(OpenReference(c))
               + Ref(c \in Registered) + n
  BY DEF IInv, ReferencesExact
<1>3. ASSUME NEW t \in Thread, c \in held[t]
      PROVE  n > 0
  <2>1. t \in HoldersOf(c)
    BY <1>3 DEF HoldersOf
  <2>2. QED
    BY <2>1, HoldersFinite, HoldersRemove
<1> HIDE DEF n
<1>4. QED
  BY <1>1, <1>2, <1>3 DEF Ref

\* The part of the invariant that constrains the counters carries over a step
\* that changes neither the counters nor who owns a reference.
LEMMA SameReferences ==
  ASSUME ReferencesExact,
         count' = count, operation' = operation, opener' = opener,
         connections_' = connections_, held' = held
  PROVE  ReferencesExact'
BY DEF ReferencesExact, OpenReference, Registered, Elements, HoldersOf, Ref
-----------------------------------------------------------------------------
LEMMA InitInv == Init => IInv
<1> SUFFICES ASSUME Init PROVE IInv
  OBVIOUS
<1>1. Registered = {} /\ connections_ \in Seq(Connection) /\ Len(connections_) = 0
  BY DEF Init, Registered, Elements
<1>2. \A c \in Connection : HoldersOf(c) = {} /\ Cardinality(HoldersOf(c)) = 0
  BY FS_EmptySet DEF Init, HoldersOf
<1>3. TypeOK
  BY <1>1, ConstantsAssumption DEF Init, TypeOK, Actor, ThreadPc, ConnPc
<1>4. ListBounded
  BY <1>1, ConstantsAssumption DEF Init, ListBounded
<1>5. OpeningInv
  BY <1>1, <1>2 DEF Init, OpeningInv, FailPc, Actor
<1>6. ThreadInv
  BY ConstantsAssumption DEF Init, ThreadInv, ClosePc, Actor
<1>7. ClosingInv /\ ReaderInv
  BY DEF Init, ClosingInv, ReaderInv, Actor, ClosePc
<1>8. ReferencesExact
  BY <1>1, <1>2 DEF Init, ReferencesExact, OpenReference, Ref
<1>9. NoLostWakeup
  BY ConstantsAssumption DEF Init, NoLostWakeup, Actor
<1>10. QED
  BY <1>3, <1>4, <1>5, <1>6, <1>7, <1>8, <1>9 DEF IInv
-----------------------------------------------------------------------------
(* The steps of open().                                                     *)

LEMMA Actors ==
  /\ Connection \subseteq Actor
  /\ Thread \subseteq Actor
  /\ \A t \in Thread, c \in Connection : t # c
BY ConstantsAssumption DEF Actor

\* The same for the bookkeeping of handle_close(): it carries over a step that
\* moves no actor with decrease_b set out of handle_close().
LEMMA SameClosing ==
  ASSUME ClosingInv,
         closed' = closed, operation' = operation, decrease_b' = decrease_b,
         \A a \in Actor : decrease_b[a] => /\ pc'[a] \in ClosePc \ {"close"}
                                         /\ Current(a)' = Current(a),
         \A c \in Connection : pc'[c] # "none" => pc[c] # "none"
  PROVE  ClosingInv'
<1>1. \A c \in Connection : pc'[c] # "none" /\ ~closed'[c] => operation'[c]
  BY DEF ClosingInv
<1>2. \A a \in Actor :
        decrease_b'[a] => /\ pc'[a] \in ClosePc \ {"close"}
                          /\ closed'[Current(a)']
                          /\ operation'[Current(a)']
  BY DEF ClosingInv
<1>3. \A a, b \in Actor :
        decrease_b'[a] /\ decrease_b'[b] /\ Current(a)' = Current(b)' => a = b
  BY DEF ClosingInv
<1>4. QED
  BY <1>1, <1>2, <1>3 DEF ClosingInv

LEMMA MakeInv ==
  ASSUME IInv, NEW c \in Connection, make(c)
  PROVE  IInv'
<1> USE DEF IInv, Goto, managerVars, localVars, threadVars
<1>1. Registered' = Registered /\ \A d : HoldersOf(d)' = HoldersOf(d)
  BY DEF make, Registered, Elements, HoldersOf
<1>2. TypeOK'
  BY Actors DEF make, TypeOK, ConnPc
<1>3. ListBounded'
  BY DEF make, ListBounded
<1>4. OpeningInv'
  BY <1>1, Actors DEF make, TypeOK, OpeningInv, FailPc
<1>5. ThreadInv'
  BY Actors DEF make, TypeOK, ThreadInv
<1>6. ClosingInv'
  BY Actors DEF make, TypeOK, ClosingInv, ClosePc, Current, OpeningInv
<1>7. ReaderInv'
  BY Actors DEF make, TypeOK, ReaderInv, OpeningInv, ClosePc
<1>8. ReferencesExact'
  <2> SUFFICES ASSUME NEW d \in Connection
               PROVE  count'[d] = Ref(operation'[d]) + Ref(OpenReference(d)')
                         + Ref(d \in Registered) + Cardinality(HoldersOf(d))
    BY <1>1 DEF ReferencesExact, OpenReference, Ref
  <2>1. CASE d = c
    <3>1. Cardinality(HoldersOf(c)) = 0
      BY FS_EmptySet DEF make, OpeningInv
    <3>2. QED
      BY <2>1, <3>1 DEF make, TypeOK, OpeningInv, OpenReference, Ref
  <2>2. CASE d # c
    BY <2>2 DEF make, TypeOK, ReferencesExact, OpenReference, Ref
  <2>3. QED
    BY <2>1, <2>2
<1>9. NoLostWakeup'
  BY <1>1, Actors DEF make, TypeOK, NoLostWakeup, MustWait
<1>10. QED
  BY <1>2, <1>3, <1>4, <1>5, <1>6, <1>7, <1>8, <1>9

LEMMA RegisterInv ==
  ASSUME IInv, NEW c \in Connection, register_(c)
  PROVE  IInv'
<1> USE DEF IInv, Goto, connVars, localVars, threadVars
<1>1. \A d : HoldersOf(d)' = HoldersOf(d)
  BY DEF register_, HoldersOf
<1>2. CASE /\ pc' = [pc EXCEPT ![c] = "fail_release"]
           /\ UNCHANGED <<connections_, count>>
  <2>1. Registered' = Registered
    BY <1>2 DEF Registered, Elements
  <2>2. TypeOK'
    BY <1>2, Actors DEF register_, TypeOK, ConnPc, FailPc
  <2>3. ListBounded' /\ ThreadInv' /\ ReaderInv' /\ NoLostWakeup'
    BY <1>2, <2>1, Actors DEF register_, TypeOK, ListBounded, ThreadInv,
       ReaderInv, ClosePc, NoLostWakeup, MustWait
  <2>4. OpeningInv'
    BY <1>1, <1>2, <2>1, Actors DEF register_, TypeOK, OpeningInv, FailPc
  <2>5. ClosingInv'
    BY <1>2, Actors DEF register_, TypeOK, ClosingInv, ClosePc, Current
  <2>6. ReferencesExact'
    BY <1>2, SameReferences DEF register_
  <2>7. QED
    BY <2>2, <2>3, <2>4, <2>5, <2>6
<1>3. CASE /\ Len(connections_) < Maximum
           /\ connections_' = Append(connections_, c)
           /\ increase(c)
           /\ pc' = [pc EXCEPT ![c] = "flag"]
  <2>1. /\ connections_ \in Seq(Connection) /\ Distinct(connections_)
        /\ c \notin Registered
    BY DEF TypeOK, ListBounded, Distinct, register_, OpeningInv
  <2>2. /\ connections_' \in Seq(Connection) /\ Distinct(connections_')
        /\ Registered' = Registered \cup {c}
        /\ Len(connections_') = Len(connections_) + 1
        /\ Len(connections_) \in Nat
    BY <1>3, <2>1, AppendElements DEF Registered
  <2>3. TypeOK'
    BY <1>3, <2>2, Actors DEF register_, TypeOK, ConnPc, increase
  <2>4. ListBounded'
    BY <1>3, <2>2, ConstantsAssumption DEF ListBounded, Distinct
  <2>5. ThreadInv' /\ ReaderInv'
    BY <1>3, Actors DEF register_, TypeOK, ThreadInv, ReaderInv, ClosePc
  <2>6. NoLostWakeup'
    <3>1. connections_' # <<>>
      BY <2>2
    <3>2. QED
      BY <1>3, <2>2, <3>1, Actors
         DEF register_, TypeOK, NoLostWakeup, MustWait
  <2>7. OpeningInv'
    BY <1>1, <1>3, <2>2, Actors DEF register_, TypeOK, OpeningInv, FailPc
  <2>8. ClosingInv'
    BY <1>3, Actors DEF register_, TypeOK, ClosingInv, ClosePc, Current
  <2>9. ReferencesExact'
    <3> SUFFICES ASSUME NEW d \in Connection
                 PROVE  count'[d] = Ref(operation[d]) + Ref(OpenReference(d))
                           + Ref(d \in Registered \cup {c})
                           + Cardinality(HoldersOf(d))
      BY <1>1, <2>2 DEF register_, ReferencesExact, OpenReference, Ref
    <3>1. Cardinality(HoldersOf(d)) \in Nat
      BY HoldersFinite
    <3>2. count[d] = Ref(operation[d]) + Ref(OpenReference(d))
                   + Ref(d \in Registered) + Cardinality(HoldersOf(d))
      BY DEF ReferencesExact
    <3>3. Ref(operation[d]) \in Nat /\ Ref(OpenReference(d)) \in Nat
      BY DEF Ref
    <3>4. CASE d = c
      BY <1>3, <2>1, <3>1, <3>2, <3>3, <3>4 DEF TypeOK, increase, Ref
    <3>5. CASE d # c
      BY <1>3, <3>2, <3>5 DEF TypeOK, increase, Ref
    <3>6. QED
      BY <3>4, <3>5
  <2>10. QED
    BY <2>3, <2>4, <2>5, <2>6, <2>7, <2>8, <2>9
<1>4. QED
  BY <1>2, <1>3 DEF register_

LEMMA OpenedInv ==
  ASSUME IInv, NEW c \in Connection, opened(c)
  PROVE  IInv'
<1> USE DEF IInv, Goto, managerVars, localVars, threadVars
<1>1. Registered' = Registered /\ \A d : HoldersOf(d)' = HoldersOf(d)
  BY DEF opened, Registered, Elements, HoldersOf
<1>2. TypeOK'
  <2>1. /\ pc' \in [Actor -> ThreadPc \cup ConnPc]
        /\ \A d \in Connection : pc'[d] \in ConnPc
        /\ \A t \in Thread : pc'[t] \in ThreadPc
    <3>1. PICK p \in {"done", "running", "fail_test"} :
                 pc' = [pc EXCEPT ![c] = p]
      BY DEF opened
    <3>2. QED
      BY <3>1, Actors DEF TypeOK, ConnPc, FailPc
  <2>2. QED
    BY <2>1 DEF opened, setRegistered, TypeOK
<1>3. ListBounded' /\ ThreadInv' /\ NoLostWakeup'
  BY <1>1, Actors DEF opened, TypeOK, ListBounded, ThreadInv, ClosePc,
     NoLostWakeup, MustWait
<1>4. OpeningInv'
  BY <1>1, Actors DEF opened, TypeOK, OpeningInv, FailPc
<1>5. ClosingInv'
  <2>1. \A a \in Actor : decrease_b[a] => a # c
    BY DEF opened, ClosingInv, ClosePc
  <2>2. \A a \in Actor : decrease_b[a] => /\ pc'[a] \in ClosePc \ {"close"}
                                         /\ Current(a)' = Current(a)
    <3>1. cur' = cur /\ \A a \in Actor : a # c => pc'[a] = pc[a]
      BY DEF opened, TypeOK
    <3>2. QED
      BY <2>1, <3>1 DEF ClosingInv, Current
  <2>3. \A d \in Connection : pc'[d] # "none" => pc[d] # "none"
    BY Actors DEF opened, TypeOK
  <2>4. QED
    BY <2>2, <2>3, SameClosing DEF opened
<1>6. ReaderInv'
  <2>1. /\ \A d \in Connection : d # c => pc'[d] = pc[d]
        /\ \/ pc'[c] = IF c \in WriteOnly THEN "done" ELSE "running"
           \/ pc'[c] = "fail_test"
        /\ closed' = closed /\ operation' = operation
        /\ \A d \in Connection : d # c => opener'[d] = opener[d]
    BY Actors DEF opened, TypeOK
  <2>2. pc[c] = "flag"
    BY DEF opened
  <2>3. QED
    BY <2>1, <2>2 DEF ReaderInv, ClosePc
<1>7. ReferencesExact'
  BY <1>1, Actors DEF opened, TypeOK, ReferencesExact, OpenReference, Ref,
     OpeningInv
<1>8. QED
  BY <1>2, <1>3, <1>4, <1>5, <1>6, <1>7

LEMMA OpenReturnInv ==
  ASSUME IInv, NEW c \in Connection, open_return(c)
  PROVE  IInv'
<1> USE DEF IInv, managerVars, localVars, threadVars
<1>1. Registered' = Registered /\ \A d : HoldersOf(d)' = HoldersOf(d)
  BY DEF open_return, Registered, Elements, HoldersOf
<1>2. count[c] > 0
  BY OwnedIsAlive DEF open_return, OpenReference
<1>3. TypeOK'
  BY <1>2 DEF open_return, decrease, TypeOK
<1>4. ListBounded' /\ ThreadInv' /\ ReaderInv' /\ NoLostWakeup'
  BY <1>1 DEF open_return, ListBounded, ThreadInv, ReaderInv, NoLostWakeup,
     MustWait
<1>5. OpeningInv'
  BY <1>1 DEF open_return, TypeOK, OpeningInv
<1>6. ClosingInv'
  BY DEF open_return, ClosingInv, Current
<1>7. ReferencesExact'
  <2> SUFFICES ASSUME NEW d \in Connection
               PROVE  count'[d] = Ref(operation[d]) + Ref(OpenReference(d)')
                         + Ref(d \in Registered) + Cardinality(HoldersOf(d))
    BY <1>1 DEF open_return, ReferencesExact, OpenReference, Ref
  <2>1. Cardinality(HoldersOf(d)) \in Nat
    BY HoldersFinite
  <2>2. QED
    BY <2>1 DEF open_return, decrease, TypeOK, ReferencesExact,
       OpenReference, Ref
<1>8. QED
  BY <1>3, <1>4, <1>5, <1>6, <1>7

LEMMA OpenErrorInv ==
  ASSUME IInv, NEW c \in Connection, open_error(c)
  PROVE  IInv'
<1> USE DEF IInv, Goto, close, managerVars, localVars, threadVars
<1>1. Registered' = Registered /\ \A d : HoldersOf(d)' = HoldersOf(d)
  BY DEF open_error, Registered, Elements, HoldersOf
<1>2. opener[c] = "opening"
  BY DEF open_error, OpeningInv, FailPc
<1>3. TypeOK'
  <2>1. count' \in [Connection -> Nat]
    <3>1. CASE count[c] > 1
      <4>1. count' = [count EXCEPT ![c] = count[c] - 1]
        BY <3>1 DEF open_error, decrease
      <4>2. count[c] - 1 \in Nat /\ count \in [Connection -> Nat]
        BY <3>1 DEF TypeOK
      <4>3. QED
        BY <4>1, <4>2
    <3>2. CASE ~(count[c] > 1)
      BY <3>2 DEF open_error, TypeOK
    <3>3. QED
      BY <3>1, <3>2
  <2>2. /\ pc' \in [Actor -> ThreadPc \cup ConnPc]
        /\ \A d \in Connection : pc'[d] \in ConnPc
        /\ \A t \in Thread : pc'[t] \in ThreadPc
    BY Actors DEF open_error, TypeOK, ConnPc, ClosePc
  <2>3. QED
    BY <2>1, <2>2 DEF open_error, TypeOK
<1>4. ListBounded' /\ ThreadInv' /\ NoLostWakeup'
  BY <1>1, Actors DEF open_error, TypeOK, ListBounded, ThreadInv,
     NoLostWakeup, MustWait
<1>5. OpeningInv'
  BY <1>1, <1>2, Actors DEF open_error, TypeOK, OpeningInv, FailPc
<1>6. ClosingInv'
  BY Actors DEF open_error, TypeOK, ClosingInv, ClosePc, Current
<1>7. ReaderInv'
  BY Actors DEF open_error, TypeOK, ReaderInv, ClosePc, OpeningInv, FailPc
<1>8. ReferencesExact'
  <2> SUFFICES ASSUME NEW d \in Connection
               PROVE  count'[d] = Ref(operation[d]) + Ref(OpenReference(d)')
                         + Ref(d \in Registered) + Cardinality(HoldersOf(d))
    BY <1>1 DEF open_error, ReferencesExact, OpenReference, Ref
  <2>1. Cardinality(HoldersOf(d)) \in Nat
    BY HoldersFinite
  <2>2. CASE d = c /\ count[c] > 1
    <3>1. /\ count'[d] = count[d] - 1
          /\ ~OpenReference(d)' /\ OpenReference(d)
      BY <1>2, <2>2 DEF open_error, decrease, TypeOK, OpenReference
    <3>2. Ref(OpenReference(d)) = 1 /\ Ref(OpenReference(d)') = 0
      BY <3>1 DEF Ref
    <3>3. Ref(operation[d]) \in Nat /\ Ref(d \in Registered) \in Nat
      BY DEF Ref
    <3>4. count[d] = Ref(operation[d]) + Ref(OpenReference(d))
                   + Ref(d \in Registered) + Cardinality(HoldersOf(d))
      BY DEF ReferencesExact
    <3>5. QED
      BY <2>1, <3>1, <3>2, <3>3, <3>4
  <2>3. CASE d = c /\ ~(count[c] > 1)
    BY <1>2, <2>3 DEF open_error, TypeOK, ReferencesExact, OpenReference
  <2>4. CASE d # c
    BY <2>4 DEF open_error, decrease, TypeOK, ReferencesExact, OpenReference
  <2>5. QED
    BY <2>2, <2>3, <2>4
<1>9. QED
  BY <1>3, <1>4, <1>5, <1>6, <1>7, <1>8
-----------------------------------------------------------------------------
(* The steps of deregister() and handle_close(), taken by any actor.         *)

LEMMA CurrentConnection ==
  ASSUME IInv, NEW a \in Actor, pc[a] \in ClosePc \cup FailPc
  PROVE  /\ Current(a) \in Connection
         /\ a \in Thread => /\ Current(a) \in held[a] \cap WriteOnly
                            /\ pc[a] \in ClosePc
         /\ a \in Connection => Current(a) = a
<1>1. CASE a \in Connection
  BY <1>1, Actors DEF Current
<1>2. CASE a \in Thread
  <2>1. pc[a] \in ClosePc
    BY <1>2 DEF IInv, TypeOK, ThreadPc, FailPc, ClosePc
  <2>2. Current(a) = cur[a]
    BY <1>2, Actors DEF Current
  <2>3. QED
    BY <1>2, <2>1, <2>2, Actors DEF IInv, ThreadInv, TypeOK
<1>3. QED
  BY <1>1, <1>2 DEF Actor

\* A step that only moves an actor forward inside handle_close(), or inside
\* the error path of open(), and sets a flag no reference depends on.
LEMMA MoveInv ==
  ASSUME IInv, NEW a \in Actor, NEW here, NEW next,
         pc[a] = here, Goto(a, next),
         \/ here \in ClosePc \ {"close"} /\ next \in ClosePc \ {"close"}
         \/ a \in Connection /\ here \in FailPc /\ next \in FailPc,
         isRegistered_' \in [Connection -> BOOLEAN],
         deregister_b' \in [Actor -> BOOLEAN],
         UNCHANGED <<managerVars, count, closed, down, opener, operation,
                     decrease_b, threadVars>>
  PROVE  IInv'
<1> USE DEF IInv, Goto, managerVars, threadVars
<1>1. Registered' = Registered /\ \A d : HoldersOf(d)' = HoldersOf(d)
  BY DEF Registered, Elements, HoldersOf
<1>2. TypeOK'
  BY Actors DEF TypeOK, ConnPc, ThreadPc
<1>3. ListBounded'
  BY DEF ListBounded
<1>4. ThreadInv'
  BY Actors DEF TypeOK, ThreadInv, ClosePc, FailPc
<1>5. NoLostWakeup'
  BY <1>1, Actors DEF TypeOK, NoLostWakeup, MustWait, ClosePc
<1>6. OpeningInv'
  BY <1>1, Actors DEF TypeOK, OpeningInv, ClosePc, FailPc
<1>7. ClosingInv'
  <2>1. \A b \in Actor : decrease_b[b] => pc'[b] \in ClosePc \ {"close"}
    BY DEF TypeOK, ClosingInv, ClosePc, FailPc
  <2>2. \A c \in Connection : pc'[c] # "none" => pc[c] # "none"
    BY Actors DEF TypeOK, ClosePc, FailPc
  <2>3. QED
    BY <2>1, <2>2, SameClosing DEF Current
<1>8. ReaderInv'
  BY Actors DEF TypeOK, ReaderInv, ClosePc, FailPc
<1>9. ReferencesExact'
  BY SameReferences
<1>10. QED
  BY <1>2, <1>3, <1>4, <1>5, <1>6, <1>7, <1>8, <1>9

\* deregister() of the manager, when it finds the connection.
LEMMA DeregisterInv ==
  ASSUME IInv, NEW a \in Actor, NEW here, NEW next, deregister(a, here, next),
         \/ here \in ClosePc \ {"close"} /\ next \in ClosePc \ {"close"}
         \/ a \in Connection /\ here \in FailPc /\ next \in FailPc
  PROVE  IInv'
<1> DEFINE c == Current(a)
<1> USE DEF IInv
<1>1. pc[a] = here /\ c \in Connection
  BY CurrentConnection DEF deregister
<1>2. CASE c \notin Registered
  <2>1. /\ Goto(a, next)
        /\ UNCHANGED <<managerVars, count, connVars, localVars, threadVars>>
    BY <1>2 DEF deregister, managerVars
  <2>2. QED
    BY <1>1, <2>1, MoveInv DEF connVars, localVars, TypeOK
<1>3. CASE c \in Registered
  <2>1. /\ connections_' = Without(connections_, c)
        /\ count' = [count EXCEPT ![c] = @ - 1]
        /\ pc' = [broadcast(pc) EXCEPT ![a] = next]
        /\ UNCHANGED <<isActive_, connVars, localVars, threadVars>>
    BY <1>3 DEF deregister, decrease
  <2>2. connections_ \in Seq(Connection) /\ Distinct(connections_)
    BY DEF TypeOK, ListBounded, Distinct
  <2>3. /\ connections_' \in Seq(Connection) /\ Distinct(connections_')
        /\ Registered' = Registered \ {c}
        /\ Len(connections_') = Len(connections_) - 1
        /\ Len(connections_) \in Nat
    BY <1>3, <2>1, <2>2, WithoutElements DEF Registered
  <2>4. count[c] > 0
    BY <1>1, <1>3, OwnedIsAlive
  <2> HIDE DEF c
  <2>5. /\ \A d : HoldersOf(d)' = HoldersOf(d)
        /\ \A b : Current(b)' = Current(b)
    BY <2>1 DEF HoldersOf, Current, threadVars
  <2>6. /\ pc' \in [Actor -> ThreadPc \cup ConnPc]
        /\ pc'[a] = next
        /\ \A b \in Actor : b # a /\ pc[b] # "asleep" => pc'[b] = pc[b]
        /\ \A t \in Thread : t # a /\ pc[t] = "asleep" => pc'[t] = "test"
        /\ \A d \in Connection : d # a => pc'[d] = pc[d]
    BY <2>1, Actors DEF TypeOK, broadcast, ThreadPc, ConnPc, ClosePc, FailPc
  <2>7. TypeOK'
    <3>1. count' \in [Connection -> Nat]
      BY <1>1, <2>1, <2>4 DEF TypeOK
    <3>2. \A d \in Connection : pc'[d] \in ConnPc
      BY <2>6 DEF TypeOK, ConnPc
    <3>3. \A t \in Thread : pc'[t] \in ThreadPc
      BY <2>6, Actors DEF TypeOK, ThreadPc
    <3>4. QED
      BY <2>1, <2>3, <2>6, <3>1, <3>2, <3>3
         DEF TypeOK, connVars, localVars, threadVars
  <2>8. ListBounded'
    BY <2>3, ConstantsAssumption DEF ListBounded, Distinct
  <2>9. ThreadInv'
    <3>1. \A t \in Thread : t # a =>
            \/ pc'[t] = pc[t]
            \/ pc[t] = "asleep" /\ pc'[t] = "test"
      BY <2>6, Actors
    <3>2. a \in Thread => pc[a] \in ClosePc /\ pc'[a] \in ClosePc
      BY <1>1, <2>6, Actors
    <3>3. QED
      BY <2>1, <3>1, <3>2, Actors DEF ThreadInv, threadVars, ClosePc
  <2>10. NoLostWakeup'
    <3>1. \A t \in Thread : pc'[t] # "asleep"
      BY <2>6, Actors DEF ClosePc, FailPc
    <3>2. QED
      BY <3>1 DEF NoLostWakeup
  <2>11. OpeningInv'
    <3>1. \A d \in Connection :
            \/ pc'[d] = pc[d]
            \/ pc[d] \in ClosePc /\ pc'[d] \in ClosePc
            \/ pc[d] \in FailPc /\ pc'[d] \in FailPc
      BY <1>1, <2>6
    <3>2. QED
      BY <2>1, <2>3, <2>5, <3>1 DEF OpeningInv, connVars, ClosePc, FailPc
  <2>12. ClosingInv'
    <3>1. \A b \in Actor : decrease_b[b] => pc'[b] \in ClosePc \ {"close"}
      BY <1>1, <2>6 DEF ClosingInv, ClosePc, FailPc
    <3>2. \A d \in Connection : pc'[d] # "none" => pc[d] # "none"
      BY <1>1, <2>6 DEF ClosePc, FailPc
    <3>3. QED
      BY <2>1, <2>5, <3>1, <3>2, SameClosing DEF connVars, localVars
  <2>13. ReaderInv'
    BY <1>1, <2>1, <2>6 DEF ReaderInv, connVars, ClosePc, FailPc
  <2>14. ReferencesExact'
    <3> SUFFICES ASSUME NEW d \in Connection
                 PROVE  count'[d] = Ref(operation[d]) + Ref(OpenReference(d))
                           + Ref(d \in Registered \ {c})
                           + Cardinality(HoldersOf(d))
      BY <2>1, <2>3, <2>5 DEF ReferencesExact, OpenReference, Ref, connVars
    <3>1. Cardinality(HoldersOf(d)) \in Nat
      BY HoldersFinite
    <3>2. QED
      BY <1>1, <1>3, <2>1, <3>1 DEF TypeOK, ReferencesExact, Ref
  <2>15. QED
    BY <2>7, <2>8, <2>9, <2>10, <2>11, <2>12, <2>13, <2>14
<1>4. QED
  BY <1>2, <1>3

LEMMA DispatchCloseInv ==
  ASSUME IInv, NEW c \in Connection, dispatch_close(c)
  PROVE  IInv'
<1> USE DEF IInv, Goto, managerVars, connVars, localVars, threadVars
<1>1. Registered' = Registered /\ \A d : HoldersOf(d)' = HoldersOf(d)
  BY DEF dispatch_close, Registered, Elements, HoldersOf
<1>2. TypeOK'
  BY Actors DEF dispatch_close, TypeOK, ConnPc, ClosePc
<1>3. ListBounded' /\ ThreadInv' /\ NoLostWakeup'
  BY <1>1, Actors DEF dispatch_close, TypeOK, ListBounded, ThreadInv,
     NoLostWakeup, MustWait
<1>4. OpeningInv'
  BY <1>1, Actors DEF dispatch_close, TypeOK, OpeningInv, FailPc
<1>5. ClosingInv'
  BY Actors DEF dispatch_close, TypeOK, ClosingInv, ClosePc, Current
<1>6. ReaderInv'
  BY Actors DEF dispatch_close, TypeOK, ReaderInv, ClosePc
<1>7. ReferencesExact'
  BY SameReferences DEF dispatch_close
<1>8. QED
  BY <1>2, <1>3, <1>4, <1>5, <1>6, <1>7

\* The first handle_close() finds state_.closed unset; it alone is entitled to
\* release the initial reference.
LEMMA CloseStateInv ==
  ASSUME IInv, NEW a \in Actor, close_state(a)
  PROVE  IInv'
<1> DEFINE c == Current(a)
<1> USE DEF IInv
<1>1. /\ pc[a] = "close"
      /\ decrease_b' = [decrease_b EXCEPT ![a] = ~closed[c]]
      /\ closed' = [closed EXCEPT ![c] = TRUE]
      /\ pc' = [pc EXCEPT ![a] = "close_flag"]
      /\ UNCHANGED <<managerVars, count, isRegistered_, down, opener,
                     operation, deregister_b, threadVars>>
  BY DEF close_state, Goto
<1>2. /\ c \in Connection
      /\ a \in Thread => c \in held[a] \cap WriteOnly
      /\ a \in Connection => c = a
  BY <1>1, CurrentConnection DEF ClosePc
<1>3. \A b : Current(b)' = Current(b)
  BY <1>1 DEF Current, threadVars
<1> HIDE DEF c
<1>4. Registered' = Registered /\ \A d : HoldersOf(d)' = HoldersOf(d)
  BY <1>1 DEF Registered, Elements, HoldersOf, managerVars, threadVars
<1> USE DEF managerVars, threadVars
<1>5. TypeOK'
  BY <1>1, <1>2, Actors DEF TypeOK, ConnPc, ThreadPc, ClosePc
<1>6. ListBounded' /\ NoLostWakeup'
  BY <1>1, <1>4, Actors DEF TypeOK, ListBounded, NoLostWakeup, MustWait
<1>7. ThreadInv'
  BY <1>1, Actors DEF TypeOK, ThreadInv, ClosePc
<1>8. pc[c] # "none"
  BY <1>1, <1>2, Actors DEF OpeningInv, HoldersOf, Actor
<1>9. OpeningInv'
  BY <1>1, <1>4, <1>8, Actors DEF TypeOK, OpeningInv, FailPc
<1>10. ClosingInv'
  <2>1. \A d \in Connection : pc'[d] # "none" /\ ~closed'[d] => operation'[d]
    BY <1>1, <1>2, Actors DEF TypeOK, ClosingInv
  <2>2. ~decrease_b[a]
    BY <1>1 DEF ClosingInv
  <2>3. \A b \in Actor : b # a => /\ pc'[b] = pc[b]
                                 /\ decrease_b'[b] = decrease_b[b]
    BY <1>1 DEF TypeOK
  <2>4. pc'[a] = "close_flag" /\ decrease_b'[a] = ~closed[c]
    BY <1>1 DEF TypeOK
  <2>5. \A d \in Connection : closed[d] => closed'[d]
    BY <1>1 DEF TypeOK
  <2>6. closed'[c]
    BY <1>1, <1>2 DEF TypeOK
  <2>7. ~closed[c] => operation[c]
    BY <1>2, <1>8 DEF ClosingInv
  <2>8. Current(a) = c
    BY DEF c
  <2>9. \A b \in Actor : decrease_b[b] => Current(b) \in Connection
    BY CurrentConnection DEF ClosingInv
  <2>10. \A b \in Actor :
          decrease_b'[b] => /\ pc'[b] \in ClosePc \ {"close"}
                            /\ closed'[Current(b)]
                            /\ operation'[Current(b)]
    <3> SUFFICES ASSUME NEW b \in Actor, decrease_b'[b]
                 PROVE  /\ pc'[b] \in ClosePc \ {"close"}
                        /\ closed'[Current(b)]
                        /\ operation'[Current(b)]
      OBVIOUS
    <3>1. CASE b = a
      BY <1>1, <3>1, <2>4, <2>6, <2>7, <2>8 DEF ClosePc
    <3>2. CASE b # a
      BY <1>1, <3>2, <2>3, <2>5, <2>9 DEF ClosingInv
    <3>3. QED
      BY <3>1, <3>2
  <2>11. \A b, e \in Actor :
           decrease_b'[b] /\ decrease_b'[e] /\ Current(b) = Current(e) => b = e
    BY <2>3, <2>4, <2>8 DEF ClosingInv
  <2>12. QED
    BY <1>3, <2>1, <2>10, <2>11 DEF ClosingInv
<1>11. ReaderInv'
  BY <1>1, <1>2, Actors DEF TypeOK, ReaderInv, ClosePc, Actor
<1>12. ReferencesExact'
  BY <1>1, SameReferences
<1>13. QED
  BY <1>5, <1>6, <1>7, <1>9, <1>10, <1>11, <1>12

\* Dropping decrease_b, or releasing the initial reference because of it.
LEMMA CloseCountInv ==
  ASSUME IInv, NEW a \in Actor, close_count(a)
  PROVE  IInv'
<1> USE DEF IInv, Goto, managerVars, connVars, threadVars
<1>1. Registered' = Registered /\ \A d : HoldersOf(d)' = HoldersOf(d)
  BY DEF close_count, Registered, Elements, HoldersOf
<1>2. \A b : Current(b)' = Current(b)
  BY DEF close_count, Current
<1>3. TypeOK'
  BY Actors DEF close_count, TypeOK, ConnPc, ThreadPc, ClosePc
<1>4. ListBounded' /\ NoLostWakeup'
  BY <1>1, Actors DEF close_count, TypeOK, ListBounded, NoLostWakeup, MustWait
<1>5. ThreadInv'
  BY Actors DEF close_count, TypeOK, ThreadInv, ClosePc
<1>6. OpeningInv'
  BY <1>1, Actors DEF close_count, TypeOK, OpeningInv, FailPc
<1>7. ClosingInv'
  <2>1. \A b \in Actor : decrease_b'[b] => decrease_b[b]
    BY DEF close_count, TypeOK
  <2>2. \A b \in Actor : decrease_b'[b] => pc'[b] \in ClosePc \ {"close"}
    BY <2>1 DEF close_count, TypeOK, ClosingInv, ClosePc
  <2>3. \A d \in Connection : pc'[d] # "none" => pc[d] # "none"
    BY Actors DEF close_count, TypeOK
  <2>4. closed' = closed /\ operation' = operation
    BY DEF close_count
  <2>5. QED
    BY <1>2, <2>1, <2>2, <2>3, <2>4 DEF ClosingInv
<1>8. ReaderInv'
  BY Actors DEF close_count, TypeOK, ReaderInv, ClosePc
<1>9. ReferencesExact'
  BY SameReferences DEF close_count
<1>10. QED
  BY <1>3, <1>4, <1>5, <1>6, <1>7, <1>8, <1>9

LEMMA CloseReleaseInv ==
  ASSUME IInv, NEW a \in Actor, close_release(a)
  PROVE  IInv'
<1> DEFINE c == Current(a)
<1> USE DEF IInv
<1>1. /\ pc[a] = "close_release"
      /\ decrease_b' = [decrease_b EXCEPT ![a] = FALSE]
      /\ deregister_b' = [deregister_b EXCEPT ![a] = FALSE]
      /\ pc' = [pc EXCEPT ![a] = IF a \in Connection THEN "done" ELSE "release"]
      /\ UNCHANGED <<managerVars, isRegistered_, closed, down, opener,
                     threadVars>>
      /\ \/ /\ decrease_b[a]
            /\ count' = [count EXCEPT ![c] = @ - 1]
            /\ operation' = [operation EXCEPT ![c] = FALSE]
         \/ ~decrease_b[a] /\ count' = count /\ operation' = operation
  BY DEF close_release, Goto, decrease
<1>2. /\ c \in Connection
      /\ a \in Thread => c \in held[a] \cap WriteOnly
      /\ a \in Connection => c = a
  BY <1>1, CurrentConnection DEF ClosePc
<1>3. decrease_b[a] => closed[c] /\ operation[c] /\ count[c] > 0
  BY <1>2, OwnedIsAlive DEF ClosingInv
<1>4. \A b : Current(b)' = Current(b)
  BY <1>1 DEF Current, threadVars
<1>5. Current(a) = c
  OBVIOUS
<1> HIDE DEF c
<1>6. Registered' = Registered /\ \A d : HoldersOf(d)' = HoldersOf(d)
  BY <1>1 DEF Registered, Elements, HoldersOf, managerVars, threadVars
<1> USE DEF managerVars, threadVars
<1>7. TypeOK'
  <2>1. count' \in [Connection -> Nat]
    <3>1. CASE decrease_b[a]
      <4>1. count' = [count EXCEPT ![c] = count[c] - 1]
        BY <1>1, <3>1
      <4>2. count[c] - 1 \in Nat /\ count \in [Connection -> Nat]
        BY <1>2, <1>3, <3>1 DEF TypeOK
      <4>3. QED
        BY <4>1, <4>2
    <3>2. CASE ~decrease_b[a]
      BY <1>1, <3>2 DEF TypeOK
    <3>3. QED
      BY <3>1, <3>2
  <2>2. QED
    BY <1>1, <2>1, Actors DEF TypeOK, ConnPc, ThreadPc, Actor
<1>8. ListBounded' /\ NoLostWakeup'
  BY <1>1, <1>6, Actors DEF TypeOK, ListBounded, NoLostWakeup, MustWait
<1>9. ThreadInv'
  BY <1>1, Actors DEF TypeOK, ThreadInv, ClosePc
<1>10. pc[c] # "none"
  BY <1>1, <1>2, Actors DEF OpeningInv, HoldersOf, Actor
<1>11. OpeningInv'
  BY <1>1, <1>6, <1>10, Actors DEF TypeOK, OpeningInv, FailPc
<1>12. ClosingInv'
  <2>1. \A b \in Actor : decrease_b'[b] => decrease_b[b] /\ b # a
    BY <1>1 DEF TypeOK
  <2>2. \A b \in Actor : b # a => pc'[b] = pc[b]
    BY <1>1 DEF TypeOK
  <2>3. \A d \in Connection : pc'[d] # "none" => pc[d] # "none"
    BY <1>1, Actors DEF TypeOK
  <2>4. \A d \in Connection : operation[d] /\ ~operation'[d]
                              => d = c /\ decrease_b[a]
    BY <1>1 DEF TypeOK
  <2>5. \A d \in Connection : pc'[d] # "none" /\ ~closed'[d] => operation'[d]
    BY <1>1, <1>3, <2>3, <2>4 DEF ClosingInv, TypeOK
  <2>6. \A b \in Actor : decrease_b[b] => Current(b) \in Connection
    BY CurrentConnection DEF ClosingInv
  <2>7. \A b \in Actor :
          decrease_b'[b] => /\ pc'[b] \in ClosePc \ {"close"}
                            /\ closed'[Current(b)]
                            /\ operation'[Current(b)]
    <3> SUFFICES ASSUME NEW b \in Actor, decrease_b'[b]
                 PROVE  /\ pc'[b] \in ClosePc \ {"close"}
                        /\ closed'[Current(b)]
                        /\ operation'[Current(b)]
      OBVIOUS
    <3>1. /\ pc'[b] \in ClosePc \ {"close"}
          /\ closed'[Current(b)]
          /\ operation[Current(b)]
      BY <1>1, <2>1, <2>2 DEF ClosingInv
    <3>2. Current(b) = c => ~decrease_b[a]
      BY <1>5, <2>1 DEF ClosingInv
    <3>3. operation'[Current(b)]
      BY <2>1, <2>4, <2>6, <3>1, <3>2
    <3>4. QED
      BY <3>1, <3>3
  <2>8. \A b, e \in Actor :
          decrease_b'[b] /\ decrease_b'[e] /\ Current(b) = Current(e) => b = e
    BY <2>1 DEF ClosingInv
  <2>9. QED
    BY <1>4, <2>5, <2>7, <2>8 DEF ClosingInv
<1>13. ReaderInv'
  BY <1>1, <1>2, Actors DEF TypeOK, ReaderInv, ClosePc, Actor
<1>14. ReferencesExact'
  <2> SUFFICES ASSUME NEW d \in Connection
               PROVE  count'[d] = Ref(operation'[d]) + Ref(OpenReference(d))
                         + Ref(d \in Registered) + Cardinality(HoldersOf(d))
    BY <1>1, <1>6 DEF ReferencesExact, OpenReference, Ref
  <2>1. Cardinality(HoldersOf(d)) \in Nat
    BY HoldersFinite
  <2>2. CASE decrease_b[a]
    <3>1. /\ count' = [count EXCEPT ![c] = count[c] - 1]
          /\ operation' = [operation EXCEPT ![c] = FALSE]
      BY <1>1, <2>2
    <3>2. CASE d = c
      <4>1. count'[d] = count[d] - 1 /\ ~operation'[d] /\ operation[d]
        BY <1>2, <1>3, <2>2, <3>1, <3>2 DEF TypeOK
      <4>2. Ref(operation[d]) = 1 /\ Ref(operation'[d]) = 0
        BY <4>1 DEF Ref
      <4>3. Ref(OpenReference(d)) \in Nat /\ Ref(d \in Registered) \in Nat
        BY DEF Ref
      <4>4. count[d] = Ref(operation[d]) + Ref(OpenReference(d))
                     + Ref(d \in Registered) + Cardinality(HoldersOf(d))
        BY DEF ReferencesExact
      <4>5. QED
        BY <2>1, <4>1, <4>2, <4>3, <4>4
    <3>3. CASE d # c
      BY <3>1, <3>3 DEF TypeOK, ReferencesExact
    <3>4. QED
      BY <3>2, <3>3
  <2>3. CASE ~decrease_b[a]
    BY <1>1, <2>3 DEF ReferencesExact
  <2>4. QED
    BY <2>2, <2>3
<1>15. QED
  BY <1>7, <1>8, <1>9, <1>11, <1>12, <1>13, <1>14

LEMMA HandleCloseInv ==
  ASSUME IInv, NEW a \in Actor, handle_close(a)
  PROVE  IInv'
<1>1. CASE close_state(a)
  BY <1>1, CloseStateInv
<1>2. CASE close_flag(a)
  <2>1. Current(a) \in Connection
    BY <1>2, CurrentConnection DEF close_flag, ClosePc
  <2>2. deregister_b' \in [Actor -> BOOLEAN]
    BY <1>2, <2>1 DEF close_flag, IInv, TypeOK
  <2>3. QED
    BY <1>2, <2>2, MoveInv DEF close_flag, ClosePc, connVars, IInv, TypeOK
<1>3. CASE close_count(a)
  BY <1>3, CloseCountInv
<1>4. CASE deregister_test(a, "close_test", "close_clear", "close_release")
  BY <1>4, MoveInv DEF deregister_test, ClosePc, connVars, localVars, IInv,
     TypeOK
<1>5. CASE deregister_clear(a, "close_clear", "close_deregister")
  BY <1>5, MoveInv DEF deregister_clear, ClosePc, localVars, IInv, TypeOK
<1>6. CASE deregister(a, "close_deregister", "close_release")
  BY <1>6, DeregisterInv DEF ClosePc
<1>7. CASE close_release(a)
  BY <1>7, CloseReleaseInv
<1>8. QED
  BY <1>1, <1>2, <1>3, <1>4, <1>5, <1>6, <1>7 DEF handle_close

LEMMA OpenFailInv ==
  ASSUME IInv, NEW c \in Connection, open_fail(c)
  PROVE  IInv'
<1>1. CASE deregister_test(c, "fail_test", "fail_clear", "fail_release")
  BY <1>1, Actors, MoveInv DEF deregister_test, FailPc, connVars, localVars,
     IInv, TypeOK
<1>2. CASE deregister_clear(c, "fail_clear", "fail_deregister")
  BY <1>2, Actors, MoveInv DEF deregister_clear, FailPc, localVars, IInv, TypeOK
<1>3. CASE deregister(c, "fail_deregister", "fail_release")
  BY <1>3, Actors, DeregisterInv DEF FailPc
<1>4. CASE open_error(c)
  BY <1>4, OpenErrorInv
<1>5. QED
  BY <1>1, <1>2, <1>3, <1>4 DEF open_fail
-----------------------------------------------------------------------------
(* The manager's interface.                                                 *)

\* A thread that holds no reference enters, leaves or goes on in one of the
\* manager's methods.
LEMMA CallInv ==
  ASSUME IInv, NEW t \in Thread, NEW next \in {"idle", "gather", "test"},
         pc[t] \in {"idle", "gather", "test"}, Goto(t, next),
         isActive_' \in BOOLEAN,
         again' \in [Thread -> BOOLEAN],
         waitFor' \in [Thread -> Connection \cup {None}],
         \A u \in Thread : u # t => waitFor'[u] = waitFor[u],
         UNCHANGED <<connections_, count, connVars, localVars, held, cur>>
  PROVE  IInv'
<1> USE DEF IInv, Goto, connVars, localVars
<1>1. Registered' = Registered /\ \A d : HoldersOf(d)' = HoldersOf(d)
  BY DEF Registered, Elements, HoldersOf
<1>2. TypeOK'
  BY Actors DEF TypeOK, ThreadPc
<1>3. ListBounded'
  BY DEF ListBounded
<1>4. ThreadInv'
  BY Actors DEF TypeOK, ThreadInv, ClosePc
<1>5. NoLostWakeup'
  BY <1>1, Actors DEF TypeOK, NoLostWakeup, MustWait
<1>6. OpeningInv'
  BY <1>1, Actors DEF TypeOK, OpeningInv
<1>7. ClosingInv'
  <2>1. \A b \in Actor : decrease_b[b] => pc'[b] \in ClosePc \ {"close"}
    BY DEF TypeOK, ClosingInv, ClosePc
  <2>2. \A c \in Connection : pc'[c] # "none" => pc[c] # "none"
    BY Actors DEF TypeOK
  <2>3. QED
    BY <2>1, <2>2, SameClosing DEF Current
<1>8. ReaderInv'
  BY Actors DEF TypeOK, ReaderInv
<1>9. ReferencesExact'
  BY SameReferences
<1>10. QED
  BY <1>2, <1>3, <1>4, <1>5, <1>6, <1>7, <1>8, <1>9

\* The loop test of wait(): the thread falls asleep only while it has to.
LEMMA WaitTestInv ==
  ASSUME IInv, NEW t \in Thread, wait_test(t)
  PROVE  IInv'
<1> USE DEF IInv, Goto, managerVars, connVars, localVars
<1>1. CASE Goto(t, "idle") /\ waitFor' = [waitFor EXCEPT ![t] = None]
  BY <1>1, CallInv DEF wait_test, TypeOK
<1>2. CASE MustWait(t) /\ Goto(t, "asleep") /\ UNCHANGED waitFor
  <2>1. Registered' = Registered /\ \A d : HoldersOf(d)' = HoldersOf(d)
    BY <1>2 DEF wait_test, Registered, Elements, HoldersOf
  <2>2. TypeOK'
    BY <1>2, Actors DEF wait_test, TypeOK, ThreadPc
  <2>3. ListBounded' /\ ReaderInv'
    BY <1>2, Actors DEF wait_test, TypeOK, ListBounded, ReaderInv
  <2>4. ThreadInv'
    BY <1>2, Actors DEF wait_test, TypeOK, ThreadInv, ClosePc
  <2>5. NoLostWakeup'
    BY <1>2, <2>1, Actors DEF wait_test, TypeOK, NoLostWakeup, MustWait
  <2>6. OpeningInv'
    BY <1>2, <2>1, Actors DEF wait_test, TypeOK, OpeningInv
  <2>7. ClosingInv'
    <3>1. \A b \in Actor : decrease_b[b] => pc'[b] \in ClosePc \ {"close"}
      BY <1>2 DEF wait_test, TypeOK, ClosingInv, ClosePc
    <3>2. \A c \in Connection : pc'[c] # "none" => pc[c] # "none"
      BY <1>2, Actors DEF wait_test, TypeOK
    <3>3. QED
      BY <3>1, <3>2, SameClosing DEF wait_test, Current
  <2>8. ReferencesExact'
    BY <1>2, SameReferences DEF wait_test
  <2>9. QED
    BY <2>2, <2>3, <2>4, <2>5, <2>6, <2>7, <2>8
<1>3. QED
  BY <1>1, <1>2 DEF wait_test

\* A lookup or an abort takes its references under the lock, where every
\* connection it finds is still owned by the list.
LEMMA TakeInv ==
  ASSUME IInv, NEW t \in Thread, NEW S \in SUBSET Registered, NEW next,
         pc[t] \in {"idle", "gather"},
         take(t, S, next), UNCHANGED again,
         \/ next = "abort"
         \/ next = "holding" /\ \E c \in Connection : S = {c}
  PROVE  IInv'
<1> USE DEF IInv, Goto, managerVars, connVars, localVars
<1>1. Registered' = Registered /\ Registered \subseteq Connection
  BY DEF take, Registered, Elements, TypeOK
<1>2. held[t] = {}
  BY DEF ThreadInv
<1>3. \A d : HoldersOf(d)' = IF d \in S THEN HoldersOf(d) \cup {t}
                                        ELSE HoldersOf(d)
  BY <1>2 DEF take, HoldersOf, TypeOK
<1>4. TypeOK'
  BY <1>1, Actors DEF take, increaseAll, TypeOK, ThreadPc
<1>5. ListBounded' /\ NoLostWakeup'
  BY <1>1, Actors DEF take, TypeOK, ListBounded, NoLostWakeup, MustWait
<1>6. ThreadInv'
  BY Actors DEF take, TypeOK, ThreadInv, ClosePc
<1>7. OpeningInv'
  BY <1>1, <1>3, Actors DEF take, TypeOK, OpeningInv
<1>8. ClosingInv'
  <2>1. \A b \in Actor : decrease_b[b] => pc'[b] \in ClosePc \ {"close"}
    BY DEF take, TypeOK, ClosingInv, ClosePc
  <2>2. \A c \in Connection : pc'[c] # "none" => pc[c] # "none"
    BY Actors DEF take, TypeOK
  <2>3. QED
    BY <2>1, <2>2, SameClosing DEF take, Current
<1>9. ReaderInv'
  BY Actors DEF take, TypeOK, ReaderInv
<1>10. ReferencesExact'
  <2> SUFFICES ASSUME NEW d \in Connection
               PROVE  count'[d] = Ref(operation[d]) + Ref(OpenReference(d))
                         + Ref(d \in Registered) + Cardinality(HoldersOf(d)')
    BY <1>1 DEF take, ReferencesExact, OpenReference, Ref
  <2>1. IsFiniteSet(HoldersOf(d)) /\ Cardinality(HoldersOf(d)) \in Nat
    BY HoldersFinite
  <2>2. CASE d \in S
    <3>1. t \notin HoldersOf(d)
      BY <1>2 DEF HoldersOf
    <3>2. Cardinality(HoldersOf(d)') = Cardinality(HoldersOf(d)) + 1
      BY <1>3, <2>1, <2>2, <3>1, HoldersAdd
    <3>3. count'[d] = count[d] + 1
      BY <2>2 DEF take, increaseAll
    <3>4. /\ Ref(operation[d]) \in Nat /\ Ref(OpenReference(d)) \in Nat
          /\ Ref(d \in Registered) \in Nat
      BY DEF Ref
    <3>5. QED
      BY <2>1, <3>2, <3>3, <3>4 DEF ReferencesExact
  <2>3. CASE d \notin S
    BY <1>3, <2>3 DEF take, increaseAll, ReferencesExact
  <2>4. QED
    BY <2>2, <2>3
<1>11. QED
  BY <1>4, <1>5, <1>6, <1>7, <1>8, <1>9, <1>10

\* abort() of a gathered connection by a thread that owns a reference to it.
LEMMA AbortInv ==
  ASSUME IInv, NEW t \in Thread, NEW c \in held[t], abort(t, c)
  PROVE  IInv'
<1> USE DEF IInv, Goto, managerVars, localVars
<1>1. Registered' = Registered /\ \A d : HoldersOf(d)' = HoldersOf(d)
  BY DEF abort, Registered, Elements, HoldersOf
<1>2. c \in Connection
  BY DEF TypeOK
<1>3. TypeOK'
  BY <1>2, Actors DEF abort, TypeOK, ThreadPc, ClosePc
<1>4. ListBounded' /\ NoLostWakeup'
  BY <1>1, Actors DEF abort, TypeOK, ListBounded, NoLostWakeup, MustWait
<1>5. ThreadInv'
  BY <1>2, Actors DEF abort, TypeOK, ThreadInv, ClosePc
<1>6. OpeningInv'
  BY <1>1, Actors DEF abort, TypeOK, OpeningInv
<1>7. ClosingInv'
  <2>1. \A b \in Actor : decrease_b[b] => b # t
    BY DEF abort, ClosingInv, ClosePc
  <2>2. \A b \in Actor : b # t => pc'[b] = pc[b] /\ Current(b)' = Current(b)
    BY DEF abort, TypeOK, Current, Actor
  <2>3. \A d \in Connection : pc'[d] # "none" => pc[d] # "none"
    BY Actors DEF abort, TypeOK
  <2>4. \A b \in Actor : decrease_b[b] => /\ pc'[b] \in ClosePc \ {"close"}
                                         /\ Current(b)' = Current(b)
    BY <2>1, <2>2 DEF ClosingInv
  <2>5. QED
    BY <2>3, <2>4, SameClosing DEF abort
<1>8. ReaderInv'
  BY Actors DEF abort, TypeOK, ReaderInv
<1>9. ReferencesExact'
  BY SameReferences DEF abort
<1>10. QED
  BY <1>3, <1>4, <1>5, <1>6, <1>7, <1>8, <1>9

\* A thread gives up one of its references.
LEMMA ReleaseInv ==
  ASSUME IInv, NEW t \in Thread, NEW c \in held[t],
         pc[t] \in {"release", "holding"},
         decrease(c), held' = [held EXCEPT ![t] = @ \ {c}],
         NEW next, Goto(t, next),
         \/ next = "abort"
         \/ next \in {"idle", "gather"} /\ held[t] = {c},
         cur' \in [Thread -> Connection \cup {None}],
         \A u \in Thread : u # t => cur'[u] = cur[u],
         UNCHANGED <<managerVars, connVars, localVars, again, waitFor>>
  PROVE  IInv'
<1> USE DEF IInv, Goto, managerVars, connVars, localVars
<1>1. Registered' = Registered
  BY DEF Registered, Elements
<1>2. c \in Connection
  BY DEF TypeOK
<1>3. \A d : HoldersOf(d)' = IF d = c THEN HoldersOf(d) \ {t} ELSE HoldersOf(d)
  BY DEF HoldersOf, TypeOK
<1>4. count[c] > 0
  BY <1>2, OwnedIsAlive
<1>5. TypeOK'
  <2>1. count' = [count EXCEPT ![c] = count[c] - 1]
    BY DEF decrease
  <2>2. count[c] - 1 \in Nat /\ count \in [Connection -> Nat]
    BY <1>2, <1>4 DEF TypeOK
  <2>3. count' \in [Connection -> Nat]
    BY <2>1, <2>2
  <2>4. QED
    BY <2>3, Actors DEF TypeOK, ThreadPc
<1>6. ListBounded' /\ NoLostWakeup'
  BY <1>1, Actors DEF TypeOK, ListBounded, NoLostWakeup, MustWait
<1>7. ThreadInv'
  BY Actors DEF TypeOK, ThreadInv, ClosePc
<1>8. OpeningInv'
  <2>1. \A d \in Connection : pc'[d] = pc[d] /\ HoldersOf(d)' \subseteq HoldersOf(d)
    BY <1>3, Actors DEF TypeOK
  <2>2. QED
    BY <1>1, <2>1 DEF OpeningInv
<1>9. ClosingInv'
  <2>1. \A b \in Actor : decrease_b[b] => b # t
    BY DEF ClosingInv, ClosePc
  <2>2. \A b \in Actor : b # t => pc'[b] = pc[b] /\ Current(b)' = Current(b)
    BY DEF TypeOK, Current, Actor
  <2>3. \A d \in Connection : pc'[d] # "none" => pc[d] # "none"
    BY Actors DEF TypeOK
  <2>4. \A b \in Actor : decrease_b[b] => /\ pc'[b] \in ClosePc \ {"close"}
                                         /\ Current(b)' = Current(b)
    BY <2>1, <2>2 DEF ClosingInv
  <2>5. QED
    BY <2>3, <2>4, SameClosing
<1>10. ReaderInv'
  BY Actors DEF TypeOK, ReaderInv
<1>11. ReferencesExact'
  <2> SUFFICES ASSUME NEW d \in Connection
               PROVE  count'[d] = Ref(operation[d]) + Ref(OpenReference(d))
                         + Ref(d \in Registered) + Cardinality(HoldersOf(d)')
    BY <1>1 DEF ReferencesExact, OpenReference, Ref
  <2>1. IsFiniteSet(HoldersOf(d)) /\ Cardinality(HoldersOf(d)) \in Nat
    BY HoldersFinite
  <2>2. CASE d = c
    <3>1. t \in HoldersOf(d)
      BY <2>2 DEF HoldersOf
    <3>2. Cardinality(HoldersOf(d)') = Cardinality(HoldersOf(d)) - 1
      BY <1>3, <2>1, <2>2, <3>1, HoldersRemove
    <3>3. count'[d] = count[d] - 1
      BY <2>2 DEF decrease, TypeOK
    <3>4. /\ Ref(operation[d]) \in Nat /\ Ref(OpenReference(d)) \in Nat
          /\ Ref(d \in Registered) \in Nat
      BY DEF Ref
    <3>5. QED
      BY <2>1, <3>2, <3>3, <3>4 DEF ReferencesExact
  <2>3. CASE d # c
    BY <1>3, <2>3 DEF decrease, TypeOK, ReferencesExact
  <2>4. QED
    BY <2>2, <2>3
<1>12. QED
  BY <1>5, <1>6, <1>7, <1>8, <1>9, <1>10, <1>11

LEMMA ManagerInv ==
  ASSUME IInv, NEW t \in Thread, Call(t) \/ ThreadStep(t)
  PROVE  IInv'
<1>0. Registered \subseteq Connection /\ IInv /\ TypeOK
  BY DEF IInv, TypeOK, Registered, Elements
<1>1. ASSUME start(t) PROVE IInv'
  <2>1. Goto(t, "idle") /\ isActive_' \in BOOLEAN
    BY <1>0, <1>1 DEF start, Goto, TypeOK
  <2>2. QED
    BY <1>0, <1>1, <2>1, CallInv DEF start, threadVars, TypeOK
<1>2. ASSUME NEW b \in BOOLEAN, stop(t, b) PROVE IInv'
  BY <1>0, <1>2, CallInv DEF stop, threadVars, TypeOK
<1>3. ASSUME NEW c \in Connection \cup {None}, wait(t, c) PROVE IInv'
  BY <1>0, <1>3, CallInv DEF wait, managerVars, TypeOK
<1>4. ASSUME NEW b \in BOOLEAN, abort_all(t, b) PROVE IInv'
  BY <1>0, <1>4, CallInv DEF abort_all, managerVars, TypeOK
<1>5. ASSUME NEW i, abortStrategy(t, i) PROVE IInv'
  <2>1. connections_[i] \in Registered
    BY <1>0, <1>5 DEF abortStrategy, Registered, Elements, TypeOK
  <2>2. QED
    BY <1>0, <1>5, <2>1, TakeInv DEF abortStrategy
<1>6. ASSUME NEW address, abort_address(t, address) PROVE IInv'
  BY <1>0, <1>6, TakeInv DEF abort_address
<1>7. ASSUME NEW c, get_handle(t, c) PROVE IInv'
  BY <1>0, <1>7, TakeInv DEF get_handle
<1>8. ASSUME NEW address, get_address(t, address) PROVE IInv'
  <2>1. PICK i \in DOMAIN connections_ : take(t, {connections_[i]}, "holding")
    BY <1>8 DEF get_address
  <2>2. connections_[i] \in Registered
    BY DEF Registered, Elements
  <2>3. QED
    BY <1>0, <1>8, <2>1, <2>2, TakeInv DEF get_address
<1>9. ASSUME NEW index \in 0..Maximum, get_index(t, index) PROVE IInv'
  <2> DEFINE i == IF index < Len(connections_) THEN index + 1
                                              ELSE Len(connections_)
  <2>1. i \in DOMAIN connections_ /\ take(t, {connections_[i]}, "holding")
    BY <1>0, <1>9, ConstantsAssumption DEF get_index, TypeOK
  <2>2. connections_[i] \in Registered
    BY <2>1 DEF Registered, Elements
  <2>3. QED
    BY <1>0, <1>9, <2>1, <2>2, TakeInv DEF get_index
<1>10. ASSUME gather(t) PROVE IInv'
  <2>1. CASE connections_ = <<>>
    BY <1>0, <1>10, <2>1, CallInv DEF gather, managerVars, TypeOK
  <2>2. CASE connections_ # <<>>
    BY <1>0, <1>10, <2>2, TakeInv DEF gather
  <2>3. QED
    BY <2>1, <2>2
<1>11. ASSUME release(t) PROVE IInv'
  <2>1. cur[t] \in held[t]
    BY <1>0, <1>11 DEF release, IInv, ThreadInv
  <2>2. PICK next : /\ Goto(t, next)
                    /\ \/ next = "abort"
                       \/ /\ next \in {"idle", "gather"}
                          /\ held[t] = {cur[t]}
    BY <1>11, <2>1 DEF release
  <2>3. /\ cur' \in [Thread -> Connection \cup {None}]
        /\ \A u \in Thread : u # t => cur'[u] = cur[u]
    BY <1>0, <1>11 DEF release, TypeOK
  <2>4. QED
    BY <1>0, <1>11, <2>1, <2>2, <2>3, ReleaseInv DEF release
<1>12. ASSUME put(t) PROVE IInv'
  <2>1. PICK c \in held[t] : decrease(c)
    BY <1>12 DEF put
  <2>2. held[t] = {c}
    BY <1>0, <1>12 DEF put, IInv, ThreadInv
  <2>3. held' = [held EXCEPT ![t] = @ \ {c}]
    BY <1>12, <2>2 DEF put
  <2>4. QED
    BY <1>0, <1>12, <2>1, <2>2, <2>3, ReleaseInv DEF put, TypeOK
<1>13. ASSUME ThreadStep(t) PROVE IInv'
  BY <1>0, <1>10, <1>11, <1>12, <1>13, Actors, WaitTestInv, AbortInv,
     HandleCloseInv DEF ThreadStep
<1>14. ASSUME Call(t) PROVE IInv'
  <2>1. \A i \in {1, Len(connections_)} : abortStrategy(t, i) => IInv'
    BY <1>5
  <2>2. QED
    BY <1>1, <1>2, <1>3, <1>4, <2>1, <1>6, <1>7, <1>8, <1>9, <1>14 DEF Call
<1>15. QED
  BY <1>13, <1>14
-----------------------------------------------------------------------------
\* The invariant is inductive.
LEMMA NextInv == IInv /\ [Next]_vars => IInv'
<1> SUFFICES ASSUME IInv, [Next]_vars PROVE IInv'
  OBVIOUS
<1>1. ASSUME NEW c \in Connection,
             make(c) \/ dispatch_close(c) \/ ConnectionStep(c)
      PROVE  IInv'
  BY <1>1, Actors, MakeInv, DispatchCloseInv, RegisterInv, OpenedInv,
     OpenReturnInv, OpenFailInv, HandleCloseInv DEF ConnectionStep
<1>2. ASSUME NEW t \in Thread, Call(t) \/ ThreadStep(t)
      PROVE  IInv'
  BY <1>2, ManagerInv
<1>3. CASE UNCHANGED vars
  <2> USE <1>3 DEF vars, IInv
  <2>1. Registered' = Registered /\ \A d : HoldersOf(d)' = HoldersOf(d)
    BY DEF Registered, Elements, HoldersOf
  <2>2. TypeOK'
    BY DEF TypeOK
  <2>3. ListBounded' /\ ThreadInv' /\ ReaderInv'
    BY DEF ListBounded, ThreadInv, ReaderInv
  <2>4. OpeningInv'
    BY <2>1 DEF OpeningInv
  <2>5. ClosingInv'
    BY SameClosing DEF ClosingInv, Current
  <2>6. ReferencesExact'
    BY SameReferences
  <2>7. NoLostWakeup'
    BY <2>1 DEF NoLostWakeup, MustWait
  <2>8. QED
    BY <2>2, <2>3, <2>4, <2>5, <2>6, <2>7
<1>4. QED
  BY <1>1, <1>2, <1>3 DEF Next

\* Every reachable state satisfies the inductive invariant, for every set of
\* connections, every finite set of threads and every list limit.
THEOREM Invariance == Spec => []IInv
<1>1. QED
  BY InitInv, NextInv, PTL DEF Spec

\* Net_Connection_Manager_T and the connections keep their types.
THEOREM TypeCorrect == Spec => []TypeOK
<1>1. IInv => TypeOK
  BY DEF IInv
<1>2. QED
  BY <1>1, Invariance, PTL

\* The reference counter of every connection is exactly the number of
\* references owned by open(), the list, the callers and the first
\* handle_close().
THEOREM ReferencesAreExact == Spec => []ReferencesExact
<1>1. IInv => ReferencesExact
  BY DEF IInv
<1>2. QED
  BY <1>1, Invariance, PTL

\* The list never has more than the maximum number of connections, and none
\* twice, although open() registers and handle_close() deregisters through a
\* flag that the lock does not protect.
THEOREM ListIsBounded == Spec => []ListBounded
<1>1. IInv => ListBounded
  BY DEF IInv
<1>2. QED
  BY <1>1, Invariance, PTL

\* No thread blocked in wait() or wait_2() has missed the broadcast of
\* deregister().
THEOREM WakeupsAreNotLost == Spec => []NoLostWakeup
<1>1. IInv => NoLostWakeup
  BY DEF IInv
<1>2. QED
  BY <1>1, Invariance, PTL

\* Nothing in the list is reclaimed, and nothing an actor still works on but a
\* write-only connection whose open() failed after another thread closed it.
THEOREM MemorySafety == Spec => []UseAfterFreeConfined
<1>1. IInv => UseAfterFreeConfined
  <2> SUFFICES ASSUME IInv PROVE UseAfterFreeConfined
    OBVIOUS
  <2>1. Registered \subseteq Connection
    BY DEF IInv, TypeOK, Registered, Elements
  <2>2. \A c \in Registered : count[c] > 0
    BY <2>1, OwnedIsAlive
  <2>3. ASSUME NEW a \in Actor, NEW c \in Connection, Uses(a, c), count[c] = 0
        PROVE  /\ a = c /\ c \in WriteOnly /\ pc[c] \in ClosePc
               /\ opener[c] = "failed" /\ closed[c] /\ ~operation[c]
    <3>1. ~operation[c] /\ ~OpenReference(c)
      BY <2>3, OwnedIsAlive
    <3>2. ~(a \in Thread /\ c \in held[a])
      BY <2>3, OwnedIsAlive
    <3>3. pc[c] \notin {"register", "flag"} \cup FailPc
      BY <3>1 DEF IInv, OpeningInv, OpenReference
    <3>4. pc[c] # "running"
      BY <3>1 DEF IInv, ReaderInv
    <3>5. a = c /\ pc[c] \in ClosePc
      BY <2>3, <3>2, <3>3, <3>4 DEF Uses
    <3>6. c \in WriteOnly
      BY <3>1, <3>5 DEF IInv, ReaderInv, ClosePc
    <3>7. opener[c] = "failed"
      BY <3>1, <3>5, <3>6 DEF IInv, ReaderInv, OpenReference
    <3>8. closed[c]
      BY <3>1, <3>5 DEF IInv, ClosingInv, ClosePc
    <3>9. QED
      BY <3>1, <3>5, <3>6, <3>7, <3>8
  <2>4. QED
    BY <2>2, <2>3 DEF UseAfterFreeConfined
<1>2. QED
  BY <1>1, Invariance, PTL

\* A reclaimed connection is never handed out or registered again: only open()
\* of a connection that is still being opened, and a lookup of one that is in
\* the list, increase a counter, and both find it owned.
THEOREM ReclaimedIsFinal == Spec => NoResurrection
<1> DEFINE Stays == \A c \in Connection :
                      (opener[c] # "new" /\ count[c] = 0) => count'[c] = 0
<1>1. IInv /\ [Next]_vars => Stays
  <2> SUFFICES ASSUME IInv, [Next]_vars, NEW c \in Connection,
                      opener[c] # "new", count[c] = 0
               PROVE  count'[c] = 0
    OBVIOUS
  <2>1. count \in [Connection -> Nat] /\ count' \in [Connection -> Nat]
    BY NextInv DEF IInv, TypeOK
  <2>2. /\ opener[c] # "opening"
        /\ c \notin Registered
    BY OwnedIsAlive DEF OpenReference
  <2>3. pc[c] \notin {"none", "register"}
    BY <2>2 DEF IInv, OpeningInv
  <2>4. ASSUME NEW d, decrease(d) PROVE count'[c] <= count[c]
    BY <2>1, <2>4 DEF decrease
  <2>5. ASSUME NEW t, NEW S \in SUBSET Registered, NEW next, take(t, S, next)
        PROVE  count'[c] <= count[c]
    BY <2>1, <2>2, <2>5 DEF take, increaseAll
  <2>6. ASSUME UNCHANGED count PROVE count'[c] <= count[c]
    BY <2>1, <2>6
  <2>7. ASSUME NEW a, handle_close(a) PROVE count'[c] <= count[c]
    BY <2>4, <2>6, <2>7 DEF handle_close, close_state, close_flag, close_count,
       deregister_test, deregister_clear, deregister, close_release
  <2>8. ASSUME NEW d \in Connection,
               make(d) \/ dispatch_close(d) \/ ConnectionStep(d)
        PROVE  count'[c] <= count[c]
    <3>1. CASE make(d) \/ register_(d)
      BY <2>1, <2>3, <3>1 DEF make, register_, increase
    <3>2. CASE dispatch_close(d) \/ opened(d) \/ open_return(d)
      BY <2>4, <2>6, <3>2 DEF dispatch_close, opened, open_return
    <3>3. CASE open_fail(d)
      BY <2>4, <2>6, <3>3 DEF open_fail, deregister_test, deregister_clear,
         deregister, open_error
    <3>4. QED
      BY <2>7, <2>8, <3>1, <3>2, <3>3 DEF ConnectionStep
  <2>9. ASSUME NEW t \in Thread, Call(t) PROVE count'[c] <= count[c]
    <3>0. connections_ \in Seq(Connection)
      BY DEF IInv, TypeOK
    <3>1. \A b : start(t) \/ stop(t, b) \/ wait(t, b) \/ abort_all(t, b)
                  => count'[c] <= count[c]
      BY <2>6 DEF start, stop, wait, abort_all
    <3>2. ASSUME NEW i \in DOMAIN connections_, NEW next,
                 take(t, {connections_[i]}, next)
          PROVE  count'[c] <= count[c]
      BY <2>5, <3>2 DEF Registered, Elements
    <3>3. ASSUME NEW i \in {1, Len(connections_)}, abortStrategy(t, i)
          PROVE  count'[c] <= count[c]
      <4>1. i \in DOMAIN connections_ /\ take(t, {connections_[i]}, "abort")
        BY <3>0, <3>3 DEF abortStrategy
      <4>2. QED
        BY <3>2, <4>1
    <3>4. \A x : abort_address(t, x) \/ get_handle(t, x)
                  => count'[c] <= count[c]
      BY <2>5 DEF abort_address, get_handle
    <3>5. \A x : get_address(t, x) => count'[c] <= count[c]
      BY <3>2 DEF get_address
    <3>6. ASSUME NEW index \in 0..Maximum, get_index(t, index)
          PROVE  count'[c] <= count[c]
      <4> DEFINE i == IF index < Len(connections_) THEN index + 1
                                                  ELSE Len(connections_)
      <4>1. i \in DOMAIN connections_ /\ take(t, {connections_[i]}, "holding")
        BY <3>0, <3>6, ConstantsAssumption DEF get_index
      <4>2. QED
        BY <3>2, <4>1
    <3>7. QED
      BY <2>9, <3>1, <3>3, <3>4, <3>5, <3>6 DEF Call
  <2>10. ASSUME NEW t \in Thread, ThreadStep(t) PROVE count'[c] <= count[c]
    <3>1. CASE wait_test(t) \/ gather(t)
      BY <2>5, <2>6, <3>1 DEF wait_test, gather
    <3>2. CASE \E d \in held[t] : abort(t, d)
      BY <2>6, <3>2 DEF abort
    <3>3. CASE release(t) \/ put(t)
      BY <2>4, <3>3 DEF release, put
    <3>4. QED
      BY <2>7, <2>10, <3>1, <3>2, <3>3 DEF ThreadStep
  <2>11. count'[c] <= count[c]
    BY <2>6, <2>8, <2>9, <2>10 DEF Next, vars
  <2>12. QED
    BY <2>1, <2>11
<1>2. QED
  BY <1>1, Invariance, PTL DEF Spec, NoResurrection
=============================================================================
