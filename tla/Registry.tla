------------------------------- MODULE Registry -------------------------------
(***************************************************************************)
(* What the connection manager promises, without reference counters, list, *)
(* lock or threads inside open() and handle_close(): a bounded register of *)
(* live objects.  Clients borrow members and give them back; an object is  *)
(* reclaimed once, when it is no member and nobody has borrowed it.        *)
(***************************************************************************)
EXTENDS Naturals, FiniteSets

CONSTANTS Connection, Thread, Maximum

VARIABLES stage,    \* of each object: "new", "live" or "reclaimed"
          members,  \* the registered objects
          lent      \* what each thread has borrowed

regVars == <<stage, members, lent>>

\* Nobody can reach c in the next state.
Unreachable(c) ==
  /\ c \notin members'
  /\ \A t \in Thread : c \notin lent'[t]

\* Giving up a way to reach c may reclaim it, if it was the last one.
MayReclaim(c) ==
  \/ UNCHANGED stage
  \/ /\ stage[c] = "live"
     /\ Unreachable(c)
     /\ stage' = [stage EXCEPT ![c] = "reclaimed"]

Create(c) ==
  /\ stage[c] = "new"
  /\ stage' = [stage EXCEPT ![c] = "live"]
  /\ UNCHANGED <<members, lent>>

Enter(c) ==
  /\ stage[c] = "live"
  /\ c \notin members
  /\ Cardinality(members) < Maximum
  /\ members' = members \cup {c}
  /\ UNCHANGED <<stage, lent>>

Leave(c) ==
  /\ c \in members
  /\ members' = members \ {c}
  /\ UNCHANGED lent
  /\ MayReclaim(c)

\* Only members are lent.
Borrow(t, S) ==
  /\ lent[t] = {}
  /\ S # {}
  /\ lent' = [lent EXCEPT ![t] = S]
  /\ UNCHANGED <<stage, members>>

GiveBack(t, c) ==
  /\ c \in lent[t]
  /\ lent' = [lent EXCEPT ![t] = @ \ {c}]
  /\ UNCHANGED members
  /\ MayReclaim(c)

\* The object's own operation (open(), handle_close()) lets go of it.
Retire(c) ==
  /\ UNCHANGED <<members, lent>>
  /\ MayReclaim(c)

Init ==
  /\ stage = [c \in Connection |-> "new"]
  /\ members = {}
  /\ lent = [t \in Thread |-> {}]

Next ==
  \/ \E c \in Connection : Create(c) \/ Enter(c) \/ Leave(c) \/ Retire(c)
  \/ \E t \in Thread, S \in SUBSET members : Borrow(t, S)
  \/ \E t \in Thread, c \in Connection : GiveBack(t, c)

Spec == Init /\ [][Next]_regVars
=============================================================================
