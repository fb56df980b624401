------------------------ MODULE GroupRegistryProofs ------------------------
(***************************************************************************)
(* What follows from the registry alone, so for the clients of everything  *)
(* that implements it.                                                     *)
(***************************************************************************)
EXTENDS GroupRegistry, TLAPS

\* The groups whose creators were told, or are going to be.
Given == promised \union confirmed

\* No two clients are told of one id.
IdsGivenOnce == \A p, q \in confirmed : p.id = q.id => p = q

\* A group that its creator was told of is there, or was asked away.
GroupsStay == \A p \in confirmed : p.id \in stored \union asked

\* The inductive invariant says it of promised groups, too, and that the ids
\* to come are later than those given.
RegistryInv ==
    /\ last \in Nat
    /\ \A p \in Given : p.id \in 1 .. last
    /\ \A p, q \in Given : p.id = q.id => p = q
    /\ \A p \in Given : p.id \in stored \union asked

LEMMA CreateKeepsInv ==
    ASSUME RegistryInv, NEW c \in Creators, Create(c)
    PROVE  RegistryInv'
  <1> DEFINE new == [client |-> c, id |-> last']
  <1>1. last \in Nat /\ last' = last + 1
    BY DEF RegistryInv, Create
  <1>2. Given' \subseteq Given \union {new}
    BY DEF Create, Given
  <1>3. new.id = last' /\ new.id \in stored'
    BY DEF Create
  <1>4. \A p \in Given : p.id \in 1 .. last /\ p.id # new.id
    BY <1>1, <1>3 DEF RegistryInv
  <1>5. stored \subseteq stored' /\ asked' = asked
    BY DEF Create
  <1> HIDE DEF new
  <1>6. \A p \in Given' : p.id \in 1 .. last'
    BY <1>1, <1>2, <1>3, <1>4
  <1>7. \A p, q \in Given' : p.id = q.id => p = q
    BY <1>2, <1>4 DEF RegistryInv
  <1>8. \A p \in Given' : p.id \in stored' \union asked'
    BY <1>2, <1>3, <1>5 DEF RegistryInv
  <1> QED  BY <1>1, <1>6, <1>7, <1>8 DEF RegistryInv

\* No other step gives an id, and one that removes a group was asked to.
LEMMA RegistryInductive == RegistryInv /\ [Next]_registry => RegistryInv'
  <1> SUFFICES ASSUME RegistryInv, [Next]_registry PROVE RegistryInv'
    OBVIOUS
  <1>1. ASSUME NEW c \in Creators, Create(c) PROVE RegistryInv'
    BY <1>1, CreateKeepsInv
  <1>2. ASSUME NEW p \in promised, Confirm(p) PROVE RegistryInv'
    BY <1>2 DEF Confirm, RegistryInv, Given
  <1>3. CASE Forget
    BY <1>3 DEF Forget, RegistryInv, Given
  <1>4. CASE AskRemoval
    BY <1>4 DEF AskRemoval, RegistryInv, Given
  <1>5. ASSUME NEW id \in stored, Remove(id) PROVE RegistryInv'
    BY <1>5 DEF Remove, RegistryInv, Given
  <1>6. CASE UNCHANGED registry
    BY <1>6 DEF registry, RegistryInv, Given
  <1> QED  BY <1>1, <1>2, <1>3, <1>4, <1>5, <1>6 DEF Next

LEMMA RegistryInvariant == Spec => []RegistryInv
  <1>1. Init => RegistryInv
    BY DEF Init, RegistryInv, Given
  <1> QED  BY <1>1, RegistryInductive, PTL DEF Spec

\* Whatever implements the registry never tells two clients of one id.
THEOREM RegistryIdsGivenOnce == Spec => []IdsGivenOnce
  <1>1. RegistryInv => IdsGivenOnce
    BY DEF RegistryInv, IdsGivenOnce, Given
  <1> QED  BY <1>1, RegistryInvariant, PTL

\* Whatever implements the registry keeps each group its creator was told of
\* until someone asks for its removal.
THEOREM RegistryGroupsStay == Spec => []GroupsStay
  <1>1. RegistryInv => GroupsStay
    BY DEF RegistryInv, GroupsStay, Given
  <1> QED  BY <1>1, RegistryInvariant, PTL

=============================================================================
