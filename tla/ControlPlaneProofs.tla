------------------------- MODULE ControlPlaneProofs -------------------------
(***************************************************************************)
(* What the rules of ControlPlane are good for: whatever machines stop and *)
(* start in between, no change of the membership costs etcd its majority.  *)
(***************************************************************************)
EXTENDS ControlPlane, FiniteSetTheorems, TLAPS

PlaneTypeOK == member \subseteq Machine /\ alive \subseteq Machine

LEMMA PlaneTyped == PlaneSpec => []PlaneTypeOK
<1>1. PlaneInit => PlaneTypeOK
  BY DEF PlaneInit, PlaneTypeOK
<1>2. PlaneTypeOK /\ [PlaneNext]_planeVars => PlaneTypeOK'
  BY DEF PlaneTypeOK, PlaneNext, Enter, Evict, Retire, PowerChange, planeVars
<1> QED
  BY <1>1, <1>2, PTL DEF PlaneSpec

\* The members and those that run are finite in number, and so comparable.
LEMMA MembersCounted ==
  ASSUME IsFiniteSet(Machine), PlaneTypeOK
  PROVE  /\ IsFiniteSet(member) /\ IsFiniteSet(member \cap alive)
         /\ Cardinality(member) \in Nat /\ Cardinality(member \cap alive) \in Nat
BY FS_Subset, FS_CardinalityType DEF PlaneTypeOK

\* A new member that runs counts on both sides.
LEMMA EnterKeeps ==
  ASSUME IsFiniteSet(Machine), PlaneTypeOK, NEW m \in Machine, Enter(m)
  PROVE  HasMajority'
<1>1. member' \cap alive' = (member \cap alive) \cup {m} /\ m \notin member
  BY DEF Enter
<1>2. /\ Cardinality(member') = Cardinality(member) + 1
      /\ Cardinality(member' \cap alive') = Cardinality(member \cap alive) + 1
  BY <1>1, MembersCounted, FS_AddElement DEF Enter
<1> QED
  BY <1>2, MembersCounted DEF Enter, HasMajority, Majority

\* Members that stopped count on one side only.
LEMMA EvictKeeps ==
  ASSUME IsFiniteSet(Machine), PlaneTypeOK, NEW gone \in SUBSET member, Evict(gone)
  PROVE  HasMajority'
<1>1. member' \cap alive' = member \cap alive /\ member' \subseteq member
  BY DEF Evict
<1>2. Cardinality(member') <= Cardinality(member) /\ Cardinality(member') \in Nat
  BY <1>1, MembersCounted, FS_Subset, FS_CardinalityType
<1>3. Cardinality(member' \cap alive') = Cardinality(member \cap alive)
  BY <1>1
<1>4. 2 * Cardinality(member \cap alive) > Cardinality(member)
  BY DEF Evict, HasMajority, Majority
<1> QED
  BY <1>2, <1>3, <1>4, MembersCounted DEF HasMajority, Majority

\* An even membership has one running member more than the majority needs.
LEMMA RetireKeeps ==
  ASSUME IsFiniteSet(Machine), PlaneTypeOK, NEW m \in Machine, Retire(m)
  PROVE  HasMajority'
<1>1. member' \cap alive' = (member \cap alive) \ {m} /\ m \in member \cap alive
  BY DEF Retire
<1>2. member' = member \ {m} /\ m \in member
  BY DEF Retire
<1>3. Cardinality(member') = Cardinality(member) - 1
  BY <1>2, MembersCounted, FS_RemoveElement
<1>4. Cardinality(member' \cap alive') = Cardinality(member \cap alive) - 1
  <2> DEFINE S == member \cap alive
  <2>1. IsFiniteSet(S) /\ m \in S /\ member' \cap alive' = S \ {m}
    BY <1>1, MembersCounted
  <2> HIDE DEF S
  <2>2. Cardinality(S \ {m}) = Cardinality(S) - 1
    BY <2>1, FS_RemoveElement
  <2> QED
    BY <2>1, <2>2 DEF S
<1>5. \A size, running \in Nat :
        size % 2 = 0 /\ 2 * running > size => 2 * (running - 1) > size - 1
  OBVIOUS
<1> QED
  BY <1>3, <1>4, <1>5, MembersCounted DEF Retire, HasMajority, Majority

\* For every number of machines, a membership that has its majority keeps it
\* through every change of the membership that ControlPlane allows: the parity
\* rule of Retire, which node.DesiredServerCount follows, is what makes a
\* demotion safe.
THEOREM MajorityOutlivesChanges ==
  ASSUME IsFiniteSet(Machine)
  PROVE  PlaneSpec => MajorityIsKept
<1>1. ASSUME PlaneTypeOK, [PlaneNext]_planeVars, ~UNCHANGED planeVars,
             HasMajority, UNCHANGED alive
      PROVE  HasMajority'
  <2>1. CASE PowerChange
    BY <1>1, <2>1 DEF PowerChange, planeVars
  <2> QED
    BY <1>1, <2>1, EnterKeeps, EvictKeeps, RetireKeeps DEF PlaneNext
<1>2. PlaneTypeOK /\ [PlaneNext]_planeVars
        => [HasMajority /\ UNCHANGED alive => HasMajority']_planeVars
  BY <1>1
<1> QED
  BY <1>2, PlaneTyped, PTL DEF PlaneSpec, MajorityIsKept
=============================================================================
