-------------------------- MODULE AncestorWalkProofs --------------------------
(***************************************************************************)
(* The ancestor walk is right on every hierarchy, of any size: what it     *)
(* accepts closes no cycle, and on a sound hierarchy it refuses only       *)
(* cycles.  And it is short: every turn uses up an entry.                  *)
(***************************************************************************)
EXTENDS AncestorWalk, FiniteSetTheorems, TLAPS

(* No member of S has its chain turning for ever inside S. *)
NoCycleIn(S) == \A T \in SUBSET S : T # {} => \E x \in T : E[x].parent \notin T

(* While the walk climbs, the entries behind it are stored, are not the    *)
(* source, and lead to where it stands; everything it has met is on the    *)
(* chain of the destination; and they hold a cycle only if it is about to  *)
(* step on one of them again.                                              *)
Climbing ==
  /\ dest \in DOMAIN E
  /\ visited \subseteq DOMAIN E
  /\ src \notin visited
  /\ dest \in visited \cup {cur}
  /\ \A x \in visited : E[x].parent \in visited \cup {cur}
  /\ \A x \in visited \cup {cur} : OnChain(E, x, dest)
  /\ cur \in visited \/ NoCycleIn(visited)

WalkInv ==
  /\ TypeOK
  /\ verdict = "walking" => Climbing
  /\ Sound
  /\ Complete

LEMMA WalkInvInit == Init => WalkInv
<1> SUFFICES ASSUME Init PROVE WalkInv
  OBVIOUS
<1>1. PICK D \in SUBSET EntryId : E \in [D -> [parent : Parent]]
  BY DEF Init, Hierarchies
<1>2. TypeOK
  BY <1>1 DEF Init, TypeOK
<1>3. Climbing
  BY DEF Init, Climbing, OnChain, NoCycleIn
<1> QED BY <1>2, <1>3 DEF Init, WalkInv, Sound, Complete

(* An entry found on the chain passes its parent on. *)
LEMMA ChainGoesUp ==
  ASSUME NEW x \in DOMAIN E, OnChain(E, x, dest), E[x].parent # Root
  PROVE  OnChain(E, E[x].parent, dest)
BY DEF OnChain, ParentClosed

LEMMA WalkInvStep == WalkInv /\ [Next]_vars => WalkInv'
<1> SUFFICES ASSUME WalkInv, [Next]_vars PROVE WalkInv'
  OBVIOUS
<1>1. CASE UNCHANGED vars
  <2>1. /\ E' = E /\ src' = src /\ dest' = dest
        /\ cur' = cur /\ visited' = visited /\ verdict' = verdict
    BY <1>1 DEF vars
  <2>2. TypeOK' /\ (verdict' = "walking" => Climbing')
    BY <2>1 DEF WalkInv, TypeOK, Climbing, NoCycleIn
  <2>3. Sound' /\ Complete'
    BY <2>1 DEF WalkInv, Sound, Complete, Intact
  <2> QED BY <2>2, <2>3 DEF WalkInv
<1>2. CASE Turn
  <2>1. /\ verdict = "walking" /\ Climbing /\ TypeOK
        /\ E' = E /\ src' = src /\ dest' = dest
    BY <1>2 DEF Turn, WalkInv
  <2>2. PICK D \in SUBSET EntryId : E \in [D -> [parent : Parent]]
    BY <2>1 DEF TypeOK, Hierarchies
  <2>3. CASE cur = src
    <3>1. verdict' = "INVALID_HIERARCHY" /\ visited' = visited /\ cur' = cur
      BY <1>2, <2>3 DEF Turn, WalkVerdict
    <3>2. OnChain(E, src, dest)
      BY <2>1, <2>3 DEF Climbing
    <3> QED BY <2>1, <3>1, <3>2 DEF WalkInv, TypeOK, Sound, Complete
  <2>4. CASE cur # src /\ (cur \in visited \/ cur \notin DOMAIN E)
    <3>1. verdict' = "INVALID_HIERARCHY" /\ visited' = visited \cup {cur} /\ cur' = cur
      BY <1>2, <2>4 DEF Turn, WalkVerdict
    <3>2. ~Intact
      <4>1. CASE cur \in visited
        <5>1. /\ visited \in SUBSET DOMAIN E /\ visited # {}
              /\ \A x \in visited : E[x].parent \in visited
          BY <2>1, <4>1 DEF Climbing
        <5> QED BY <5>1 DEF Intact, Acyclic
      <4>2. CASE cur \notin DOMAIN E
        <5>1. ASSUME Intact PROVE FALSE
          <6>1. dest \in DOMAIN E /\ OnChain(E, cur, dest)
            BY <2>1 DEF Climbing
          <6>2. DOMAIN E \in SUBSET DOMAIN E /\ ParentClosed(E, DOMAIN E)
            BY <5>1 DEF Intact, ParentClosed
          <6> QED BY <4>2, <6>1, <6>2 DEF OnChain
        <5> QED BY <5>1
      <4> QED BY <2>4, <4>1, <4>2
    <3>3. ~Intact'
      BY <2>1, <3>2 DEF Intact
    <3> QED BY <2>1, <3>1, <3>3 DEF WalkInv, TypeOK, Sound, Complete
  <2>5. CASE cur # src /\ cur \notin visited /\ cur \in DOMAIN E
    <3>1. NoCycleIn(visited)
      BY <2>1, <2>5 DEF Climbing
    <3>2. visited' = visited \cup {cur} /\ visited' \subseteq DOMAIN E /\ src \notin visited'
      BY <1>2, <2>1, <2>5 DEF Turn, Climbing
    <3>3. CASE E[cur].parent = Root
      <4>1. verdict' = "OK" /\ cur' = cur
        BY <1>2, <2>5, <3>3 DEF Turn, WalkVerdict
      <4>2. dest \in visited' /\ ParentClosed(E, visited')
        BY <2>1, <3>2, <3>3 DEF Climbing, ParentClosed
      <4>3. NoCycleIn(visited')
        <5> SUFFICES ASSUME NEW T \in SUBSET visited', T # {}
                     PROVE  \E x \in T : E[x].parent \notin T
          BY DEF NoCycleIn
        <5>1. CASE cur \in T
          BY <2>2, <3>2, <3>3, <5>1, RootAssumption
        <5>2. CASE cur \notin T
          BY <3>1, <3>2, <5>2 DEF NoCycleIn
        <5> QED BY <5>1, <5>2
      <4>4. Sound'
        BY <2>1, <3>2, <4>2, <4>3 DEF Sound, NoCycleIn
      <4>5. TypeOK'
        BY <2>1, <2>2, <3>2, <4>1 DEF TypeOK
      <4> QED BY <4>1, <4>4, <4>5 DEF WalkInv, Complete
    <3>4. CASE E[cur].parent # Root
      <4>1. verdict' = "walking" /\ cur' = E[cur].parent
        BY <1>2, <2>5, <3>4 DEF Turn, WalkVerdict
      <4>2. cur' \in EntryId
        BY <2>2, <2>5, <3>4, <4>1 DEF Parent
      <4>3. OnChain(E, cur', dest)
        <5>1. OnChain(E, cur, dest)
          BY <2>1 DEF Climbing
        <5> QED BY <2>5, <3>4, <4>1, <5>1, ChainGoesUp
      <4>4. cur' \in visited' \/ NoCycleIn(visited')
        <5> SUFFICES ASSUME cur' \notin visited', NEW T \in SUBSET visited', T # {}
                     PROVE  \E x \in T : E[x].parent \notin T
          BY DEF NoCycleIn
        <5>1. CASE cur \in T
          BY <4>1, <5>1
        <5>2. CASE cur \notin T
          BY <3>1, <3>2, <5>2 DEF NoCycleIn
        <5> QED BY <5>1, <5>2
      <4>5. \A x \in visited' : E[x].parent \in visited' \cup {cur'}
        BY <2>1, <3>2, <4>1 DEF Climbing
      <4>6. dest \in visited' \cup {cur'}
        BY <2>1, <3>2 DEF Climbing
      <4>7. \A x \in visited' \cup {cur'} : OnChain(E, x, dest)
        BY <2>1, <3>2, <4>3 DEF Climbing
      <4>8. Climbing'
        BY <2>1, <3>2, <4>4, <4>5, <4>6, <4>7 DEF Climbing, NoCycleIn
      <4>9. TypeOK'
        BY <2>1, <2>2, <3>2, <4>1, <4>2 DEF TypeOK
      <4> QED BY <4>1, <4>8, <4>9 DEF WalkInv, Sound, Complete
    <3> QED BY <3>3, <3>4
  <2> QED BY <2>3, <2>4, <2>5
<1> QED BY <1>1, <1>2 DEF Next
LEMMA WalkInvariant == Spec => []WalkInv
BY WalkInvInit, WalkInvStep, PTL DEF Spec

(* What rejectCycle lets through closes no cycle, whatever the store holds. *)
THEOREM WalkIsSound == Spec => []Sound
<1>1. WalkInv => Sound
  BY DEF WalkInv
<1> QED BY <1>1, WalkInvariant, PTL

(* On a sound hierarchy rejectCycle refuses a move exactly when Namespace  *)
(* says the source is on the chain of its destination.                     *)
THEOREM WalkIsComplete == Spec => []Complete
<1>1. WalkInv => Complete
  BY DEF WalkInv
<1> QED BY <1>1, WalkInvariant, PTL

(* A turn that goes on has met an entry that no earlier turn has met.      *)
LEMMA TurnUsesUp ==
  ASSUME WalkInv, Turn
  PROVE  TurnsLeft' \in 0..TurnsLeft - 1
<1> DEFINE left == DOMAIN E \ visited
<1>1. /\ verdict = "walking" /\ E' = E
      /\ verdict' = WalkVerdict(E, src, cur, visited)
      /\ visited' = IF cur = src THEN visited ELSE visited \cup {cur}
  BY DEF Turn
<1>2. IsFiniteSet(left)
  <2>1. DOMAIN E \subseteq EntryId
    BY DEF WalkInv, TypeOK, Hierarchies
  <2>2. left \in SUBSET EntryId
    BY <2>1
  <2> QED
    BY <2>2, FiniteAssumption, FS_Subset
<1>3. Cardinality(left) \in Nat /\ TurnsLeft = 1 + Cardinality(left)
  BY <1>1, <1>2, FS_CardinalityType DEF TurnsLeft
<1>4. CASE verdict' = "walking"
  <2>1. cur # src /\ cur \in left
    BY <1>1, <1>4 DEF WalkVerdict
  <2>2. DOMAIN E' \ visited' = left \ {cur}
    BY <1>1, <2>1
  <2>3. Cardinality(left \ {cur}) = Cardinality(left) - 1
    BY <1>2, <2>1, FS_RemoveElement
  <2>4. Cardinality(left \ {cur}) \in Nat
    BY <1>2, FS_RemoveElement, FS_CardinalityType
  <2>5. TurnsLeft' = 1 + Cardinality(left \ {cur})
    BY <1>4, <2>2 DEF TurnsLeft
  <2> HIDE DEF left
  <2> QED
    BY <1>3, <2>3, <2>4, <2>5
<1>5. CASE verdict' # "walking"
  <2>1. TurnsLeft' = 0
    BY <1>5 DEF TurnsLeft
  <2> HIDE DEF left
  <2> QED
    BY <1>3, <2>1
<1> QED BY <1>4, <1>5

(* A walk takes one turn more than the store has entries, at most, on a    *)
(* corrupted cycle of parent links too.                                    *)
THEOREM WalkIsShort == Spec => EveryTurnCounts
<1>1. WalkInv /\ [Next]_vars => [TurnsLeft' \in 0..TurnsLeft - 1]_vars
  BY TurnUsesUp DEF Next
<1> QED BY <1>1, WalkInvariant, PTL DEF Spec, EveryTurnCounts
=============================================================================
