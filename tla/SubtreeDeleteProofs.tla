------------------------- MODULE SubtreeDeleteProofs -------------------------
(***************************************************************************)
(* Proofs about SubtreeDelete: whatever the hierarchy, sound or corrupted, *)
(* and whatever is flawed in it, a recursive delete deletes the subtree    *)
(* whole or not a row.                                                     *)
(***************************************************************************)
EXTENDS SubtreeDelete, FiniteSetTheorems, SequenceTheorems, TLAPS

(* The enumeration so far: no node twice, nothing that is not below the    *)
(* root; the expanded nodes come before their children, which are all      *)
(* there, and every node but the root is the child of one of them.         *)
Enumerating ==
  /\ order[1] = root
  /\ head \in 1..(Len(order) + 1)
  /\ Len(order) >= 1
  /\ \A i, j \in 1..Len(order) : order[i] = order[j] => i = j
  /\ \A i \in 1..(head - 1) : Nodes(E, order[i]) \subseteq Seen
  /\ \A i \in 1..(head - 1), j \in 1..Len(order) : E[order[j]].parent = order[i] => i < j
  /\ \A j \in 2..Len(order) : \E i \in 1..(head - 1) : E[order[j]].parent = order[i]
  /\ Seen \subseteq Below

Done == head = Len(order) + 1
Clean(S, flaws) == \A x \in S : E[x].flaw \notin flaws
Unrefused == {"file", "unavailable", "file record", "chunks"}

Validating ==
  /\ phase = "validate" => /\ Done /\ pos \in 1..(Len(order) + 1)
                           /\ Clean({order[i] : i \in 1..(pos - 1)}, Unrefused)
  /\ phase = "jobs" => Done /\ Clean(Seen, Unrefused)

(* The rows deleted are those of the nodes after pos. *)
Deleting ==
  phase = "delete" => /\ Done /\ pos \in 0..Len(order)
                      /\ \A x \in Seen : E[x].flaw = "none"
                      /\ rows = Restrict(E, DOMAIN E \ {order[i] : i \in (pos + 1)..Len(order)})

(* The inductive invariant. *)
IInv ==
  /\ TypeOK
  /\ phase \in Phases => Enumerating
  /\ phase = "expand" => pos = 1
  /\ phase \in {"expand", "validate", "jobs"} => rows = E
  /\ Validating /\ Deleting
  /\ ZeroMutation /\ WholeSubtree /\ OnlyCorrupted /\ RefusedForCause

-----------------------------------------------------------------------------
LEMMA StoreFacts ==
  ASSUME TypeOK
  PROVE  /\ DOMAIN E \subseteq EntryId /\ E \in [DOMAIN E -> Row]
         /\ DOMAIN rows \subseteq EntryId /\ rows \in [DOMAIN rows -> Row]
         /\ Len(order) \in Nat /\ DOMAIN order = 1..Len(order)
         /\ \A i \in 1..Len(order) : order[i] \in DOMAIN E /\ order[i] \in Seen
         /\ \A x \in Seen : \E i \in 1..Len(order) : x = order[i]
  BY LenProperties DEF TypeOK, Stores, Seen, Range

LEMMA RestrictIsAStore ==
  ASSUME NEW T \in Stores, NEW S \in SUBSET DOMAIN T
  PROVE  Restrict(T, S) \in Stores
<1>1. T \in [DOMAIN T -> Row] /\ DOMAIN T \subseteq EntryId
  BY DEF Stores
<1>2. Restrict(T, S) \in [S -> Row] /\ S \in SUBSET EntryId
  BY <1>1 DEF Restrict
<1> QED
  BY <1>2 DEF Stores

(* The children of what lies below the root do, too. *)
LEMMA BelowIsClosed ==
  /\ root \in DOMAIN E => root \in Below
  /\ \A x \in Below : Nodes(E, x) \subseteq Below
  BY DEF Below, Nodes

(* What holds the root and is closed holds everything below it. *)
LEMMA BelowIsLeast ==
  ASSUME NEW S \in SUBSET DOMAIN E, root \in S, \A y \in S : Nodes(E, y) \subseteq S
  PROVE  Below \subseteq S
  BY DEF Below

(* A listing holds the children of a node, each once. *)
LEMMA ListingFacts ==
  ASSUME TypeOK, NEW x, NEW s \in Listings(x)
  PROVE  /\ s \in Seq(DOMAIN E) /\ Len(s) \in Nat
         /\ \A i \in 1..Len(s) : s[i] \in Nodes(E, x)
         /\ \A y \in Nodes(E, x) : \E i \in 1..Len(s) : s[i] = y
         /\ \A i, j \in 1..Len(s) : s[i] = s[j] => i = j
<1> DEFINE n == Cardinality(Nodes(E, x))
<1>1. IsFiniteSet(Nodes(E, x))
  BY EntryAssumption, StoreFacts, FS_Subset DEF Nodes
<1>2. n \in Nat
  BY <1>1, FS_CardinalityType
<1>3. /\ s \in [1..n -> Nodes(E, x)]
      /\ \A i, j \in 1..n : s[i] = s[j] => i = j
      /\ \A y \in Nodes(E, x) : \E i \in 1..n : s[i] = y
  BY DEF Listings, Bijection, Injection, Surjection, IsInjective
<1>4. Nodes(E, x) \subseteq DOMAIN E
  BY DEF Nodes
<1>5. s \in Seq(DOMAIN E) /\ Len(s) = n
  BY <1>2, <1>3, <1>4
<1> QED
  BY <1>2, <1>3, <1>5

-----------------------------------------------------------------------------
LEMMA Initially == Init => IInv
<1> SUFFICES ASSUME Init PROVE IInv
  OBVIOUS
<1>1. TypeOK
  BY DEF Init, TypeOK, Phases
<1>2. Len(order) = 1 /\ order[1] = root /\ Seen = {root}
  BY DEF Init, Seen, Range
<1>3. Enumerating
  BY <1>1, <1>2, BelowIsClosed DEF Init, Enumerating, TypeOK
<1> QED
  BY <1>1, <1>3 DEF Init, IInv, Validating, Deleting, ZeroMutation, WholeSubtree, OnlyCorrupted,
                    RefusedForCause, Codes

LEMMA ExpandKeeps == IInv /\ Expand => IInv'
<1> SUFFICES ASSUME IInv, Expand PROVE IInv'
  OBVIOUS
<1> DEFINE x == order[head]
<1>1. TypeOK /\ Enumerating /\ phase = "expand" /\ rows = E /\ head \in 1..Len(order)
      /\ UNCHANGED <<E, rows, root, pos>>
  <2>1. TypeOK /\ Enumerating /\ phase = "expand" /\ rows = E
    BY DEF IInv, Expand, Phases
  <2>2. head \in 1..Len(order)
    BY <2>1, StoreFacts DEF Expand, Enumerating
  <2> QED
    BY <2>1, <2>2 DEF Expand
<1>2. x \in DOMAIN E /\ x \in Seen /\ x \in Below
  BY <1>1, StoreFacts DEF Enumerating
<1>3. Below' = Below
  BY <1>1 DEF Below, Nodes
<1>4. CASE Revisited
  <2>1. phase' = "INVALID_HIERARCHY" /\ UNCHANGED <<order, head>>
    BY <1>4 DEF Expand
  <2>2. PICK y \in Nodes(E, x) : y \in Seen
    BY <1>4 DEF Revisited
  <2>3. PICK j \in 1..Len(order) : y = order[j]
    BY <1>1, <2>2, StoreFacts
  <2>4. E[y].parent = x
    BY <2>2 DEF Nodes
  <2>5. j = 1
    <3> SUFFICES ASSUME j # 1 PROVE FALSE
      OBVIOUS
    <3>1. PICK i \in 1..(head - 1) : E[order[j]].parent = order[i]
      BY <1>1, StoreFacts DEF Enumerating
    <3> QED
      BY <1>1, <2>3, <2>4, <3>1, StoreFacts DEF Enumerating
  <2>6. E[root].parent = x
    BY <1>1, <2>3, <2>4, <2>5 DEF Enumerating
  <2>7. TypeOK'
    BY <1>1, <2>1 DEF TypeOK, Codes
  <2>8. OnlyCorrupted'
    BY <1>1, <1>2, <1>3, <2>6 DEF OnlyCorrupted
  <2> QED
    BY <1>1, <2>1, <2>7, <2>8 DEF IInv, Phases, Validating, Deleting, ZeroMutation, WholeSubtree,
                                  RefusedForCause
<1>5. CASE ~Revisited
  <2>1. PICK s \in Listings(x) : order' = order \o s
    BY <1>5 DEF Expand
  <2>2. head' = head + 1 /\ phase' = "expand"
    BY <1>1, <1>5 DEF Expand, Popped
  <2>3. /\ s \in Seq(DOMAIN E) /\ Len(s) \in Nat
        /\ \A i \in 1..Len(s) : s[i] \in Nodes(E, x)
        /\ \A y \in Nodes(E, x) : \E i \in 1..Len(s) : s[i] = y
        /\ \A i, j \in 1..Len(s) : s[i] = s[j] => i = j
    BY <1>1, ListingFacts
  <2> DEFINE n == Len(order)
             m == Len(s)
  <2>4. /\ order' \in Seq(DOMAIN E) /\ Len(order') = n + m
        /\ \A i \in 1..n : order'[i] = order[i]
        /\ \A i \in (n + 1)..(n + m) : order'[i] = s[i - n] /\ order'[i] \in Nodes(E, x)
    <3>1. /\ order \o s \in Seq(DOMAIN E) /\ Len(order \o s) = n + m
          /\ \A i \in 1..(n + m) : (order \o s)[i] = IF i <= n THEN order[i] ELSE s[i - n]
      BY <1>1, <2>3, ConcatProperties DEF TypeOK
    <3>2. n \in Nat
      BY <1>1, StoreFacts
    <3>3. \A i \in (n + 1)..(n + m) : ~(i <= n) /\ i - n \in 1..m /\ i \in 1..(n + m)
      BY <2>3, <3>2
    <3>4. \A i \in 1..n : i <= n /\ i \in 1..(n + m)
      BY <2>3, <3>2
    <3> QED
      BY <2>1, <2>3, <3>1, <3>3, <3>4
  <2>5. n \in Nat /\ m \in Nat /\ n >= 1
    BY <1>1, <2>3, StoreFacts DEF Enumerating
  <2>6. TypeOK'
    BY <1>1, <2>2, <2>4 DEF TypeOK
  <2>7. \A i \in 1..n : order[i] \notin Nodes(E, x)
    BY <1>1, <1>5, StoreFacts DEF Revisited
  <2>8. Seen' = Seen \cup Nodes(E, x)
    <3>1. \A y \in Seen' : y \in Seen \cup Nodes(E, x)
      <4>1. ASSUME NEW i \in 1..(n + m) PROVE order'[i] \in Seen \cup Nodes(E, x)
        <5>1. CASE i \in 1..n
          BY <1>1, <2>4, <5>1, StoreFacts
        <5>2. CASE i \in (n + 1)..(n + m)
          BY <2>4, <5>2
        <5> QED
          BY <2>5, <5>1, <5>2
      <4> QED
        BY <2>4, <2>6, <4>1, LenProperties DEF Seen, Range
    <3>2. \A i \in 1..(n + m) : order'[i] \in Seen'
      BY <2>4, LenProperties DEF Seen, Range
    <3>3. ASSUME NEW y \in Nodes(E, x) PROVE y \in Seen'
      <4>1. PICK i \in 1..m : s[i] = y
        BY <2>3
      <4>2. n + i \in (n + 1)..(n + m) /\ n + i \in 1..(n + m) /\ (n + i) - n = i
        BY <2>5
      <4>3. order'[n + i] = s[(n + i) - n]
        BY <2>4, <4>2
      <4> QED
        BY <3>2, <4>1, <4>2, <4>3
    <3>4. ASSUME NEW y \in Seen PROVE y \in Seen'
      <4>1. PICK i \in 1..n : y = order[i]
        BY <1>1, StoreFacts
      <4> QED
        BY <2>4, <2>5, <3>2, <4>1
    <3> QED
      BY <3>1, <3>3, <3>4
  <2>9. Enumerating'
    <3>1. (order[1] = root /\ head \in 1..(Len(order) + 1) /\ Len(order) >= 1)'
      BY <1>1, <2>2, <2>4, <2>5 DEF Enumerating
    <3>2. ASSUME NEW i \in 1..(n + m), NEW j \in 1..(n + m), order'[i] = order'[j] PROVE i = j
      <4>1. CASE i \in 1..n /\ j \in 1..n
        BY <1>1, <2>4, <3>2, <4>1 DEF Enumerating
      <4>2. CASE i \in (n + 1)..(n + m) /\ j \in (n + 1)..(n + m)
        <5>1. s[i - n] = s[j - n] /\ i - n \in 1..m /\ j - n \in 1..m
          BY <2>4, <2>5, <3>2, <4>2
        <5> QED
          BY <2>3, <2>5, <5>1
      <4>3. CASE i \in 1..n /\ j \in (n + 1)..(n + m)
        BY <2>4, <2>7, <3>2, <4>3
      <4>4. CASE i \in (n + 1)..(n + m) /\ j \in 1..n
        BY <2>4, <2>7, <3>2, <4>4
      <4> QED
        BY <2>5, <4>1, <4>2, <4>3, <4>4
    <3>3. ASSUME NEW i \in 1..head PROVE Nodes(E, order'[i]) \subseteq Seen'
      <4>1. CASE i = head
        BY <1>1, <2>4, <2>8, <4>1
      <4>2. CASE i \in 1..(head - 1)
        <5>1. i \in 1..n /\ Nodes(E, order[i]) \subseteq Seen
          BY <1>1, <2>5, <4>2 DEF Enumerating
        <5> QED
          BY <2>4, <2>8, <5>1
      <4> QED
        BY <1>1, <4>1, <4>2
    <3>4. ASSUME NEW i \in 1..head, NEW j \in 1..(n + m), E[order'[j]].parent = order'[i] PROVE i < j
      <4>1. i \in 1..n /\ order'[i] = order[i]
        BY <1>1, <2>4, <2>5
      <4>2. CASE j \in (n + 1)..(n + m)
        BY <1>1, <2>5, <4>2
      <4>3. CASE j \in 1..n
        <5>1. E[order[j]].parent = order[i] /\ order[j] \in DOMAIN E
          BY <1>1, <2>4, <3>4, <4>1, <4>3, StoreFacts
        <5>2. i # head
          BY <2>7, <4>3, <5>1 DEF Nodes
        <5>3. i \in 1..(head - 1)
          BY <1>1, <5>2
        <5> QED
          BY <1>1, <4>3, <5>1, <5>3 DEF Enumerating
      <4> QED
        BY <2>5, <4>2, <4>3
    <3>5. ASSUME NEW j \in 2..(n + m) PROVE \E i \in 1..head : E[order'[j]].parent = order'[i]
      <4>1. CASE j \in (n + 1)..(n + m)
        <5>1. order'[head] = x
          BY <1>1, <2>4
        <5>2. E[order'[j]].parent = x
          BY <2>4, <4>1 DEF Nodes
        <5> QED
          BY <1>1, <5>1, <5>2
      <4>2. CASE j \in 2..n
        <5>1. PICK i \in 1..(head - 1) : E[order[j]].parent = order[i]
          BY <1>1, <4>2 DEF Enumerating
        <5>2. i \in 1..head /\ i \in 1..n /\ j \in 1..n
          BY <1>1, <2>5, <4>2, <5>1
        <5> QED
          BY <2>4, <5>1, <5>2
      <4> QED
        BY <2>5, <4>1, <4>2
    <3>6. Seen' \subseteq Below'
      BY <1>1, <1>2, <1>3, <2>8, BelowIsClosed DEF Enumerating
    <3>7. head' - 1 = head /\ Len(order') = n + m /\ E' = E
      BY <1>1, <2>2, <2>4
    <3>8. \A y : Nodes(E, y)' = Nodes(E, y)
      BY <1>1 DEF Nodes
    <3> HIDE DEF n, m, x
    <3> QED
      BY <3>1, <3>2, <3>3, <3>4, <3>5, <3>6, <3>7 DEF Enumerating, Nodes
  <2> QED
    BY <1>1, <2>2, <2>6, <2>9 DEF IInv, Validating, Deleting, ZeroMutation, WholeSubtree,
                                  OnlyCorrupted, RefusedForCause, Codes
<1> QED
  BY <1>4, <1>5

(* A complete enumeration is the subtree. *)
LEMMA SeenIsBelow ==
  ASSUME TypeOK, Enumerating, Done
  PROVE  Seen = Below
<1>1. root \in Seen /\ Seen \in SUBSET DOMAIN E
  BY StoreFacts DEF Enumerating
<1>2. \A y \in Seen : Nodes(E, y) \subseteq Seen
  BY StoreFacts DEF Enumerating, Done
<1> QED
  BY <1>1, <1>2, BelowIsLeast DEF Enumerating

(* Steps that leave the enumeration alone. *)
LEMMA EnumerationStays ==
  ASSUME UNCHANGED <<E, root, order, head>>
  PROVE  /\ Enumerating => Enumerating'
         /\ Below' = Below /\ Seen' = Seen /\ Done' = Done
<1>1. Below' = Below /\ Seen' = Seen /\ Done' = Done
  BY DEF Below, Seen, Nodes, Done
<1>2. Enumerating => Enumerating'
  BY <1>1 DEF Enumerating, Nodes
<1> QED
  BY <1>1, <1>2

LEMMA EnumeratedKeeps == IInv /\ Enumerated => IInv'
<1> SUFFICES ASSUME IInv, Enumerated PROVE IInv'
  OBVIOUS
<1>1. Enumerating /\ phase = "expand" /\ pos = 1 /\ rows = E
  BY DEF IInv, Enumerated, Phases
<1>2. Done
  BY <1>1, StoreFacts DEF Enumerated, Done, Enumerating, IInv, TypeOK
<1>3. TypeOK' /\ Enumerating' /\ Done' /\ Seen' = Seen
  BY <1>1, <1>2, EnumerationStays DEF Enumerated, IInv, TypeOK, Phases
<1>4. Validating'
  BY <1>1, <1>2, <1>3, StoreFacts DEF Enumerated, Validating, Clean, IInv
<1> QED
  BY <1>1, <1>3, <1>4 DEF Enumerated, IInv, Deleting, ZeroMutation, WholeSubtree, OnlyCorrupted,
                          RefusedForCause, Codes

LEMMA ValidateKeeps == IInv /\ Validate => IInv'
<1> SUFFICES ASSUME IInv, Validate PROVE IInv'
  OBVIOUS
<1>1. /\ TypeOK /\ Enumerating /\ Done /\ phase = "validate" /\ rows = E /\ pos \in 1..Len(order)
      /\ Clean({order[i] : i \in 1..(pos - 1)}, Unrefused)
      /\ UNCHANGED <<E, rows, root, order, head>>
  BY StoreFacts DEF IInv, Validate, Phases, Validating
<1>2. Enumerating' /\ Below' = Below /\ Seen' = Seen /\ Done'
  BY <1>1, EnumerationStays
<1>3. order[pos] \in Below
  BY <1>1, StoreFacts DEF Enumerating
<1>4. CASE Refused(order[pos])
  <2>1. phase' = "OPERATION_UNAVAILABLE" /\ pos' = pos /\ E[order[pos]].flaw # "none"
    BY <1>4 DEF Validate, Refused
  <2>2. TypeOK' /\ RefusedForCause'
    BY <1>1, <1>2, <1>3, <2>1 DEF TypeOK, Codes, RefusedForCause
  <2> QED
    BY <1>1, <2>1, <2>2 DEF IInv, Phases, Validating, Deleting, ZeroMutation, WholeSubtree,
                            OnlyCorrupted
<1>5. CASE ~Refused(order[pos])
  <2>1. phase' = "validate" /\ pos' = pos + 1
    BY <1>1, <1>5 DEF Validate
  <2>2. TypeOK'
    BY <1>1, <2>1 DEF TypeOK
  <2>3. pos' \in 1..(Len(order') + 1)
    BY <1>1, <2>1, StoreFacts
  <2>4. Clean({order[i] : i \in 1..(pos - 1)}, Unrefused)'
    <3>1. ASSUME NEW i \in 1..pos PROVE E[order[i]].flaw \notin Unrefused
      <4>1. CASE i = pos
        BY <1>5, <4>1 DEF Refused, Unrefused
      <4>2. CASE i # pos
        BY <1>1, <4>2, i \in 1..(pos - 1) DEF Clean
      <4> QED
        BY <4>1, <4>2
    <3>2. pos' - 1 = pos
      BY <1>1, <2>1, StoreFacts
    <3> QED
      BY <1>1, <3>1, <3>2 DEF Clean
  <2>5. Validating'
    BY <1>2, <2>1, <2>3, <2>4 DEF Validating
  <2> QED
    BY <1>1, <1>2, <2>1, <2>2, <2>5 DEF IInv, Deleting, ZeroMutation, WholeSubtree, OnlyCorrupted,
                                        RefusedForCause, Codes
<1> QED
  BY <1>4, <1>5

LEMMA ValidatedKeeps == IInv /\ Validated => IInv'
<1> SUFFICES ASSUME IInv, Validated PROVE IInv'
  OBVIOUS
<1>1. /\ TypeOK /\ Enumerating /\ Done /\ phase = "validate" /\ rows = E /\ pos = Len(order) + 1
      /\ Clean({order[i] : i \in 1..(pos - 1)}, Unrefused)
      /\ UNCHANGED <<E, rows, root, order, head, pos>> /\ phase' = "jobs"
  BY StoreFacts DEF IInv, Validated, Phases, Validating
<1>2. Enumerating' /\ Below' = Below /\ Seen' = Seen /\ Done'
  BY <1>1, EnumerationStays
<1>3. Clean(Seen, Unrefused)
  BY <1>1, StoreFacts DEF Clean
<1>4. TypeOK' /\ Validating'
  BY <1>1, <1>2, <1>3 DEF TypeOK, Phases, Validating, Clean
<1> QED
  BY <1>1, <1>2, <1>4 DEF IInv, Deleting, ZeroMutation, WholeSubtree, OnlyCorrupted, RefusedForCause,
                          Codes

LEMMA CheckJobsKeeps == IInv /\ CheckJobs => IInv'
<1> SUFFICES ASSUME IInv, CheckJobs PROVE IInv'
  OBVIOUS
<1>1. /\ TypeOK /\ Enumerating /\ Done /\ phase = "jobs" /\ rows = E /\ Clean(Seen, Unrefused)
      /\ UNCHANGED <<E, rows, root, order, head>>
  BY DEF IInv, CheckJobs, Phases, Validating
<1>2. Enumerating' /\ Below' = Below /\ Seen' = Seen /\ Done'
  BY <1>1, EnumerationStays
<1>3. CASE HasJob
  <2>1. phase' = "OPERATION_UNAVAILABLE" /\ pos' = pos
    BY <1>3 DEF CheckJobs
  <2>2. \E x \in Below : E[x].flaw # "none"
    BY <1>1, <1>3 DEF HasJob, Enumerating
  <2>3. TypeOK' /\ RefusedForCause'
    BY <1>1, <1>2, <2>1, <2>2 DEF TypeOK, Codes, RefusedForCause
  <2> QED
    BY <1>1, <2>1, <2>3 DEF IInv, Phases, Validating, Deleting, ZeroMutation, WholeSubtree,
                            OnlyCorrupted
<1>4. CASE ~HasJob
  <2>1. phase' = "delete" /\ pos' = Len(order)
    BY <1>1, <1>4 DEF CheckJobs, FromTheLeaves
  <2>2. TypeOK' /\ Len(order) \in Nat
    BY <1>1, <2>1, StoreFacts DEF TypeOK, Phases
  <2>3. \A x \in Seen : E[x].flaw = "none"
    <3>1. \A x \in Seen : x \in DOMAIN E /\ E[x] \in Row
      BY <1>1, StoreFacts
    <3> QED
      BY <1>1, <1>4, <3>1 DEF HasJob, Clean, Unrefused, Row, Flaw
  <2>4. rows = Restrict(E, DOMAIN E \ {order[i] : i \in (Len(order) + 1)..Len(order)})
    <3>1. {order[i] : i \in (Len(order) + 1)..Len(order)} = {}
      BY <2>2
    <3>2. Restrict(E, DOMAIN E) = E
      BY <1>1, StoreFacts DEF Restrict
    <3> QED
      BY <1>1, <3>1, <3>2
  <2>5. Deleting'
    <3>1. pos' = Len(order') /\ order' = order /\ E' = E /\ rows' = rows /\ pos' \in 0..Len(order')
      BY <1>1, <2>1, <2>2
    <3>2. rows' = Restrict(E', DOMAIN E' \ {order'[i] : i \in (pos' + 1)..Len(order')})
      BY <2>4, <3>1
    <3> QED
      BY <1>2, <2>3, <3>1, <3>2 DEF Deleting
  <2> QED
    BY <1>1, <1>2, <2>1, <2>2, <2>5 DEF IInv, Validating, ZeroMutation, WholeSubtree, OnlyCorrupted,
                                        RefusedForCause, Codes
<1> QED
  BY <1>3, <1>4

(* Children come after their parents in order, and go before them: neither *)
(* a missing row nor RESTRICT stops the deletes.                           *)
LEMMA DeleteKeeps == IInv /\ Delete => IInv'
<1> SUFFICES ASSUME IInv, Delete PROVE IInv'
  OBVIOUS
<1> DEFINE n == Len(order)
           Gone == {order[i] : i \in (pos + 1)..n}
           x == order[pos]
<1>1. /\ TypeOK /\ Enumerating /\ Done /\ phase = "delete" /\ pos \in 1..n
      /\ \A y \in Seen : E[y].flaw = "none"
      /\ rows = Restrict(E, DOMAIN E \ Gone)
      /\ UNCHANGED <<E, root, order, head>>
  BY StoreFacts DEF IInv, Delete, Phases, Deleting
<1>2. Enumerating' /\ Below' = Below /\ Seen' = Seen /\ Done'
  BY <1>1, EnumerationStays
<1>3. DOMAIN rows = DOMAIN E \ Gone /\ \A y \in DOMAIN rows : rows[y] = E[y]
  BY <1>1 DEF Restrict
<1>4. n \in Nat /\ x \in DOMAIN E /\ x \in Seen
  BY <1>1, StoreFacts
<1>5. x \in DOMAIN rows
  <2>1. \A i \in (pos + 1)..n : i \in 1..n /\ i # pos
    BY <1>1, <1>4
  <2>2. \A i \in (pos + 1)..n : order[i] # x
    BY <1>1, <2>1 DEF Enumerating
  <2> QED
    BY <1>3, <1>4, <2>2
<1>6. ~Restricted(x)
  <2>1. ASSUME NEW y \in Nodes(rows, x) PROVE FALSE
    <3>1. y \in DOMAIN E /\ y \notin Gone /\ E[y].parent = x
      BY <1>3, <2>1 DEF Nodes
    <3>2. y \in Nodes(E, order[pos]) /\ pos \in 1..(head - 1)
      BY <1>1, <1>4, <3>1 DEF Nodes, Done
    <3>3. y \in Seen
      BY <1>1, <3>2 DEF Enumerating
    <3>4. PICK j \in 1..n : y = order[j]
      BY <1>1, <3>3, StoreFacts
    <3>5. pos < j
      BY <1>1, <3>1, <3>2, <3>4 DEF Enumerating
    <3>6. j \in (pos + 1)..n
      BY <1>1, <1>4, <3>5
    <3> QED
      BY <3>1, <3>4, <3>6
  <2>2. rows[x].flaw = "none"
    BY <1>1, <1>3, <1>4, <1>5
  <2> QED
    BY <2>1, <2>2 DEF Restricted
<1>7. rows' = Restrict(rows, DOMAIN rows \ {x}) /\ pos' = pos - 1 /\ phase' = "delete"
  BY <1>1, <1>5, <1>6 DEF Delete
<1>8. rows' = Restrict(E, DOMAIN E \ {order[i] : i \in (pos' + 1)..n})
  <2>1. {order[i] : i \in (pos' + 1)..n} = Gone \cup {x}
    <3>1. (pos' + 1)..n = ((pos + 1)..n) \cup {pos}
      BY <1>1, <1>4, <1>7
    <3> QED
      BY <3>1
  <2>2. DOMAIN rows \ {x} = DOMAIN E \ (Gone \cup {x})
    BY <1>3
  <2> QED
    BY <1>3, <1>7, <2>1, <2>2 DEF Restrict
<1>9. TypeOK'
  <2>1. rows' \in Stores
    BY <1>1, <1>7, RestrictIsAStore DEF TypeOK
  <2> QED
    BY <1>1, <1>7, <2>1 DEF TypeOK
<1>10. Deleting'
  <2>1. pos' \in 0..n
    BY <1>1, <1>4, <1>7
  <2> QED
    BY <1>1, <1>2, <1>8, <2>1 DEF Deleting
<1> QED
  BY <1>2, <1>7, <1>9, <1>10 DEF IInv, Validating, ZeroMutation, WholeSubtree, OnlyCorrupted,
                                 RefusedForCause, Codes

LEMMA DeletedKeeps == IInv /\ Deleted => IInv'
<1> SUFFICES ASSUME IInv, Deleted PROVE IInv'
  OBVIOUS
<1>1. /\ TypeOK /\ Enumerating /\ Done /\ pos = 0 /\ phase' = "OK"
      /\ \A y \in Seen : E[y].flaw = "none"
      /\ rows = Restrict(E, DOMAIN E \ {order[i] : i \in (pos + 1)..Len(order)})
      /\ UNCHANGED <<E, rows, root, order, head, pos>>
  BY DEF IInv, Deleted, Phases, Deleting
<1>2. Below' = Below /\ Seen = Below
  BY <1>1, EnumerationStays, SeenIsBelow
<1>3. {order[i] : i \in (pos + 1)..Len(order)} = Seen
  BY <1>1, StoreFacts DEF Seen, Range
<1>4. WholeSubtree'
  BY <1>1, <1>2, <1>3 DEF WholeSubtree
<1>5. TypeOK'
  BY <1>1 DEF TypeOK, Codes
<1> QED
  BY <1>1, <1>4, <1>5 DEF IInv, Phases, Validating, Deleting, ZeroMutation, OnlyCorrupted,
                          RefusedForCause, Codes

LEMMA Inductive == IInv /\ [Next]_vars => IInv'
<1>1. IInv /\ UNCHANGED vars => IInv'
  <2> SUFFICES ASSUME IInv, UNCHANGED vars PROVE IInv'
    OBVIOUS
  <2>1. UNCHANGED <<E, rows, root, order, head, pos, phase>>
    BY DEF vars
  <2>2. (Enumerating => Enumerating') /\ Below' = Below /\ Seen' = Seen /\ Done' = Done
    BY <2>1, EnumerationStays
  <2>3. TypeOK' /\ Validating' /\ Deleting'
    BY <2>1, <2>2 DEF IInv, TypeOK, Validating, Deleting, Clean
  <2> QED
    BY <2>1, <2>2, <2>3 DEF IInv, ZeroMutation, WholeSubtree, OnlyCorrupted, RefusedForCause
<1> QED
  BY <1>1, ExpandKeeps, EnumeratedKeeps, ValidateKeeps, ValidatedKeeps, CheckJobsKeeps, DeleteKeeps,
     DeletedKeeps DEF Next

LEMMA Invariance == Spec => []IInv
<1>1. Init => IInv
  BY Initially
<1>2. IInv /\ [Next]_vars => IInv'
  BY Inductive
<1> QED
  BY <1>1, <1>2, PTL DEF Spec

(* A delete that refuses has not deleted a row: the validation finds what  *)
(* RESTRICT would, and the order of the deletes leaves it nothing to find. *)
THEOREM NoPartialDelete == Spec => []ZeroMutation
<1>1. IInv => ZeroMutation
  BY DEF IInv
<1> QED
  BY <1>1, Invariance, PTL

(* A delete that succeeds has deleted the subtree and nothing else, and    *)
(* nothing flawed was in it.                                               *)
THEOREM WholeDelete == Spec => []WholeSubtree
<1>1. IInv => WholeSubtree
  BY DEF IInv
<1> QED
  BY <1>1, Invariance, PTL

(* INVALID_HIERARCHY means that the folder is its own ancestor. *)
THEOREM CorruptedOnly == Spec => []OnlyCorrupted
<1>1. IInv => OnlyCorrupted
  BY DEF IInv
<1> QED
  BY <1>1, Invariance, PTL

(* OPERATION_UNAVAILABLE means that there is a blocker in the subtree. *)
THEOREM RefusalHasACause == Spec => []RefusedForCause
<1>1. IInv => RefusedForCause
  BY DEF IInv
<1> QED
  BY <1>1, Invariance, PTL

-----------------------------------------------------------------------------
(* The nodes enumerated are entries, none twice: no more than there are.   *)
Short ==
  phase \in Phases => /\ Cardinality(DOMAIN E) \in Nat
                      /\ Len(order) \in Nat /\ Len(order) <= Cardinality(DOMAIN E)

LEMMA NoMoreThanEntries == IInv => Short
<1> SUFFICES ASSUME TypeOK, Enumerating
             PROVE  /\ Cardinality(DOMAIN E) \in Nat
                    /\ Len(order) \in Nat /\ Len(order) <= Cardinality(DOMAIN E)
  BY DEF IInv, Short
<1>1. DOMAIN E \in SUBSET EntryId /\ Len(order) \in Nat
  BY StoreFacts
<1>2. IsFiniteSet(DOMAIN E)
  BY <1>1, EntryAssumption, FS_Subset
<1>3. order \in Injection(1..Len(order), DOMAIN E)
  <2>1. order \in [1..Len(order) -> DOMAIN E]
    BY LenProperties DEF TypeOK
  <2> QED
    BY <2>1 DEF Injection, IsInjective, Enumerating
<1>4. Cardinality(1..Len(order)) <= Cardinality(DOMAIN E)
  BY <1>2, <1>3, FS_Injection
<1>5. Cardinality(1..Len(order)) = Len(order)
  <2> DEFINE k == Len(order)
  <2>1. k \in Int /\ 1 \in Int /\ k >= 0
    BY <1>1
  <2> HIDE DEF k
  <2>2. Cardinality(1..k) = IF 1 > k THEN 0 ELSE k - 1 + 1
    BY <2>1, FS_Interval
  <2>3. Cardinality(1..k) = k
    BY <2>1, <2>2
  <2> QED
    BY <2>3 DEF k
<1> QED
  BY <1>1, <1>2, <1>4, <1>5, FS_CardinalityType

LEMMA StepCounts ==
  ASSUME IInv, IInv', Short', Next
  PROVE  StepsLeft' \in 0..StepsLeft - 1
<1> DEFINE n == Cardinality(DOMAIN E)
           k == Len(order)
<1>1. phase \in Phases /\ E' = E /\ TypeOK /\ Enumerating
  BY DEF Next, Expand, Enumerated, Validate, Validated, CheckJobs, Delete, Deleted, Phases, IInv
<1>2. n \in Nat /\ k \in Nat /\ k <= n /\ head \in 1..k + 1
  BY <1>1, NoMoreThanEntries DEF Enumerating, Short
<1>3. n' = n
  BY <1>1
<1>4. phase' \in Codes => StepsLeft' = 0
  BY DEF Codes, StepsLeft
<1>5. 1 <= StepsLeft /\ StepsLeft \in Nat
  <2>1. phase = "expand" \/ phase = "validate" \/ phase = "jobs" \/ phase = "delete"
    BY <1>1 DEF Phases
  <2>2. /\ phase = "validate" => pos \in 1..k + 1
        /\ phase = "delete" => pos \in 0..k
    BY DEF IInv, Validating, Deleting
  <2> HIDE DEF n, k
  <2> QED
    BY <1>2, <2>1, <2>2 DEF StepsLeft, n, k
<1>6. CASE phase' \in Codes
  BY <1>4, <1>5, <1>6
<1>7. CASE phase' \notin Codes
  <2>1. CASE Expand
    <3>1. phase = "expand" /\ phase' = "expand" /\ head' = head + 1 /\ TypeOK' /\ Enumerating'
      BY <1>7, <2>1 DEF Expand, Popped, Codes, IInv, Phases
    <3>2. Len(order)' \in Nat /\ Len(order)' <= n /\ head' <= Len(order)' + 1
      BY <1>3, <3>1 DEF Enumerating, Short, Phases
    <3>3. StepsLeft = 3 * n + 5 - head /\ StepsLeft' = 3 * n + 5 - head'
      BY <1>3, <3>1 DEF StepsLeft
    <3> HIDE DEF n, k
    <3> QED
      BY <1>2, <3>1, <3>2, <3>3
  <2>2. CASE Enumerated
    <3>1. phase = "expand" /\ phase' = "validate" /\ pos = 1 /\ pos' = pos /\ order' = order /\ head > k
      BY <2>2 DEF Enumerated, IInv
    <3>2. StepsLeft = 3 * n + 5 - head /\ StepsLeft' = n + 4 + k - 1
      BY <1>3, <3>1 DEF StepsLeft
    <3> HIDE DEF n, k
    <3> QED
      BY <1>2, <3>1, <3>2
  <2>3. CASE Validate
    <3>1. phase = "validate" /\ phase' = "validate" /\ pos' = pos + 1 /\ order' = order
          /\ pos \in 1..k + 1 /\ pos <= k
      BY <1>7, <2>3 DEF Validate, Codes, IInv, Validating
    <3>2. StepsLeft = n + 4 + k - pos /\ StepsLeft' = n + 4 + k - (pos + 1)
      BY <1>3, <3>1 DEF StepsLeft
    <3> HIDE DEF n, k
    <3> QED
      BY <1>2, <3>1, <3>2
  <2>4. CASE Validated
    <3>1. phase = "validate" /\ phase' = "jobs" /\ pos \in 1..k + 1
      BY <2>4 DEF Validated, IInv, Validating
    <3>2. StepsLeft = n + 4 + k - pos /\ StepsLeft' = n + 2
      BY <1>3, <3>1 DEF StepsLeft
    <3> HIDE DEF n, k
    <3> QED
      BY <1>2, <3>1, <3>2
  <2>5. CASE CheckJobs
    <3>1. phase = "jobs" /\ phase' = "delete" /\ pos' = k
      BY <1>7, <2>5 DEF CheckJobs, FromTheLeaves, Codes
    <3>2. StepsLeft = n + 2 /\ StepsLeft' = k + 1
      BY <1>3, <3>1 DEF StepsLeft
    <3> HIDE DEF n, k
    <3> QED
      BY <1>2, <3>1, <3>2
  <2>6. CASE Delete
    <3>1. phase = "delete" /\ phase' = "delete" /\ pos' = pos - 1 /\ pos \in 0..k /\ pos >= 1
      BY <1>7, <2>6 DEF Delete, Codes, IInv, Deleting
    <3>2. StepsLeft = pos + 1 /\ StepsLeft' = pos
      BY <3>1 DEF StepsLeft
    <3> HIDE DEF n, k
    <3> QED
      BY <1>2, <3>1, <3>2
  <2>7. CASE Deleted
    BY <1>7, <2>7 DEF Deleted, Codes
  <2> QED
    BY <2>1, <2>2, <2>3, <2>4, <2>5, <2>6, <2>7 DEF Next
<1> QED
  BY <1>6, <1>7

(* A recursive delete takes a number of steps linear in the entries of the *)
(* store, each with the store locked, whatever its hierarchy is.           *)
THEOREM WorkIsLinear == Spec => EveryStepCounts
<1>1. IInv /\ [Next]_vars /\ IInv' /\ Short' => [StepsLeft' \in 0..StepsLeft - 1]_vars
  BY StepCounts
<1> QED
  BY <1>1, Invariance, NoMoreThanEntries, PTL DEF Spec, EveryStepCounts
=============================================================================
