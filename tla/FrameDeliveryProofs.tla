------------------------- MODULE FrameDeliveryProofs -------------------------
(***************************************************************************)
(* Theorems about FrameDelivery: what the promise the pipeline implements  *)
(* says of the stored frames, for any number of them.                      *)
(***************************************************************************)
EXTENDS FrameDelivery, TLAPS

(***************************************************************************)
(* That each stored frame is newer than the one before is not inductive:   *)
(* Store only looks at the last.  Inductive is that all are in order, and  *)
(* none is beyond the frame being dealt with.                              *)
(***************************************************************************)
OrderInv == TypeOK /\ InOrder

Entries == [frame : 1 .. taken, whole : BOOLEAN]

\* What the invariant says of types.
LEMMA Types ==
    ASSUME OrderInv
    PROVE  /\ taken \in Nat /\ handled \in Nat /\ handled <= taken /\ missed \in BOOLEAN
           /\ stored \in Seq(Entries) /\ Len(stored) \in Nat
           /\ \A k \in 1 .. Len(stored) : stored[k] \in Entries /\ stored[k].frame \in 1 .. taken
  <1>1. /\ taken \in Nat /\ handled \in Nat /\ handled <= taken /\ missed \in BOOLEAN
        /\ stored \in Seq(Entries)
    BY DEF OrderInv, TypeOK, Entries
  <1>2. \A e \in Entries : e.frame \in 1 .. taken
    BY DEF Entries
  <1> QED
    BY <1>1, <1>2

\* A frame that is stored comes after all the others.
LEMMA StoreKeeps ==
    ASSUME NEW whole \in BOOLEAN, OrderInv, Store(whole)
    PROVE  OrderInv'
  <1> DEFINE e == [frame |-> handled + 1, whole |-> whole]
             n == Len(stored)
  <1>1. /\ handled \in Nat /\ taken \in Nat /\ handled + 1 \in 1 .. taken /\ e \in Entries
        /\ stored \in Seq(Entries) /\ n \in Nat
        /\ \A k \in 1 .. n : stored[k].frame \in 1 .. taken
    <2>1. handled + 1 \in 1 .. taken
      BY Types DEF Store
    <2>2. e \in Entries
      BY <2>1 DEF Entries
    <2> QED
      BY <2>1, <2>2, Types
  <1>2. stored' = Append(stored, e) /\ UNCHANGED <<handled, taken, missed>>
    BY DEF Store
  <1>3. e.frame = handled + 1
    OBVIOUS
  <1>4. \A k \in 1 .. n : stored[k].frame < handled + 1
    <2>1. CASE stored = <<>>
      BY <2>1
    <2>2. CASE stored # <<>>
      <3>1. n \in 1 .. n /\ stored[n].frame < handled + 1
        BY <1>1, <2>2 DEF Store, Last
      <3>2. \A k \in 1 .. n : k < n => stored[k].frame < stored[n].frame
        BY <3>1 DEF OrderInv, InOrder
      <3> QED
        BY <1>1, <3>1, <3>2
    <2> QED
      BY <2>1, <2>2
  <1> HIDE DEF e
  <1>5. /\ stored' \in Seq(Entries) /\ Len(stored') = n + 1 /\ stored'[n + 1] = e
        /\ \A k \in 1 .. n : stored'[k] = stored[k]
        /\ \A k \in 1 .. Len(stored') : k \in 1 .. n \/ k = n + 1
    BY <1>1, <1>2
  <1>6. Entries' = Entries
    BY <1>2 DEF Entries
  <1>7. \A k \in 1 .. Len(stored') : stored'[k].frame <= handled' + 1
    BY <1>1, <1>2, <1>3, <1>4, <1>5
  <1>8. ASSUME NEW k \in 1 .. Len(stored'), NEW m \in 1 .. Len(stored'), k < m
        PROVE  stored'[k].frame < stored'[m].frame
    <2>1. k \in 1 .. n /\ stored'[k].frame = stored[k].frame
      BY <1>1, <1>5, <1>8
    <2>2. CASE m = n + 1
      BY <1>3, <1>4, <1>5, <2>1, <2>2
    <2>3. CASE m \in 1 .. n
      <3>1. stored[k].frame < stored[m].frame
        BY <1>8, <2>1, <2>3 DEF OrderInv, InOrder
      <3> QED
        BY <1>5, <2>1, <2>3, <3>1
    <2> QED
      BY <1>5, <2>2, <2>3
  <1>9. InOrder'
    BY <1>7, <1>8 DEF InOrder
  <1> QED
    BY <1>1, <1>2, <1>5, <1>6, <1>9 DEF OrderInv, TypeOK, Entries

\* The other steps change no stored frame.
LEMMA OthersKeep ==
    ASSUME OrderInv, Take \/ Finish \/ Miss \/ Restart \/ UNCHANGED vars
    PROVE  OrderInv'
  <1>1. /\ taken \in Nat /\ handled \in 0 .. taken /\ missed \in BOOLEAN
        /\ stored \in Seq(Entries)
        /\ \A k \in 1 .. Len(stored) : stored[k] \in Entries
    BY Types
  <1>2. /\ stored' = stored /\ taken' \in Nat /\ taken' >= taken
        /\ handled' \in 0 .. taken' /\ handled' >= handled
        /\ missed' \in BOOLEAN
    <2>1. missed' \in BOOLEAN
      BY <1>1, Zenon DEF Take, Finish, Miss, Restart, vars
    <2> QED
      BY <1>1, <2>1 DEF Take, Finish, Miss, Restart, vars
  <1>3. stored' \in Seq(Entries')
    <2>1. Entries \subseteq Entries'
      BY <1>1, <1>2 DEF Entries
    <2>2. \A k \in 1 .. Len(stored) : stored[k] \in Entries'
      BY <1>1, <2>1
    <2> HIDE DEF Entries
    <2> QED
      BY <1>1, <1>2, <2>2
  <1>4. InOrder'
    <2>1. \A k \in 1 .. Len(stored) : stored[k].frame \in Int /\ stored[k].frame <= handled + 1
      BY <1>1 DEF OrderInv, InOrder, Entries
    <2>2. \A k \in 1 .. Len(stored) : stored[k].frame <= handled' + 1
      BY <1>1, <1>2, <2>1
    <2> QED
      BY <1>2, <2>2 DEF OrderInv, InOrder
  <1> QED
    BY <1>2, <1>3, <1>4 DEF OrderInv, TypeOK, Entries

-----------------------------------------------------------------------------

\* Whatever implements FrameDelivery stores images of frames that were taken, in the
\* order they were taken, and at most one of each.
THEOREM StoredInOrder == Safety => [](TypeOK /\ InOrder)
  <1>1. Init => OrderInv
    <2> SUFFICES ASSUME Init PROVE OrderInv
      OBVIOUS
    <2>1. stored = <<>> /\ Len(stored) = 0 /\ stored \in Seq([frame : 1 .. taken, whole : BOOLEAN])
      BY DEF Init
    <2>2. InOrder
      BY <2>1 DEF InOrder
    <2>3. taken \in Nat /\ handled \in 0 .. taken
      BY DEF Init
    <2>4. missed \in BOOLEAN
      BY Zenon DEF Init
    <2> QED
      BY <2>1, <2>2, <2>3, <2>4 DEF OrderInv, TypeOK
  <1>2. OrderInv /\ [Next]_vars => OrderInv'
    BY StoreKeeps, OthersKeep DEF Next
  <1> QED
    BY <1>1, <1>2, PTL DEF Safety, OrderInv
=============================================================================
