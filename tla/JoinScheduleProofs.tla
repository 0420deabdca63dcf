------------------------- MODULE JoinScheduleProofs -------------------------
(***************************************************************************)
(* Theorems about JoinSchedule for any set of feeds, any separation of the *)
(* joins and any number of gradual ones.                                   *)
(*                                                                         *)
(* PendingIsScheduled is what makes the assertions about the next join     *)
(* event hold.  It is inductive with NothingForgotten and with the fact    *)
(* that a node that has never been online has no feeds yet.                *)
(***************************************************************************)
EXTENDS JoinSchedule, FiniteSetTheorems, TLAPS

VirginHasNoFeeds == virgin /\ ~online => feeds = {}

IInv == TypeOK /\ NothingForgotten /\ PendingIsScheduled /\ VirginHasNoFeeds

USE FeedAssumption, SeparationAssumption, GradualAssumption, NoEventAssumption

(* A node waits to join finitely many feeds.                                *)
LEMMA PendingIsFinite ==
  ASSUME pending \subseteq Feed
  PROVE  Cardinality(pending) \in Nat
<1>1. IsFiniteSet(pending)
  BY FS_Subset, Zenon
<1>. QED  BY <1>1, FS_CardinalityType, Zenon

(* A node that has just been set up satisfies the invariant.                *)
LEMMA InitEstablishes == Init => IInv
<1>. SUFFICES ASSUME Init
              PROVE  IInv
  OBVIOUS
<1>. USE DEF Init
<1>1. TypeOK
  <2>1. online \in BOOLEAN /\ virgin \in BOOLEAN
    BY Zenon
  <2>2. since \in 0..SeparationMin /\ num \in Nat
    OBVIOUS
  <2>. QED  BY <2>1, <2>2, Zenon DEF TypeOK
<1>2. NothingForgotten /\ PendingIsScheduled /\ VirginHasNoFeeds
  BY DEF NothingForgotten, PendingIsScheduled, VirginHasNoFeeds
<1>. QED  BY <1>1, <1>2 DEF IInv

(* The invariant survives Rappel::add_feed.                                 *)
LEMMA AddFeedPreserves ==
  ASSUME IInv, NEW f \in Feed, AddFeed(f)
  PROVE  IInv'
<1>. USE DEF IInv, TypeOK, NothingForgotten, PendingIsScheduled, VirginHasNoFeeds, HasToWait,
             AddFeed, Start
<1>1. TypeOK'
  OBVIOUS
<1>2. NothingForgotten'
  OBVIOUS
<1>3. PendingIsScheduled'
  OBVIOUS
<1>4. VirginHasNoFeeds'
  OBVIOUS
<1>. QED  BY <1>1, <1>2, <1>3, <1>4

(* The invariant survives Rappel::timer_next_feed_join.                     *)
LEMMA NextFeedJoinPreserves ==
  ASSUME IInv, NextFeedJoin
  PROVE  IInv'
<1>. USE DEF IInv, TypeOK, NothingForgotten, PendingIsScheduled, VirginHasNoFeeds, HasToWait,
             NextFeedJoin, Start
<1>1. online
  OBVIOUS
<1>2. TypeOK'
  BY <1>1, PendingIsFinite
<1>3. NothingForgotten'
  BY <1>1
<1>4. PendingIsScheduled'
  BY <1>1
<1>5. VirginHasNoFeeds'
  BY <1>1
<1>. QED  BY <1>2, <1>3, <1>4, <1>5

(* The invariant survives every step of the node.                           *)
LEMMA NextPreserves == IInv /\ [Next]_vars => IInv'
<1>. SUFFICES ASSUME IInv, [Next]_vars
              PROVE  IInv'
  OBVIOUS
<1>. USE DEF IInv, TypeOK, NothingForgotten, PendingIsScheduled, VirginHasNoFeeds, HasToWait
<1>1. ASSUME NEW f \in Feed, AddFeed(f)
      PROVE  IInv'
  BY <1>1, AddFeedPreserves
<1>2. CASE NextFeedJoin
  BY <1>2, NextFeedJoinPreserves
<1>3. CASE Tick
  BY <1>3 DEF Tick
<1>4. CASE TakeOffline
  BY <1>4 DEF TakeOffline
<1>5. CASE BringOnline
  BY <1>5 DEF BringOnline, Start
<1>6. CASE UNCHANGED vars
  BY <1>6 DEF vars
<1>. QED  BY <1>1, <1>2, <1>3, <1>4, <1>5, <1>6 DEF Next

(* The invariant holds at every moment of every run of a node.              *)
LEMMA Invariance == Spec => []IInv
BY InitEstablishes, NextPreserves, PTL DEF Spec

(* An offline node has cancelled its join event and forgotten its pending   *)
(* joins (take_offline), and all variables hold values of their types.      *)
THEOREM TypeCorrect == Spec => []TypeOK
<1>1. IInv => TypeOK
  BY DEF IInv
<1>. QED  BY <1>1, Invariance, PTL

(* The join of each subscription of an online node is initiated or pending, *)
(* over any number of restarts.                                             *)
THEOREM NoFeedIsForgotten == Spec => []NothingForgotten
<1>1. IInv => NothingForgotten
  BY DEF IInv
<1>. QED  BY <1>1, Invariance, PTL

(* While a node is online the assertion of add_feed about the next join     *)
(* event holds: a feed waits only when an event is scheduled.               *)
THEOREM PendingJoinsAreScheduled == Spec => []PendingIsScheduled
<1>1. IInv => PendingIsScheduled
  BY DEF IInv
<1>. QED  BY <1>1, Invariance, PTL

(* Joins are SeparationMin apart, and they go out one by one until          *)
(* GradualJoins of them have.                                               *)
THEOREM FeedsAreJoinedGradually == Spec => JoinsAreGradual
<1>1. ASSUME IInv, [Next]_vars
      PROVE  [LET new == started' \ started
              IN  new # {} => /\ since = SeparationMin
                              /\ num < GradualJoins => \E f \in Feed : new = {f}]_vars
  <2>. SUFFICES ASSUME Next, started' \ started # {}
                PROVE  /\ since = SeparationMin
                       /\ num < GradualJoins => \E f \in Feed : started' \ started = {f}
    BY <1>1
  <2>. USE <1>1 DEF IInv, TypeOK, NothingForgotten, PendingIsScheduled, HasToWait
  <2>1. ASSUME NEW f \in Feed, AddFeed(f)
        PROVE  since = SeparationMin /\ started' \ started = {f}
    BY <2>1 DEF AddFeed, Start
  <2>2. CASE NextFeedJoin
    <3>1. since = SeparationMin
      BY <2>2 DEF NextFeedJoin
    <3>2. ASSUME num < GradualJoins
          PROVE  \E f \in Feed : started' \ started = {f}
      <4>1. ~(num >= GradualJoins)
        BY <3>2
      <4>2. ~(pending = {} /\ UNCHANGED started)
        OBVIOUS
      <4>3. PICK f \in pending : Start({f})
        BY <2>2, <4>1, <4>2, Zenon DEF NextFeedJoin
      <4>4. started' = started \cup {f} /\ f \in Feed
        BY <4>3 DEF Start
      <4>. QED  BY <4>4
    <3>. QED  BY <3>1, <3>2
  <2>3. CASE BringOnline
    <3>1. PICK f \in feeds : ~HasToWait /\ Start({f})
      BY <2>3 DEF BringOnline
    <3>. QED  BY <3>1 DEF Start
  <2>4. CASE Tick \/ TakeOffline
    BY <2>4 DEF Tick, TakeOffline
  <2>. QED  BY <2>1, <2>2, <2>3, <2>4 DEF Next
<1>. QED  BY <1>1, Invariance, PTL DEF Spec, JoinsAreGradual

=============================================================================
