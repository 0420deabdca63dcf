---------------------------- MODULE JoinSchedule ----------------------------
(***************************************************************************)
(* When a node joins its feeds.  The first join is sent at once, the next  *)
(* ones SeparationMin apart and one by one, until GradualJoins have been   *)
(* sent; then all that are left go out together.  A node that comes back   *)
(* online joins its feeds again the same way.                              *)
(*                                                                         *)
(* Only the time since the last join and the time until the next feed join *)
(* event matter, so the clock is kept as these two.  Which of the pending  *)
(* feeds is the next one is left open.  The code's assertions are guards:  *)
(* a step that would break one ends the program.  How a join proceeds is   *)
(* the subject of FeedTree.                                                *)
(***************************************************************************)
EXTENDS Integers, FiniteSets

CONSTANTS
  Feed,           \* feeds the node may subscribe to, its own not among them
  SeparationMin,  \* globops.rappel_feed_join_seperation_min, in ticks
  GradualJoins,   \* globops.rappel_gradual_feed_joins
  NoEvent         \* NO_SUCH_EVENT_ID

ASSUME FeedAssumption == IsFiniteSet(Feed)
ASSUME SeparationAssumption == SeparationMin \in Nat \ {0}
ASSUME GradualAssumption == GradualJoins \in Nat
ASSUME NoEventAssumption == NoEvent \notin Nat

VARIABLES
  online,   \* Node::_is_rappel_online
  virgin,   \* Rappel::_virgin
  feeds,    \* Rappel::_feed_set
  pending,  \* Rappel::_pending_feed_joins
  started,  \* feeds whose join was initiated since the node came online
  since,    \* time since _last_feed_join_req, up to SeparationMin
  next,     \* time until _next_feed_join_event_id fires, or NoEvent
  num       \* Rappel::_num_feed_joins

vars == <<online, virgin, feeds, pending, started, since, next, num>>

\* the condition of add_feed and bring_online_now for putting a feed on the list
HasToWaitIfPending == pending # {}

HasToWait == pending # {} \/ since < SeparationMin

\* initiate_feed_join_req for every feed in fs, schedule_next_feed_join
Start(fs) ==
  /\ started' = started \cup fs
  /\ since' = 0
  /\ next' = SeparationMin

-----------------------------------------------------------------------------

Init ==
  /\ online = FALSE
  /\ virgin = TRUE
  /\ feeds = {}
  /\ pending = {}
  /\ started = {}
  /\ since = SeparationMin
  /\ next = NoEvent
  /\ num = 0

\* Rappel::add_feed; a subscription is added while the node is online
AddFeed(f) ==
  /\ online
  /\ f \notin feeds
  /\ feeds' = feeds \cup {f}
  /\ \/ /\ HasToWait
        /\ next # NoEvent
        /\ pending' = pending \cup {f}
        /\ UNCHANGED <<started, since, next, num>>
     \/ /\ ~HasToWait
        /\ next = NoEvent
        /\ num = 0
        /\ num' = 1
        /\ Start({f})
        /\ UNCHANGED pending
  /\ UNCHANGED <<online, virgin>>

NextFeedJoinUnscheduled ==
  /\ next = 0
  /\ next' = NoEvent
  /\ \/ /\ pending = {}
        /\ UNCHANGED <<pending, started, since, num>>
     \/ \E f \in pending :
          /\ pending' = pending \ {f}
          /\ started' = started \cup {f}
          /\ since' = 0
          /\ num' = num + 1
  /\ UNCHANGED <<online, virgin, feeds>>

\* Rappel::timer_next_feed_join
NextFeedJoin ==
  /\ next = 0
  /\ \/ /\ pending = {}
        /\ next' = NoEvent
        /\ UNCHANGED <<pending, started, since, num>>
     \/ \E f \in pending :
          /\ num < GradualJoins
          /\ pending' = pending \ {f}
          /\ num' = num + 1
          /\ Start({f})
     \/ /\ pending # {} /\ num >= GradualJoins
        /\ pending' = {}
        /\ num' = num + Cardinality(pending)
        /\ Start(pending)
  /\ UNCHANGED <<online, virgin, feeds>>

\* time passes, up to the next event
Tick ==
  /\ next # 0
  /\ since < SeparationMin \/ next # NoEvent
  /\ since' = IF since < SeparationMin THEN since + 1 ELSE since
  /\ next' = IF next = NoEvent THEN next ELSE next - 1
  /\ UNCHANGED <<online, virgin, feeds, pending, started, num>>

TakeOfflineKeepsPending ==
  /\ online
  /\ online' = FALSE
  /\ virgin' = FALSE
  /\ started' = {}
  /\ next' = NoEvent
  /\ num' = 0
  /\ UNCHANGED <<feeds, pending, since>>

\* Rappel::take_offline
TakeOffline ==
  /\ online
  /\ online' = FALSE
  /\ virgin' = FALSE
  /\ pending' = {}
  /\ started' = {}
  /\ next' = NoEvent
  /\ num' = 0
  /\ UNCHANGED <<feeds, since>>

BringOnlineFirstOnly ==
  /\ ~online
  /\ online' = TRUE
  /\ \/ /\ virgin \/ feeds = {}
        /\ UNCHANGED <<started, since, next, num>>
     \/ \E f \in feeds :
          /\ ~HasToWait
          /\ num' = 1
          /\ Start({f})
  /\ UNCHANGED <<virgin, feeds, pending>>

(***************************************************************************)
(* Rappel::bring_online_now.  The first feed is joined at once, and then   *)
(* the others have to wait.  (A virgin node has no feeds yet: they are     *)
(* added once it is online.)                                               *)
(***************************************************************************)
BringOnline ==
  /\ ~online
  /\ online' = TRUE
  /\ \/ /\ virgin \/ feeds = {}
        /\ UNCHANGED <<pending, started, since, next, num>>
     \/ \E f \in feeds :
          /\ ~HasToWait
          /\ next = NoEvent
          /\ num = 0
          /\ num' = 1
          /\ pending' = feeds \ {f}
          /\ Start({f})
  /\ UNCHANGED <<virgin, feeds>>

Next ==
  \/ \E f \in Feed : AddFeed(f)
  \/ NextFeedJoin
  \/ Tick
  \/ TakeOffline
  \/ BringOnline

Spec == Init /\ [][Next]_vars

LiveSpec == Spec /\ WF_vars(Tick) /\ WF_vars(NextFeedJoin)

-----------------------------------------------------------------------------

(* Every variable holds values of its type, and a node that is offline      *)
(* waits for nothing: its timers have been cancelled.                       *)
TypeOK ==
  /\ online \in BOOLEAN
  /\ virgin \in BOOLEAN
  /\ feeds \subseteq Feed
  /\ pending \subseteq Feed
  /\ started \subseteq Feed
  /\ since \in 0..SeparationMin
  /\ next \in 0..SeparationMin \cup {NoEvent}
  /\ num \in Nat
  /\ ~online => pending = {} /\ started = {} /\ next = NoEvent

(* No subscription falls between two stools: the join of every feed of a    *)
(* node that is online has been initiated since it came online, or is       *)
(* pending, and not both.                                                   *)
NothingForgotten ==
  online => feeds = started \cup pending /\ started \cap pending = {}

(* assert(_next_feed_join_event_id != NO_SUCH_EVENT_ID) of add_feed and     *)
(* bring_online_now: whenever a feed would be put on the list of pending    *)
(* ones, or is on it, an event will take it off again, and not later than   *)
(* SeparationMin after the last join.                                       *)
PendingIsScheduled ==
  online =>
    /\ feeds # {} /\ HasToWait => next # NoEvent
    /\ next # NoEvent => since + next = SeparationMin

(* "join only gradually -- so that the node can improve its s1 set",        *)
(* add_feed: two joins are SeparationMin apart, over restarts too, and more *)
(* than one is sent at a time only after GradualJoins of them.              *)
JoinsAreGradual ==
  [][LET new == started' \ started
     IN  new # {} => /\ since = SeparationMin
                     /\ num < GradualJoins => \E f \in Feed : new = {f}]_vars

(* A node that stays online joins all of its feeds.                         *)
AllJoined == [](pending # {} => <>(pending = {}))

(* assert(_next_feed_join_event_id != NO_SUCH_EVENT_ID) of bring_online_now *)
(* for a node that was offline: a feed has to wait only while an event is   *)
(* scheduled that ends the wait.                                            *)
RejoinIsScheduled ==
  ~online /\ feeds # {} /\ HasToWait => next # NoEvent

=============================================================================
