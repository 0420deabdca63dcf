------------------------------ MODULE FeedTree ------------------------------
(***************************************************************************)
(* The dissemination tree of one feed: how subscribers find a parent, are  *)
(* moved by it, lose it and find another (rappel.cpp, "JOIN").             *)
(*                                                                         *)
(* A node seeks a parent by a chain of join requests.  Each is answered    *)
(* with OK, DENY or a FWD to the node to ask next, or its timer fires; a   *)
(* reply counts only while that timer can still be cancelled.  A node with *)
(* all the children it may have makes room for one that is closer to the   *)
(* publisher by sending its farthest child a delayed CHANGE_PARENT.        *)
(*                                                                         *)
(* Coordinates do not change, so the distance of a node to the publisher   *)
(* is a constant.  Which of several nodes is closest to a third is left    *)
(* open, and so is what find_feed_subscribers returns: the peers of a node *)
(* come from other feeds and from the friend protocol too, and Bloom       *)
(* filters have false positives.                                           *)
(***************************************************************************)
EXTENDS Integers, FiniteSets, Sequences

CONSTANTS
  Node,
  Publisher,
  NoNode,        \* NO_SUCH_NODE
  Rank,          \* distance of a node's coordinate to the publisher's
  MaxChildren,   \* globops.rappel_num_feed_children
  MaxAttempts,   \* 3: initiate_feed_join_req asserts attempted[target_node] <= 3; 4 to see it fail
  TimerIds,      \* bound: ids of join timers
  MaxInFlight    \* bound: no timer fires that would send beyond this many messages

ASSUME NodeAssumption == Publisher \in Node /\ NoNode \notin Node
ASSUME RankAssumption ==
  /\ Rank \in [Node -> Nat]
  /\ \A m, n \in Node : Rank[m] = Rank[n] => m = n
  /\ \A n \in Node : Rank[Publisher] <= Rank[n]
ASSUME MaxChildrenAssumption == MaxChildren \in Nat \ {0}
ASSUME MaxAttemptsAssumption == MaxAttempts \in Nat \ {0}
ASSUME TimerIdsAssumption == TimerIds \subseteq Nat

VARIABLES
  online,     \* Node::_is_rappel_online
  pending,    \* the feed is in Rappel::_pending_feed_joins
  parent,     \* Feed::_parent, the role ROLE_FEED_PARENT of that peer
  ancestors,  \* Feed::_ancestors
  children,   \* Feed::_children, the peers with ROLE_FEED_CHILD
  seeking,    \* Feed::_seeking_parent
  rejoin,     \* Feed::_rejoin_event_id is that of a scheduled event
  waits,      \* the live WAIT_AFTER_FEED_JOIN_REQ events of a node
  msgs        \* messages in flight, those of send_with_delay among them

vars == <<online, pending, parent, ancestors, children, seeking, rejoin, waits, msgs>>

Subscriber == Node \ {Publisher}

Wait == [timer : TimerIds, target : Node, periodic : BOOLEAN,
         attempted : [Node -> 0..MaxAttempts], failed : SUBSET Node]

(***************************************************************************)
(* DENY and FWD echo attempted, failed and the type of the request, which  *)
(* the timer that they cancel holds as well: they are left out.            *)
(***************************************************************************)
JoinReq(n, t, id, failed) == [kind |-> "req", src |-> n, dst |-> t, timer |-> id, failed |-> failed]

JoinOk(n, d, id, anc) == [kind |-> "ok", src |-> n, dst |-> d, timer |-> id, ancestors |-> anc]

JoinDeny(n, d, id) == [kind |-> "deny", src |-> n, dst |-> d, timer |-> id]

JoinFwd(n, d, id, fwdNode) == [kind |-> "fwd", src |-> n, dst |-> d, timer |-> id, fwd_node |-> fwdNode]

ChangeParent(n, d, newParent) == [kind |-> "change_parent", src |-> n, dst |-> d, new_parent |-> newParent]

NoLongerYourChild(n, d) == [kind |-> "no_longer_your_child", src |-> n, dst |-> d]

FlushAncestry(n, d, anc) == [kind |-> "flush", src |-> n, dst |-> d, ancestors |-> anc]

Message ==
  [kind : {"req"}, src : Node, dst : Node, timer : TimerIds, failed : SUBSET Node]
  \cup [kind : {"ok"}, src : Node, dst : Node, timer : TimerIds, ancestors : Seq(Node)]
  \cup [kind : {"deny"}, src : Node, dst : Node, timer : TimerIds]
  \cup [kind : {"fwd"}, src : Node, dst : Node, timer : TimerIds, fwd_node : Node]
  \cup [kind : {"change_parent"}, src : Node, dst : Node, new_parent : Node]
  \cup [kind : {"no_longer_your_child"}, src : Node, dst : Node]
  \cup [kind : {"flush"}, src : Node, dst : Node, ancestors : Seq(Node)]

NobodyAttempted == [n \in Node |-> 0]

(***************************************************************************)
(* Timer::schedule_event hands out an id that no live timer has and no     *)
(* message refers to.  Only equality of ids matters, so an id is used      *)
(* again once nothing refers to it.                                        *)
(***************************************************************************)
UsedTimers(n, live, net) ==
  {w.timer : w \in live}
  \cup {m.timer : m \in {r \in net : r.kind = "req" /\ r.src = n}}
  \cup {m.timer : m \in {r \in net : r.kind \in {"ok", "deny", "fwd"} /\ r.dst = n}}

NewTimer(n, live, net, id) ==
  /\ id \in TimerIds \ UsedTimers(n, live, net)
  /\ \A i \in TimerIds \ UsedTimers(n, live, net) : id <= i

(***************************************************************************)
(* The target_node of initiate_feed_join_req.  feed_subscribers is any     *)
(* list of other nodes with the publisher at its end; only when every node *)
(* on it was attempted or has failed does the number of attempts count,    *)
(* and then it is compared with that of the publisher and the fwd_node,    *)
(* which are on the list.                                                  *)
(***************************************************************************)
Ask(attempted, failed, fwdNode, periodic) ==
  [attempted |-> attempted, failed |-> failed, fwd_node |-> fwdNode, periodic |-> periodic]

Targets(n, ask) ==
  LET fresh == {t \in Node \ {n} : ask.attempted[t] = 0 /\ t \notin ask.failed}
      listed == {Publisher, ask.fwd_node} \ (ask.failed \cup {NoNode})
      retried == {t \in Node \ (ask.failed \cup {n}) :
                    /\ ask.attempted[t] > 0
                    /\ \A u \in listed : ask.attempted[t] <= ask.attempted[u]}
  IN  IF ask.fwd_node \in fresh THEN {ask.fwd_node}
      ELSE IF Publisher \in fresh THEN fresh
      ELSE fresh \cup retried

(***************************************************************************)
(* Rappel::initiate_feed_join_req by n, with isSeeking, p and live for     *)
(* n's seeking, parent and waits as its caller left them.                  *)
(***************************************************************************)
SendJoinReq(n, t, ask, live, net) ==
  /\ ask.attempted[t] < MaxAttempts
  /\ seeking' = [seeking EXCEPT ![n] = TRUE]
  /\ \E id \in TimerIds :
       /\ NewTimer(n, live, net, id)
       /\ waits' = [waits EXCEPT ![n] = live \cup
            {[timer |-> id, target |-> t, periodic |-> ask.periodic, failed |-> ask.failed,
              attempted |-> [ask.attempted EXCEPT ![t] = @ + 1]]}]
       /\ msgs' = net \cup {JoinReq(n, t, id, ask.failed)}

Unchanging(n, isSeeking, live, net) ==
  /\ seeking' = [seeking EXCEPT ![n] = isSeeking]
  /\ waits' = [waits EXCEPT ![n] = live]
  /\ msgs' = net

Initiate(n, isSeeking, p, ask, live, net) ==
  \/ isSeeking /\ Unchanging(n, TRUE, live, net)
  \/ /\ ~isSeeking
     /\ \E t \in Targets(n, ask) :
          \/ ask.periodic /\ p = t /\ Unchanging(n, FALSE, live, net)
          \/ ~(ask.periodic /\ p = t) /\ SendJoinReq(n, t, ask, live, net)

\* Feed::get_grand_parent
GrandParent(n) ==
  IF Len(ancestors[n]) > 1 THEN ancestors[n][Len(ancestors[n]) - 1] ELSE NoNode

PeerHasFailedAlways(n, q, isSeeking, live, net) ==
  /\ children' = [children EXCEPT ![n] = @ \ {q}]
  /\ parent' = [parent EXCEPT ![n] = IF @ = q THEN NoNode ELSE @]
  /\ IF parent[n] = q
     THEN Initiate(n, isSeeking, NoNode, Ask(NobodyAttempted, {q}, GrandParent(n), FALSE), live, net)
     ELSE Unchanging(n, isSeeking, live, net)
  /\ UNCHANGED rejoin

(***************************************************************************)
(* Rappel::peer_has_failed(q) at n: q loses every role it plays, and the   *)
(* fault handler of the parent's role looks for another parent.            *)
(***************************************************************************)
PeerHasFailed(n, q, isSeeking, live, net) ==
  /\ children' = [children EXCEPT ![n] = @ \ {q}]
  /\ \/ /\ parent[n] # q
        /\ Unchanging(n, isSeeking, live, net)
        /\ UNCHANGED <<parent, rejoin>>
     \/ /\ parent[n] = q
        /\ parent' = [parent EXCEPT ![n] = NoNode]
        /\ \/ /\ q = Publisher
              /\ rejoin' = [rejoin EXCEPT ![n] = TRUE]
              /\ Unchanging(n, isSeeking, live, net)
           \/ /\ q # Publisher
              /\ Initiate(n, isSeeking, NoNode, Ask(NobodyAttempted, {q}, GrandParent(n), FALSE), live, net)
              /\ UNCHANGED rejoin

Room == Cardinality(msgs) < MaxInFlight

-----------------------------------------------------------------------------

(* The feed has just been added by every subscriber and waits for its turn  *)
(* to join: Feed::Feed, and the other branch of add_feed is NextFeedJoin.    *)
Init ==
  /\ online = [n \in Node |-> TRUE]
  /\ pending = [n \in Node |-> n # Publisher]
  /\ parent = [n \in Node |-> IF n = Publisher THEN Publisher ELSE NoNode]
  /\ ancestors = [n \in Node |-> IF n = Publisher THEN <<>> ELSE <<Publisher>>]
  /\ children = [n \in Node |-> {}]
  /\ seeking = [n \in Node |-> FALSE]
  /\ rejoin = [n \in Node |-> FALSE]
  /\ waits = [n \in Node |-> {}]
  /\ msgs = {}

(***************************************************************************)
(* Rappel::timer_next_feed_join: the feed's turn has come.  A node that    *)
(* rejoins the network leaves its old parent; the inner declaration of     *)
(* old_parent shadows the one that is passed on, which stays NO_SUCH_NODE. *)
(***************************************************************************)
NextFeedJoin(n) ==
  /\ pending[n]
  /\ Room
  /\ pending' = [pending EXCEPT ![n] = FALSE]
  /\ parent' = [parent EXCEPT ![n] = NoNode]
  /\ Initiate(n, seeking[n], NoNode, Ask(NobodyAttempted, {}, NoNode, FALSE), waits[n], msgs)
  /\ UNCHANGED <<online, ancestors, children, rejoin>>

\* Rappel::timer_periodic_feed_rejoin, which schedules itself again
PeriodicRejoin(n) ==
  /\ rejoin[n]
  /\ Room
  /\ \/ /\ parent[n] = NoNode
        /\ Initiate(n, seeking[n], NoNode, Ask(NobodyAttempted, {}, NoNode, FALSE), waits[n], msgs)
     \/ /\ parent[n] \notin {NoNode, Publisher}
        /\ \E i \in 1..(Len(ancestors[n]) - 1) :
             Initiate(n, seeking[n], parent[n],
                      Ask(NobodyAttempted, {}, ancestors[n][i], TRUE), waits[n], msgs)
     \/ /\ parent[n] = Publisher   \* "optimized" already
        /\ UNCHANGED <<seeking, waits, msgs>>
  /\ UNCHANGED <<online, pending, parent, ancestors, children, rejoin>>

(***************************************************************************)
(* Rappel::receive_feed_join_req.                                          *)
(***************************************************************************)
DeniesOnlyParent(n, src) == parent[n] = src

Denies(n, src) == parent[n] \in {NoNode, src}

HasRoomForOneMore(n, src) == Cardinality(children[n]) <= MaxChildren \/ src \in children[n]

HasRoom(n, src) == Cardinality(children[n]) < MaxChildren \/ src \in children[n]

\* the children not in the failed list of the request
Alive(n, failed) == children[n] \ failed

SomeChildIsFarther(n, m) == \E c \in Alive(n, m.failed) : Rank[c] >= Rank[m.src]

\* the farthest child gives way to m.src and is sent below one of those left
Replace(n, m) ==
  \E f \in Alive(n, m.failed) :
    /\ \A c \in Alive(n, m.failed) : Rank[c] <= Rank[f]
    /\ LET left == (children[n] \ {f}) \cup {m.src}
       IN  /\ children' = [children EXCEPT ![n] = left]
           /\ \E newParent \in left \ m.failed :
                msgs' = (msgs \ {m}) \cup
                  {JoinOk(n, m.src, m.timer, ancestors[n]), ChangeParent(n, f, newParent)}

ReceiveJoinReq(m) ==
  LET n == m.dst
      reply(r) == msgs' = (msgs \ {m}) \cup {r}
  IN  /\ m \in msgs
      /\ m.kind = "req"
      /\ online[n]
      /\ \/ /\ Denies(n, m.src)
            /\ reply(JoinDeny(n, m.src, m.timer))
            /\ UNCHANGED children
         \/ /\ ~Denies(n, m.src)
            /\ Rank[m.src] < Rank[n]
            /\ reply(JoinFwd(n, m.src, m.timer, parent[n]))
            /\ UNCHANGED children
         \/ /\ ~Denies(n, m.src)
            /\ Rank[m.src] >= Rank[n]
            /\ HasRoom(n, m.src)
            /\ children' = [children EXCEPT ![n] = @ \cup {m.src}]
            /\ reply(JoinOk(n, m.src, m.timer, ancestors[n]))
         \/ /\ ~Denies(n, m.src)
            /\ Rank[m.src] >= Rank[n]
            /\ ~HasRoom(n, m.src)
            /\ ~SomeChildIsFarther(n, m)
            /\ \E c \in Alive(n, m.failed) : reply(JoinFwd(n, m.src, m.timer, c))
            /\ UNCHANGED children
         \/ /\ ~Denies(n, m.src)
            /\ Rank[m.src] >= Rank[n]
            /\ ~HasRoom(n, m.src)
            /\ SomeChildIsFarther(n, m)
            /\ Replace(n, m)
      /\ UNCHANGED <<online, pending, parent, ancestors, seeking, rejoin, waits>>

(***************************************************************************)
(* The replies.  Each cancels the timer of its request, and is dropped     *)
(* when that fails.                                                        *)
(***************************************************************************)
IsReply(m, kind) == m \in msgs /\ m.kind = kind /\ online[m.dst]

Cancels(m, w) == w \in waits[m.dst] /\ w.timer = m.timer

ReceiveLateReply(m) ==
  /\ \E kind \in {"ok", "deny", "fwd"} : IsReply(m, kind)
  /\ ~ \E w \in waits[m.dst] : Cancels(m, w)
  /\ msgs' = msgs \ {m}
  /\ UNCHANGED <<online, pending, parent, ancestors, children, seeking, rejoin, waits>>

\* Rappel::receive_feed_join_reply_deny
ReceiveDeny(m) ==
  LET n == m.dst
  IN  /\ IsReply(m, "deny")
      /\ \E w \in waits[n] :
           /\ Cancels(m, w)
           /\ \/ /\ parent[n] # NoNode
                 /\ Unchanging(n, FALSE, waits[n] \ {w}, msgs \ {m})
              \/ /\ parent[n] = NoNode
                 /\ Initiate(n, FALSE, NoNode,
                             Ask(w.attempted, w.failed \cup {m.src}, NoNode, w.periodic),
                             waits[n] \ {w}, msgs \ {m})
      /\ UNCHANGED <<online, pending, parent, ancestors, children, rejoin>>

\* Rappel::receive_feed_join_reply_ok with flush_ancestry and Feed::set_parent
ReceiveOk(m) ==
  LET n == m.dst
      anc == Append(m.ancestors, m.src)
      leave == IF parent[n] = NoNode THEN {} ELSE {NoLongerYourChild(n, parent[n])}
  IN  /\ IsReply(m, "ok")
      /\ \E w \in waits[n] :
           /\ Cancels(m, w)
           /\ Unchanging(n, FALSE, waits[n] \ {w},
                (msgs \ {m}) \cup leave \cup {FlushAncestry(n, c, anc) : c \in children[n]})
      /\ parent' = [parent EXCEPT ![n] = m.src]
      /\ rejoin' = [rejoin EXCEPT ![n] = TRUE]
      /\ ancestors' = [ancestors EXCEPT ![n] = anc]
      /\ UNCHANGED <<online, pending, children>>

ReceiveFwdToParent(m) ==
  LET n == m.dst
  IN  /\ IsReply(m, "fwd")
      /\ \E w \in waits[n] :
           /\ Cancels(m, w)
           /\ Initiate(n, FALSE, parent[n], Ask(w.attempted, w.failed, m.fwd_node, FALSE),
                       waits[n] \ {w}, msgs \ {m})
      /\ UNCHANGED <<online, pending, parent, ancestors, children, rejoin>>

\* Rappel::receive_feed_join_reply_fwd; the type of a request that is passed on is never periodic
ReceiveFwd(m) ==
  LET n == m.dst
  IN  /\ IsReply(m, "fwd")
      /\ \E w \in waits[n] :
           /\ Cancels(m, w)
           /\ \/ /\ parent[n] = m.fwd_node
                 /\ Unchanging(n, FALSE, waits[n] \ {w}, msgs \ {m})
              \/ /\ parent[n] # m.fwd_node
                 /\ Initiate(n, FALSE, parent[n], Ask(w.attempted, w.failed, m.fwd_node, FALSE),
                             waits[n] \ {w}, msgs \ {m})
      /\ UNCHANGED <<online, pending, parent, ancestors, children, rejoin>>

ReceiveChangeParentSeeking(m) ==
  LET n == m.dst
  IN  /\ m \in msgs /\ m.kind = "change_parent" /\ online[n]
      /\ \/ /\ parent[n] # m.src
            /\ Unchanging(n, seeking[n], waits[n], msgs \ {m})
            /\ UNCHANGED parent
         \/ /\ parent[n] = m.src
            /\ parent' = [parent EXCEPT ![n] = NoNode]
            /\ Initiate(n, TRUE, NoNode, Ask(NobodyAttempted, {}, m.new_parent, FALSE),
                        waits[n], msgs \ {m})
      /\ UNCHANGED <<online, pending, ancestors, children, rejoin>>

\* Rappel::receive_feed_change_parent: listened to when it comes from the parent
ReceiveChangeParent(m) ==
  LET n == m.dst
  IN  /\ m \in msgs /\ m.kind = "change_parent" /\ online[n]
      /\ \/ /\ parent[n] # m.src
            /\ Unchanging(n, seeking[n], waits[n], msgs \ {m})
            /\ UNCHANGED parent
         \/ /\ parent[n] = m.src
            /\ parent' = [parent EXCEPT ![n] = NoNode]
            /\ Initiate(n, seeking[n], NoNode, Ask(NobodyAttempted, {}, m.new_parent, FALSE),
                        waits[n], msgs \ {m})
      /\ UNCHANGED <<online, pending, ancestors, children, rejoin>>

\* Rappel::receive_feed_no_longer_your_child
ReceiveNoLongerYourChild(m) ==
  /\ m \in msgs /\ m.kind = "no_longer_your_child" /\ online[m.dst]
  /\ children' = [children EXCEPT ![m.dst] = @ \ {m.src}]
  /\ msgs' = msgs \ {m}
  /\ UNCHANGED <<online, pending, parent, ancestors, seeking, rejoin, waits>>

ReceiveFlushAncestryFromAnyone(m) ==
  LET n == m.dst
      anc == Append(m.ancestors, m.src)
  IN  /\ m \in msgs /\ m.kind = "flush" /\ online[n]
      /\ ancestors' = [ancestors EXCEPT ![n] = anc]
      /\ msgs' = (msgs \ {m}) \cup {FlushAncestry(n, c, anc) : c \in children[n]}
      /\ UNCHANGED <<online, pending, parent, children, seeking, rejoin, waits>>

\* Rappel::receive_feed_flush_ancestry
ReceiveFlushAncestry(m) ==
  LET n == m.dst
      anc == Append(m.ancestors, m.src)
  IN  /\ m \in msgs /\ m.kind = "flush" /\ online[n]
      /\ \/ /\ parent[n] # m.src
            /\ msgs' = msgs \ {m}
            /\ UNCHANGED ancestors
         \/ /\ parent[n] = m.src
            /\ ancestors' = [ancestors EXCEPT ![n] = anc]
            /\ msgs' = (msgs \ {m}) \cup {FlushAncestry(n, c, anc) : c \in children[n]}
      /\ UNCHANGED <<online, pending, parent, children, seeking, rejoin, waits>>

JoinReqTimeoutNoRejoin(n, w) ==
  /\ w \in waits[n]
  /\ Room
  /\ PeerHasFailed(n, w.target, FALSE, waits[n] \ {w}, msgs)
  /\ UNCHANGED <<online, pending, ancestors>>

(***************************************************************************)
(* Rappel::timer_wait_after_feed_join_req: no reply came.  (A node that    *)
(* has no parent asks another one before it drops the peer.)               *)
(***************************************************************************)
JoinReqTimeout(n, w) ==
  LET live == waits[n] \ {w}
  IN  /\ w \in waits[n]
      /\ Room
      /\ \/ /\ parent[n] = NoNode /\ w.target # Publisher
            /\ children' = [children EXCEPT ![n] = @ \ {w.target}]
            /\ Initiate(n, FALSE, NoNode,
                        Ask(w.attempted, w.failed \cup {w.target}, NoNode, w.periodic), live, msgs)
            /\ UNCHANGED <<parent, rejoin>>
         \/ /\ parent[n] # NoNode /\ w.target # Publisher
            /\ PeerHasFailed(n, w.target, FALSE, live, msgs)
         \/ /\ w.target = Publisher
            /\ children' = [children EXCEPT ![n] = @ \ {Publisher}]
            /\ parent' = [parent EXCEPT ![n] = IF @ = Publisher THEN NoNode ELSE @]
            /\ rejoin' = [rejoin EXCEPT ![n] = TRUE]
            /\ Unchanging(n, FALSE, live, msgs)
      /\ UNCHANGED <<online, pending, ancestors>>

(***************************************************************************)
(* A ping or a pull request of n was not answered, or q has not been heard *)
(* of for a keep-alive interval: timer_wait_after_ping_req,                *)
(* timer_wait_after_feed_update_pull_req, timer_periodic_node_check.  q    *)
(* need not have failed.                                                   *)
(***************************************************************************)
PeerTimeout(n, q) ==
  /\ online[n]
  /\ n # q
  /\ parent[n] = q \/ q \in children[n]
  /\ Room
  /\ PeerHasFailed(n, q, seeking[n], waits[n], msgs)
  /\ UNCHANGED <<online, pending, ancestors>>

\* Rappel::take_offline
TakeOffline(n) ==
  /\ online[n]
  /\ online' = [online EXCEPT ![n] = FALSE]
  /\ pending' = [pending EXCEPT ![n] = FALSE]
  /\ rejoin' = [rejoin EXCEPT ![n] = FALSE]
  /\ waits' = [waits EXCEPT ![n] = {}]
  /\ UNCHANGED <<parent, ancestors, children, seeking, msgs>>

BringOnlineStillSeeking(n) ==
  /\ ~online[n]
  /\ online' = [online EXCEPT ![n] = TRUE]
  /\ children' = [children EXCEPT ![n] = {}]
  /\ pending' = [pending EXCEPT ![n] = n # Publisher]
  /\ UNCHANGED <<parent, ancestors, seeking, rejoin, waits, msgs>>

(***************************************************************************)
(* Rappel::bring_online_now for a node that was online before: the feed is *)
(* joined at once or has to wait for its turn (see JoinSchedule).          *)
(***************************************************************************)
BringOnline(n) ==
  /\ ~online[n]
  /\ online' = [online EXCEPT ![n] = TRUE]
  /\ children' = [children EXCEPT ![n] = {}]
  /\ \/ /\ n = Publisher
        /\ UNCHANGED <<pending, parent, seeking, waits, msgs>>
     \/ /\ n # Publisher
        /\ pending' = [pending EXCEPT ![n] = TRUE]
        /\ Unchanging(n, FALSE, waits[n], msgs)
        /\ UNCHANGED parent
     \/ /\ n # Publisher
        /\ Room
        /\ parent' = [parent EXCEPT ![n] = NoNode]
        /\ Initiate(n, FALSE, NoNode, Ask(NobodyAttempted, {}, parent[n], FALSE), waits[n], msgs)
        /\ UNCHANGED pending
  /\ UNCHANGED <<ancestors, rejoin>>

\* Node::msg_callback drops what reaches an offline node; a connection may break
Lose(m) ==
  /\ m \in msgs
  /\ msgs' = msgs \ {m}
  /\ UNCHANGED <<online, pending, parent, ancestors, children, seeking, rejoin, waits>>

Deliver(m) ==
  \/ ReceiveJoinReq(m) \/ ReceiveLateReply(m) \/ ReceiveDeny(m) \/ ReceiveOk(m) \/ ReceiveFwd(m)
  \/ ReceiveChangeParent(m) \/ ReceiveNoLongerYourChild(m) \/ ReceiveFlushAncestry(m)

Next ==
  \/ \E m \in msgs : Deliver(m) \/ Lose(m)
  \/ \E n \in Node :
       \/ NextFeedJoin(n) \/ PeriodicRejoin(n) \/ TakeOffline(n) \/ BringOnline(n)
       \/ \E w \in waits[n] : JoinReqTimeout(n, w)
       \/ \E q \in Node : PeerTimeout(n, q)

Spec == Init /\ [][Next]_vars

-----------------------------------------------------------------------------

(* Every variable holds values of its type.                                 *)
TypeOK ==
  /\ online \in [Node -> BOOLEAN]
  /\ pending \in [Node -> BOOLEAN]
  /\ parent \in [Node -> Node \cup {NoNode}]
  /\ ancestors \in [Node -> Seq(Node)]
  /\ children \in [Node -> SUBSET Node]
  /\ seeking \in [Node -> BOOLEAN]
  /\ rejoin \in [Node -> BOOLEAN]
  /\ waits \in [Node -> SUBSET Wait]
  /\ msgs \subseteq Message

(* The assertion of timer_periodic_garbage_collect: a subscriber that is    *)
(* online is never stuck.  It waits for its turn to join, it is seeking a   *)
(* parent, or its periodic rejoin will fire.                                *)
NeverStuck ==
  \A n \in Subscriber : online[n] => pending[n] \/ seeking[n] \/ rejoin[n]

(* "don't seek two parents at the same time", initiate_feed_join_req: a     *)
(* node that is seeking has exactly one join timer, which ends the search   *)
(* if no reply does, and a node that is not seeking has none.               *)
OneSearch ==
  \A n \in Node : online[n] =>
    /\ \A v, w \in waits[n] : v = w
    /\ seeking[n] <=> waits[n] # {}

(* The assertions of Feed::set_ancestors, "just to make sure there are no   *)
(* cycles": the ancestors of a node with a parent run from the publisher to *)
(* that parent, each closer to the publisher than the next and all closer   *)
(* than the node itself.                                                    *)
AncestorsDescend ==
  \A n \in Subscriber :
    LET anc == ancestors[n]
    IN  /\ anc # <<>> /\ anc[1] = Publisher
        /\ parent[n] # NoNode => anc[Len(anc)] = parent[n] /\ Rank[parent[n]] < Rank[n]
        /\ \A i \in 1..Len(anc) : anc[i] # n
        /\ \A i, j \in 1..Len(anc) : i < j => Rank[anc[i]] < Rank[anc[j]]

(* assert(feed->get_num_children() == globops.rappel_num_feed_children) of  *)
(* receive_feed_join_req: no node has more children than it may, nor its    *)
(* own parent among them.                                                   *)
ChildrenBounded ==
  \A n \in Node : Cardinality(children[n]) <= MaxChildren /\ parent[n] \notin children[n] \ {Publisher}

(* assert(target_node != NO_SUCH_NODE) of initiate_feed_join_req: whoever   *)
(* else is given up in a search, the publisher never is, so there is always *)
(* someone left to ask.                                                     *)
PublisherNeverFails ==
  \A n \in Node : \A w \in waits[n] : Publisher \notin w.failed

(* assert(attempted[target_node] <= 3) of initiate_feed_join_req: however   *)
(* often a search is denied, passed on and timed out, it asks no node a     *)
(* fourth time (where MaxAttempts is 4).                                    *)
AttemptsBounded ==
  \A n \in Node : \A w \in waits[n] : \A t \in Node : w.attempted[t] < MaxAttempts

(* assert(peer_plays_role(recv_msg.src, parent_role) == false) of           *)
(* receive_feed_join_reply_ok: a reply that still counts never comes from   *)
(* the node that is the parent already.                                     *)
OkIsFromNewParent ==
  \A m \in msgs : m.kind = "ok" /\ (\E w \in waits[m.dst] : Cancels(m, w)) => parent[m.dst] # m.src

(* assert(closest_child != NO_SUCH_NODE) of receive_feed_join_req: a node   *)
(* that has no room has a child to pass the request on to.                  *)
ForwardHasTarget ==
  \A m \in msgs :
    m.kind = "req" /\ online[m.dst] /\ ~Denies(m.dst, m.src)
      /\ Rank[m.src] >= Rank[m.dst] /\ ~HasRoom(m.dst, m.src)
    => Alive(m.dst, m.failed) # {}

(* "attempt a rejoin at the old parent", bring_online_now: a node that      *)
(* rejoins the network and has to wait for its turn asks its old parent     *)
(* first when that comes.                                                   *)
OldParentAskedFirst ==
  [][\A n \in Node :
       pending[n] /\ ~pending'[n] /\ online'[n] /\ ~seeking[n] /\ parent[n] # NoNode
       => \E w \in waits'[n] : w.target = parent[n]]_vars

=============================================================================
