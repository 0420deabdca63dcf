----------------------------- MODULE FriendAudit -----------------------------
(***************************************************************************)
(* The friend sets: how a node audits candidates, asks one of them to be   *)
(* its friend, keeps it with pings, loses it, and asks its old friends     *)
(* again after a time offline (rappel.cpp, "FRIEND" and the pings).        *)
(*                                                                         *)
(* n has f as a friend (_friends) after f has taken n as a fan (_fans).    *)
(* At most one audit runs at a node, _currently_auditing: if the Bloom     *)
(* filter of the candidate is not known it is fetched, and then the        *)
(* candidate is asked, protected from eviction until it has answered or    *)
(* its timer has fired.  A reply counts only while its timer can still be  *)
(* cancelled.                                                              *)
(*                                                                         *)
(* A filter is its version number.  Votes, the audited flag and utility    *)
(* only decide which candidate is audited, when and with what result: that *)
(* is left open, and so are the age of a fan and of what was last heard of *)
(* a friend.  Other roles of a peer are the subject of FeedTree.  A failed *)
(* assertion ends the program of the node: broken names it.                *)
(***************************************************************************)
EXTENDS Integers, FiniteSets

CONSTANTS
  Node,
  NoNode,         \* NO_SUCH_NODE
  Stranger,       \* the rest of the network: nodes of which only their requests are modelled
  MaxFriends,     \* globops.rappel_num_friends
  MaxFans,        \* globops.rappel_num_fans
  MaxCandidates,  \* globops.rappel_num_candidates
  Evicted,        \* CANDIDATES_TO_REMOVE
  Auditors,       \* bound: the nodes that have feeds, the only ones that audit
  Adding,         \* bound: the nodes that add a feed
  Leaving,        \* bound: the nodes that go offline
  Popular,        \* bound: the nodes that a stranger asks
  MaxVersion,     \* bound: version of a Bloom filter
  TimerIds,       \* bound: ids of the timers of a node
  MaxInFlight     \* bound: a node starts nothing new with that many messages in flight

ASSUME NodeAssumption == IsFiniteSet(Node) /\ NoNode \notin Node /\ IsFiniteSet(Stranger)
ASSUME ActorsAssumption == Auditors \cup Adding \cup Leaving \cup Popular \subseteq Node
ASSUME SizeAssumption ==
  /\ MaxFriends \in Nat \ {0}
  /\ MaxFans \in Nat
  /\ MaxCandidates \in Nat \ {0}
  /\ Evicted \in 1..MaxCandidates
ASSUME BoundAssumption == MaxVersion \in Nat \ {0} /\ TimerIds \subseteq Nat /\ MaxInFlight \in Nat

VARIABLES
  online,   \* Node::_is_rappel_online
  virgin,   \* Rappel::_virgin
  broken,   \* the assertion that has ended the node's program, "none" so far
  version,  \* the version of Rappel::_filter
  fans,     \* the nodes in Rappel::_fans
  audit,    \* per node, see Audit
  waits,    \* the live timers of _pending_events
  msgs      \* messages in flight

vars == <<online, virgin, broken, version, fans, audit, waits, msgs>>

(***************************************************************************)
(* What the friend protocol of a node keeps: _friends, _candidates, the    *)
(* filter version of those that are friends or candidates,                 *)
(* _currently_auditing, and the filter version that each of the            *)
(* _protected_candidates is protected with, 0 if a node is not protected.  *)
(***************************************************************************)
AuditState == [friends : SUBSET Node, candidates : SUBSET Node, filter : [Node -> 0..MaxVersion],
               auditing : Node \cup {NoNode}, protected : [Node -> 0..MaxVersion]]

Nobody == [m \in Node |-> 0]

Protected(s) == {m \in Node : s.protected[m] > 0}

\* get_bloom_filter(m)->get_version(), 0 where know_bloom_filter(m) is false
FilterOf(s, m) == IF m \in s.friends \cup s.candidates THEN s.filter[m] ELSE s.protected[m]

(***************************************************************************)
(* A timer: WAIT_AFTER_BLOOM_REQ for an audit or after a ping,             *)
(* WAIT_AFTER_ADD_FRIEND_REQ, WAIT_AFTER_PING_REQ.  node_to_be_pruned      *)
(* travels with request and reply; it is kept with the timer that the      *)
(* reply must cancel, and so is audit_friend.  The order of next_targets   *)
(* is left open.                                                           *)
(***************************************************************************)
Kinds == {"audit", "bloom", "add", "ping"}

Wait == [kind : Kinds, timer : TimerIds, neighbor : Node,
         prune : Node \cup {NoNode}, next : SUBSET Node]

Request == [kind : Kinds, src : Node, dst : Node, timer : TimerIds, version : 0..MaxVersion]

Reply == [kind : {"filter", "ok", "deny", "changed", "pong"}, src : Node, dst : Node,
          timer : TimerIds, version : 0..MaxVersion]

RemoveFriend(n, f) == [kind |-> "remove", src |-> n, dst |-> f]

Message == Request \cup Reply \cup [kind : {"remove"}, src : Node, dst : Node]

ReplyTo(m, kind, v) == [kind |-> kind, src |-> m.dst, dst |-> m.src, timer |-> m.timer, version |-> v]

UsedTimers(n, live, net) ==
  {w.timer : w \in live} \cup {m.timer : m \in {r \in net : \/ r.kind \in Kinds /\ r.src = n
                                                            \/ r.kind \notin Kinds \cup {"remove"} /\ r.dst = n}}

\* an id is used again once nothing refers to it: only equality of ids matters
NewTimer(n, live, net, id) ==
  /\ id \in TimerIds \ UsedTimers(n, live, net)
  /\ \A i \in TimerIds \ UsedTimers(n, live, net) : id <= i

-----------------------------------------------------------------------------
(* The parts of the handlers.  s, live and net stand for the audit state,  *)
(* the timers and the messages as the handler has left them so far.        *)

Continue(n, s, live, net) ==
  /\ audit' = [audit EXCEPT ![n] = s]
  /\ waits' = [waits EXCEPT ![n] = live]
  /\ msgs' = net
  /\ UNCHANGED broken

Abort(n, assertion, net) ==
  /\ broken' = [broken EXCEPT ![n] = assertion]
  /\ waits' = [waits EXCEPT ![n] = {}]
  /\ msgs' = net
  /\ UNCHANGED audit

SendRequest(n, s, kind, m, prune, next, v, live, net) ==
  \E id \in TimerIds :
    /\ NewTimer(n, live, net, id)
    /\ Continue(n, s,
         live \cup {[kind |-> kind, timer |-> id, neighbor |-> m, prune |-> prune, next |-> next]},
         net \cup {[kind |-> kind, src |-> n, dst |-> m, timer |-> id, version |-> v]})

SendBloomReq(n, s, m, kind, live, net) == SendRequest(n, s, kind, m, NoNode, {}, 0, live, net)

SendFriendReq(n, s, m, prune, next, live, net) ==
  \/ /\ s.auditing = m /\ m \in Protected(s) /\ FilterOf(s, m) > 0
     /\ SendRequest(n, s, "add", m, prune, next, FilterOf(s, m), live, net)
  \/ /\ ~(s.auditing = m /\ m \in Protected(s) /\ FilterOf(s, m) > 0)
     /\ Abort(n, "send_friend_req", net)

Protect(s, ms) == [s EXCEPT !.protected = [m \in Node |-> IF m \in ms THEN FilterOf(s, m) ELSE @[m]]]

\* Mutant: _currently_auditing is not reset.
EndOfAuditStays(s) == s

EndOfAudit(s) == [s EXCEPT !.auditing = NoNode]

AuditWith(n, s, c, live, net) ==
  \/ Protected(s) # {} /\ Abort(n, "audit_with", net)
  \/ /\ Protected(s) = {}
     /\ \/ /\ Cardinality(s.friends) < MaxFriends
           /\ SendFriendReq(n, Protect(s, {c}), c, NoNode, {}, live, net)
        \/ /\ Cardinality(s.friends) = MaxFriends
           /\ \/ \E q \in s.friends : SendFriendReq(n, Protect(s, {c}), c, q, {}, live, net)
              \/ Continue(n, EndOfAudit(s), live, net)

\* Mutant: an audit that is under way is not noticed.
AuditAnyway(n, s, live, net) ==
  \/ Continue(n, s, live, net)
  \/ \E c \in s.candidates \ s.friends : SendBloomReq(n, [s EXCEPT !.auditing = c], c, "audit", live, net)

\* audit
Audit(n, s, live, net) ==
  \/ s.auditing # NoNode /\ Continue(n, s, live, net)
  \/ s.auditing = NoNode /\ Protected(s) # {} /\ Abort(n, "audit", net)
  \/ /\ s.auditing = NoNode /\ Protected(s) = {}
     /\ \/ Continue(n, s, live, net)
        \/ \E c \in s.candidates \ s.friends :
             LET t == [s EXCEPT !.auditing = c]
             IN  \/ s.filter[c] = 0 /\ SendBloomReq(n, t, c, "audit", live, net)
                 \/ s.filter[c] > 0 /\ AuditWith(n, t, c, live, net)

\* what every end of an audit does that leaves room for friends
AuditIfRoom(n, s, live, net) ==
  IF Cardinality(s.friends) < MaxFriends
    THEN Audit(n, EndOfAudit(s), live, net)
    ELSE Continue(n, EndOfAudit(s), live, net)

\* Mutant: the node that is asked stays in next_targets.
NextTargetAgain(n, s, next, live, net) ==
  \/ next = {} /\ AuditIfRoom(n, s, live, net)
  \/ \E t \in next : SendFriendReq(n, [s EXCEPT !.auditing = t], t, NoNode, next, live, net)

\* the common end of receive_add_friend_reply and timer_wait_after_add_friend_req
NextTarget(n, s, next, live, net) ==
  \/ next = {} /\ AuditIfRoom(n, s, live, net)
  \/ next # {} /\ Cardinality(s.friends) >= MaxFriends /\ Abort(n, "next_targets", net)
  \/ /\ next # {} /\ Cardinality(s.friends) < MaxFriends
     /\ \E t \in next : SendFriendReq(n, [s EXCEPT !.auditing = t], t, NoNode, next \ {t}, live, net)

\* Mutant: the candidate stays protected.
StillProtected(s, m) == s

Unprotect(s, m) == [s EXCEPT !.protected[m] = 0]

(***************************************************************************)
(* add_candidate for the nodes in list, the last of them kept whatever     *)
(* remove_old_candidate evicts.  A node outside Auditors never audits, so  *)
(* its candidates are not kept.                                            *)
(***************************************************************************)
AddCandidates(n, s, list) ==
  LET all == s.candidates \cup (list \ {n})
      added(cs) == [s EXCEPT !.candidates = cs,
                             !.filter = [m \in Node |->
                               IF m \in s.friends \cup (cs \cap s.candidates) THEN @[m]
                               ELSE IF m \in cs THEN s.protected[m] ELSE 0]]
  IN  IF n \notin Auditors THEN {s}
      ELSE IF Cardinality(all) <= MaxCandidates THEN {added(all)}
      ELSE {added(cs) : cs \in {ds \in SUBSET all :
                                  /\ Cardinality(ds) \in MaxCandidates + 1 - Evicted..MaxCandidates
                                  /\ list \cap ds # {}}}

\* the candidates that a message brings, its sender if from is that; the lists are left open
Hear(n, s, from) == UNION {AddCandidates(n, s, from \cup list) : list \in SUBSET Node}

\* remove_peer_from_role, ROLE_FRIEND: the candidate of that id, if any, takes over the filter
DropFriend(s, f) ==
  [s EXCEPT !.friends = @ \ {f}, !.filter[f] = IF f \in s.candidates THEN @ ELSE 0]

\* peer_has_failed, for the role of a friend: INVOKE_FAULT_HANDLER
PeerHasFailed(n, s, f, live, net) ==
  \/ f \notin s.friends /\ Continue(n, s, live, net)
  \/ f \in s.friends /\ Audit(n, DropFriend(s, f), live, net \cup {RemoveFriend(n, f)})

-----------------------------------------------------------------------------

Init ==
  /\ online = [n \in Node |-> TRUE]
  /\ virgin = [n \in Node |-> TRUE]
  /\ broken = [n \in Node |-> "none"]
  /\ version = [n \in Node |-> 1]
  /\ fans = [n \in Node |-> {}]
  /\ audit = [n \in Node |-> [friends |-> {}, candidates |-> {}, filter |-> Nobody,
                              auditing |-> NoNode, protected |-> Nobody]]
  /\ waits = [n \in Node |-> {}]
  /\ msgs = {}

Running(n) == online[n] /\ broken[n] = "none"

RoomInNetwork == Cardinality(msgs) < MaxInFlight

Quiet == UNCHANGED <<online, virgin, version>>

(***************************************************************************)
(* Audits.                                                                 *)
(***************************************************************************)

\* add_candidate by the handlers of the other messages
MeetCandidate(n, m) ==
  /\ Running(n) /\ n \in Auditors /\ m \notin audit[n].candidates
  /\ \E s \in AddCandidates(n, audit[n], {m}) : Continue(n, s, waits[n], msgs)
  /\ UNCHANGED fans /\ Quiet

\* timer_periodic_audit
PeriodicAudit(n) ==
  /\ Running(n) /\ n \in Auditors /\ RoomInNetwork
  /\ Audit(n, audit[n], waits[n], msgs)
  /\ UNCHANGED fans /\ Quiet

\* add_feed puts the feed into _filter
AddFeed(n) ==
  /\ n \in Adding /\ broken[n] = "none" /\ version[n] < MaxVersion
  /\ version' = [version EXCEPT ![n] = @ + 1]
  /\ UNCHANGED <<online, virgin, broken, fans, audit, waits, msgs>>

ReceiveBloomReq(m) ==
  /\ m.kind \in {"audit", "bloom"} /\ Running(m.dst)
  /\ \E s \in AddCandidates(m.dst, audit[m.dst], {m.src}) :
       Continue(m.dst, s, waits[m.dst], (msgs \ {m}) \cup {ReplyTo(m, "filter", version[m.dst])})
  /\ UNCHANGED fans /\ Quiet

\* the timer that a reply cancels
Cancels(m) == {w \in waits[m.dst] : w.timer = m.timer}

\* update_bloom_filter
Learn(s, m, v) ==
  IF m \in s.friends \cup s.candidates /\ v > s.filter[m] THEN [s EXCEPT !.filter[m] = v] ELSE s

ReceiveBloomReply(m) ==
  LET n == m.dst  net == msgs \ {m}
  IN  /\ m.kind = "filter" /\ Running(n)
      /\ \E w \in Cancels(m) :
           LET live == waits[n] \ {w}
           IN  \/ w.kind = "bloom" /\ Continue(n, Learn(audit[n], m.src, m.version), live, net)
               \/ w.kind = "audit" /\ audit[n].auditing # m.src /\ Abort(n, "bloom_reply", net)
               \/ /\ w.kind = "audit" /\ audit[n].auditing = m.src
                  /\ \E s \in IF m.src \in audit[n].candidates THEN {audit[n]}
                              ELSE AddCandidates(n, audit[n], {m.src}) :
                       AuditWith(n, Learn(s, m.src, m.version), m.src, live, net)
      /\ UNCHANGED fans /\ Quiet

\* timer_wait_after_bloom_req
BloomTimeout(n, w) ==
  LET live == waits[n] \ {w}
      s == DropFriend(audit[n], w.neighbor)
      gone == w.neighbor \notin audit[n].friends
  IN  /\ w.kind \in {"audit", "bloom"} /\ Running(n)
      /\ \/ w.kind = "bloom" /\ PeerHasFailed(n, audit[n], w.neighbor, live, msgs)
         \/ w.kind = "audit" /\ Protected(audit[n]) # {} /\ Abort(n, "wait_after_bloom_req", msgs)
         \/ /\ w.kind = "audit" /\ Protected(audit[n]) = {}
            /\ AuditIfRoom(n, IF gone THEN audit[n] ELSE s, live,
                           IF gone THEN msgs ELSE msgs \cup {RemoveFriend(n, w.neighbor)})
      /\ UNCHANGED fans /\ Quiet

(***************************************************************************)
(* Friends and fans.                                                       *)
(***************************************************************************)

\* Mutant: a full set takes one more.
TakesOneMore(n, src, old) == Cardinality(fans[n] \ old) <= MaxFans \/ src \in fans[n] \ old

\* old are the fans that were not heard of for rappel_keep_alive_interval
TakesFan(n, src, old) == Cardinality(fans[n] \ old) < MaxFans \/ src \in fans[n] \ old

FansAfter(n, src, old) == (fans[n] \ old) \cup (IF TakesFan(n, src, old) THEN {src} ELSE {})

\* receive_add_friend_req
ReceiveAddFriendReq(m) ==
  LET n == m.dst  reply(kind) == (msgs \ {m}) \cup {ReplyTo(m, kind, 0)}
  IN  /\ m.kind = "add" /\ Running(n)
      /\ \E s \in Hear(n, audit[n], {m.src}) :
           \/ /\ version[n] > m.version
              /\ Continue(n, s, waits[n], reply("changed"))
              /\ UNCHANGED fans
           \/ /\ version[n] <= m.version
              /\ \E old \in SUBSET fans[n] :
                   /\ fans' = [fans EXCEPT ![n] = FansAfter(n, m.src, old)]
                   /\ Continue(n, s, waits[n], reply(IF TakesFan(n, m.src, old) THEN "ok" ELSE "deny"))
      /\ Quiet

\* the same for a node whose own state is not modelled
StrangerAsks(n, z) ==
  /\ n \in Popular /\ Running(n)
  /\ \E old \in SUBSET fans[n] : fans' = [fans EXCEPT ![n] = FansAfter(n, z, old)]
  /\ UNCHANGED <<broken, audit, waits, msgs>> /\ Quiet

ReceiveRemoveFriend(m) ==
  /\ m.kind = "remove" /\ Running(m.dst)
  /\ fans' = [fans EXCEPT ![m.dst] = @ \ {m.src}]
  /\ \E s \in Hear(m.dst, audit[m.dst], {}) : Continue(m.dst, s, waits[m.dst], msgs \ {m})
  /\ Quiet

\* add_peer_with_role, ROLE_FRIEND
AddFriend(s, f) == [s EXCEPT !.friends = @ \cup {f}, !.filter[f] = FilterOf(s, f)]

\* the friend set of a node that is accepted, after node_to_be_pruned has left it
Befriended(s, f, prune) == AddFriend(IF prune \in s.friends THEN DropFriend(s, prune) ELSE s, f)

\* receive_add_friend_reply, ok_to_add
Accepted(n, s, w, live, net) ==
  LET pruned == IF w.prune \in s.friends THEN net \cup {RemoveFriend(n, w.prune)} ELSE net
  IN  \/ /\ FilterOf(s, w.neighbor) > 0 /\ w.neighbor \in Protected(s)
         /\ NextTarget(n, Unprotect(Befriended(s, w.neighbor, w.prune), w.neighbor), w.next, live, pruned)
      \/ /\ ~(FilterOf(s, w.neighbor) > 0 /\ w.neighbor \in Protected(s))
         /\ Abort(n, "add_friend_reply", net)

\* receive_add_friend_reply, not ok_to_add
Denied(n, s, w, live, net) ==
  \/ w.neighbor \in Protected(s) /\ NextTarget(n, Unprotect(s, w.neighbor), w.next, live, net)
  \/ w.neighbor \notin Protected(s) /\ Abort(n, "add_friend_reply", net)

\* receive_add_friend_reply, filter_has_changed: "retry audit"
RetryAudit(n, s, w, live, net) ==
  \/ s.auditing = w.neighbor /\ SendBloomReq(n, s, w.neighbor, "audit", live, net)
  \/ s.auditing # w.neighbor /\ Abort(n, "add_friend_reply", net)

ReceiveAddFriendReply(m) ==
  LET n == m.dst  net == msgs \ {m}
  IN  /\ m.kind \in {"ok", "deny", "changed"} /\ Running(n)
      /\ \E w \in Cancels(m), s \in Hear(n, audit[n], {}) :
           LET live == waits[n] \ {w}
           IN  \/ m.kind = "ok" /\ Accepted(n, s, w, live, net)
               \/ m.kind = "deny" /\ Denied(n, s, w, live, net)
               \/ m.kind = "changed" /\ RetryAudit(n, s, w, live, net)
      /\ UNCHANGED fans /\ Quiet

\* timer_wait_after_add_friend_req
AddFriendTimeout(n, w) ==
  LET live == waits[n] \ {w}
      gone == w.neighbor \notin audit[n].friends
      s == IF gone THEN audit[n] ELSE DropFriend(audit[n], w.neighbor)
      net == IF gone THEN msgs ELSE msgs \cup {RemoveFriend(n, w.neighbor)}
  IN  /\ w.kind = "add" /\ Running(n)
      /\ \/ w.neighbor \in Protected(s) /\ NextTarget(n, Unprotect(s, w.neighbor), w.next, live, net)
         \/ w.neighbor \notin Protected(s) /\ Abort(n, "wait_after_add_friend_req", msgs)
      /\ UNCHANGED fans /\ Quiet

(***************************************************************************)
(* Pings.  rappel_reply_timeout is shorter than rappel_heart_beat_interval *)
(* so a friend is not pinged again while the timer of a ping is live.      *)
(***************************************************************************)

\* timer_periodic_node_check of a friend heard of in the last rappel_keep_alive_interval
SendPing(n, f) ==
  /\ Running(n) /\ f \in audit[n].friends
  /\ \A w \in waits[n] : w.kind = "ping" => w.neighbor # f
  /\ SendRequest(n, audit[n], "ping", f, NoNode, {}, version[n], waits[n], msgs)
  /\ UNCHANGED fans /\ Quiet

\* timer_periodic_node_check of a friend not heard of for longer
KeepAliveExpires(n, f) ==
  /\ Running(n) /\ f \in audit[n].friends /\ RoomInNetwork
  /\ PeerHasFailed(n, audit[n], f, waits[n], msgs)
  /\ UNCHANGED fans /\ Quiet

\* Mutant: everybody is answered.
ReceivePingReqOfAnyone(m) ==
  /\ m.kind = "ping" /\ Running(m.dst)
  /\ \E s \in Hear(m.dst, audit[m.dst], {m.src}) :
       Continue(m.dst, s, waits[m.dst], (msgs \ {m}) \cup {ReplyTo(m, "pong", version[m.dst])})
  /\ UNCHANGED fans /\ Quiet

\* the filter of a friend whose ping names a newer version is fetched
FetchIfNewer(n, s, m, live, net) ==
  \/ m.src \in s.friends /\ m.version > s.filter[m.src] /\ SendBloomReq(n, s, m.src, "bloom", live, net)
  \/ ~(m.src \in s.friends /\ m.version > s.filter[m.src]) /\ Continue(n, s, live, net)

ReceivePingReq(m) ==
  LET n == m.dst  net == msgs \ {m}
  IN  /\ m.kind = "ping" /\ Running(n)
      /\ \E s \in Hear(n, audit[n], {m.src}) :
           FetchIfNewer(n, s, m, waits[n],
             IF m.src \in fans[n] THEN net \cup {ReplyTo(m, "pong", version[n])} ELSE net)
      /\ UNCHANGED fans /\ Quiet

ReceivePingReply(m) ==
  LET n == m.dst
  IN  /\ m.kind = "pong" /\ Running(n)
      /\ \E w \in Cancels(m), s \in Hear(n, audit[n], {m.src}) :
           FetchIfNewer(n, s, m, waits[n] \ {w}, msgs \ {m})
      /\ UNCHANGED fans /\ Quiet

\* timer_wait_after_ping_req
PingTimeout(n, w) ==
  /\ w.kind = "ping" /\ Running(n)
  /\ PeerHasFailed(n, audit[n], w.neighbor, waits[n] \ {w}, msgs)
  /\ UNCHANGED fans /\ Quiet

(***************************************************************************)
(* Churn and the network.                                                  *)
(***************************************************************************)

\* take_offline cancels the pending events and keeps the rest
TakeOffline(n) ==
  /\ Running(n) /\ n \in Leaving
  /\ online' = [online EXCEPT ![n] = FALSE]
  /\ virgin' = [virgin EXCEPT ![n] = FALSE]
  /\ waits' = [waits EXCEPT ![n] = {}]
  /\ UNCHANGED <<broken, version, fans, audit, msgs>>

\* all friends of s removed after a request was sent to one of them
WithoutFriends(s) ==
  [s EXCEPT !.friends = {}, !.filter = [m \in Node |-> IF m \in s.candidates THEN @[m] ELSE 0]]

\* Mutant: the protected candidates of before are kept.
AsLeft(s) == s

ProtectingNobody(s) == [s EXCEPT !.protected = Nobody]

\* bring_online_now: ask the old friends again, one by one
BringOnline(n) ==
  LET fresh == ProtectingNobody(audit[n])
      old == fresh.friends
      net == msgs \cup {RemoveFriend(n, f) : f \in old}
  IN  /\ ~online[n] /\ broken[n] = "none" /\ Cardinality(msgs) <= MaxInFlight
      /\ online' = [online EXCEPT ![n] = TRUE]
      /\ fans' = [fans EXCEPT ![n] = {}]
      /\ \/ old = {} /\ Continue(n, fresh, waits[n], msgs)
         \/ (\E f \in old : FilterOf(fresh, f) = 0) /\ Abort(n, "bring_online_now", msgs)
         \/ /\ \A f \in old : FilterOf(fresh, f) > 0
            /\ \E f \in old : SendFriendReq(n, WithoutFriends([Protect(fresh, old) EXCEPT !.auditing = f]),
                                            f, NoNode, old \ {f}, waits[n], net)
      /\ UNCHANGED <<virgin, version>>

\* no live timer to cancel: the reply is ignored
LateReply(m) ==
  /\ m.kind \notin Kinds \cup {"remove"} /\ Running(m.dst) /\ Cancels(m) = {}
  /\ msgs' = msgs \ {m}
  /\ UNCHANGED <<online, virgin, broken, version, fans, audit, waits>>

\* the receiver is gone, or the connection has closed
Lose(m) ==
  /\ msgs' = msgs \ {m}
  /\ UNCHANGED <<online, virgin, broken, version, fans, audit, waits>>

Receive(m) ==
  \/ ReceiveBloomReq(m) \/ ReceiveBloomReply(m)
  \/ ReceiveAddFriendReq(m) \/ ReceiveAddFriendReply(m) \/ ReceiveRemoveFriend(m)
  \/ ReceivePingReq(m) \/ ReceivePingReply(m) \/ LateReply(m)

TimerFires(n, w) == BloomTimeout(n, w) \/ AddFriendTimeout(n, w) \/ PingTimeout(n, w)

Next ==
  \/ \E m \in msgs : Receive(m) \/ Lose(m)
  \/ \E n \in Node :
       \/ \E m \in Node \ {n} : MeetCandidate(n, m)
       \/ \E z \in Stranger : StrangerAsks(n, z)
       \/ \E f \in audit[n].friends : SendPing(n, f) \/ KeepAliveExpires(n, f)
       \/ \E w \in waits[n] : TimerFires(n, w)
       \/ PeriodicAudit(n) \/ AddFeed(n) \/ TakeOffline(n) \/ BringOnline(n)

Spec == Init /\ [][Next]_vars

TimerFiresWithId(n, i) == \E w \in waits[n] : w.timer = i /\ TimerFires(n, w)

\* a message that refers to timer i of n arrives or is lost with its connection
Settle(n, i) ==
  \E m \in msgs : /\ m.kind # "remove" /\ m.timer = i /\ n = (IF m.kind \in Kinds THEN m.src ELSE m.dst)
                  /\ Lose(m) \/ m \notin msgs'

(***************************************************************************)
(* timer_periodic_node_check reschedules itself as long as the peer is     *)
(* there, a timer fires, and no message is under way for ever.  That       *)
(* SendPing is strongly fair makes up for the bound on the ids of timers,  *)
(* which the code does not have.                                           *)
(***************************************************************************)
Fairness ==
  \A n \in Auditors :
    /\ \A i \in TimerIds : WF_vars(Settle(n, i)) /\ WF_vars(TimerFiresWithId(n, i))
    /\ \A f \in Node \ {n} : SF_vars(SendPing(n, f))

FairSpec == Spec /\ Fairness

-----------------------------------------------------------------------------

TypeOK ==
  /\ online \in [Node -> BOOLEAN]
  /\ virgin \in [Node -> BOOLEAN]
  /\ broken \in [Node -> {"none", "audit", "audit_with", "send_friend_req", "next_targets",
                          "bloom_reply", "add_friend_reply", "wait_after_bloom_req",
                          "wait_after_add_friend_req", "bring_online_now"}]
  /\ version \in [Node -> 1..MaxVersion]
  /\ fans \in [Node -> SUBSET (Node \cup Stranger)]
  /\ \A n \in Node : Cardinality(fans[n]) <= MaxFans
  /\ audit \in [Node -> AuditState]
  /\ waits \in [Node -> SUBSET Wait]
  /\ msgs \subseteq Message

\* The live timers of the audit that is running at a node.
AuditWaits(n) == {w \in waits[n] : w.kind \in {"audit", "add"}}

\* A node never has two audits under way, whatever answers late, is lost or starts
\* an audit (audit, receive_bloom_reply, receive_add_friend_reply, the timers), and
\* what is under way is an audit of _currently_auditing.
OneAudit ==
  \A n \in Node : Running(n) =>
    \A w \in AuditWaits(n) : audit[n].auditing = w.neighbor /\ AuditWaits(n) = {w}

\* _currently_auditing blocks every other audit, so it must not be left set: until a
\* node first goes offline, some timer will end the audit it names.
AuditInProgress ==
  \A n \in Node : Running(n) /\ virgin[n] /\ audit[n].auditing # NoNode => AuditWaits(n) # {}

\* The candidates that are protected are those that an add friend request was sent to
\* or will be (next_targets); no other code frees them.
ProtectedWhileAsked ==
  \A n \in Node : Running(n) =>
    \A w \in waits[n] : w.kind = "add" => Protected(audit[n]) = {w.neighbor} \cup w.next

\* A node never has more than rappel_num_friends friends (asserted in audit), however
\* friends fail between the request to one more and its answer, and there is room for
\* all the friends that a node asks again (asserted in receive_add_friend_reply).
FriendsBounded ==
  \A n \in Node :
    /\ Cardinality(audit[n].friends) <= MaxFriends
    /\ Running(n) => \A w \in waits[n] :
         w.kind = "add" => Cardinality(audit[n].friends \ {w.prune}) + Cardinality(w.next) < MaxFriends

\* Of the assertions of the friend protocol only the two about protected candidates can
\* fail, and only in the "retry audit" of receive_add_friend_reply (rappel.cpp:1845): the
\* candidate that is audited again is itself still protected when its filter comes or
\* fails to (audit_with, timer_wait_after_bloom_req).  What a restart, a request to an old
\* friend or an earlier audit has protected never meets an audit.
AssertionsHold ==
  \A n \in Node :
    /\ broken[n] \in {"none", "audit_with", "wait_after_bloom_req"}
    /\ broken[n] # "none" => audit[n].auditing \in Protected(audit[n])

\* A node that has a friend which does not have it as a fan, because a REMOVE_FRIEND
\* of earlier came late or the friend has restarted or has purged it, finds out: only
\* a fan is answered (receive_ping_req, timer_wait_after_ping_req).
OneSided(n, f) == Running(n) /\ f \in audit[n].friends /\ n \notin fans[f]

OneSidedFriendshipEnds == \A n \in Auditors : \A f \in Node \ {n} : OneSided(n, f) ~> ~OneSided(n, f)

=============================================================================
