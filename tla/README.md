# Formal model of Rappel

Rappel is a publish/subscribe system for feeds.  Every feed has one publisher;
its subscribers form a dissemination tree rooted at the publisher, chosen by
network coordinates so that an update travels along short paths.  Nodes with
similar subscriptions are *friends*; friends and their candidates are where a
node looks for other subscribers of its feeds.  The same code runs in a
discrete-event simulator and in a deployed network program.

This directory holds TLA+ modules translated from that code, the TLC
configurations that check them on small instances, and proofs that TLAPS
checks for instances of every size.  `PROJECT.json` maps each definition to the
lines it is translated from.  All line numbers are those of `src/`.

    tlc -config MCDissemination.cfg MCDissemination.tla
    tlapm DisseminationProofs.tla

## The system

| component | state | operations | interacts with |
|---|---|---|---|
| **Feed updates** `feed.cpp`; `rappel.cpp` 687-705, 3836-4014 | per feed and node: `_cache`, `_latest_update_seq`, `_highest_update_seq`, `_missing_entries`, `_pull_entry_events` | publish, receive an update (and pass it on to the children), learn another node's newest update (join OK, ping request, ping reply), pull, answer a pull, pull timer | children and parent come from the tree; a failed pull makes the peer fail in all roles |
| **Feed tree** `rappel.cpp` 2716-3829, 4741-4930; `feed.cpp` | `_parent`, `_children`, `_ancestors`, `_seeking_parent`, `_rejoin_event_id`, one wait event per outstanding join request (with `attempted`, `failed`, type) | join request and its replies OK / DENY / FWD, its timer, CHANGE_PARENT (sent with a delay), NO_LONGER_YOUR_CHILD, FLUSH_ANCESTRY, periodic rejoin, loss of a peer | candidates for parents come from friends, candidates and peers (`find_feed_subscribers`) |
| **Join schedule** `rappel.cpp` 510-602, 625-680, 2691-2769 | `_pending_feed_joins`, `_next_feed_join_event_id`, `_last_feed_join_req`, `_num_feed_joins`, `_virgin` | add a feed, next feed join event, offline, online | starts the joins of the tree |
| **Peers, roles, pings** `rappel.cpp` 2031-2690, 4026-4281; `neighbor.cpp` | `_peers`: roles, last heard, node check event | node check every heart beat, ping request/reply/timer, add/remove a role, fault handler per role | carries update numbers, Bloom filter versions, candidates |
| **Friend audit** `rappel.cpp` 1380-2030, 4690- | `_friends`, `_fans`, `_currently_auditing`, protected candidates | audit, add friend request/reply/timer, remove friend, Bloom filter request/reply | roles; candidates |
| **Candidates, Bloom filters** `rappel.cpp` 4290-4690; `bloom_filter.cpp` | candidate pool, audited flags, filter versions | add, invalidate, prune, fetch a filter, find subscribers | friend audit, tree |
| **Timer** `timer.cpp` | event list, event ids, clock | schedule, cancel, execute | everything |
| **Transport** `transport.cpp` | simulator: message events; network: TCP connections with queues | send, send with delay, connect, remap, disconnect | everything |
| **Node** `node.cpp` | online flag, layers | dispatch of messages and events, going up and down | everything |
| **Vivaldi** `vivaldi.cpp`, `coordinate.cpp` | coordinate, ping in progress | ping, sync | coordinates of the tree |
| drivers, topologies, configuration, statistics, tools | - | decide when nodes go up, subscribe and publish | environment of the models |

There is one thread.  Concurrency is between nodes, and, inside a node, between
its timers and what it receives: every handler runs to its end, but a protocol
spans many handlers, and between two of them a timer may fire, a peer may
change its mind, or the node may go offline and come back with part of its
state.  `take_offline` cancels timers and keeps `_feed_set`, `_peers` and most
flags; `bring_online_now` resets some of it.  Most hazards listed in
`PROJECT.json` come from there, from messages that are overtaken or lost, and
from the many `assert`s that state what the authors believed of these
interleavings.  An assertion that fails ends the program, and in the simulator
the whole simulation.

What makes each component correct:

* *Updates*: the newest update a node announces is one it can hand over,
  together with the `rappel_feed_updates_cache` ones before it; a pull is always
  answerable; nothing is fetched twice at a time; no update is invented; losses
  are repaired.
* *Tree*: no cycles, bounded fan-out, at most one search for a parent at a time,
  no subscriber without a parent and without a search, timer or turn that will
  find one; the tree heals.
* *Join schedule*: no subscription is forgotten, and joins are spread out.
* *Peers*: parent and child are reciprocal, a silent peer is dropped from each
  role.
* *Friends and candidates*: at most one audit at a time and none for ever, both
  sides agree on a friendship, the pool stays bounded.
* *Timer*: an event fires exactly once or is cancelled; ids are unique.
* *Connections*: whatever is open can be found and is used, crossing connects
  leave one, no queued message is kept twice or waits for nothing.

## The modules

`Dissemination` is one feed's updates at all of its nodes.  `FeedTree` is one
feed's tree at all of its nodes.  `JoinSchedule` is one node's schedule for
all of its feeds.  `FriendAudit` is the friends, fans and candidates of all
nodes.  `Connections` is the TCP connections between all nodes.  They share no
state: the update protocol may push along *any* edges (`Push` chooses the
children), which covers every tree and every stale edge `FeedTree` could have;
`FeedTree` starts a join whenever a feed is pending, which covers every schedule
`JoinSchedule` allows, and takes any node for a candidate parent, which covers
every friend set; and all of them take their messages to be a set in which each
may be late or lost, which covers what `Connections` does to them.

| module | proofs | TLC instances |
|---|---|---|
| `FeedDelivery`, `Dissemination` | `DisseminationProofs` | `MCDissemination`, `MCDisseminationLive` |
| `FeedTree` | `FeedTreeProofs` | `MCFeedTree`, `MCFeedTreeLive`, `MCFeedTreeAttempts` |
| `JoinSchedule` | `JoinScheduleProofs` | `MCJoinSchedule` |
| `FriendAudit` | `FriendAuditProofs` | `MCFriendAudit` |
| `Connections` | `ConnectionsProofs`, `ConnectionMessageProofs`, `ConnectionSurvivalProofs` | `MCConnections` |

### Dissemination

| variable | code |
|---|---|
| `cache` | the keys of `Feed::_cache` |
| `latest`, `highest` | `_latest_update_seq`, `_highest_update_seq` |
| `missing` | `_missing_entries`, as pairs of update and the node it is fetched from |
| `pulls` | the live WAIT_AFTER_FEED_UPDATE_PULL_REQ timers |
| `msgs` | announcements (the `last_update_seq` of pings and join replies), pull requests, updates |

`Publish`, `Announce`, `ReceiveAnnounce` (`request_missing_entries`),
`ReceivePull`, `ReceiveUpdate` (with the push to the children), `PullTimeout`,
`TakeOffline`, `BringOnline` and `Lose` are the handlers.  `AddEntry` keeps the
three ways in which `Feed::add_entry` advances `_latest_update_seq`: over a
complete window, the special case (with the value the code really compares,
`EarliestContiguous`), and the run of consecutive cached updates.  A payload is
its number.

`FeedDelivery` is what a feed promises, without windows, counters, timers or
messages: the publisher numbers its updates without a gap, and a subscriber
obtains an update once, from a node that has it.  `KeepsPromise` is the
refinement, with `published <- latest[Publisher]`, `got <- cache`.  Order and
completeness are *not* promised: a node that was away for longer than the
window has a gap for good.

### FeedTree

| variable | code |
|---|---|
| `parent`, `children`, `ancestors` | `Feed::_parent`, `_children`, `_ancestors`, with the roles of the peers |
| `seeking` | `Feed::_seeking_parent` |
| `rejoin` | `_rejoin_event_id` is that of a live event |
| `pending` | the feed is in `Rappel::_pending_feed_joins` |
| `waits` | the live WAIT_AFTER_FEED_JOIN_REQ events and their data |

`Initiate` is `initiate_feed_join_req`: its early return while another search
is on, the choice of a target (`Targets`), the early return of a periodic
rejoin whose best target is the present parent, and the request with its timer.
It is part of eight actions, those of its callers.  `ReceiveJoinReq` has the five
outcomes of the code: deny, pass on to the parent, accept, pass on to a
child, replace the farthest child.

Abstractions.  Distance to the publisher is a constant rank, distinct for
distinct nodes (`RankAssumption`): coordinates drift in the code, and two
requests may then be judged by different coordinates.  Which of several nodes is
closest to a third is left open, as is what `find_feed_subscribers` returns
beyond the publisher and the node a request was forwarded to.  A node that
another one believes to subscribe because of a Bloom filter's false positive
denies every request; a subscriber that has no parent behaves the same way, so
it has no state of its own.  Timers fire at any time in the safety instance.  A
ping and its answer are one step, `PeerTimeout`, in which a peer is suspected,
rightly or not.  The publisher's coordinate and the path cost in the
messages, which no decision reads, are left out.

`TimerIds` bounds the ids of timers that are in use at a time, `MaxInFlight` is
checked only where a *timer* or a start would send, so that no answer is ever
suppressed.  `MaxAttempts` is not a bound but the assertion
`attempted[target_node] <= 3`: the step that would break it is disabled, as the
program ends there.  `attempts` shows that it can be broken.

### JoinSchedule

`since` and `next` are the clock, as distances to `_last_feed_join_req` and to
the join event; they are all that the code compares.  The four assertions of
`add_feed` and `bring_online_now` are guards, as a step that breaks one ends
the program; `PendingIsScheduled` shows that a feed that has to wait never
meets the first of them while the node is online, and `join_schedule_restart`
that it can meet it when it comes back.

### FriendAudit

| variable | code |
|---|---|
| `audit[n].friends`, `.candidates` | `_friends`, `_candidates` |
| `audit[n].filter` | the filter version kept with a friend (`Neighbor`) or candidate (`CandidatePeer`), 0 when none is known |
| `audit[n].auditing` | `_currently_auditing` |
| `audit[n].protected` | `_protected_candidates`, each with its filter version |
| `fans`, `version` | `_fans`, the version of `_filter` |
| `waits` | the live timers of `_pending_events` of the four kinds concerned |
| `virgin`, `online` | `_virgin`, `_is_rappel_online` |
| `broken` | the assertion that has ended the node's program |

An audit goes: `Audit` chooses a candidate; without its filter `SendBloomReq`
fetches it and `ReceiveBloomReply` or `BloomTimeout` goes on; `AuditWith`
protects it and asks it (`SendFriendReq`); `ReceiveAddFriendReply` has the three
answers (`Accepted`, `Denied`, `RetryAudit`), `AddFriendTimeout` none.  The last
two end in `NextTarget`, which turns to the next of the old friends of a
rejoining node, or ends the audit and, if there is room, starts another one.
The asked side is `ReceiveBloomReq`, `ReceiveAddFriendReq`,
`ReceiveRemoveFriend`; `SendPing` to `PingTimeout` keep and end friendships, and
fetch filters that have changed.  Handlers call each other deeply (a failed ping
drops a friend, which starts an audit, which sends a request), so the parts take
the state, the timers and the messages as left so far, and each action is the
whole chain.

Abstractions.  A filter is its version.  Which candidate is audited, when, and
whether it would improve the friend set is left open (votes, audited flag and
utility decide that), as are the candidates that messages bring and the ages
that decide about purging fans.  A node asks as a whole (`Auditors`) or is one
that only answers; a `Stranger` competes for places among the fans.  Ids of
timers are reused when nothing refers to them.  The peers' other roles are those
of `FeedTree`; filter requests that join messages cause are left out, as they
are of the kind that a ping causes.

### Connections

| variable | code |
|---|---|
| `mgr[n].table`, `.fresh` | `_connections`, under node ids and under temporary ones |
| `mgr[n].progress`, `.pending` | `_connection_establishment_in_progress`, `_pending` (by destination) |
| `mgr[n].accepting` | an `async_accept` is outstanding |
| `end[n][i]` | the `TCPConnection` of n for connection i: socket, `_remote_node`, `_to_be_deleted`, `_pending`, `_msg_out`, and the bytes under way |
| `resolving` | messages captured by `async_resolve` |
| `link` | who connects to whom: the kernels' part |
| `server` | `_stop_in_progress`, and the server closed by `delayed_stop` |

`Send` and `Resolved` are `TCPConnectionManager::send` and `handle_tcp_resolve`;
`Connected`, `ConnectFails`, `ConnectAborted` the outcomes of `handle_connect`;
`Accept`, `Read` (with `remap`), `Written` and `Fails` (read error, write error,
idle timeout) the handlers of a connection; `StopServer` and `DelayedStop` the
end.  A connect may complete before or after the other side accepts.
`disconnect` reads an erased map entry (799): it is modelled with the value that
was there, and `DelayedStop` leaves open what the dangling reference that
`disconnect_all` passes finds.  Which messages a handler sends is left open, as
they never use the connection being read.

## What is checked

| run | module | what it asks |
|---|---|---|
| `dissemination` | MCDissemination | nine properties of the update protocol under loss, reordering and restarts |
| `dissemination_live` | MCDisseminationLive | everybody obtains the last window; FeedDelivery is implemented |
| `feed_tree` | MCFeedTree | seven properties of the join protocol under loss, reordering, restarts, false suspicions |
| `feed_tree_live` | MCFeedTreeLive | after the last fault the tree becomes complete, where full nodes send children away |
| `join_schedule` | MCJoinSchedule | nothing forgotten, the assertion of the join event, gradual joins, all joins start |
| `friends` | MCFriendAudit | audits, friends and fans under loss, reordering, restarts; one-sided friendships end |
| `connections` | MCConnections | crossing, doubled, failing and stopped connections |
| `stale_fetch`, `forward_target`, `old_parent`, `attempts`, `join_schedule_restart` | | one disagreement each between the code and a comment or an assertion, see below |

Properties that hold, and what it would take to break one:

* `WindowCached`, `NextIsMissing`: the two sides of `_latest_update_seq`.  They
  need `add_entry` to advance only over complete windows and never to stop
  short, for every order of pushes and pulls.
* `PullAnswerable`: the assertion of `Feed::send_entry` at a node that receives
  a pull request long after the announcement that caused it.
* `PullTimerTracked`, `OneFetchPerUpdate`, `PullsAreNew`: the assertions of
  `mark_pull_as_failed` and `pull_entry`, with timers that outlive answers.
* `PublisherIsSource`, `NeverGoesBack`, `KeepsPromise`: nothing is invented,
  renumbered or forgotten.
* `NeverStuck`: the assertion of the garbage collection timer (1366-1370): an
  online subscriber always has a turn, a search or a rejoin timer ahead.
* `OneSearch`: one wait event per search and one search per node; `seeking` and
  `waits` are set and reset in ten different handlers.
* `AncestorsDescend`: the assertions of `set_ancestors`; stale ancestor lists in
  OK and FLUSH messages never close a cycle.
* `ChildrenBounded`, `PublisherNeverFails`, `OkIsFromNewParent`: the assertions at
  3098, 4858 and 3497.
* `TreeRepairs`: lost parents, phantom parents and phantom children are noticed and
  repaired, those included that a CHANGE_PARENT leaves behind when it is lost, or
  comes when its receiver has another parent, none, or has restarted (3368).  It is
  claimed for as long as neither of the two assertions of the tree that can fail
  has ended the program.
* `NothingForgotten`, `PendingIsScheduled`, `JoinsAreGradual`, `AllJoined`: the
  join schedule.
* `OneAudit`, `AuditInProgress`: `_currently_auditing` is set and reset in a
  dozen places; were it reset too early two audits would run, too late none.
* `ProtectedWhileAsked`: the protected candidates are exactly those that the
  request under way concerns; everything else about them is asserted (4710,
  1532, 1822, 1898, 1966, 5266).
* `FriendsBounded`: requests of old friends, failures of new ones and pruning
  overlap; the assertions at 1799, 1875, 1943 and 4698.
* `OneSidedFriendshipEnds`: a friend that no longer counts the node among its
  fans is found out, although REMOVE_FRIEND overtakes requests, both sides
  restart and fans are purged.
* `AssertionsHold` of `FriendAudit` and of `Connections`: no assertion fails but the
  three named below; those of the friend protocol fail for no other reason than a
  retried audit, whatever restarts, timers and old friends have protected.
* `OnlyAttemptsFailIt`: an established connection that fails is found by
  `disconnect` under the id of its node, whatever was killed, taken over or doubled
  before; only a connect attempt can fail its assertion (800).
* `ConnectionsKnown`, `ConnectionSurvives`, `OneOwner`, `PendingIsAwaited`: the
  two ends of crossing connects choose alone which one to keep, and hand the
  messages of the other one over.
* `AtMostOnce`: a message that is put off, waits for a connect, is handed from a
  killed connection to another or is resolved again is read once at most.
* `NothingWaitingIsDropped`: what waits for a connect, or for the write before it,
  waits on or is written when the connect completes, turns out to be superfluous,
  or the connection is killed for another one (`transport.cpp:973`).  It is about
  a node that is connected: with the only connection its queue goes as well.

### Bounds

* *Dissemination*: a publisher and two subscribers, a window of two, three
  updates.  Three updates with a window of two is the least in which a window
  does not start at 1, updates arrive on both sides of a window's start, and a
  node can have a gap below its window.  `MaxInFlight = 1` limits only pushes
  and announcements: pulls and their answers come on top, up to two for each
  announcement, so out-of-order pulls happen.  More is what the proofs are for.
* *Liveness of Dissemination*: a publisher and one subscriber, two updates, two
  lost messages (enough to lose a push, then a pull or its answer), no limit on
  messages in flight that the instance could reach.
* *FeedTree*: three nodes in a line and room for one child, so that the tree is
  full at once: forwarding up and down, replacement, CHANGE_PARENT and deeper
  ancestor lists all happen.  Two messages in flight before a timer may add
  another; an OK with its NO_LONGER_YOUR_CHILD, FLUSH and CHANGE_PARENT can
  exceed it.  The depth of the state graph is 41 steps.
* *Liveness of FeedTree*: the same nodes, room for one child, any two faults (a lost
  message, a restart, a wrong suspicion) and the code's own limit on attempts.  A
  CHANGE_PARENT is lost, and reaches nodes with another parent, with none and with
  a restart behind them.  The step of `forward_target` can happen here and ends the
  program, hence `CHECK_DEADLOCK FALSE` and the premise of `TreeRepairs`.
* *Attempts of FeedTree*: the publisher with room for three children and four
  subscribers, the least with which one search can come back three times.
  Nothing is lost and nobody restarts (`CalmSpec`), so that what is found cannot
  be put down to a fault.
* *JoinSchedule*: four feeds, two gradual joins, a separation of two ticks: a
  node sends joins one by one, then the remaining ones together, and can restart
  at each tick.
* *FriendAudit*: one node that audits, restarts and has room for two friends;
  two that answer, one of which changes its filter, the other is asked by a
  stranger for its only place; two candidates.  Two timers at a time are one
  audit and a ping or fetch.  The pool holds both candidates: eviction happens
  only in larger instances (`MaxCandidates = 1`, about a million states), which
  were run for the invariants, and in the proofs.
* *Connections*: two nodes, three connections and three messages: two crossing
  connects with one more after or beside them, from a second resolution or after
  a failure.  One failure, one node that stops.  Traffic is finite, so the
  instance ends; hence `CHECK_DEADLOCK FALSE`.

### Fairness

* `MCDisseminationLive`: messages that are not among the finitely many lost ones
  are delivered, pull timers fire (`Timer` executes every event that is not
  cancelled) and the publisher's pings keep reaching each subscriber (the node
  check reschedules itself).  Subscribers need not publish, push or ping.
* `MCFeedTreeLive`: messages are delivered, timers fire, a node that is offline
  comes back.  Timers are long enough (`rappel_reply_timeout` exceeds a round
  trip): a join timer fires only when no message that could cancel it is under
  way, a ping stays unanswered only if the receiver is offline or does not hold
  the sender to be its parent or child, which is when `receive_ping_req` does
  not answer.  Everything else is a fault, and finitely many faults may happen
  at any time.  Pings need a live node check event.  `take_offline` cancels it
  and a peer that plays another role (a friend) over the restart never gets a
  new one: the run is about nodes whose peers come from the feed alone; the
  hazard at `rappel.cpp:392` is left to the ping module.
  Unanswered pings are strongly fair: a full node is asked again and again, and
  with two messages in flight a ping may be due only now and then.  The bound is
  the model's; the code pings a peer at every heart beat, whatever else is under
  way.
* `MCJoinSchedule`: time passes and the join event fires.
* `MCFriendAudit`: a message is delivered or lost, not under way for ever
  (`Settle`: TCP, or the end of the connection), timers fire (`Timer` executes
  what is not cancelled) and a friend is pinged again and again
  (`timer_periodic_node_check` reschedules itself while the peer is there).
  Pings are strongly fair because the instance has two timer ids; the code has
  as many as it needs, so a ping is never put off for want of one.

### Disagreements with the code's own statements

1. `stale_fetch`: `Feed::cancel_events` drops the pull timers and keeps
   `_missing_entries`; after a restart an update can stay "being fetched" for
   ever (feed.cpp:196-202, 347).
2. `forward_target`: `assert(closest_child != NO_SUCH_NODE)` (rappel.cpp:3186)
   fails when the requester has given up every child of the node it asks.
3. `old_parent`: a shadowing declaration (rappel.cpp:2748) makes a rejoining
   node forget the old parent that it is said to ask first.
4. `attempts`: `assert(attempted[target_node] <= 3)` (rappel.cpp:4875) fails
   without any loss or restart.  Children that have dropped the publisher (a ping
   was late) deny every request; each denial sends the newcomer back to the
   publisher, which passes it on to the next such child.
5. `join_schedule_restart`: `assert(_next_feed_join_event_id != ...)`
   (rappel.cpp:569) fails for a node that is back within the separation time.

`Dissemination` and `FeedTree` keep what the code does in the first four; in
`FeedTree` and `JoinSchedule` a step that would break an assertion is disabled,
as the program ends there.

Three more assertions can fail.  They have no run of their own: `FriendAudit` and
`Connections` take the step and record the assertion in `broken`, and
`AssertionsHold` and `OnlyAttemptsFailIt` say that nothing else can fail, and when
these do.

* A candidate answers that its filter has changed (rappel.cpp:1847-1859, "retry
  audit"): it stays in `_protected_candidates` while the filter is fetched, and the
  reply fails the check of `audit_with` (5195), a lost one that of
  `timer_wait_after_bloom_req` (1532).  The TODO at 1858 sees that the pending
  `next_targets` are lost there, not that the program ends.
* Two resolutions at a time, which the comment at `transport.cpp:889` calls
  harmless, open a second connection to a node that is connected already.  If that
  connect fails, `disconnect` finds the good connection under the node's id and
  `assert(conn == conn2)` (800) fails.  The same happens when the other node has
  connected itself meanwhile.

What else the translation met and keeps, without an assertion or a comment that
says otherwise:

* The "special case" of `Feed::add_entry` (feed.cpp:258-304) has no effect: the
  variable it depends on keeps its initial value.  `AfterSpecialCase` has what the
  code compares, and the proof of `AddEntryEffect` shows that nothing comes of it.
* `take_offline` does not reset `_currently_auditing`: a node that leaves during
  an audit and has no friend to ask again when it is back audits nobody any
  more.  `AuditInProgress` is therefore about nodes that have not been offline.
* A rejoining node sends ADD_FRIEND_REQ to one old friend and then
  REMOVE_FRIEND to all of them, the asked one included: a one-sided friendship
  until its ping is not answered.
* `~(instruction & DONT_SEND_REMOVE_MSG)` (4164) is never zero: the message is
  always sent.
* `remove_old_candidate` looks at `top()` of a queue that may be empty (4384
  ff.); `receive_remove_fan` is never reached, as nobody sends that message.
* The messages that `remap` takes over from a killed connection wait in its
  queue until the next send on the new one, and are overtaken by it; what was
  already written on the killed one may be lost.
* A resolution that completes after `delayed_stop` opens a connection.

## What is proved

Checked by TLAPS, for every set of nodes, every window, every bound.

`DisseminationProofs`.  The inductive invariant `IInv` is the conjunction of the
safety invariants with two that only the proof needs: `Backed` (what a message
in flight says of its sender stays true: the announced window is in the
sender's cache, a pushed update as well) and `CacheKnown` (no cached update is
above `_highest_update_seq`).  `WindowCached` alone is not inductive: a pull
request is answerable because the announcement it follows was true when it was
sent and caches only grow, so the claim has to travel with the message.  The
lemma `AddEntryEffect` says once what `add_entry` does to a consistent feed;
`WindowAdvances` is the arithmetic of moving along a run.  From `IInv` follow
`TypeCorrect`, `WindowIsCached`, `LatestEndsARun`, `PullsCanBeAnswered`,
`FetchesAreTracked`, `FetchesAreUnique`, `PublisherIsTheSource`, the action properties
`NodesNeverGoBack` and `OnlyNewUpdatesArePulled`, and `ImplementsFeedDelivery`:
every step is a publication, the obtaining of one update, or a stutter.
Assumptions: the publisher is a node, the window is positive, `MaxSeq` is a
number.

`JoinScheduleProofs`.  `IInv` adds to the three invariants that a node that was
never online has no feeds.  It gives `TypeCorrect`, `NoFeedIsForgotten`,
`PendingJoinsAreScheduled` and `FeedsAreJoinedGradually`.  Assumptions: finitely
many feeds (the count of pending ones is added to `_num_feed_joins`), a positive
separation.

`FeedTreeProofs`.  The invariants of `FeedTree` are not inductive: each rests on
what a message in flight can be relied on for when it arrives.  `IInv` has four
parts besides the types.  `TreeOK` (a node's children are farther from the
publisher than it is and no more than it may have; its ancestors are a `Path`
that ends in its parent).  `SearchOK` (one timer exactly while seeking; a node
that is online can always go on; and a search by a node that *has* a parent goes
`Downwards` only: it began at an ancestor, nobody has failed in it, and everyone
asked before is closer to the publisher than the one asked now, so the parent,
which is farther than those ancestors and is where such a search stops, is
never asked).  `GoodMsg` (an OK carries the path of a sender that is closer than
the receiver, a FWD names a node between the two, a DENY is never the
publisher's): these claims mention no variable, so delay, reordering, loss
and restarts cannot make them false.  `Bound` (a reply that carries the timer of a
live request comes from the node that request asked), which is what the unique
ids of the event list give.  The lemmas follow the code: `InitiateSearches` says
once what `initiate_feed_join_req` does, `UnchangingKeeps` what a handler does
that does not call it, `PeerHasFailedPreserves` covers `peer_has_failed` for its
callers, `AnswerPreserves` the five outcomes of `receive_feed_join_req`; there is
one lemma per action.  `IInv` gives `TypeCorrect`, `SubscriberNeverStuck`,
`SearchIsUnique`, `AncestryHasNoCycle`, `FanOutIsBounded`, `PublisherCanBeAsked`
and `ParentIsNotAsked`.  Assumptions: distances are distinct and
the publisher is the closest node to itself, at least one child and one attempt
are allowed.

`FriendAuditProofs`.  `IInv` says of each node what its audit state is like by
itself (`Sound`: the filter of every friend is known, a protected candidate that
is known under another role has a filter there, no more friends than allowed, a
node that does not audit has none), how it is tied to its live timers (`Tied`:
at most one timer of an audit, for the node being audited; while a request is
out the protected nodes are those it concerns and there is room for all of them;
without a timer nobody is protected, and while a filter is fetched nobody or the
node that is audited again), and what a message may be relied on for
when it comes (`Matched`: a reply that cancels a live timer comes from the node
that this timer is about and is of its kind; `Net`: a filter that is sent has a
version).  `Matched` is needed because a handler decides by the timer and acts
on the sender.  The helpers have a lemma each about `Sound` and about what they
leave of an audit (`Keeps`), `SendRequest` one about `Matched`; each part
(`Audit`, `AuditWith`, `NextTarget`, `PeerHasFailed`) then one that covers it for
all callers.  `IInv` gives `TypeCorrect`, `AuditsAreUnique`, `AuditsEndByTimer`,
`ProtectionIsExact`, `RoomForFriends` and `OtherAssertionsHold`.  Assumptions:
finitely many nodes, and limits that are positive.

`ConnectionsProofs`.  `IInv` ties manager and connections in both directions
(`Kept`: a connection being opened is the one in progress for its node, an open
one is in the table under its node or its temporary id; and what the table, the
temporary ids and the connects in progress hold is open or being opened, and
leads there), pending messages to a connect (`Awaited`), and connections to the
kernel's (`Linked`).  `ConnectionsKnown` alone is not inductive: two connections
in the table under ids that they are not mapped to would be closed for each
other.  Every handler of a node is shown to preserve `Kept` of that node; what it
does at the other end is to empty a wire, which `Kept` does not see
(`SameShape`).  It gives `TypeCorrect`, `OnlyDisconnectFails`,
`ManagerKnowsConnections`, `NothingWaitsInVain` and, as `Kept` is what `disconnect`
relies on, the action property `EstablishedAreFound`.

`ConnectionMessageProofs`.  What `OneOwner` says of one node is inductive for
no node alone: a message that is read leaves the wire of the other end.  `MInv`
has, for each node and in two views (with what is being written, `out`, and with
what was written and not yet read, `wire`; a message is in both for a while),
that its places hold sequences without repetition that are `Apart`, and apart
from the messages that wait for a resolution; that all of these are the node's
own (`Mine`), so that places of two nodes are apart for free; and that a
connection that has no socket has nothing under way.  The
handlers move messages in three ways only, and there are lemmas for each: a
place gets a new one (`Puts`), one place passes all of its messages to another
(`Passes`), a place loses some.  From `MInv` follow `MessageHasOneOwner` and
the action property `DeliveredAtMostOnce`: what is read is the head of a
sequence without repetition that is apart from every other place, so once it is
off the wire it is nowhere.  `WaitingMessagesAreKept` needs little of
it: that a connection has two different ends; and of `IInv` that the table leads to connections that are open and mapped to the
node asked for, so a queue is emptied only by a handler that writes its head,
hands it over, or leaves the table without the connection.  All three hold for
every number of nodes, connections, failures and stops.

`ConnectionSurvivalProofs`.  `ConnectionSurvives` is about what two nodes decide
alone, each from what it has heard so far.  Its proof says why the rule of
`remap` and `handle_connect` is safe: of two healthy nodes a < b (no failure so
far, neither refuses connections), a never gives up the connection it has chosen
first; b gives one up only for one on which it reads a message of a, and a writes
only on the one it has chosen.  `SInv` has `Joined` (a connection that is made has
two different ends), `Shaped` (an end agrees with its connection on who is at the
other side), and for each such a and b a `Pair`: what a wrote to b and b has not
read is on a's choice (`UsesOnly`); while a node does not know that its connect is
made, nobody uses the other end (`Unanswered`); and either a has `Chosen` a
connection that b has open or will accept, or it is `Undecided`: all that is made
comes from b, and b's choice is one that a has open or will accept.  The steps of
a node are seven kinds (it `Stays` as it is, or `Opens`, `Makes`, `Admits`,
`Quits`, `Learns` who is on a connection, or `Halts`); each kind is shown to keep
a `Pair` when a does it, when b does it and when a third node does
(`OthersKeep`), and every handler to be of one of these kinds.  `OneConnectionIsLeft`
follows for any number of nodes, connections and messages; only the order of ids
is used.

Only model-checked: everything about liveness (`Converges`, `TreeRepairs`,
`AllJoined`, `OneSidedFriendshipEnds`), which is out of the reach of this prover
under fairness.  The safety invariants and action properties of the passing runs
are all proved.  The proofs about `FeedTree` are about runs in which the assertion
`attempted[target_node] <= 3` has not failed, as its failure ends the program.

## Not modelled

* Floating-point coordinates and their update (`coordinate.cpp`), and `vivaldi.cpp`
  around it; topologies, statistics, option parsing, serialisation, offline tools.
* The drivers are the environment: a feed is added while its node is online, a
  publisher publishes while online.
* Of the friend protocol: utility, votes, hashing, the audit period.
* Of the transport: the UDP side, resolution without sending, malformed messages,
  `remote_endpoint` failing in `accept_incoming_connection` (748), handlers that
  were already queued when their socket was closed, the "stopping" notice.
* The several roles of one peer and its single node check; the event list.
* `remove_feed` is not implemented in the code.
* Vendored code: `src/include/asio` is some 32 of the repository's 52 thousand
  lines, and boost's serialisation, MD5 and a Fibonacci heap come on top.  The map
  covers the protocols, which are `rappel.cpp`, `feed.cpp` and the connection
  half of `transport.cpp`; a map of a third of all lines would have to model
  a network library.

The hazards without a property in `PROJECT.json` say what each of them waits for.

## Plan

Written, each with proofs: `Dissemination` with `FeedDelivery`, `FeedTree`,
`JoinSchedule`, `FriendAudit`, `Connections`.  What would add most:

1. `PeerRoles`: roles of a peer, node check, ping request, reply and timer for
   two nodes; shows what the cancelled node check does (`rappel.cpp:392`) and
   justifies `PeerTimeout` and `SendPing`.
2. `EventList`: the event list of `timer.cpp` with an abstract timer, each event
   fires once or is cancelled.
3. `FeedSystem`: `FeedTree` and `Dissemination` composed, pushes along the real
   tree; the assertion of `receive_feed_update` about nodes without a parent.
4. An abstract lossy set of messages that `Connections` implements, which is what
   the protocol modules assume.
5. `VivaldiPing`: pings and syncs of `vivaldi.cpp`, without the arithmetic.
