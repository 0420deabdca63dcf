--------------------------- MODULE Dissemination ---------------------------
(***************************************************************************)
(* One feed of Rappel as its subscribers hold it: every node keeps the     *)
(* updates it has (Feed::_cache), the newest update it can vouch for       *)
(* (_latest_update_seq), the highest it has heard of                       *)
(* (_highest_update_seq), the updates it is fetching (_missing_entries)    *)
(* and the timers of its pull requests (_pull_entry_events).               *)
(*                                                                         *)
(* Updates are pushed from parent to child, and whatever a join reply or a *)
(* ping shows to be missing is pulled.  The dissemination tree is left     *)
(* open: a node pushes to any set of other nodes, and any node may         *)
(* announce its latest update to any other.  The tree itself is the        *)
(* subject of FeedTree.                                                    *)
(*                                                                         *)
(* Messages in flight are a set: they arrive in any order or not at all (a *)
(* node that is offline drops what it is sent, and a message queued on a   *)
(* TCP connection that breaks is never resent).                            *)
(***************************************************************************)
EXTENDS Integers, FiniteSets

CONSTANTS
  Node,          \* the subscribers of the feed, its publisher among them
  Publisher,
  UpdatesCache,  \* globops.rappel_feed_updates_cache: how many updates back a node pulls
  MaxSeq,        \* bound: the publisher stops after this many updates
  MaxInFlight    \* bound: no push or announcement is added beyond this many messages

ASSUME PublisherAssumption == Publisher \in Node
ASSUME UpdatesCacheAssumption == UpdatesCache \in Nat \ {0}
ASSUME MaxSeqAssumption == MaxSeq \in Nat

VARIABLES
  online,   \* Node::_is_rappel_online
  cache,    \* the sequence numbers in Feed::_cache
  latest,   \* Feed::_latest_update_seq
  highest,  \* Feed::_highest_update_seq
  missing,  \* Feed::_missing_entries, as pairs <<seq, node it is pulled from>>
  pulls,    \* the live timers of Feed::_pull_entry_events, as such pairs
  msgs      \* messages in flight

feedVars == <<cache, latest, highest, missing>>
vars == <<online, cache, latest, highest, missing, pulls, msgs>>

Seqs == 1..MaxSeq

Message == [kind : {"announce", "pull", "update"}, src : Node, dst : Node, seq : 0..MaxSeq]

Msg(kind, src, dst, seq) == [kind |-> kind, src |-> src, dst |-> dst, seq |-> seq]

(***************************************************************************)
(* The window of updates that reach back from s: the last UpdatesCache     *)
(* ones.  Sequence numbers start at 1.                                     *)
(***************************************************************************)
WindowStartUnclamped(s) == s - UpdatesCache + 1

WindowStart(s) == IF s >= UpdatesCache THEN s - UpdatesCache + 1 ELSE 1

Window(s) == WindowStart(s)..s

(***************************************************************************)
(* Feed::add_entry.                                                        *)
(*                                                                         *)
(* earliest_contiguous_update starts at MAGIC_NUM, and the loop that would *)
(* set it compares it with -1, so it still is MAGIC_NUM when the code      *)
(* looks it up in the cache.                                               *)
(***************************************************************************)
EarliestContiguous == -100

\* the first advance: to s, when s and all of its window are there
AfterWindowUnchecked(l, s, c) == IF s > l THEN s ELSE l

AfterWindow(l, s, c) == IF s > l /\ Window(s) \subseteq c THEN s ELSE l

\* the second: "Attempt #1 to handle the special case described above"
AfterSpecialCase(l, s, c) ==
  IF l < s /\ EarliestContiguous \in c THEN EarliestContiguous + UpdatesCache ELSE l

\* the third: e is where the run of cached updates that follows l ends
ContiguousEndStays(l, c, e) == e = l

ContiguousEnd(l, c, e) ==
  /\ l <= e
  /\ (l + 1)..e \subseteq c
  /\ e + 1 \notin c

AddEntryBackwards(n, s) ==
  /\ cache' = [cache EXCEPT ![n] = @ \cup {s}]
  /\ missing' = [missing EXCEPT ![n] = {p \in @ : p[1] # s}]
  /\ highest' = [highest EXCEPT ![n] = IF s > @ THEN s ELSE @]
  /\ latest' = [latest EXCEPT ![n] = IF Window(s) \subseteq cache[n] \cup {s} THEN s ELSE @]

AddEntry(n, s) ==
  \/ /\ s \in cache[n]
     /\ UNCHANGED feedVars
  \/ /\ s \notin cache[n]
     /\ cache' = [cache EXCEPT ![n] = @ \cup {s}]
     /\ missing' = [missing EXCEPT ![n] = {p \in @ : p[1] # s}]
     /\ highest' = [highest EXCEPT ![n] = IF s > @ THEN s ELSE @]
     /\ \E e \in 0..MaxSeq :
          /\ LET c == cache[n] \cup {s}
             IN  ContiguousEnd(AfterSpecialCase(AfterWindow(latest[n], s, c), s, c), c, e)
          /\ latest' = [latest EXCEPT ![n] = e]

(***************************************************************************)
(* Feed::send_entry_to_children: n's children are any set of other nodes.  *)
(* MaxInFlight only ever makes that set smaller.                           *)
(***************************************************************************)
Push(n, s, inFlight) ==
  \E children \in SUBSET (Node \ {n}) :
    /\ children = {} \/ Cardinality(inFlight) + Cardinality(children) <= MaxInFlight
    /\ msgs' = inFlight \cup {Msg("update", n, c, s) : c \in children}

-----------------------------------------------------------------------------

Init ==
  /\ online = [n \in Node |-> TRUE]
  /\ cache = [n \in Node |-> {}]
  /\ latest = [n \in Node |-> 0]
  /\ highest = [n \in Node |-> 0]
  /\ missing = [n \in Node |-> {}]
  /\ pulls = [n \in Node |-> {}]
  /\ msgs = {}

\* Rappel::publish_update; the drivers publish only while the publisher is online
PublishAfterHighest ==
  /\ online[Publisher]
  /\ highest[Publisher] + 2 \in Seqs
  /\ AddEntry(Publisher, highest[Publisher] + 2)
  /\ Push(Publisher, highest[Publisher] + 2, msgs)
  /\ UNCHANGED <<online, pulls>>

Publish ==
  /\ online[Publisher]
  /\ latest[Publisher] < MaxSeq
  /\ AddEntry(Publisher, latest[Publisher] + 1)
  /\ Push(Publisher, latest[Publisher] + 1, msgs)
  /\ UNCHANGED <<online, pulls>>

\* last_update_seq in a ping request, a ping reply or a join reply from n to d
AnnounceHighest(n, d) ==
  /\ online[n]
  /\ n # d
  /\ Cardinality(msgs) < MaxInFlight
  /\ msgs' = msgs \cup {Msg("announce", n, d, highest[n])}
  /\ UNCHANGED <<online, cache, latest, highest, missing, pulls>>

Announce(n, d) ==
  /\ online[n]
  /\ n # d
  /\ Cardinality(msgs) < MaxInFlight
  /\ msgs' = msgs \cup {Msg("announce", n, d, latest[n])}
  /\ UNCHANGED <<online, cache, latest, highest, missing, pulls>>

(***************************************************************************)
(* Feed::request_missing_entries and pull_entry: what n pulls when it      *)
(* learns that another node has s.                                         *)
(***************************************************************************)
ToPullEvenIfFetched(n, s) == {u \in Window(s) : latest[n] <= s /\ u \notin cache[n]}

ToPullEvenIfOld(n, s) == {u \in Window(s) : u \notin cache[n] /\ ~ \E p \in missing[n] : p[1] = u}

ToPull(n, s) ==
  {u \in Window(s) : /\ latest[n] <= s
                     /\ u \notin cache[n]
                     /\ ~ \E p \in missing[n] : p[1] = u}

\* the receiver of a join reply, ping request or ping reply
ReceiveAnnounce(m) ==
  /\ m \in msgs
  /\ m.kind = "announce"
  /\ online[m.dst]
  /\ LET n == m.dst
         wanted == ToPull(n, m.seq)
     IN  /\ highest' = [highest EXCEPT ![n] = IF m.seq > @ THEN m.seq ELSE @]
         /\ missing' = [missing EXCEPT ![n] = @ \cup {<<u, m.src>> : u \in wanted}]
         /\ pulls' = [pulls EXCEPT ![n] = @ \cup {<<u, m.src>> : u \in wanted}]
         /\ msgs' = (msgs \ {m}) \cup {Msg("pull", n, m.src, u) : u \in wanted}
  /\ UNCHANGED <<online, cache, latest>>

\* Rappel::receive_feed_update_pull_req
ReceivePull(m) ==
  /\ m \in msgs
  /\ m.kind = "pull"
  /\ online[m.dst]
  /\ msgs' = (msgs \ {m}) \cup {Msg("update", m.dst, m.src, m.seq)}
  /\ UNCHANGED <<online, cache, latest, highest, missing, pulls>>

\* Rappel::receive_feed_update; an update is passed on even when it is not new
ReceiveUpdate(m) ==
  /\ m \in msgs
  /\ m.kind = "update"
  /\ online[m.dst]
  /\ AddEntry(m.dst, m.seq)
  /\ Push(m.dst, m.seq, msgs \ {m})
  /\ UNCHANGED <<online, pulls>>

(***************************************************************************)
(* Rappel::timer_wait_after_feed_update_pull_req with                      *)
(* Feed::mark_pull_as_failed.  The timer is not cancelled by the answer;   *)
(* it finds the update in the cache and does nothing.  (What the failure   *)
(* of the peer does to its roles is FeedTree's.)                           *)
(***************************************************************************)
PullTimeoutKeepsMissing(n, p) ==
  /\ p \in pulls[n]
  /\ pulls' = [pulls EXCEPT ![n] = @ \ {p}]
  /\ UNCHANGED <<online, cache, latest, highest, missing, msgs>>

PullTimeout(n, p) ==
  /\ p \in pulls[n]
  /\ pulls' = [pulls EXCEPT ![n] = @ \ {p}]
  /\ missing' = [missing EXCEPT ![n] = IF p[1] \in cache[n] THEN @ ELSE {q \in @ : q[1] # p[1]}]
  /\ UNCHANGED <<online, cache, latest, highest, msgs>>

\* Rappel::take_offline with Feed::cancel_events: the timers go, the rest stays
TakeOfflineForgetsMissing(n) ==
  /\ online[n]
  /\ online' = [online EXCEPT ![n] = FALSE]
  /\ missing' = [missing EXCEPT ![n] = {}]
  /\ UNCHANGED <<cache, latest, highest, pulls, msgs>>

TakeOffline(n) ==
  /\ online[n]
  /\ online' = [online EXCEPT ![n] = FALSE]
  /\ pulls' = [pulls EXCEPT ![n] = {}]
  /\ UNCHANGED <<cache, latest, highest, missing, msgs>>

\* Rappel::bring_online_now: of the feed's updates nothing changes
BringOnline(n) ==
  /\ ~online[n]
  /\ online' = [online EXCEPT ![n] = TRUE]
  /\ UNCHANGED <<cache, latest, highest, missing, pulls, msgs>>

\* Node::msg_callback drops what reaches an offline node; a connection may break
Lose(m) ==
  /\ m \in msgs
  /\ msgs' = msgs \ {m}
  /\ UNCHANGED <<online, cache, latest, highest, missing, pulls>>

Deliver(m) == ReceiveAnnounce(m) \/ ReceivePull(m) \/ ReceiveUpdate(m)

\* the steps of nodes that stay up, with a transport that delivers
UpNext ==
  \/ Publish
  \/ \E n, d \in Node : Announce(n, d)
  \/ \E m \in msgs : Deliver(m)
  \/ \E n \in Node : \E p \in pulls[n] : PullTimeout(n, p)

Next ==
  \/ UpNext
  \/ \E n \in Node : TakeOffline(n) \/ BringOnline(n)
  \/ \E m \in msgs : Lose(m)

Spec == Init /\ [][Next]_vars

-----------------------------------------------------------------------------

(* Every variable holds values of its type; the code's own form of this is  *)
(* assert(_latest_update_seq <= _highest_update_seq) in Feed::add_entry.    *)
TypeOK ==
  /\ online \in [Node -> BOOLEAN]
  /\ cache \in [Node -> SUBSET Seqs]
  /\ latest \in [Node -> 0..MaxSeq]
  /\ highest \in [Node -> 0..MaxSeq]
  /\ missing \in [Node -> SUBSET (Seqs \X Node)]
  /\ pulls \in [Node -> SUBSET (Seqs \X Node)]
  /\ msgs \subseteq Message
  /\ \A n \in Node : latest[n] <= highest[n]

(* A node that announces update s can hand over the last UpdatesCache       *)
(* updates up to s: its cache has the whole window below                    *)
(* _latest_update_seq, whatever order, from whomever and after how many     *)
(* restarts they came.                                                      *)
WindowCached == \A n \in Node : Window(latest[n]) \subseteq cache[n]

(* _latest_update_seq is the end of a run: the update after it is missing.  *)
(* publish_update relies on it, numbering the next update latest + 1.       *)
NextIsMissing == \A n \in Node : latest[n] + 1 \notin cache[n]

(* assert(_cache.find(seq_num) != _cache.end()) in Feed::send_entry: a pull *)
(* request reaches no node that cannot answer it, however stale the         *)
(* announcement that led to it.                                             *)
PullAnswerable == \A m \in msgs : m.kind = "pull" => m.seq \in cache[m.dst]

(* The assertions of Feed::mark_pull_as_failed: when a pull timer fires and *)
(* the update is not there, _missing_entries names exactly the node that    *)
(* the timer is for.                                                        *)
PullTimerTracked ==
  \A n \in Node : \A p \in pulls[n] : p[1] \in cache[n] \/ p \in missing[n]

(* "pull entry only if missing (and only if its not being fetched           *)
(* currently)", Feed::request_missing_entries: no update is being fetched   *)
(* from two nodes, and none that is already there is being fetched.         *)
OneFetchPerUpdate ==
  \A n \in Node :
    /\ \A p \in missing[n] : p[1] \notin cache[n]
    /\ \A p, q \in missing[n] \cup pulls[n] : p[1] = q[1] => p = q

(* Updates come from the publisher only, which has all of them and never    *)
(* pulls one: no node, message or fetch refers to an update it has not      *)
(* published.                                                               *)
PublisherIsSource ==
  /\ cache[Publisher] = 1..latest[Publisher]
  /\ missing[Publisher] = {}
  /\ \A n \in Node : highest[n] <= latest[Publisher]
  /\ \A m \in msgs : m.seq <= latest[Publisher]

(* assert(seq_num > _latest_update_seq) in Feed::pull_entry: no node asks   *)
(* for an update at or below the one it vouches for.                        *)
PullsAreNew ==
  [][\A n \in Node : \A p \in pulls'[n] \ pulls[n] : p[1] > latest[n]]_vars

(* A node never goes back: no update leaves the cache, and neither counter  *)
(* decreases, over restarts and stale announcements too.                    *)
NeverGoesBack ==
  [][\A n \in Node :
       cache[n] \subseteq cache'[n] /\ latest[n] <= latest'[n] /\ highest[n] <= highest'[n]]_vars

(* The feed as FeedDelivery promises it: no gap in the numbers of the       *)
(* publisher, every other update obtained from a node that has it.          *)
Promise == INSTANCE FeedDelivery WITH published <- latest[Publisher], got <- cache

KeepsPromise == Promise!Spec

(* "being fetched currently", feed.cpp:347: while a node is online, an      *)
(* entry it holds to be in the course of being fetched has a pull timer,    *)
(* which frees it should the answer never come.                             *)
FetchHasTimer == \A n \in Node : online[n] => missing[n] \subseteq pulls[n]

=============================================================================
