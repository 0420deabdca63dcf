--------------------------- MODULE MCFeedTreeLive ---------------------------
(* The liveness instance of FeedTree. *)
EXTENDS FeedTree

CONSTANTS p, a, b,
  MaxFaults   \* bound: messages lost, restarts and wrong suspicions

Ranks == [n \in {p, a, b} |-> CASE n = p -> 0 [] n = a -> 1 [] n = b -> 2]

VARIABLE faults

(***************************************************************************)
(* Faults are finitely many.  For the rest the timers are long enough: a   *)
(* message takes less than the reply timeout, so a join timer fires only   *)
(* when nothing that could cancel it is under way, and a ping stays        *)
(* unanswered only when the receiver is offline or does not hold the       *)
(* sender to be its parent or child (receive_ping_req), and nothing under  *)
(* way between the two would change that.                                  *)
(***************************************************************************)
Answerable(n, w) ==
  \E m \in msgs : m.kind \in {"req", "ok", "deny", "fwd"} /\ m.timer = w.timer /\ n \in {m.src, m.dst}

Expires(n) == \E w \in waits[n] : ~Answerable(n, w) /\ JoinReqTimeout(n, w)

PingUnanswered(n, q) ==
  /\ ~ \E m \in msgs : {m.src, m.dst} = {n, q}
  /\ \/ ~online[q]
     \/ parent[n] = q /\ n \notin children[q]
     \/ q \in children[n] /\ parent[q] # n

Suspects(n, q) == PingUnanswered(n, q) /\ PeerTimeout(n, q)

DeliverBetween(s, d) == \E m \in msgs : m.src = s /\ m.dst = d /\ (Deliver(m) \/ (~online[d] /\ Lose(m)))

Fault ==
  \/ \E m \in msgs : Lose(m)
  \/ \E n \in Node : TakeOffline(n)
  \/ \E n, q \in Node : PeerTimeout(n, q)

LiveInit == Init /\ faults = 0

LiveNext ==
  \/ /\ UNCHANGED faults
     /\ \/ \E s, d \in Node : DeliverBetween(s, d)
        \/ \E n \in Node : NextFeedJoin(n) \/ PeriodicRejoin(n) \/ BringOnline(n) \/ Expires(n)
        \/ \E n, q \in Node : Suspects(n, q)
  \/ Fault /\ faults < MaxFaults /\ faults' = faults + 1

(***************************************************************************)
(* When nodes are full somebody asks all the time (a periodic rejoin, a    *)
(* denied node), and with little room for messages a ping may never find   *)
(* the moment in which it is due.  The code has no such bound and pings a  *)
(* peer again at every heart beat: Suspects is strongly fair.              *)
(***************************************************************************)
LiveSpec ==
  /\ LiveInit
  /\ [][LiveNext]_<<vars, faults>>
  /\ \A s, d \in Node : WF_vars(DeliverBetween(s, d))
  /\ \A n \in Node : /\ WF_vars(NextFeedJoin(n))
                     /\ WF_vars(PeriodicRejoin(n))
                     /\ WF_vars(Expires(n))
                     /\ WF_vars(BringOnline(n))
  /\ \A n \in Node : \A q \in Node \ {n} : SF_vars(Suspects(n, q))

(***************************************************************************)
(* Once the faults stop, every subscriber ends up with a parent that holds *)
(* it to be its child, and so is on a path from the publisher: a lost      *)
(* parent, a publisher that restarted, a phantom child or parent left by a *)
(* lost message or a restart is noticed and repaired.  So is what a        *)
(* CHANGE_PARENT leaves behind, by which a full node sends a child away,   *)
(* when it is lost or reaches a node that has another parent by then, has  *)
(* none, or has restarted (receive_feed_join_req,                          *)
(* receive_feed_change_parent).  One of the two assertions that can fail   *)
(* on the way may have ended the program (rappel.cpp:3186 and 4875).       *)
(***************************************************************************)
TreeRepairs ==
  [](ForwardHasTarget /\ AttemptsBounded) =>
    <>[](\A n \in Subscriber : parent[n] # NoNode /\ n \in children[parent[n]])

=============================================================================
