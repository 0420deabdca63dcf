------------------------- MODULE MCDisseminationLive -------------------------
(* The liveness instance of Dissemination. *)
EXTENDS Dissemination

CONSTANTS MaxLost   \* bound: messages the transport loses

(***************************************************************************)
(* The liveness run: nodes stay up, the transport loses at most MaxLost    *)
(* messages and delivers every other one, timers fire, and the publisher's *)
(* pings keep reaching each subscriber.                                    *)
(***************************************************************************)
VARIABLE lost

LiveInit == Init /\ lost = 0

LiveNext ==
  \/ UpNext /\ UNCHANGED lost
  \/ \E m \in msgs : Lose(m) /\ lost < MaxLost /\ lost' = lost + 1

LiveSpec ==
  /\ LiveInit
  /\ [][LiveNext]_<<vars, lost>>
  /\ \A m \in Message : WF_vars(Deliver(m))
  /\ \A n \in Node : \A p \in Seqs \X Node : WF_vars(PullTimeout(n, p))
  /\ \A n \in Node \ {Publisher} : WF_vars(Announce(Publisher, n))

(* Every subscriber ends up with the last UpdatesCache updates published,   *)
(* although pushes, pull requests and answers get lost: a lost fetch is     *)
(* given up by its timer and asked for again after the next ping.           *)
Converges ==
  <>[](\A n \in Node : Window(latest[Publisher]) \subseteq cache[n])

=============================================================================
