---------------------------- MODULE RaftRestart -----------------------------
(***************************************************************************)
(* The Raft core with processes that crash and start again.  Nothing in    *)
(* raft-rust writes a file: a process starts from RaftNode::new, whatever  *)
(* the node of that id had promised before.  What the relay holds stays.   *)
(***************************************************************************)
EXTENDS Raft

CONSTANT MaxRestarts    \* bound: how often processes restart, all together

VARIABLE restarts

rvars == <<vars, restarts>>

RInit == Init /\ restarts = 0

Restart(i) ==
    /\ restarts < MaxRestarts
    /\ restarts' = restarts + 1
    /\ current_term' = [current_term EXCEPT ![i] = 0]
    /\ voted_for' = [voted_for EXCEPT ![i] = None]
    /\ leader_id' = [leader_id EXCEPT ![i] = None]
    /\ log' = [log EXCEPT ![i] = <<Sentinel>>]
    /\ BecomeFollower(i)
    /\ committed_index' = [committed_index EXCEPT ![i] = 0]
    /\ last_applied' = [last_applied EXCEPT ![i] = 0]
    /\ applied' = [applied EXCEPT ![i] = <<>>]
    /\ UNCHANGED <<msgs, history>>

RNext ==
    \/ Next /\ UNCHANGED restarts
    \/ \E i \in Node : Restart(i)

RSpec == RInit /\ [][RNext]_rvars
=============================================================================
