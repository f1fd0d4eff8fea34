---------------------------- MODULE AgentLedger ----------------------------
(***************************************************************************)
(* What the intake of agent images promises its callers, whatever its      *)
(* checkers do in between: an append-only log of attempts, at most one     *)
(* owner per agent, who was accepted with it and keeps it for ever, and a  *)
(* board of jobs that are settled once, with an attempt of their own.      *)
(***************************************************************************)
EXTENDS Naturals, Sequences

CONSTANTS Miners, Packages, Agents, JobIds, None

VARIABLES
  attempts,  \* the log: [miner, pkg, agent, accepted]
  owner,     \* agent -> miner, or None
  board      \* job -> its state, and the attempt that answered it

vars == <<attempts, owner, board>>

Attempts ==
  [miner : Miners, pkg : Packages, agent : Agents \cup {None}, accepted : BOOLEAN]

Init ==
  /\ attempts = << >>
  /\ owner = [a \in Agents |-> None]
  /\ board = [j \in JobIds |-> [state |-> "absent", by |-> None]]

\* An attempt is logged.
Attempt ==
  /\ \E t \in Attempts : attempts' = Append(attempts, t)
  /\ UNCHANGED <<owner, board>>

\* An agent without an owner is given to a miner who was accepted with it.
Own ==
  /\ \E a \in Agents, i \in DOMAIN attempts :
       /\ owner[a] = None
       /\ attempts[i].accepted /\ attempts[i].agent = a
       /\ owner' = [owner EXCEPT ![a] = attempts[i].miner]
  /\ UNCHANGED <<attempts, board>>

\* A job is posted.
Post ==
  /\ \E j \in JobIds : /\ board[j].state = "absent"
                       /\ board' = [board EXCEPT ![j].state = "pending"]
  /\ UNCHANGED <<attempts, owner>>

\* A pending job is answered by an attempt of its own, or fails.
Settle ==
  /\ \E j \in JobIds, i \in (DOMAIN attempts) \cup {None} :
       /\ board[j].state = "pending"
       /\ \A k \in JobIds : i # None => board[k].by # i
       /\ board' = [board EXCEPT ![j] =
                      [state |-> IF i = None THEN "failed" ELSE "done", by |-> i]]
  /\ UNCHANGED <<attempts, owner>>

Next == Attempt \/ Own \/ Post \/ Settle

Spec == Init /\ [][Next]_vars

=============================================================================
