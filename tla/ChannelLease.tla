---------------------------- MODULE ChannelLease ----------------------------
(***************************************************************************)
(* What the channel accounts plugin promises its users: an execution takes *)
(* a lease on a channel at most once, a channel is leased to one execution *)
(* at a time, and a lease ends.                                            *)
(***************************************************************************)
CONSTANTS Executions, Channels, NoChannel

VARIABLES
  pool,    \* the channels that exist
  lease,   \* the channel each execution holds, or NoChannel
  served   \* the executions that have had their lease

leaseVars == <<pool, lease, served>>

Init ==
  /\ pool = {}
  /\ lease = [i \in Executions |-> NoChannel]
  /\ served = {}

Open(cs) == cs # {} /\ cs \cap pool = {} /\ pool' = pool \cup cs /\ UNCHANGED <<lease, served>>

Acquire(i, c) ==
  /\ i \notin served
  /\ c \in pool
  /\ \A j \in Executions : lease[j] # c
  /\ lease' = [lease EXCEPT ![i] = c]
  /\ served' = served \cup {i}
  /\ UNCHANGED pool

Release(i) ==
  /\ lease[i] # NoChannel
  /\ lease' = [lease EXCEPT ![i] = NoChannel]
  /\ UNCHANGED <<pool, served>>

Next ==
  \/ \E cs \in SUBSET Channels : Open(cs)
  \/ \E i \in Executions : Release(i) \/ \E c \in Channels : Acquire(i, c)

Safety == Init /\ [][Next]_leaseVars

Spec == Safety /\ \A i \in Executions : WF_leaseVars(Release(i))

=============================================================================
