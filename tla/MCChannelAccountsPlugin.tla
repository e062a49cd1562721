----------------------- MODULE MCChannelAccountsPlugin -----------------------
(***************************************************************************)
(* Three executions, three plugins with the channel plugin in the middle,  *)
(* and two channels that are registered one by one, or together.           *)
(***************************************************************************)
EXTENDS ChannelAccountsPlugin

CONSTANTS c1, c2, e1, e2, e3

MCImplements == [pre |-> {1, 2, 3}, post |-> {1, 2, 3}, error |-> {2, 3}]

\* Plugin 1 may throw before the allocation, plugin 3 after the release.
SafeThrows == [pre |-> {1}, post |-> {2, 3}, error |-> {2, 3}]

\* Plugin 3 may throw in preProcess, plugin 1 in postProcess.
UnsafeThrows == [pre |-> {1, 3}, post |-> {1, 2}, error |-> {2}]

MCBatches == {<<c1>>, <<c2>>, <<c1, c2>>}

FreshIds == [i \in Executions |-> i]

=============================================================================
