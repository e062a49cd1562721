--------------------- MODULE MCChannelAccountsLifecycle ---------------------
(***************************************************************************)
(* A Soroban transaction and a classic one on a belt whose only plugin is  *)
(* the channel accounts plugin, while one call opens up to two channels    *)
(* and one closes some of them.                                            *)
(***************************************************************************)
EXTENDS ChannelAccountsLifecycle

CONSTANTS c1, c2, e1, e2

ChannelPluginOnly == [h \in Hooks |-> {1}]
ReleaseThrows == [pre |-> {}, post |-> {1}, error |-> {1}]
AnyBatch == {<<c1>>, <<c2>>, <<c1, c2>>}
FreshIds == [i \in Executions |-> i]
OneOfEach == [i \in Executions |-> IF i = e2 THEN "classic" ELSE "soroban"]

=============================================================================
