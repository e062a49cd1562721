------------------------ MODULE MCChannelTransactions ------------------------
(***************************************************************************)
(* Two transactions on a belt whose only plugin is the channel accounts    *)
(* plugin, over one channel.                                               *)
(***************************************************************************)
EXTENDS ChannelTransactions

CONSTANTS c1, c2, e1, e2

ChannelPluginOnly == [h \in Hooks |-> {1}]
ReleaseThrows == [pre |-> {}, post |-> {1}, error |-> {1}]
OneChannel == {<<c1>>}
FreshIds == [i \in Executions |-> i]
AllSoroban == [i \in Executions |-> "soroban"]

=============================================================================
