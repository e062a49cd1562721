--------------------------- MODULE ProfilerProofs ---------------------------
(***************************************************************************)
(* The log of the profiler for any number of executions, plugins and ids.  *)
(* A step of this module is a step of ChannelAccountsPlugin or leaves its  *)
(* variables alone, so the pool and the belt keep their invariants.        *)
(***************************************************************************)
EXTENDS Profiler, ChannelAccountsPluginProofs, WellFoundedInduction

\* The profiler is one of the other plugins of the channel plugin's belt.
LEMMA ProfilerStepIsPoolStep == [ProfilerNext]_allVars => [Next]_vars
<1> SUFFICES ASSUME ProfilerNext PROVE [Next]_vars
  BY DEF allVars
<1> USE ProfilerAssumption
<1>1. ASSUME NEW i \in Executions, BesideStep(i) PROVE OtherStep(i)
  BY <1>1 DEF BesideStep, OtherStep
<1>2. ASSUME NEW i \in Executions, ProfilerStarts(i) \/ ProfilerEnds(i) PROVE OtherStep(i)
  BY <1>2 DEF ProfilerStarts, ProfilerEnds, OtherStep
<1>3. ASSUME NEW i \in Executions, InnerBeltsReturn(i) PROVE OtherStep(i)
  BY <1>3 DEF InnerBeltsReturn, OtherStep
<1>4. ASSUME NEW i \in Executions, InnerBelt(i) PROVE UNCHANGED vars
  BY <1>4 DEF InnerBelt
<1>5. CASE ClearLog
  BY <1>5 DEF ClearLog
<1> QED
  BY <1>1, <1>2, <1>3, <1>4, <1>5 DEF ProfilerNext, ProfilerStep, Next

\* The pool beside the profiler is the pool of ChannelAccountsPlugin.
THEOREM ProfilerImplementsPool == ProfilerSpec => Spec
<1>1. ProfilerInit => Init
  BY DEF ProfilerInit
<1> QED
  BY <1>1, ProfilerStepIsPoolStep, PTL DEF ProfilerSpec, Spec

-----------------------------------------------------------------------------
(* The inductive invariant.                                                *)

Started(i) == <<"pre", ProfilerPlugin>> \in ran[i]

\* What the entry of execution i holds while only i writes under its id.
OwnEntry(i) ==
  /\ timers[IdOf[i]] = i
  /\ logs[IdOf[i]].methodName = Method[i]
  /\ logs[IdOf[i]].resources = IF inner[i] > 0 THEN Cost[i] ELSE NoCosts
  /\ logs[IdOf[i]].feeCharged = IF inner[i] > 1 THEN Fee[i] ELSE 0

\* How far the belts of process() are, by the phase of the execution.
InnerAgrees(i) ==
  /\ phase[i] \in {"idle", "pre"} => inner[i] = 0
  /\ phase[i] = "post" => inner[i] = IF i \in SimulateOnly THEN 1 ELSE 2

Ended == {"post", "error", "resolved", "rejected"}

ProfilerTypes ==
  /\ timers \in [Ids -> Executions \cup {NoOne}]
  /\ logs \in [Ids -> Entries \cup {NoEntry}]
  /\ log \in Seq(Logged)
  /\ inner \in [Executions -> 0..2]
  /\ overlapped \in SUBSET Executions

ProfilerInv ==
  /\ ProfilerTypes
  /\ \A i \in Executions : Started(i) => logs[IdOf[i]] # NoEntry
  /\ \A i \in Executions : InFlight(i) /\ i \notin overlapped => OwnEntry(i)
  /\ \A i \in Executions : InFlight(i) => Rivals(i) = {} \/ i \in overlapped
  /\ \A i \in Executions : InnerAgrees(i)
  /\ \A n \in 1..Len(log) : phase[log[n].exec] \in Ended
  /\ EntriesAreOwn

\* An entry of the log is an execution's.
LEMMA LoggedExecutes ==
  ASSUME log \in Seq(Logged), NEW n \in 1..Len(log)
  PROVE  log[n] \in Logged /\ log[n].exec \in Executions
<1>1. log[n] \in Logged
  OBVIOUS
<1> QED
  BY <1>1 DEF Logged

\* The initial state satisfies the invariant.
LEMMA ProfilerInitial == ProfilerInit => ProfilerInv
  BY ProfilerAssumption, PoolAssumption
    DEF ProfilerInit, Init, BeltInit, ProfilerInv, ProfilerTypes, Started, InFlight, Rivals,
        InnerAgrees, EntriesAreOwn

\* An execution that is past its preProcess hooks has been through the profiler's.
LEMMA StartedBefore ==
  ASSUME HookAccounting, NEW i \in Executions, phase[i] \in {"process", "post", "error"}
  PROVE  Started(i) /\ InFlight(i)
<1>1. <<"pre", ProfilerPlugin>> \in Whole("pre")
  BY ProfilerAssumption, PluginsAssumption DEF Whole, Passed, Hooks, Plugins
<1>2. Whole("pre") \subseteq ran[i]
  BY DEF HookAccounting, Hooks, Before
<1> QED
  BY <1>1, <1>2 DEF Started, InFlight, Settled

-----------------------------------------------------------------------------
(* Steps of the belt that are not the profiler's.                          *)

\* No execution is newly in flight, and none goes back.
Quiet ==
  /\ UNCHANGED profilerVars
  /\ \A j \in Executions :
       /\ Started(j)' => Started(j)
       /\ InFlight(j)' => InFlight(j)
       /\ phase'[j] \in {"idle", "pre"} => phase[j] \in {"idle", "pre"}
       /\ phase'[j] = "post" => phase[j] = "post" \/ InnerBeltsReturn(j)
       /\ phase[j] \in Ended => phase'[j] \in Ended

\* A hook of another plugin leaves the profiler's hooks as they were.
LEMMA OtherHookIsQuiet ==
  ASSUME TypeOK, NEW i \in Executions, NEW k \in Plugins \ {ProfilerPlugin},
         HookReturns(i, k) \/ HookThrows(i, k), UNCHANGED profilerVars
  PROVE  Quiet
  BY DEF TypeOK, HookReturns, HookThrows, Quiet, Started, InFlight, Settled, Ended, Hooks, Phases

\* So does a step of execute() outside the hooks.
LEMMA BeltIsQuiet ==
  ASSUME TypeOK, NEW i \in Executions, UNCHANGED profilerVars,
         \/ Execute(i) \/ BeginProcess(i) \/ ProcessThrows(i)
         \/ Resolve(i) \/ RejectProcessed(i)
  PROVE  Quiet
  BY DEF TypeOK, Execute, BeginProcess, ProcessThrows, Resolve, RejectProcessed, Enter,
         Quiet, Started, InFlight, Settled, Ended, Hooks, Phases

\* And the return of process(), which came through its belts.
LEMMA ReturnIsQuiet ==
  ASSUME TypeOK, NEW i \in Executions, InnerBeltsReturn(i)
  PROVE  Quiet
  BY DEF TypeOK, InnerBeltsReturn, ProcessReturns, Enter,
         Quiet, Started, InFlight, Settled, Ended, Hooks, Phases

\* A quiet step keeps the invariant.
LEMMA QuietKeeps == ASSUME ProfilerInv, Quiet PROVE ProfilerInv'
<1> USE DEF Quiet, profilerVars
<1>1. ProfilerTypes'
  BY DEF ProfilerInv, ProfilerTypes
<1>2. \A i \in Executions : Started(i)' => (logs[IdOf[i]] # NoEntry)'
  BY DEF ProfilerInv
<1>3. \A i \in Executions : InFlight(i)' /\ i \notin overlapped' => OwnEntry(i)'
  BY DEF ProfilerInv, OwnEntry
<1>4. \A i \in Executions : InFlight(i)' => Rivals(i)' = {} \/ i \in overlapped'
  BY DEF ProfilerInv, Rivals
<1>5. \A i \in Executions : InnerAgrees(i)'
  BY DEF ProfilerInv, InnerAgrees, InnerBeltsReturn
<1>6. \A n \in 1..Len(log') : phase'[log'[n].exec] \in Ended
  <2>1. \A n \in 1..Len(log) : log[n].exec \in Executions
    BY LoggedExecutes DEF ProfilerInv, ProfilerTypes
  <2> QED
    BY <2>1 DEF ProfilerInv
<1>7. EntriesAreOwn'
  BY DEF ProfilerInv, EntriesAreOwn
<1> QED
  BY <1>1, <1>2, <1>3, <1>4, <1>5, <1>6, <1>7 DEF ProfilerInv

-----------------------------------------------------------------------------
(* Steps of the profiler.                                                  *)

\* preProcess opens an entry of its own, or one that is marked as shared.
LEMMA StartKeeps ==
  ASSUME TypeOK, ProfilerInv, NEW i \in Executions, ProfilerStarts(i)
  PROVE  ProfilerInv'
<1> DEFINE d == IdOf[i]
           opened == [methodName |-> Method[i], status |-> "running",
                      resources |-> NoCosts, feeCharged |-> 0]
<1>1. /\ phase[i] = "pre" /\ phase' = phase
      /\ ran' = [ran EXCEPT ![i] = @ \cup {<<"pre", ProfilerPlugin>>}]
      /\ timers' = [timers EXCEPT ![d] = i] /\ logs' = [logs EXCEPT ![d] = opened]
      /\ overlapped' = overlapped \cup Rivals(i) \cup {j \in {i} : Rivals(i) # {}}
      /\ log' = log /\ inner' = inner
  BY DEF ProfilerStarts, HookReturns
<1>2. opened \in Entries /\ opened # NoEntry /\ \A j \in Executions : IdOf[j] \in Ids
  BY PoolAssumption DEF Entries, NoEntry, Costs, MethodNames
<1>3. /\ Started(i)'
      /\ \A j \in Executions \ {i} : Started(j)' = Started(j) /\ InFlight(j)' = InFlight(j)
  BY <1>1 DEF TypeOK, Started, InFlight, Settled
<1>4. ProfilerTypes'
  BY <1>1, <1>2 DEF ProfilerInv, ProfilerTypes, Rivals
<1>5. \A j \in Executions : Started(j)' => logs'[IdOf[j]] # NoEntry
  BY <1>1, <1>2, <1>3 DEF ProfilerInv, ProfilerTypes
<1>6. ASSUME NEW j \in Executions, InFlight(j)', j \notin overlapped' PROVE OwnEntry(j)'
  <2>1. CASE j = i
    <3>1. inner[i] = 0
      BY <1>1 DEF ProfilerInv, InnerAgrees
    <3> QED
      BY <1>1, <1>2, <2>1, <3>1 DEF OwnEntry, ProfilerInv, ProfilerTypes
  <2>2. CASE j # i
    <3>1. j \notin Rivals(i) /\ j \notin overlapped /\ InFlight(j)
      BY <1>1, <1>3, <1>6, <2>2
    <3>2. IdOf[j] # d
      BY <2>2, <3>1 DEF Rivals
    <3> QED
      BY <1>1, <1>2, <3>1, <3>2 DEF OwnEntry, ProfilerInv, ProfilerTypes
  <2> QED
    BY <2>1, <2>2
<1>7. ASSUME NEW j \in Executions, InFlight(j)', j \notin overlapped' PROVE Rivals(j)' = {}
  <2>1. CASE j = i
    BY <1>1, <1>3, <1>7, <2>1 DEF Rivals
  <2>2. CASE j # i
    <3>1. InFlight(j) /\ j \notin Rivals(i) /\ Rivals(j) = {}
      BY <1>1, <1>3, <1>7, <2>2 DEF ProfilerInv
    <3> QED
      BY <1>3, <2>2, <3>1 DEF Rivals
  <2> QED
    BY <2>1, <2>2
<1>8. \A j \in Executions : InnerAgrees(j)'
  BY <1>1 DEF ProfilerInv, InnerAgrees
<1>9. \A n \in 1..Len(log') : phase'[log'[n].exec] \in Ended
  BY <1>1 DEF ProfilerInv
<1>10. EntriesAreOwn'
  BY <1>1 DEF ProfilerInv, EntriesAreOwn
<1> QED
  BY <1>4, <1>5, <1>6, <1>7, <1>8, <1>9, <1>10 DEF ProfilerInv

\* The extractors the profiler injects reach the belts they are for.
LEMMA ExtractorsListen ==
  ASSUME NEW i \in Executions, NEW belt \in 1..2
  PROVE  Listening(i, belt)
  BY ProfilerAssumption
    DEF Listening, injectPlugins, getInnerPluginsByType, filterPluginsByTypes, Extractors, Belts

\* A belt of process() fills in the entry of its own execution.
LEMMA InnerBeltKeeps ==
  ASSUME TypeOK, HookAccounting, ProfilerInv, NEW i \in Executions, InnerBelt(i)
  PROVE  ProfilerInv'
<1> DEFINE d == IdOf[i]
           belt == inner[i] + 1
<1>0. belt \in 1..2 /\ inner[i] \in Nat
  BY DEF InnerBelt, ProfilerInv, ProfilerTypes
<1>1. /\ phase[i] = "process" /\ UNCHANGED <<phase, ran, timers, log, overlapped>>
      /\ belt <= (IF i \in SimulateOnly THEN 1 ELSE 2)
      /\ inner' = [inner EXCEPT ![i] = belt]
      /\ logs[d] # NoEntry /\ logs' = [logs EXCEPT ![d] = Extracted(@, i, belt)]
  BY <1>0, ExtractorsListen DEF InnerBelt, vars, beltVars
<1>2. belt \in 1..2 /\ logs[d] \in Entries /\ \A j \in Executions : IdOf[j] \in Ids
  BY <1>0, <1>1, PoolAssumption DEF ProfilerInv, ProfilerTypes
<1>3. /\ Extracted(logs[d], i, belt) \in Entries
      /\ Extracted(logs[d], i, belt).methodName = logs[d].methodName
      /\ Extracted(logs[d], i, belt).resources = IF belt = 1 THEN Cost[i] ELSE logs[d].resources
      /\ Extracted(logs[d], i, belt).feeCharged = IF belt = 1 THEN logs[d].feeCharged ELSE Fee[i]
  BY <1>2, ProfilerAssumption DEF Extracted, Entries, Costs
<1>4. InFlight(i) /\ \A j \in Executions : /\ InFlight(j)' = InFlight(j)
                                          /\ Started(j)' = Started(j)
                                          /\ Rivals(j)' = Rivals(j)
  BY <1>1, StartedBefore DEF InFlight, Settled, Started, Rivals
<1>5. ProfilerTypes'
  BY <1>1, <1>2, <1>3 DEF ProfilerInv, ProfilerTypes
<1>6. \A j \in Executions : Started(j)' => logs'[IdOf[j]] # NoEntry
  BY <1>1, <1>2, <1>3, <1>4 DEF ProfilerInv, ProfilerTypes, Entries, NoEntry
<1>7. ASSUME NEW j \in Executions, InFlight(j)', j \notin overlapped' PROVE OwnEntry(j)'
  <2>1. OwnEntry(j) /\ Rivals(j) = {}
    BY <1>1, <1>4, <1>7 DEF ProfilerInv
  <2>2. CASE j = i
    BY <1>1, <1>2, <1>3, <2>1, <2>2 DEF OwnEntry, ProfilerInv, ProfilerTypes
  <2>3. CASE j # i
    <3>1. IdOf[j] # d
      BY <1>4, <2>1, <2>3 DEF Rivals
    <3> QED
      BY <1>1, <1>2, <2>1, <2>3, <3>1 DEF OwnEntry, ProfilerInv, ProfilerTypes
  <2> QED
    BY <2>2, <2>3
<1>8. \A j \in Executions : InFlight(j)' => Rivals(j)' = {} \/ j \in overlapped'
  BY <1>1, <1>4 DEF ProfilerInv
<1>9. \A j \in Executions : InnerAgrees(j)'
  BY <1>1 DEF ProfilerInv, InnerAgrees, ProfilerTypes
<1>10. \A n \in 1..Len(log') : phase'[log'[n].exec] \in Ended /\ log[n].exec # i
  BY <1>1 DEF ProfilerInv, Ended
<1>11. EntriesAreOwn'
  BY <1>1, <1>10 DEF ProfilerInv, ProfilerTypes, EntriesAreOwn
<1> QED
  BY <1>5, <1>6, <1>7, <1>8, <1>9, <1>10, <1>11 DEF ProfilerInv

\* postProcess and processError log the entry as it is.
LEMMA EndKeeps ==
  ASSUME TypeOK, HookAccounting, ProfilerInv, NEW i \in Executions, ProfilerEnds(i)
  PROVE  ProfilerInv'
<1> DEFINE d == IdOf[i]
           status == IF phase[i] = "post" THEN "success" ELSE "error"
           entry == LogOf(i, status)
<1>1. /\ phase[i] \in {"post", "error"} /\ phase' = phase
      /\ ran' = [ran EXCEPT ![i] = @ \cup {<<phase[i], ProfilerPlugin>>}]
      /\ logs[d] # NoEntry /\ logs' = [logs EXCEPT ![d].status = status]
      /\ log' = Append(log, entry)
      /\ UNCHANGED <<timers, inner, overlapped>>
  BY DEF ProfilerEnds, HookReturns
<1>2. logs[d] \in Entries /\ \A j \in Executions : IdOf[j] \in Ids
  BY <1>1, PoolAssumption DEF ProfilerInv, ProfilerTypes
<1>3. /\ logs'[d] \in Entries /\ logs'[d].methodName = logs[d].methodName
      /\ logs'[d].resources = logs[d].resources /\ logs'[d].feeCharged = logs[d].feeCharged
  <2>1. logs'[d] = [logs[d] EXCEPT !.status = status]
    BY <1>1, <1>2 DEF ProfilerInv, ProfilerTypes
  <2>2. status \in {"running", "success", "error"}
    OBVIOUS
  <2> QED
    BY <1>2, <2>1, <2>2 DEF Entries
<1>4. \A e \in Ids : e # d => logs'[e] = logs[e]
  BY <1>1 DEF ProfilerInv, ProfilerTypes
<1>5. InFlight(i) /\ \A j \in Executions : /\ InFlight(j)' = InFlight(j)
                                          /\ Started(j)' = Started(j)
                                          /\ Rivals(j)' = Rivals(j)
  <2>1. InFlight(i)
    BY <1>1, StartedBefore
  <2>2. \A j \in Executions : Started(j)' = Started(j)
    BY <1>1 DEF TypeOK, Started
  <2>3. \A j \in Executions : InFlight(j)' = InFlight(j)
    BY <1>1, <2>2 DEF InFlight, Settled, Started
  <2> QED
    BY <2>1, <2>2, <2>3 DEF Rivals
<1>6. entry \in Logged
  BY <1>2 DEF LogOf, Logged, Entries, ProfilerInv, ProfilerTypes
<1>7. ProfilerTypes'
  <2>1. log' \in Seq(Logged)
    BY <1>1, <1>6 DEF ProfilerInv, ProfilerTypes
  <2>2. logs' \in [Ids -> Entries \cup {NoEntry}]
    BY <1>1, <1>2, <1>3 DEF ProfilerInv, ProfilerTypes
  <2> QED
    BY <1>1, <2>1, <2>2 DEF ProfilerInv, ProfilerTypes
<1>8. \A j \in Executions : Started(j)' => logs'[IdOf[j]] # NoEntry
  BY <1>2, <1>3, <1>4, <1>5 DEF ProfilerInv, Entries, NoEntry
<1>9. \A j \in Executions : InFlight(j)' /\ j \notin overlapped' => OwnEntry(j)'
  BY <1>1, <1>2, <1>3, <1>4, <1>5 DEF ProfilerInv, OwnEntry
<1>10. \A j \in Executions : InFlight(j)' => Rivals(j)' = {} \/ j \in overlapped'
  BY <1>1, <1>5 DEF ProfilerInv
<1>11. \A j \in Executions : InnerAgrees(j)'
  BY <1>1 DEF ProfilerInv, InnerAgrees
<1>12. ASSUME NEW n \in 1..Len(log')
       PROVE  log'[n] = entry \/ (n \in 1..Len(log) /\ log'[n] = log[n])
  BY <1>1, <1>6 DEF ProfilerInv, ProfilerTypes
<1>13. entry.exec = i
  BY DEF LogOf
<1>14. \A n \in 1..Len(log') : phase'[log'[n].exec] \in Ended
  BY <1>1, <1>12, <1>13 DEF ProfilerInv, Ended
<1>15. i \notin overlapped =>
         /\ entry.since = i /\ entry.methodName = Method[i]
         /\ entry.costs = IF inner[i] > 0 THEN Cost[i] ELSE NoCosts
         /\ entry.feeCharged = IF inner[i] > 1 THEN Fee[i] ELSE 0
         /\ entry.status = "success" => inner[i] = IF i \in SimulateOnly THEN 1 ELSE 2
  BY <1>1, <1>5 DEF ProfilerInv, OwnEntry, InnerAgrees, LogOf
<1>16. EntriesAreOwn'
  BY <1>1, <1>12, <1>13, <1>15 DEF ProfilerInv, EntriesAreOwn
<1> QED
  BY <1>7, <1>8, <1>9, <1>10, <1>11, <1>14, <1>16 DEF ProfilerInv

\* Clearing the log disturbs nothing else.
LEMMA ClearKeeps == ASSUME ProfilerInv, ClearLog PROVE ProfilerInv'
<1>1. UNCHANGED <<phase, ran, timers, logs, inner, overlapped>> /\ log' = <<>>
  BY DEF ClearLog, vars, beltVars
<1>2. \A i \in Executions : /\ Started(i)' = Started(i) /\ InFlight(i)' = InFlight(i)
                            /\ Rivals(i)' = Rivals(i)
                            /\ OwnEntry(i)' = OwnEntry(i) /\ InnerAgrees(i)' = InnerAgrees(i)
  BY <1>1 DEF Started, InFlight, Settled, Rivals, OwnEntry, InnerAgrees
<1>3. ProfilerTypes'
  BY <1>1 DEF ProfilerInv, ProfilerTypes
<1>4. EntriesAreOwn'
  BY <1>1 DEF EntriesAreOwn
<1> QED
  BY <1>1, <1>2, <1>3, <1>4 DEF ProfilerInv

-----------------------------------------------------------------------------
(* Reports that split the log.                                             *)

\* Induction over the naturals: among some of them one is the least.
LEMMA LeastNatural ==
  ASSUME NEW B \in SUBSET Nat, B # {}
  PROVE  \E n \in B : \A m \in B : n <= m
<1> DEFINE less == {ss \in Nat \X Nat : ss[1] < ss[2]}
<1>1. IsWellFoundedOn(less, Nat)
  BY NatLessThanWellFounded DEF OpToRel
<1>2. PICK n \in B : \A m \in B : <<m, n>> \notin less
  <2> HIDE DEF less
  <2> QED
    BY <1>1, WFMin
<1>3. ASSUME NEW m \in B, m < n PROVE FALSE
  BY <1>2, <1>3
<1> QED
  BY <1>3

\* f is the running total of v along the positions up to m.
Running(f, v, m) ==
  /\ f \in [0..m -> Nat]
  /\ \A n \in 0..m : f[n] = IF n = 0 THEN 0 ELSE f[n - 1] + v[n]

LEMMA RunningExists ==
  ASSUME NEW v, \A n \in Nat : v[n] \in Nat
  PROVE  \A m \in Nat : \E f : Running(f, v, m)
<1> DEFINE B == {m \in Nat : ~ \E f : Running(f, v, m)}
<1> SUFFICES ASSUME B # {} PROVE FALSE
  OBVIOUS
<1>1. PICK m \in B : \A n \in B : m <= n
  <2> B \in SUBSET Nat
    OBVIOUS
  <2> HIDE DEF B
  <2> QED
    BY LeastNatural
<1>2. CASE m = 0
  <2>1. Running([n \in 0..0 |-> 0], v, 0)
    BY DEF Running
  <2> QED
    BY <1>2, <2>1
<1>3. CASE m # 0
  <2>1. PICK f : Running(f, v, m - 1)
    BY <1>1, <1>3
  <2> DEFINE g == [n \in 0..m |-> IF n = m THEN f[m - 1] + v[m] ELSE f[n]]
  <2>2. g \in [0..m -> Nat]
    BY <1>3, <2>1 DEF Running
  <2>3. ASSUME NEW n \in 0..m PROVE g[n] = IF n = 0 THEN 0 ELSE g[n - 1] + v[n]
    <3>1. n # m => f[n] = IF n = 0 THEN 0 ELSE f[n - 1] + v[n]
      BY <2>1 DEF Running
    <3>2. n # 0 => g[n - 1] = f[n - 1]
      OBVIOUS
    <3>3. g[n] = IF n = m THEN f[m - 1] + v[m] ELSE f[n]
      OBVIOUS
    <3> HIDE DEF g
    <3> QED
      BY <1>3, <3>1, <3>2, <3>3
  <2>4. Running(g, v, m)
    <3> HIDE DEF g
    <3> QED
      BY <2>2, <2>3 DEF Running
  <2> QED
    BY <2>4
<1> QED
  BY <1>2, <1>3

Summands(entries, key) == [n \in Nat |-> Summand(entries, key, n)]

\* A sum is the last of a running total.
LEMMA SumRuns ==
  ASSUME NEW entries, NEW key, Len(log) \in Nat, \A n \in Nat : Summand(entries, key, n) \in Nat
  PROVE  \E f : Running(f, Summands(entries, key), Len(log)) /\ Sum(entries, key) = f[Len(log)]
<1> DEFINE Fits(f) == f = [n \in 0..Len(log) |->
                            IF n = 0 THEN 0 ELSE f[n - 1] + Summand(entries, key, n)]
           total == CHOOSE f : Fits(f)
<1>1. PICK g : Running(g, Summands(entries, key), Len(log))
  BY RunningExists DEF Summands
<1>2. Fits(g)
  <2>1. \A n \in 0..Len(log) : g[n] = IF n = 0 THEN 0 ELSE g[n - 1] + Summand(entries, key, n)
    BY <1>1 DEF Running, Summands
  <2>2. g = [n \in 0..Len(log) |-> g[n]]
    BY <1>1 DEF Running
  <2> QED
    BY <2>1, <2>2
<1>3. Fits(total)
  <2> HIDE DEF Fits
  <2> QED
    BY <1>2
<1>4. Sum(entries, key) = total[Len(log)]
  BY DEF Sum
<1> HIDE DEF total
<1>5. \A n \in 0..Len(log) : total[n] = g[n]
  <2> DEFINE B == {n \in 0..Len(log) : total[n] # g[n]}
  <2> SUFFICES ASSUME B # {} PROVE FALSE
    OBVIOUS
  <2>1. PICK n \in B : \A m \in B : n <= m
    <3> B \in SUBSET Nat
      OBVIOUS
    <3> HIDE DEF B
    <3> QED
      BY LeastNatural
  <2>2. /\ total[n] = IF n = 0 THEN 0 ELSE total[n - 1] + Summand(entries, key, n)
        /\ g[n] = IF n = 0 THEN 0 ELSE g[n - 1] + Summand(entries, key, n)
    BY <1>2, <1>3
  <2>3. n # 0 => total[n - 1] = g[n - 1]
    BY <2>1
  <2> QED
    BY <2>1, <2>2, <2>3
<1> QED
  BY <1>1, <1>4, <1>5

LEMMA SumTyped ==
  ASSUME NEW entries, NEW key, Len(log) \in Nat, \A n \in Nat : Summand(entries, key, n) \in Nat
  PROVE  Sum(entries, key) \in Nat
<1>1. PICK f : Running(f, Summands(entries, key), Len(log)) /\ Sum(entries, key) = f[Len(log)]
  BY SumRuns
<1> QED
  BY <1>1 DEF Running

\* f is the running total of v, g of x, h of y, and v is x and y together.
RunTogether(m, f, v, g, x, h, y) ==
  /\ m \in Nat /\ x \in [Nat -> Nat] /\ y \in [Nat -> Nat]
  /\ \A n \in Nat : v[n] = x[n] + y[n]
  /\ Running(f, v, m) /\ Running(g, x, m) /\ Running(h, y, m)

\* What adds up at each position adds up.
LEMMA RunningAdds ==
  ASSUME NEW L, NEW f, NEW v, NEW g, NEW x, NEW h, NEW y, RunTogether(L, f, v, g, x, h, y)
  PROVE  f[L] = g[L] + h[L]
<1> USE DEF RunTogether
<1> DEFINE B == {n \in 0..L : f[n] # g[n] + h[n]}
<1>1. ASSUME B # {} PROVE FALSE
  <2>1. PICK n \in B : \A m \in B : n <= m
    <3> B \in SUBSET Nat
      OBVIOUS
    <3> HIDE DEF B
    <3> QED
      BY <1>1, LeastNatural
  <2>2. n \in 0..L /\ f[n] # g[n] + h[n]
    OBVIOUS
  <2>3. /\ f[n] = IF n = 0 THEN 0 ELSE f[n - 1] + v[n]
        /\ g[n] = IF n = 0 THEN 0 ELSE g[n - 1] + x[n]
        /\ h[n] = IF n = 0 THEN 0 ELSE h[n - 1] + y[n]
    BY <2>2 DEF Running
  <2>4. n # 0
    BY <2>2, <2>3
  <2>5. n - 1 \in 0..L /\ n - 1 \notin B
    BY <2>1, <2>2, <2>4
  <2>6. f[n - 1] = g[n - 1] + h[n - 1]
    BY <2>5
  <2>7. g[n - 1] \in Nat /\ h[n - 1] \in Nat /\ x[n] \in Nat /\ y[n] \in Nat
    BY <2>2, <2>5 DEF Running
  <2>8. v[n] = x[n] + y[n]
    BY <2>2
  <2> HIDE DEF B
  <2> QED
    BY <2>2, <2>3, <2>4, <2>6, <2>7, <2>8
<1>2. L \in 0..L
  OBVIOUS
<1> QED
  BY <1>1, <1>2

\* What low and high add to a sum is at each position what whole adds.
AddTogether(whole, low, high, key) ==
  \A n \in Nat : /\ Summand(low, key, n) \in Nat /\ Summand(high, key, n) \in Nat
                 /\ Summand(whole, key, n) \in Nat
                 /\ Summand(whole, key, n) = Summand(low, key, n) + Summand(high, key, n)

LEMMA SumsAdd ==
  ASSUME NEW key, Len(log) \in Nat, NEW whole, NEW low, NEW high,
         AddTogether(whole, low, high, key)
  PROVE  Sum(whole, key) = Sum(low, key) + Sum(high, key)
<1> DEFINE v == Summands(whole, key)
           x == Summands(low, key)
           y == Summands(high, key)
           L == Len(log)
<1>1. x \in [Nat -> Nat] /\ y \in [Nat -> Nat] /\ \A n \in Nat : v[n] = x[n] + y[n]
  BY DEF Summands, AddTogether
<1>2. PICK f : Running(f, v, L) /\ Sum(whole, key) = f[L]
  BY SumRuns DEF AddTogether
<1>3. PICK g : Running(g, x, L) /\ Sum(low, key) = g[L]
  BY SumRuns DEF AddTogether
<1>4. PICK h : Running(h, y, L) /\ Sum(high, key) = h[L]
  BY SumRuns DEF AddTogether
<1>5. RunTogether(L, f, v, g, x, h, y)
  <2> HIDE DEF v, x, y
  <2> QED
    BY <1>1, <1>2, <1>3, <1>4 DEF RunTogether
<1>6. f[L] = g[L] + h[L]
  BY <1>5, RunningAdds
<1> QED
  BY <1>2, <1>3, <1>4, <1>6

\* Some entries of the log, at their positions.
Part(entries) ==
  /\ DOMAIN entries \subseteq DOMAIN Clean
  /\ \A n \in DOMAIN entries : entries[n] = Clean[n]

\* What an entry that is reported holds.
LEMMA CleanEntry ==
  ASSUME log \in Seq(Logged), inner \in [Executions -> 0..2], EntriesAreOwn, NEW n \in DOMAIN Clean
  PROVE  /\ n \in 1..Len(log) /\ Clean[n] \in Logged /\ Clean[n].exec \in Executions
         /\ Clean[n].methodName \in MethodNames /\ Clean[n].feeCharged \in Nat
         /\ Clean[n].costs \in Costs
         /\ \/ /\ inner[Clean[n].exec] > 0
               /\ Clean[n].costs = Cost[Clean[n].exec]
            \/ /\ ~ (inner[Clean[n].exec] > 0)
               /\ Clean[n].costs = NoCosts /\ Clean[n].feeCharged = 0
<1>1. n \in 1..Len(log) /\ Clean[n] = log[n] /\ log[n].exec \notin overlapped
  BY DEF Clean
<1>2. log[n] \in Logged /\ log[n].exec \in Executions
  BY <1>1, LoggedExecutes
<1>3. log[n].methodName \in MethodNames /\ log[n].feeCharged \in Nat /\ log[n].costs \in Costs
  BY <1>2 DEF Logged
<1>4. /\ log[n].costs = IF inner[log[n].exec] > 0 THEN Cost[log[n].exec] ELSE NoCosts
      /\ log[n].feeCharged = IF inner[log[n].exec] > 1 THEN Fee[log[n].exec] ELSE 0
  BY <1>1, <1>2 DEF EntriesAreOwn
<1>5. inner[log[n].exec] \in 0..2
  BY <1>2
<1> QED
  BY <1>1, <1>2, <1>3, <1>4, <1>5

\* What an entry adds is a number, also where the resource has no value.
LEMMA ValueTyped ==
  ASSUME NEW e \in Logged, NEW q \in Resources \cup {"feeCharged"}
  PROVE  Value(e, q) \in Nat
<1>1. e.feeCharged \in Nat /\ e.costs \in Costs
  BY DEF Logged
<1>2. /\ q \in DOMAIN e.costs => e.costs[q] \in Nat \cup {Undefined}
      /\ "feeCharged" \notin DOMAIN e.costs
  BY <1>1, ProfilerAssumption DEF Costs, NoCosts
<1>3. CASE q = "feeCharged"
  BY <1>1, <1>2, <1>3 DEF Value
<1>4. CASE q # "feeCharged" /\ q \in DOMAIN e.costs /\ e.costs[q] # Undefined
  BY <1>2, <1>4 DEF Value
<1>5. CASE q # "feeCharged" /\ ~ (q \in DOMAIN e.costs /\ e.costs[q] # Undefined)
  BY <1>5 DEF Value
<1> QED
  BY <1>3, <1>4, <1>5

\* A filter that excludes no resource leaves the entries it keeps as they are.
LEMMA FilterKeeps ==
  ASSUME log \in Seq(Logged), inner \in [Executions -> 0..2], EntriesAreOwn, NEW resources,
         \A r \in DOMAIN resources : ~ Excludes(resources[r])
  PROVE  LET kept == filterLog(Clean, MethodNames, resources)
         IN  /\ Part(kept)
             /\ \A n \in DOMAIN Clean : n \in DOMAIN kept <=> Passes(Clean[n], resources)
<1> DEFINE kept == filterLog(Clean, MethodNames, resources)
<1>1. \A n \in DOMAIN Clean : n \in DOMAIN kept <=> Passes(Clean[n], resources)
  BY CleanEntry DEF filterLog
<1>2. DOMAIN kept \subseteq DOMAIN Clean
  BY DEF filterLog
<1>3. ASSUME NEW n \in DOMAIN kept PROVE kept[n] = Clean[n]
  <2> DEFINE e == Clean[n]
  <2>1. e \in Logged /\ e.costs \in Costs
    BY <1>2, <1>3, CleanEntry
  <2>2. kept[n] = [e EXCEPT !.costs = Included(e, resources)]
    BY <1>3 DEF filterLog
  <2> HIDE DEF e, kept
  <2>3. Included(e, resources) = [x \in DOMAIN e.costs |-> e.costs[x]]
    BY DEF Included
  <2>4. [x \in DOMAIN e.costs |-> e.costs[x]] = e.costs
    BY <2>1 DEF Costs, NoCosts
  <2>5. [e EXCEPT !.costs = e.costs] = e
    BY <2>1 DEF Logged
  <2> QED
    BY <2>2, <2>3, <2>4, <2>5 DEF e
<1> HIDE DEF kept
<1>4. Part(kept)
  BY <1>2, <1>3 DEF Part
<1> QED
  BY <1>1, <1>4 DEF kept

\* The halves at a threshold, and what is in neither.
LEMMA Halves ==
  ASSUME log \in Seq(Logged), inner \in [Executions -> 0..2], EntriesAreOwn,
         NEW r \in Resources, NEW m \in Nat
  PROVE  LET low == filterLog(Clean, MethodNames, AtMost(r, m))
             high == filterLog(Clean, MethodNames, MoreThan(r, m))
             neither == Unvalued(Clean, r)
         IN  /\ Part(Clean) /\ Part(low) /\ Part(high) /\ Part(neither)
             /\ DOMAIN high \cap DOMAIN neither = {}
             /\ \A n \in DOMAIN Clean :
                  \/ Clean[n].costs = NoCosts /\ Clean[n].feeCharged = 0
                  \/ /\ n \in DOMAIN low
                     /\ n \notin DOMAIN high /\ n \notin DOMAIN neither
                  \/ n \notin DOMAIN low /\ (n \in DOMAIN high \/ n \in DOMAIN neither)
<1> DEFINE low == filterLog(Clean, MethodNames, AtMost(r, m))
           high == filterLog(Clean, MethodNames, MoreThan(r, m))
           neither == Unvalued(Clean, r)
<1>1. /\ \A x \in DOMAIN AtMost(r, m) : ~ Excludes(AtMost(r, m)[x])
      /\ \A x \in DOMAIN MoreThan(r, m) : ~ Excludes(MoreThan(r, m)[x])
  BY DEF AtMost, MoreThan, Excludes
<1>2. /\ Part(low) /\ Part(high)
      /\ \A n \in DOMAIN Clean : /\ n \in DOMAIN low <=> Passes(Clean[n], AtMost(r, m))
                                 /\ n \in DOMAIN high <=> Passes(Clean[n], MoreThan(r, m))
  BY <1>1, FilterKeeps
<1>3. /\ Part(neither)
      /\ \A n \in DOMAIN Clean : n \in DOMAIN neither <=>
           inner[Clean[n].exec] > 0 /\ Cost[Clean[n].exec][r] = Undefined
  BY DEF Unvalued, Part
<1>4. ASSUME NEW n \in DOMAIN Clean
      PROVE  LET e == Clean[n]
             IN  /\ Passes(e, AtMost(r, m)) <=>
                      (r \in DOMAIN e.costs => e.costs[r] # Undefined /\ e.costs[r] <= m)
                 /\ Passes(e, MoreThan(r, m)) <=>
                      (r \in DOMAIN e.costs => e.costs[r] # Undefined /\ e.costs[r] >= m + 1)
  BY DEF Passes, AtMost, MoreThan, InRange, Excludes
<1>5. ASSUME NEW n \in DOMAIN Clean,
             ~ (Clean[n].costs = NoCosts /\ Clean[n].feeCharged = 0)
      PROVE  /\ n \in DOMAIN high => n \notin DOMAIN neither
             /\ n \in DOMAIN low => n \notin DOMAIN high /\ n \notin DOMAIN neither
             /\ n \notin DOMAIN low => n \in DOMAIN high \/ n \in DOMAIN neither
  <2> DEFINE i == Clean[n].exec
  <2>1. i \in Executions /\ inner[i] > 0 /\ Clean[n].costs = Cost[i]
    BY <1>5, CleanEntry
  <2>2. r \in DOMAIN Cost[i] /\ Cost[i][r] \in Nat \cup {Undefined} /\ Undefined \notin Nat
    BY <2>1, ProfilerAssumption
  <2>3. n \in DOMAIN neither <=> Cost[i][r] = Undefined
    BY <1>3, <2>1
  <2>4. /\ n \in DOMAIN low <=> Cost[i][r] # Undefined /\ Cost[i][r] <= m
        /\ n \in DOMAIN high <=> Cost[i][r] # Undefined /\ Cost[i][r] >= m + 1
    BY <1>2, <1>4, <2>1, <2>2
  <2> HIDE DEF i, low, high, neither
  <2> QED
    BY <2>2, <2>3, <2>4
<1>6. ASSUME NEW n \in DOMAIN Clean, n \in DOMAIN neither
      PROVE  ~ (Clean[n].costs = NoCosts /\ Clean[n].feeCharged = 0) \/ n \notin DOMAIN high
  <2>1. Clean[n].exec \in Executions /\ Clean[n].costs = Cost[Clean[n].exec]
        /\ Cost[Clean[n].exec][r] = Undefined
    BY <1>3, <1>6, CleanEntry
  <2>2. r \in DOMAIN Clean[n].costs
    BY <2>1, ProfilerAssumption
  <2> QED
    BY <1>2, <1>4, <2>1, <2>2
<1>7. Part(Clean)
  BY DEF Part
<1> HIDE DEF low, high, neither
<1>8. DOMAIN high \subseteq DOMAIN Clean
  BY <1>2 DEF Part
<1>9. DOMAIN high \cap DOMAIN neither = {}
  BY <1>5, <1>6, <1>8
<1>10. \A n \in DOMAIN Clean :
         \/ Clean[n].costs = NoCosts /\ Clean[n].feeCharged = 0
         \/ /\ n \in DOMAIN low
            /\ n \notin DOMAIN high /\ n \notin DOMAIN neither
         \/ n \notin DOMAIN low /\ (n \in DOMAIN high \/ n \in DOMAIN neither)
  BY <1>5
<1> QED
  BY <1>2, <1>3, <1>7, <1>9, <1>10 DEF low, high, neither

\* What one position of a part adds.
LEMMA PartAdds ==
  ASSUME log \in Seq(Logged), inner \in [Executions -> 0..2], EntriesAreOwn,
         NEW entries, Part(entries), NEW q \in Resources \cup {"feeCharged"}, NEW n
  PROVE  /\ Summand(entries, q, n) \in Nat
         /\ Summand(entries, q, n) = IF n \in DOMAIN entries THEN Value(Clean[n], q) ELSE 0
<1>1. n \in DOMAIN entries => n \in DOMAIN Clean /\ entries[n] = Clean[n]
  BY DEF Part
<1>2. n \in DOMAIN entries => Value(Clean[n], q) \in Nat
  BY <1>1, CleanEntry, ValueTyped
<1> QED
  BY <1>1, <1>2 DEF Summand

\* The sums of the halves and of what is in neither add up to that of the whole.
LEMMA SplitSums ==
  ASSUME log \in Seq(Logged), inner \in [Executions -> 0..2], EntriesAreOwn,
         NEW r \in Resources, NEW m \in Nat, NEW q \in Resources \cup {"feeCharged"}
  PROVE  LET low == filterLog(Clean, MethodNames, AtMost(r, m))
             high == filterLog(Clean, MethodNames, MoreThan(r, m))
             neither == Unvalued(Clean, r)
         IN  /\ Sum(Clean, q) = Sum(low, q) + Sum(high, q) + Sum(neither, q)
             /\ Sum(low, q) \in Nat /\ Sum(high, q) \in Nat /\ Sum(neither, q) \in Nat
<1> DEFINE low == filterLog(Clean, MethodNames, AtMost(r, m))
           high == filterLog(Clean, MethodNames, MoreThan(r, m))
           neither == Unvalued(Clean, r)
           rest == [n \in DOMAIN high \cup DOMAIN neither |-> Clean[n]]
<1>1. Len(log) \in Nat
  OBVIOUS
<1>2. /\ Part(Clean) /\ Part(low) /\ Part(high) /\ Part(neither)
      /\ DOMAIN high \cap DOMAIN neither = {}
      /\ \A n \in DOMAIN Clean :
           \/ Clean[n].costs = NoCosts /\ Clean[n].feeCharged = 0
           \/ /\ n \in DOMAIN low
              /\ n \notin DOMAIN high /\ n \notin DOMAIN neither
           \/ n \notin DOMAIN low /\ (n \in DOMAIN high \/ n \in DOMAIN neither)
  BY Halves
<1> HIDE DEF low, high, neither
<1>3. Part(rest)
  BY <1>2 DEF Part
<1>4. DOMAIN rest = DOMAIN high \cup DOMAIN neither
  OBVIOUS
<1> HIDE DEF rest
<1>5. ASSUME NEW n \in Nat
      PROVE  Summand(Clean, q, n) = Summand(low, q, n) + Summand(rest, q, n)
  <2>1. CASE n \notin DOMAIN Clean
    <3>1. n \notin DOMAIN low /\ n \notin DOMAIN rest
      BY <1>2, <1>3, <2>1 DEF Part
    <3> QED
      BY <1>2, <1>3, <2>1, <3>1, PartAdds
  <2>2. CASE n \in DOMAIN Clean /\ Clean[n].costs = NoCosts /\ Clean[n].feeCharged = 0
    <3>1. Value(Clean[n], q) = 0
      BY <2>2 DEF Value, NoCosts
    <3> QED
      BY <1>2, <1>3, <3>1, PartAdds
  <2>3. CASE n \in DOMAIN Clean /\ (n \in DOMAIN low <=> n \notin DOMAIN rest)
    <3>1. Value(Clean[n], q) \in Nat
      BY <2>3, CleanEntry, ValueTyped
    <3>2. /\ Summand(Clean, q, n) = Value(Clean[n], q)
          /\ Summand(low, q, n) = IF n \in DOMAIN low THEN Value(Clean[n], q) ELSE 0
          /\ Summand(rest, q, n) = IF n \in DOMAIN rest THEN Value(Clean[n], q) ELSE 0
      BY <1>2, <1>3, <2>3, PartAdds
    <3> QED
      BY <2>3, <3>1, <3>2
  <2> QED
    BY <1>2, <1>4, <2>1, <2>2, <2>3
<1>6. ASSUME NEW n \in Nat
      PROVE  Summand(rest, q, n) = Summand(high, q, n) + Summand(neither, q, n)
  <2>1. n \in DOMAIN rest => Value(Clean[n], q) \in Nat
    BY <1>3, CleanEntry, ValueTyped DEF Part
  <2> QED
    BY <1>2, <1>3, <1>4, <2>1, PartAdds
<1>7. \A n \in Nat : /\ Summand(Clean, q, n) \in Nat /\ Summand(low, q, n) \in Nat
                     /\ Summand(high, q, n) \in Nat /\ Summand(neither, q, n) \in Nat
                     /\ Summand(rest, q, n) \in Nat
  BY <1>2, <1>3, PartAdds
<1>8. Sum(Clean, q) = Sum(low, q) + Sum(rest, q)
  <2>1. AddTogether(Clean, low, rest, q)
    BY <1>5, <1>7 DEF AddTogether
  <2> QED
    BY <1>1, <2>1, SumsAdd
<1>9. Sum(rest, q) = Sum(high, q) + Sum(neither, q)
  <2>1. AddTogether(rest, high, neither, q)
    BY <1>6, <1>7 DEF AddTogether
  <2> QED
    BY <1>1, <2>1, SumsAdd
<1>10. Sum(low, q) \in Nat /\ Sum(high, q) \in Nat /\ Sum(neither, q) \in Nat
  BY <1>1, <1>7, SumTyped
<1> QED
  BY <1>8, <1>9, <1>10 DEF low, high, neither

\* The totals of a report are of the resources of its first entry.
LEMMA ReportColumns ==
  ASSUME log \in Seq(Logged), inner \in [Executions -> 0..2], EntriesAreOwn,
         NEW entries, Part(entries)
  PROVE  DOMAIN aggregateLog(entries).costs = IF BeginsSimulated(entries) THEN Resources ELSE {}
<1> DEFINE First == {n \in DOMAIN entries : \A k \in DOMAIN entries : n <= k}
<1>1. DOMAIN aggregateLog(entries).costs = UNION {DOMAIN entries[n].costs : n \in First}
  BY DEF aggregateLog, Columns
<1>2. \A n \in First : /\ n \in 1..Len(log)
                       /\ DOMAIN entries[n].costs =
                            IF inner[entries[n].exec] > 0 THEN Resources ELSE {}
  <2> TAKE n \in First
  <2>1. n \in DOMAIN Clean /\ entries[n] = Clean[n]
    BY DEF Part
  <2>2. \A i \in Executions : DOMAIN Cost[i] = Resources
    BY ProfilerAssumption
  <2>3. DOMAIN NoCosts = {}
    BY DEF NoCosts
  <2> QED
    BY <2>1, <2>2, <2>3, CleanEntry
<1>3. \A n, k \in First : n = k
  BY <1>2
<1>4. BeginsSimulated(entries) <=> \E n \in First : inner[entries[n].exec] > 0
  BY DEF BeginsSimulated
<1> HIDE DEF First
<1>5. CASE BeginsSimulated(entries)
  <2>1. PICK n \in First : inner[entries[n].exec] > 0
    BY <1>4, <1>5
  <2>2. {DOMAIN entries[k].costs : k \in First} = {Resources}
    BY <1>2, <1>3, <2>1
  <2> QED
    BY <1>1, <1>5, <2>2
<1>6. CASE ~ BeginsSimulated(entries)
  <2>1. \A D \in {DOMAIN entries[k].costs : k \in First} : D = {}
    BY <1>2, <1>4, <1>6
  <2> QED
    BY <1>1, <1>6, <2>1
<1> QED
  BY <1>5, <1>6

-----------------------------------------------------------------------------
(* The theorems.                                                           *)

\* Every step keeps the invariant.
LEMMA ProfilerPreserved ==
  PoolTypeOK /\ HookAccounting /\ ProfilerInv /\ [ProfilerNext]_allVars => ProfilerInv'
<1> SUFFICES ASSUME PoolTypeOK, HookAccounting, ProfilerInv, [ProfilerNext]_allVars
             PROVE  ProfilerInv'
  OBVIOUS
<1>1. TypeOK
  BY DEF PoolTypeOK
<1>2. ASSUME UNCHANGED <<beltVars, profilerVars>> PROVE ProfilerInv'
  <2>1. Quiet
    BY <1>2 DEF Quiet, beltVars, Started, InFlight, Settled
  <2> QED
    BY <2>1, QuietKeeps
<1>3. ASSUME NEW i \in Executions, BesideStep(i) PROVE ProfilerInv'
  BY <1>1, <1>3, OtherHookIsQuiet, BeltIsQuiet, QuietKeeps DEF BesideStep
<1>4. ASSUME NEW i \in Executions, PluginStep(i), UNCHANGED profilerVars PROVE ProfilerInv'
  <2>1. CASE NoChannelPipeline(i)
    BY <1>2, <1>4, <2>1 DEF NoChannelPipeline
  <2>2. CASE HookReturns(i, ChannelPlugin) \/ HookThrows(i, ChannelPlugin)
    BY <1>1, <1>4, <2>2, OtherHookIsQuiet, QuietKeeps, PoolAssumption, ProfilerAssumption
  <2> QED
    BY <1>4, <2>1, <2>2 DEF PluginStep, AllocateChannel, ReleaseChannel, LockedChannelNotFound
<1>5. ASSUME NEW i \in Executions, ProfilerStep(i) PROVE ProfilerInv'
  BY <1>1, <1>5, StartKeeps, InnerBeltKeeps, ReturnIsQuiet, QuietKeeps, EndKeeps DEF ProfilerStep
<1>6. CASE UNCHANGED allVars
  BY <1>2, <1>6 DEF allVars, vars
<1>7. ASSUME NEW cs \in Batches, RegisterChannels(cs), UNCHANGED profilerVars PROVE ProfilerInv'
  BY <1>2, <1>7 DEF RegisterChannels
<1> QED
  BY <1>3, <1>4, <1>5, <1>6, <1>7, ClearKeeps DEF ProfilerNext

\* The pool's types and the belt's account of its hooks hold beside the profiler.
LEMMA PoolBeside == ProfilerSpec => [](PoolTypeOK /\ HookAccounting /\ PoolDisjoint)
<1>1. PoolInv => PoolTypeOK /\ HookAccounting /\ PoolDisjoint
  BY DEF PoolInv
<1> QED
  BY <1>1, PoolInvariant, ProfilerImplementsPool, PTL

LEMMA ProfilerInvariant == ProfilerSpec => []ProfilerInv
  BY ProfilerInitial, ProfilerPreserved, PoolBeside, PTL DEF ProfilerSpec

\* The profiler's state and the pool's keep their types.
THEOREM ProfilerTypeCorrect == ProfilerSpec => []ProfilerTypeOK
<1>1. ProfilerInv /\ PoolTypeOK => ProfilerTypeOK
  BY DEF ProfilerInv, ProfilerTypes, ProfilerTypeOK
<1> QED
  BY <1>1, ProfilerInvariant, PoolBeside, PTL

\* Whatever interleaves, an entry of the log has the method, time, costs and fee of
\* the execution that logged it, unless another was in flight under its id.
THEOREM LoggedEntriesAreOwn == ProfilerSpec => []EntriesAreOwn
<1>1. ProfilerInv => EntriesAreOwn
  BY DEF ProfilerInv
<1> QED
  BY <1>1, ProfilerInvariant, PTL

\* verifyLogEntry never throws, whatever ids are shared.
THEOREM EntriesAreThere == ProfilerSpec => []EntryNeverMissing
<1>1. ProfilerInv => EntryNeverMissing
  BY DEF ProfilerInv, EntryNeverMissing, InFlight, Started
<1> QED
  BY <1>1, ProfilerInvariant, PTL

\* The report of a part has the sums of it as its totals, or none.
LEMMA ReportTotals ==
  ASSUME log \in Seq(Logged), inner \in [Executions -> 0..2], EntriesAreOwn,
         NEW entries, Part(entries), NEW q \in Resources,
         BeginsSimulated(entries) \/ DOMAIN entries = {}
  PROVE  Total(aggregateLog(entries), q) = Sum(entries, q)
<1>1. CASE BeginsSimulated(entries)
  <2>1. q \in DOMAIN aggregateLog(entries).costs
    BY <1>1, ReportColumns
  <2> QED
    BY <2>1 DEF Total, aggregateLog
<1>2. CASE ~ BeginsSimulated(entries) /\ DOMAIN entries = {}
  <2>1. Total(aggregateLog(entries), q) = 0
    BY <1>2, ReportColumns DEF Total
  <2>2. \A n \in Nat : Summand(entries, q, n) = 0
    BY <1>2 DEF Summand
  <2>3. Sum(entries, q) \in Nat /\ Sum(entries, q) = Sum(entries, q) + Sum(entries, q)
    <3>1. Len(log) \in Nat
      OBVIOUS
    <3> QED
      BY <2>2, <3>1, SumTyped, SumsAdd DEF AddTogether
  <2> QED
    BY <2>1, <2>3
<1> QED
  BY <1>1, <1>2

\* SplitReportsAddUp, for any log of any executions, costs and thresholds: which
\* totals a report has, and that fees and totals of the halves add up.
THEOREM SplitReportsSum == ProfilerSpec => []SplitReportsAddUp
<1>1. ASSUME ProfilerInv PROVE SplitReportsAddUp
  <2>1. log \in Seq(Logged) /\ inner \in [Executions -> 0..2] /\ EntriesAreOwn
    BY <1>1 DEF ProfilerInv, ProfilerTypes
  <2> SUFFICES
        ASSUME NEW r \in Resources, NEW m \in {Cost[i][r] : i \in Executions} \ {Undefined}
        PROVE  LET low == filterLog(Clean, MethodNames, AtMost(r, m))
                   high == filterLog(Clean, MethodNames, MoreThan(r, m))
                   neither == Unvalued(Clean, r)
                   whole == aggregateLog(Clean)
                   below == aggregateLog(low)
                   above == aggregateLog(high)
                   Complete(entries) == BeginsSimulated(entries) \/ DOMAIN entries = {}
               IN  /\ whole.feeCharged =
                        below.feeCharged + above.feeCharged + Sum(neither, "feeCharged")
                   /\ \A entries \in {Clean, low, high} :
                        DOMAIN aggregateLog(entries).costs =
                          IF BeginsSimulated(entries) THEN Resources ELSE {}
                   /\ Complete(Clean) /\ Complete(low) /\ Complete(high) =>
                        \A q \in Resources :
                          Total(whole, q) = Total(below, q) + Total(above, q) + Sum(neither, q)
    BY DEF SplitReportsAddUp
  <2> DEFINE low == filterLog(Clean, MethodNames, AtMost(r, m))
             high == filterLog(Clean, MethodNames, MoreThan(r, m))
             neither == Unvalued(Clean, r)
  <2>2. m \in Nat
    BY ProfilerAssumption
  <2>3. Part(Clean) /\ Part(low) /\ Part(high)
    BY <2>1, <2>2, Halves
  <2>4. \A q \in Resources \cup {"feeCharged"} :
          Sum(Clean, q) = Sum(low, q) + Sum(high, q) + Sum(neither, q)
    BY <2>1, <2>2, SplitSums
  <2> HIDE DEF low, high, neither
  <2>5. \A entries \in {Clean, low, high} :
          DOMAIN aggregateLog(entries).costs = IF BeginsSimulated(entries) THEN Resources ELSE {}
    BY <2>1, <2>3, ReportColumns
  <2>6. \A entries : aggregateLog(entries).feeCharged = Sum(entries, "feeCharged")
    BY DEF aggregateLog
  <2>7. ASSUME NEW q \in Resources,
               BeginsSimulated(Clean) \/ DOMAIN Clean = {},
               BeginsSimulated(low) \/ DOMAIN low = {},
               BeginsSimulated(high) \/ DOMAIN high = {}
        PROVE  Total(aggregateLog(Clean), q) =
                 Total(aggregateLog(low), q) + Total(aggregateLog(high), q) + Sum(neither, q)
    <3>1. /\ Total(aggregateLog(Clean), q) = Sum(Clean, q)
          /\ Total(aggregateLog(low), q) = Sum(low, q)
          /\ Total(aggregateLog(high), q) = Sum(high, q)
      BY <2>1, <2>3, <2>7, ReportTotals
    <3> QED
      BY <2>4, <3>1
  <2>8. aggregateLog(Clean).feeCharged =
          aggregateLog(low).feeCharged + aggregateLog(high).feeCharged
            + Sum(neither, "feeCharged")
    BY <2>4, <2>6
  <2> QED
    BY <2>5, <2>7, <2>8 DEF low, high, neither
<1> QED
  BY <1>1, ProfilerInvariant, PTL

=============================================================================
