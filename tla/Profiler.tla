------------------------------ MODULE Profiler ------------------------------
(***************************************************************************)
(* The profiler plugin on a Soroban transaction pipeline, beside the       *)
(* channel plugin (plugins/soroban-transaction/profiler), the inner belts  *)
(* it listens on (utils/pipeline/multi-belt-pipeline, plugins/helpers) and *)
(* the log it fills (utils/profiler/profiling-handler).                    *)
(*                                                                         *)
(* preProcess opens an entry under the item's id and adds two extractors to*)
(* the item's execution plugins.  They run on the simulate belt and on the *)
(* get transaction belt of process(), under the same id, and write what    *)
(* they extract into the entry.  postProcess or processError copies the    *)
(* entry to the log.  Entries and timers are never removed: an id used     *)
(* again overwrites them.                                                  *)
(*                                                                         *)
(* Time is abstracted to whose start a timer has.  Reports are computed by *)
(* operators over the log; their formatting is left out.                   *)
(***************************************************************************)
EXTENDS ChannelAccountsPlugin, FiniteSets

CONSTANTS
  ProfilerPlugin,    \* position of the plugin on the belt
  PipelinePlugins,   \* options.plugins of the pipeline: a set of names
  ExecutionPlugins,  \* options.executionPlugins of each item, likewise
  TypeOf,            \* plugin name -> its type
  SimulateOnly,      \* the executions with options.simulateOnly
  Method,            \* execution -> name of the method its operation invokes
  Resources,         \* the keys of TransactionResources
  Cost,              \* execution -> what its simulation reports of each resource
  Undefined,         \* no value: what a simulation may report of some of them
  Fee,               \* execution -> the fee its transaction is charged
  NoOne              \* no execution

Belts == <<"SimulateTransactionPipeline", "SorobanGetTransactionPipeline">>
Main == "SorobanTransactionPipeline"

\* The extractors are named as the belt they are for.
Extractors == Belts
MethodNames == {Method[i] : i \in Executions}

-----------------------------------------------------------------------------
(* Which plugin reaches which belt.  Their order there is left out.        *)

filterPluginsByTypes(plugins, types, invertResult) ==
  {p \in plugins : (TypeOf[p] \in types) # invertResult}

\* The constructor.  A generic plugin is a main plugin and an inner one.
MainPlugins == filterPluginsByTypes(PipelinePlugins, {Main, "GenericPlugin"}, FALSE)
InnerPlugins == filterPluginsByTypes(PipelinePlugins, {Main}, TRUE)

getInnerPluginsByType(plugins, type) ==
  filterPluginsByTypes(InnerPlugins \cup plugins, {type, "GenericPlugin"}, FALSE)

ASSUME ProfilerAssumption ==
  /\ ProfilerPlugin \in Plugins \ {ChannelPlugin}
  /\ \A h \in Hooks :
       ProfilerPlugin \in Implements[h] /\ ProfilerPlugin \notin Throws[h]
  /\ N = Cardinality(MainPlugins)
  /\ \A n \in 1..2 : TypeOf[Extractors[n]] = Belts[n]
  /\ SimulateOnly \subseteq Executions
  /\ "feeCharged" \notin Resources
  /\ Undefined \notin Nat
  /\ Cost \in [Executions -> [Resources -> Nat \cup {Undefined}]]
  /\ Fee \in [Executions -> Nat]
  /\ NoOne \notin Executions

-----------------------------------------------------------------------------
VARIABLES
  timers,     \* id -> the execution whose start the timer has
  logs,       \* id -> the plugin's entry; none yet is a status of "none"
  log,        \* the handler's log
  inner,      \* execution -> how many of Belts its process() has been through
  overlapped  \* history: executions in flight with another under their id

profilerVars == <<timers, logs, log, inner, overlapped>>
allVars == <<vars, profilerVars>>

NoCosts == [r \in {} |-> 0]
Costs == {NoCosts} \cup [Resources -> Nat \cup {Undefined}]

Entries == [methodName : MethodNames, status : {"running", "success", "error"},
            resources : Costs, feeCharged : Nat]
NoEntry == [status |-> "none"]

\* An entry of the log; exec, since and status are history: who logged it, whose
\* start its time is measured from, and how its execution ended.
Logged == [exec : Executions, since : Executions \cup {NoOne},
           status : {"success", "error"}, methodName : MethodNames,
           costs : Costs, feeCharged : Nat]

ProfilerTypeOK ==
  /\ PoolTypeOK
  /\ timers \in [Ids -> Executions \cup {NoOne}]
  /\ logs \in [Ids -> Entries \cup {NoEntry}]
  /\ log \in Seq(Logged)
  /\ inner \in [Executions -> 0..2]
  /\ overlapped \in SUBSET Executions

ProfilerInit ==
  /\ Init
  /\ timers = [d \in Ids |-> NoOne]
  /\ logs = [d \in Ids |-> NoEntry]
  /\ log = <<>>
  /\ inner = [i \in Executions |-> 0]
  /\ overlapped = {}

\* The profiler's preProcess has run and the execution has not settled.
InFlight(i) == <<"pre", ProfilerPlugin>> \in ran[i] /\ ~Settled(i)

Rivals(i) == {j \in Executions \ {i} : IdOf[j] = IdOf[i] /\ InFlight(j)}

\* The item that process() gets has been through preProcess.
injectPlugins(i) == ExecutionPlugins[i] \cup {Extractors[n] : n \in 1..2}

\* preProcess: startTimer, createLogEntry and injectPlugins.
ProfilerStarts(i) ==
  /\ phase[i] = "pre"
  /\ HookReturns(i, ProfilerPlugin)
  /\ timers' = [timers EXCEPT ![IdOf[i]] = i]
  /\ logs' = [logs EXCEPT ![IdOf[i]] = [methodName |-> Method[i], status |-> "running",
                                        resources |-> NoCosts, feeCharged |-> 0]]
  /\ overlapped' = overlapped \cup Rivals(i) \cup {j \in {i} : Rivals(i) # {}}
  /\ UNCHANGED <<poolVars, log, inner>>

\* extractResources and extractFeeCharged, after verifyLogEntry.
Extracted(entry, i, belt) ==
  IF belt = 1 THEN [entry EXCEPT !.resources = Cost[i]]
              ELSE [entry EXCEPT !.feeCharged = Fee[i]]

\* The extractor of a belt is among the plugins of the belt.
Listening(i, belt) == Extractors[belt] \in getInnerPluginsByType(injectPlugins(i), Belts[belt])

\* Mutant: the callback writes into the entry opened last.
InnerBeltOfLast(i) ==
  LET belt == inner[i] + 1 IN
  /\ phase[i] = "process"
  /\ belt <= (IF i \in SimulateOnly THEN 1 ELSE 2)
  /\ inner' = [inner EXCEPT ![i] = belt]
  /\ \E d \in Ids : logs[d] # NoEntry /\ logs' = [logs EXCEPT ![d] = Extracted(@, i, belt)]
  /\ UNCHANGED <<vars, timers, log, overlapped>>

\* process() comes through its next belt of the two: to the end of the simulate
\* belt, or to that of the get transaction belt.  A plugin of the belt that
\* throws, or an entry that is missing, makes process() throw (ProcessThrows).
InnerBelt(i) ==
  LET belt == inner[i] + 1 IN
  /\ phase[i] = "process"
  /\ belt <= (IF i \in SimulateOnly THEN 1 ELSE 2)
  /\ inner' = [inner EXCEPT ![i] = belt]
  /\ IF Listening(i, belt)
     THEN /\ logs[IdOf[i]] # NoEntry
          /\ logs' = [logs EXCEPT ![IdOf[i]] = Extracted(@, i, belt)]
     ELSE UNCHANGED logs
  /\ UNCHANGED <<vars, timers, log, overlapped>>

InnerBeltsReturn(i) ==
  /\ inner[i] = (IF i \in SimulateOnly THEN 1 ELSE 2)
  /\ ProcessReturns(i)
  /\ UNCHANGED <<poolVars, profilerVars>>

\* What log() hands to the handler for execution i.
LogOf(i, status) ==
  [exec |-> i, since |-> timers[IdOf[i]], status |-> status,
   methodName |-> logs[IdOf[i]].methodName,
   costs |-> logs[IdOf[i]].resources, feeCharged |-> logs[IdOf[i]].feeCharged]

\* Mutant: the entry is removed once it is logged.
ProfilerEndsAndForgets(i) ==
  LET status == IF phase[i] = "post" THEN "success" ELSE "error" IN
  /\ phase[i] \in {"post", "error"}
  /\ HookReturns(i, ProfilerPlugin)
  /\ logs[IdOf[i]] # NoEntry
  /\ log' = Append(log, LogOf(i, status))
  /\ logs' = [logs EXCEPT ![IdOf[i]] = NoEntry]
  /\ UNCHANGED <<poolVars, timers, inner, overlapped>>

\* postProcess and processError: stopTimer, setStatus and log.
ProfilerEnds(i) ==
  LET status == IF phase[i] = "post" THEN "success" ELSE "error" IN
  /\ phase[i] \in {"post", "error"}
  /\ HookReturns(i, ProfilerPlugin)
  /\ logs[IdOf[i]] # NoEntry
  /\ logs' = [logs EXCEPT ![IdOf[i]].status = status]
  /\ log' = Append(log, LogOf(i, status))
  /\ UNCHANGED <<poolVars, timers, inner, overlapped>>

\* clearLog, or getLog with the option clear.
ClearLog ==
  /\ log # <<>>
  /\ log' = <<>>
  /\ UNCHANGED <<vars, timers, logs, inner, overlapped>>

\* The other steps of execute(), as ChannelAccountsPlugin has them.
BesideStep(i) ==
  /\ \/ Execute(i)
     \/ \E k \in Plugins \ {ChannelPlugin, ProfilerPlugin} :
          HookReturns(i, k) \/ HookThrows(i, k)
     \/ BeginProcess(i)
     \/ ProcessThrows(i)
     \/ Resolve(i)
     \/ RejectProcessed(i)
  /\ UNCHANGED <<poolVars, profilerVars>>

ProfilerStep(i) == ProfilerStarts(i) \/ InnerBelt(i) \/ InnerBeltsReturn(i) \/ ProfilerEnds(i)

ProfilerNext ==
  \/ \E cs \in Batches : RegisterChannels(cs) /\ UNCHANGED profilerVars
  \/ \E i \in Executions : \/ BesideStep(i)
                           \/ PluginStep(i) /\ UNCHANGED profilerVars
                           \/ ProfilerStep(i)
  \/ ClearLog

ProfilerSpec == ProfilerInit /\ [][ProfilerNext]_allVars

-----------------------------------------------------------------------------
(* The reports of the handler: getLog.                                     *)

\* Mutant: the upper bound is exclusive.
InRangeBelow(value, filter) ==
  /\ "min" \in DOMAIN filter => value >= filter.min
  /\ "max" \in DOMAIN filter => value < filter.max

\* The range of a filter, whose bounds are optional.
InRange(value, filter) ==
  /\ "min" \in DOMAIN filter => value >= filter.min
  /\ "max" \in DOMAIN filter => value <= filter.max

\* include is optional and TRUE unless it is given.
Excludes(filter) == "include" \in DOMAIN filter /\ ~ filter.include

\* filterLogByResources drops an entry when a resource it has is out of the range
\* asked for, or has no value; an entry without the resource passes.
Passes(e, resources) ==
  \A r \in DOMAIN resources \cap DOMAIN e.costs :
    Excludes(resources[r]) \/ (e.costs[r] # Undefined /\ InRange(e.costs[r], resources[r]))

\* The resources that a filter does not exclude.
Included(e, resources) ==
  [r \in {q \in DOMAIN e.costs : ~ (q \in DOMAIN resources /\ Excludes(resources[q]))} |->
     e.costs[r]]

\* filterLogByMethods, then filterLogByResources.  An entry keeps its position in
\* the handler's log.
filterLog(entries, methods, resources) ==
  LET passing == {n \in DOMAIN entries : entries[n].methodName \in methods
                                         /\ Passes(entries[n], resources)}
  IN  [n \in passing |-> [entries[n] EXCEPT !.costs = Included(entries[n], resources)]]

\* What an entry adds to a sum: nothing where it has no number.
Value(e, key) ==
  CASE key = "feeCharged" -> e.feeCharged
    [] key \in DOMAIN e.costs /\ e.costs[key] # Undefined -> e.costs[key]
    [] OTHER -> 0

Summand(entries, key, n) == IF n \in DOMAIN entries THEN Value(entries[n], key) ELSE 0

\* performAggregation with the method sum, along the positions of the log.
Sum(entries, key) ==
  LET total[n \in 0..Len(log)] ==
        IF n = 0 THEN 0 ELSE total[n - 1] + Summand(entries, key, n)
  IN  total[Len(log)]

\* The keys of log[0], if there is one.
Columns(entries) ==
  UNION {DOMAIN entries[n].costs : n \in {m \in DOMAIN entries : \A k \in DOMAIN entries : m <= k}}

\* aggregateLog with all resources and the fee summed.
aggregateLog(entries) ==
  [costs |-> [r \in Columns(entries) |-> Sum(entries, r)],
   feeCharged |-> Sum(entries, "feeCharged")]

-----------------------------------------------------------------------------
(* Properties *)

\* The entries of executions that were not in flight with another under their id.
Clean == [n \in {m \in 1..Len(log) : log[m].exec \notin overlapped} |-> log[n]]

\* However executions interleave on the belt and on its inner belts, and whoever
\* had the id before: the entry an execution logs has its own method, time, costs
\* and fee, unless the id was in use.  An execution that process() succeeded for
\* is logged with everything its belts extract, one that failed with what they
\* had extracted (preProcess to log, profiler/index.ts 49-125).
EntriesAreOwn ==
  \A n \in 1..Len(log) :
    LET e == log[n]
        i == e.exec
    IN  i \notin overlapped =>
          /\ e.since = i /\ e.methodName = Method[i]
          /\ e.costs = IF inner[i] > 0 THEN Cost[i] ELSE NoCosts
          /\ e.feeCharged = IF inner[i] > 1 THEN Fee[i] ELSE 0
          /\ e.status = "success" => inner[i] = IF i \in SimulateOnly THEN 1 ELSE 2

\* verifyLogEntry never throws: an extractor, postProcess or processError finds
\* an entry under its id, also when the id is shared.
EntryNeverMissing ==
  \A i \in Executions : InFlight(i) => logs[IdOf[i]] # NoEntry

AtMost(r, m) == [q \in {r} |-> [max |-> m]]
MoreThan(r, m) == [q \in {r} |-> [min |-> m + 1]]

\* The entries of executions whose simulation reported no value of r.
Unvalued(entries, r) ==
  [n \in {m \in DOMAIN entries : inner[entries[m].exec] > 0
                               /\ Cost[entries[m].exec][r] = Undefined} |-> entries[n]]

\* The first execution of the entries came through its simulation.
BeginsSimulated(entries) ==
  \E n \in DOMAIN entries : inner[entries[n].exec] > 0 /\ \A m \in DOMAIN entries : n <= m

Total(report, q) == IF q \in DOMAIN report.costs THEN report.costs[q] ELSE 0

\* Two reports that split the log at a threshold of a resource, and that of the
\* whole.  The fees add up, but for entries whose simulation gave no value of the
\* resource: they are in neither half.  A report has totals of every resource when
\* its first execution came through its simulation, and of none otherwise, whatever
\* the later ones cost: not the "total view of resource usage" of the docs
\* (profiler-plugin.md:257).  Where all three have them, or are empty, each total of
\* the whole is what the halves and the entries in neither add up to.
SplitReportsAddUp ==
  LET clean == Clean
      whole == aggregateLog(clean)
  IN  \A r \in Resources : \A m \in {Cost[i][r] : i \in Executions} \ {Undefined} :
        LET low == filterLog(clean, MethodNames, AtMost(r, m))
            high == filterLog(clean, MethodNames, MoreThan(r, m))
            neither == Unvalued(clean, r)
            below == aggregateLog(low)
            above == aggregateLog(high)
            Complete(entries) == BeginsSimulated(entries) \/ DOMAIN entries = {}
        IN  /\ whole.feeCharged =
                 below.feeCharged + above.feeCharged + Sum(neither, "feeCharged")
            /\ \A entries \in {clean, low, high} :
                 DOMAIN aggregateLog(entries).costs =
                   IF BeginsSimulated(entries) THEN Resources ELSE {}
            /\ Complete(clean) /\ Complete(low) /\ Complete(high) =>
                 \A q \in Resources :
                   Total(whole, q) = Total(below, q) + Total(above, q) + Sum(neither, q)

=============================================================================
