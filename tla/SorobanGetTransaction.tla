------------------------ MODULE SorobanGetTransaction ------------------------
(***************************************************************************)
(* The follow-up of a submitted transaction                                *)
(* (core/pipelines/soroban-get-transaction/index.ts): process() asks the   *)
(* RPC server for the transaction's status, sleeps, doubles the sleep and  *)
(* asks again, until the status is final or a deadline taken from the      *)
(* envelope has passed.                                                    *)
(*                                                                         *)
(* Time is a clock of Second ticks a second.  The deadline is computed in  *)
(* milliseconds from a maxTime and a floor in seconds, so the model keeps  *)
(* fractions of a second.  A poll is two steps, the server's answer and its*)
(* arrival: the clock and the ledger move in between.  One execution; others *)
(* on the same belt share nothing with it.                                 *)
(***************************************************************************)
EXTENDS Naturals

CONSTANTS
  Second,                \* ticks in a second
  MaxTimes,              \* the values timeBounds.maxTime may have; 0 is none
  DefaultSecondsToWait,  \* options.defaultSecondsToWait
  UseEnvelopeTimeout,    \* options.useEnvelopeTimeout
  Starts,                \* the times process() may be called at
  MaxNow                 \* the clock stops here: a bound of the model

ASSUME ClockAssumption ==
  /\ Second \in Nat \ {0}
  /\ MaxTimes \subseteq Nat
  /\ DefaultSecondsToWait \in Nat
  /\ UseEnvelopeTimeout \in BOOLEAN
  /\ Starts \subseteq Nat
  /\ MaxNow \in Nat

VARIABLES
  maxTime,          \* the envelope's last valid second
  pc,               \* where process() is
  now,              \* Date.now()
  start,            \* history: when process() was called
  waitUntil,        \* the deadline
  currentWaitTime,  \* the next sleep
  wakeAt,           \* when the running sleep is over
  answer,           \* updatedTransaction.status
  slept,            \* history: the sum of the sleeps
  chain             \* the status the server would report

pollVars == <<maxTime, start, waitUntil, currentWaitTime, wakeAt, slept>>
vars == <<pc, now, pollVars, answer, chain>>

Statuses == {"NOT_FOUND", "SUCCESS", "FAILED"}
Verdicts == {"returned", "transactionFailed", "transactionNotFound", "rpcError"}

TypeOK ==
  /\ pc \in {"called", "polling", "answered", "sleeping"} \cup Verdicts
  /\ maxTime \in Nat
  /\ now \in Nat /\ start \in Nat /\ waitUntil \in Nat
  /\ currentWaitTime \in Nat /\ wakeAt \in Nat /\ slept \in Nat
  /\ answer \in Statuses
  /\ chain \in Statuses

Init ==
  /\ maxTime \in MaxTimes
  /\ pc = "called"
  /\ now \in Starts
  /\ start = now /\ waitUntil = 0
  /\ currentWaitTime = Second /\ wakeAt = 0 /\ slept = 0
  /\ answer = "NOT_FOUND"
  /\ chain = "NOT_FOUND"

-----------------------------------------------------------------------------
(* The ledger and the clock.                                               *)

\* A ledger closing by maxTime may still include the transaction.
Apply(status) ==
  /\ chain = "NOT_FOUND"
  /\ maxTime > 0 => now \div Second <= maxTime
  /\ chain' = status
  /\ UNCHANGED <<pc, now, pollVars, answer>>

\* process() reads the clock as soon as it is called.
Tick ==
  /\ pc # "called"
  /\ now < MaxNow
  /\ now' = now + 1
  /\ UNCHANGED <<pc, pollVars, answer, chain>>

-----------------------------------------------------------------------------
(* process().                                                              *)

\* getTransactionTimeoutInSeconds: maxTime less the current whole second.  Not
\* positive once the envelope has expired.
EnvelopeTimeoutIsPositive == maxTime > now \div Second

\* Mutant: the default wins over the envelope.
SecondsToWaitDefault == DefaultSecondsToWait

\* getSecondsToWait: the envelope's remaining time if it has any, else the
\* default.
SecondsToWait ==
  IF UseEnvelopeTimeout /\ EnvelopeTimeoutIsPositive
  THEN maxTime - now \div Second
  ELSE DefaultSecondsToWait

\* The deadline is set and the first poll sent.
Begin ==
  /\ pc = "called"
  /\ waitUntil' = now + SecondsToWait * Second
  /\ pc' = "polling"
  /\ UNCHANGED <<maxTime, now, start, currentWaitTime, wakeAt, answer, slept, chain>>

\* The server answers with the status it has now.
ServerAnswers ==
  /\ pc = "polling"
  /\ answer' = chain
  /\ pc' = "answered"
  /\ UNCHANGED <<now, pollVars, chain>>

\* getTransaction rejects: process() does not catch it.
PollFails ==
  /\ pc = "polling"
  /\ pc' = "rpcError"
  /\ UNCHANGED <<now, pollVars, answer, chain>>

KeepPolling == now < waitUntil /\ answer = "NOT_FOUND"

\* Mutant: the deadline is not looked at.
SleepForever ==
  /\ pc = "answered"
  /\ answer = "NOT_FOUND"
  /\ pc' = "sleeping"
  /\ wakeAt' = now + currentWaitTime
  /\ slept' = slept + currentWaitTime
  /\ currentWaitTime' = 2 * currentWaitTime
  /\ UNCHANGED <<maxTime, now, start, waitUntil, answer, chain>>

\* The answer arrives within the deadline and is not final: sleep.  The wait
\* time doubles after the next poll in the code; nothing reads it before.
Sleep ==
  /\ pc = "answered"
  /\ KeepPolling
  /\ pc' = "sleeping"
  /\ wakeAt' = now + currentWaitTime
  /\ slept' = slept + currentWaitTime
  /\ currentWaitTime' = 2 * currentWaitTime
  /\ UNCHANGED <<maxTime, now, start, waitUntil, answer, chain>>

\* The timeout fires, on time or late, and the next poll is sent.
Wake ==
  /\ pc = "sleeping"
  /\ now >= wakeAt
  /\ pc' = "polling"
  /\ UNCHANGED <<now, pollVars, answer, chain>>

\* Mutant: FAILED falls through to the success branch.
ConcludeWithoutFailed ==
  /\ pc = "answered"
  /\ ~KeepPolling
  /\ pc' = IF answer = "NOT_FOUND" THEN "transactionNotFound" ELSE "returned"
  /\ UNCHANGED <<now, pollVars, answer, chain>>

\* Mutant: the status is handed on as it is.
ConcludeReportsStatus ==
  /\ pc = "answered"
  /\ ~KeepPolling
  /\ pc' = answer
  /\ UNCHANGED <<now, pollVars, answer, chain>>

\* Out of the loop: the last answer decides.
Conclude ==
  /\ pc = "answered"
  /\ ~KeepPolling
  /\ pc' = CASE answer = "SUCCESS" -> "returned"
             [] answer = "FAILED" -> "transactionFailed"
             [] answer = "NOT_FOUND" -> "transactionNotFound"
  /\ UNCHANGED <<now, pollVars, answer, chain>>

Process == Begin \/ ServerAnswers \/ PollFails \/ Sleep \/ Wake \/ Conclude

Next == Process \/ Tick \/ \E status \in {"SUCCESS", "FAILED"} : Apply(status)

Spec == Init /\ [][Next]_vars

\* Time passes and the server answers or fails each poll.
FairSpec == Spec /\ WF_vars(Tick) /\ WF_vars(Process)

-----------------------------------------------------------------------------
(* Properties *)

\* A final verdict is the ledger's: SUCCESS is never reported for a transaction
\* that failed or is not applied, and the other way round.
VerdictSound ==
  /\ pc = "returned" => chain = "SUCCESS"
  /\ pc = "transactionFailed" => chain = "FAILED"

\* The doubling sleeps stop: all of them together are less than twice the
\* deadline and one second.  Not once the deadline: the last sleep may start
\* just before it and is as long as all the others.
BackoffBounded == pc # "called" => slept < 2 * (waitUntil - start) + Second

\* transactionNotFound is never thrown while a ledger may still be waited for:
\* the deadline has passed, and with it the envelope's own maxTime unless it
\* had passed already when process() was called.
NotFoundAfterDeadline ==
  pc = "transactionNotFound" =>
    /\ now >= waitUntil
    /\ UseEnvelopeTimeout => now >= maxTime * Second

\* process() ends, however slow each poll is.
PollingEnds == <>(pc \in Verdicts)

=============================================================================
