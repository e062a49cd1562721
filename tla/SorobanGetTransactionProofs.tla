--------------------- MODULE SorobanGetTransactionProofs ---------------------
(***************************************************************************)
(* Safety of the polling loop for every clock, envelope and timeout option.*)
(***************************************************************************)
EXTENDS SorobanGetTransaction, TLAPS

\* The whole second a time is in, and what is left of it.
LEMMA WholeSeconds ==
  ASSUME NEW t \in Nat
  PROVE  /\ t \div Second \in Nat
         /\ (t \div Second) * Second <= t
  BY ClockAssumption, Z3

\* The time to wait is a whole number of seconds.
LEMMA SecondsToWaitNatural == TypeOK => SecondsToWait \in Nat
<1> SUFFICES ASSUME TypeOK PROVE SecondsToWait \in Nat
  OBVIOUS
<1>1. now \div Second \in Nat /\ maxTime \in Nat
  BY WholeSeconds DEF TypeOK
<1> QED
  BY <1>1, ClockAssumption DEF SecondsToWait, EnvelopeTimeoutIsPositive

\* What the loop knows: the next sleep is the sum of the sleeps so far and one
\* second, the sleeps so far fit in the time that has passed or is being slept,
\* and a sleep started before the deadline.
Backoff ==
  /\ pc = "called" => slept = 0 /\ start = now
  /\ currentWaitTime = slept + Second
  /\ pc # "called" => start <= now /\ start <= waitUntil
  /\ pc \notin {"called", "sleeping"} => slept <= now - start
  /\ pc = "sleeping" => slept <= wakeAt - start /\ start <= wakeAt
  /\ pc # "called" => slept < 2 * (waitUntil - start) + Second

\* The deadline is not before the envelope's maxTime, unless the envelope was
\* out of time when the wait began.
Deadline ==
  /\ (pc # "called" /\ UseEnvelopeTimeout) =>
        (waitUntil >= maxTime * Second \/ start >= maxTime * Second)
  /\ pc = "transactionNotFound" => now >= waitUntil

\* An answer never contradicts the ledger.
AnswerFromChain == answer = "NOT_FOUND" \/ answer = chain

Inv == TypeOK /\ Backoff /\ Deadline /\ AnswerFromChain /\ VerdictSound

\* The call satisfies the invariant.
LEMMA Initial == Init => Inv
  BY ClockAssumption
    DEF Init, Inv, TypeOK, Backoff, Deadline, AnswerFromChain, VerdictSound, Statuses, Verdicts

\* A deadline taken from the envelope is not before its maxTime.
LEMMA DeadlineCoversEnvelope ==
  ASSUME TypeOK, Begin, UseEnvelopeTimeout
  PROVE  waitUntil' >= maxTime * Second \/ now >= maxTime * Second
<1> DEFINE q == now \div Second
<1>1. q \in Nat /\ now \in Nat /\ maxTime \in Nat /\ Second \in Nat \ {0}
  BY WholeSeconds, ClockAssumption DEF TypeOK
<1>2. q * Second <= now
  BY WholeSeconds DEF TypeOK
<1>3. waitUntil' = now + SecondsToWait * Second
  BY DEF Begin
<1> HIDE DEF q
<1>4. CASE maxTime > q
  <2>1. SecondsToWait = maxTime - q
    BY <1>4 DEF SecondsToWait, EnvelopeTimeoutIsPositive, q
  <2>2. (maxTime - q) * Second = maxTime * Second - q * Second
    BY <1>1
  <2> QED
    BY <1>1, <1>2, <1>3, <2>1, <2>2
<1>5. CASE maxTime <= q
  <2>1. maxTime * Second <= q * Second
    BY <1>1, <1>5
  <2> QED
    BY <1>1, <1>2, <2>1
<1> QED
  BY <1>1, <1>4, <1>5

\* Every step keeps the invariant.
LEMMA Preserved == Inv /\ [Next]_vars => Inv'
<1> SUFFICES ASSUME Inv, [Next]_vars PROVE Inv'
  OBVIOUS
<1> USE ClockAssumption
    DEF Inv, TypeOK, Backoff, Deadline, AnswerFromChain, VerdictSound, Statuses, Verdicts, pollVars
<1>1. CASE Begin
  <2>1. SecondsToWait * Second \in Nat
    BY SecondsToWaitNatural
  <2>2. waitUntil' \in Nat /\ now <= waitUntil'
    BY <1>1, <2>1 DEF Begin
  <2>3. UseEnvelopeTimeout =>
          waitUntil' >= maxTime * Second \/ now >= maxTime * Second
    BY <1>1, DeadlineCoversEnvelope
  <2> QED
    BY <1>1, <2>2, <2>3 DEF Begin
<1>2. CASE ServerAnswers
  BY <1>2 DEF ServerAnswers
<1>3. CASE PollFails
  BY <1>3 DEF PollFails
<1>4. CASE Sleep
  BY <1>4 DEF Sleep, KeepPolling
<1>5. CASE Wake
  BY <1>5 DEF Wake
<1>6. CASE Conclude
  BY <1>6 DEF Conclude, KeepPolling
<1>7. CASE Tick
  BY <1>7 DEF Tick
<1>8. ASSUME NEW status \in {"SUCCESS", "FAILED"}, Apply(status) PROVE Inv'
  BY <1>8 DEF Apply
<1>9. CASE UNCHANGED vars
  BY <1>9 DEF vars
<1> QED
  BY <1>1, <1>2, <1>3, <1>4, <1>5, <1>6, <1>7, <1>8, <1>9 DEF Next, Process

\* The invariant holds throughout.
LEMMA Invariant == Spec => []Inv
  BY Initial, Preserved, PTL DEF Spec

\* The polling state is always well typed.
THEOREM TypeCorrect == Spec => []TypeOK
<1>1. Inv => TypeOK
  BY DEF Inv
<1> QED
  BY <1>1, Invariant, PTL

\* A transaction is reported successful or failed only when the ledger says so.
THEOREM VerdictsAreSound == Spec => []VerdictSound
<1>1. Inv => VerdictSound
  BY DEF Inv
<1> QED
  BY <1>1, Invariant, PTL

\* Exponential backoff overshoots the deadline by less than the deadline and
\* one second, for every timeout.
THEOREM BackoffIsBounded == Spec => []BackoffBounded
<1>1. Inv => BackoffBounded
  BY DEF Inv, Backoff, BackoffBounded
<1> QED
  BY <1>1, Invariant, PTL

\* Polling is never given up before the envelope's maxTime.
THEOREM NotFoundIsLate == Spec => []NotFoundAfterDeadline
<1>1. Inv => NotFoundAfterDeadline
  <2> SUFFICES ASSUME Inv, pc = "transactionNotFound", UseEnvelopeTimeout
               PROVE  now >= maxTime * Second
    BY DEF NotFoundAfterDeadline, Inv, Deadline
  <2>1. maxTime * Second \in Nat
    BY ClockAssumption DEF Inv, TypeOK
  <2> QED
    BY <2>1 DEF Inv, TypeOK, Backoff, Deadline
<1> QED
  BY <1>1, Invariant, PTL

=============================================================================
