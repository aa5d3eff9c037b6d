--------------------------- MODULE KgslWaitProofs ---------------------------
(***************************************************************************)
(* Proofs of the safety of wait_timestamp_safe() (mesa/patches/0001), for  *)
(* any number of waiting threads, any timeouts and any bounds.             *)
(***************************************************************************)
EXTENDS KgslWait, Induction

-----------------------------------------------------------------------------
(* The operators of the code *)

\* get_relative_ms stays within an int and, unless it clamps, is less than a
\* millisecond short of the time that is left.
LEMMA RelativeMsBounds ==
  ASSUME NEW l \in Nat
  PROVE  /\ RelativeMs(l) \in 0 .. MaxMs
         /\ RelativeMs(l) # MaxMs => l < RelativeMs(l) * UnitsPerMs + UnitsPerMs
<1> USE ConstAssumption DEF ConstAssumption
<1>1. /\ l \div UnitsPerMs \in Nat
      /\ l < (l \div UnitsPerMs) * UnitsPerMs + UnitsPerMs
  OBVIOUS
<1>2. QED BY <1>1 DEF RelativeMs

\* The timeout that never shrinks is clamped.
LEMMA ForeverIsClamped == RelativeMs(Forever) = MaxMs
<1> USE ConstAssumption DEF ConstAssumption
<1>1. Forever \div UnitsPerMs >= MaxMs
  <2> DEFINE q == Forever \div UnitsPerMs
  <2>1. q \in Nat /\ Forever < q * UnitsPerMs + UnitsPerMs
    OBVIOUS
  <2>2. q * UnitsPerMs + UnitsPerMs = (q + 1) * UnitsPerMs
    BY <2>1
  <2>3. MaxMs * UnitsPerMs < (q + 1) * UnitsPerMs
    BY <2>1, <2>2
  <2>4. MaxMs < q + 1
    <3>1. SUFFICES ASSUME q + 1 <= MaxMs PROVE FALSE
      BY <2>1
    <3>2. (q + 1) * UnitsPerMs <= MaxMs * UnitsPerMs
      BY <2>1, <3>1
    <3>3. QED BY <2>1, <2>3, <3>2
  <2>5. QED BY <2>1, <2>4
<1>2. Forever \div UnitsPerMs \in Nat
  OBVIOUS
<1>3. QED BY <1>1, <1>2 DEF RelativeMs

\* The lowest timestamp of a non-empty set is one of them, and none is lower.
LEMMA LowestIsLeast ==
  ASSUME NEW S \in SUBSET Timestamps, S # {}
  PROVE  Lowest(S) \in S /\ \A x \in S : Lowest(S) <= x
<1>1. MaxTs \in Nat /\ S \in SUBSET (0 .. MaxTs)
  BY ConstAssumption DEF ConstAssumption, Timestamps
<1>2. \E x \in S : \A y \in S : x <= y
  BY <1>1, LeastExists
<1>3. QED BY <1>2 DEF Lowest

\* What the callers ask for is a non-empty set of timestamps.
LEMMA SubmittedIsTimestamp ==
  ASSUME TypeOK
  PROVE  1 .. submitted \subseteq Timestamps
BY ConstAssumption DEF ConstAssumption, TypeOK, Timestamps

\* Starting a wait keeps the types.
LEMMA BeginTypes ==
  ASSUME TypeOK, NEW t \in Waiters, NEW S \in SUBSET Timestamps, S # {},
         NEW d \in 0 .. Forever, Begin(t, S, d)
  PROVE  TypeOK'
<1>1. Lowest(S) \in 0 .. MaxTs
  <2>1. Lowest(S) \in Timestamps
    BY LowestIsLeast
  <2>2. Timestamps \subseteq 0 .. MaxTs
    BY ConstAssumption DEF Timestamps, ConstAssumption
  <2>3. QED BY <2>1, <2>2
<1>2. RelativeMs(d) \in 0 .. MaxMs
  BY RelativeMsBounds, ConstAssumption DEF ConstAssumption
<1>3. calls' \in 0 .. MaxCalls
  BY ConstAssumption DEF ConstAssumption, TypeOK, Begin
<1>4. QED BY <1>1, <1>2, <1>3 DEF TypeOK, Begin, deviceVars, Results

\* So does returning from one.
LEMMA FinishTypes ==
  ASSUME TypeOK, NEW t \in Waiters, NEW answer \in Results, Finish(t, answer)
  PROVE  TypeOK'
BY ConstAssumption DEF ConstAssumption, TypeOK, Finish, deviceVars, bounds, Errno

\* Every state has the types of TypeOK: the timestamps waited for are ones that
\* were submitted, wait.timeout fits the int, the GPU is never ahead.
THEOREM TypeCorrect == Spec => []TypeOK
<1>1. Init => TypeOK
  BY ConstAssumption DEF ConstAssumption, Init, TypeOK, Errno, Results
<1>2. TypeOK /\ [Next]_vars => TypeOK'
  <2> SUFFICES ASSUME TypeOK, [Next]_vars PROVE TypeOK'
    OBVIOUS
  <2>1. ASSUME NEW t \in Waiters, QueueWaitFence(t) PROVE TypeOK'
    <3>1. PICK f \in 1 .. submitted, d \in Timeouts : Begin(t, {f}, FenceDeadline(d))
      BY <2>1 DEF QueueWaitFence
    <3>2. {f} \in SUBSET Timestamps /\ FenceDeadline(d) \in 0 .. Forever
      BY SubmittedIsTimestamp, ConstAssumption DEF ConstAssumption, FenceDeadline
    <3>3. QED BY <3>1, <3>2, BeginTypes
  <2>2. ASSUME NEW t \in Waiters, SyncobjWait(t) PROVE TypeOK'
    <3>1. PICK f \in Timestamps, d \in Timeouts :
            \/ f > submitted /\ Immediately(t, "TIMEOUT")
            \/ f <= submitted /\ Begin(t, {f}, d)
      BY <2>2 DEF SyncobjWait
    <3>2. CASE Immediately(t, "TIMEOUT")
      BY <3>2, ConstAssumption DEF ConstAssumption, TypeOK, Immediately, deviceVars, Results
    <3>3. CASE Begin(t, {f}, d)
      <4>1. d \in 0 .. Forever
        BY ConstAssumption DEF ConstAssumption
      <4>2. QED BY <3>3, <4>1, BeginTypes
    <3>4. QED BY <3>1, <3>2, <3>3
  <2>3. ASSUME NEW t \in Waiters, SyncobjWaitAny(t) PROVE TypeOK'
    <3>1. PICK S \in SUBSET (1 .. submitted), d \in Timeouts :
            Cardinality(S) > 1 /\ Begin(t, S, d)
      BY <2>3 DEF SyncobjWaitAny
    <3>2. S # {}
      BY <3>1, FS_EmptySet
    <3>3. S \in SUBSET Timestamps /\ d \in 0 .. Forever
      BY SubmittedIsTimestamp, ConstAssumption DEF ConstAssumption
    <3>4. QED BY <3>1, <3>2, <3>3, BeginTypes
  <2>4. ASSUME NEW t \in Waiters, LockAndWait(t) PROVE TypeOK'
    BY <2>4, ConstAssumption DEF ConstAssumption, TypeOK, LockAndWait, deviceVars, bounds
  <2>5. ASSUME NEW t \in Waiters, WakeAndUnlock(t) PROVE TypeOK'
    <3>1. signals' \in 0 .. MaxSignals
      BY <2>5, ConstAssumption DEF ConstAssumption, TypeOK, WakeAndUnlock, KernelAnswers, Broken
    <3>2. QED BY <2>5, <3>1 DEF TypeOK, WakeAndUnlock, deviceVars
  <2>6. ASSUME NEW t \in Waiters, CheckRetry(t) PROVE TypeOK'
    <3>1. RelativeMs(left[t]) \in 0 .. MaxMs
      BY RelativeMsBounds, ConstAssumption DEF ConstAssumption, TypeOK
    <3>2. QED BY <2>6, <3>1 DEF TypeOK, CheckRetry, deviceVars, bounds
  <2>7. ASSUME NEW t \in Waiters, CheckExpired(t) \/ CheckDone(t) PROVE TypeOK'
    BY <2>7, FinishTypes DEF CheckExpired, CheckDone, Results
  <2>8. CASE Submit
    BY <2>8, ConstAssumption
    DEF ConstAssumption, TypeOK, Submit, threadVars, bounds
  <2>9. CASE Retire
    BY <2>9, ConstAssumption
    DEF ConstAssumption, TypeOK, Retire, threadVars, bounds
  <2>10. CASE Break
    BY <2>10 DEF TypeOK, Break, threadVars, bounds
  <2>11. CASE Tick
    <3>1. ASSUME NEW n \in 0 .. Forever PROVE Countdown(n) \in 0 .. Forever
      BY ConstAssumption DEF ConstAssumption, Countdown
    <3>2. left' \in [Waiters -> 0 .. Forever]
      BY <2>11, <3>1 DEF TypeOK, Tick
    <3>3. timer' \in [Waiters -> Nat]
      BY <2>11 DEF TypeOK, Tick
    <3>4. QED BY <2>11, <3>2, <3>3 DEF TypeOK, Tick, deviceVars, bounds
  <2>12. CASE UNCHANGED vars
    BY <2>12 DEF TypeOK, vars, threadVars, deviceVars, bounds
  <2>13. QED
    BY <2>1, <2>2, <2>3, <2>4, <2>5, <2>6, <2>7, <2>8, <2>9, <2>10, <2>11, <2>12
    DEF Next, Call, Check
<1>3. QED BY <1>1, <1>2, PTL DEF Spec

-----------------------------------------------------------------------------
(* Mutual exclusion *)

\* Only LockAndWait takes the mutex and enters the ioctl, only WakeAndUnlock
\* leaves both.
LEMMA MutexStep == TypeOK /\ MutexCoversIoctl /\ [Next]_vars => MutexCoversIoctl'
<1> SUFFICES ASSUME TypeOK, MutexCoversIoctl, [Next]_vars PROVE MutexCoversIoctl'
  OBVIOUS
<1> USE ConstAssumption DEF ConstAssumption, TypeOK, MutexCoversIoctl
<1>1. ASSUME NEW t \in Waiters, Call(t) PROVE MutexCoversIoctl'
  BY <1>1 DEF Call, QueueWaitFence, SyncobjWait, SyncobjWaitAny, Begin, Immediately
<1>2. ASSUME NEW t \in Waiters, LockAndWait(t) PROVE MutexCoversIoctl'
  BY <1>2 DEF LockAndWait
<1>3. ASSUME NEW t \in Waiters, WakeAndUnlock(t) PROVE MutexCoversIoctl'
  BY <1>3 DEF WakeAndUnlock
<1>4. ASSUME NEW t \in Waiters, Check(t) PROVE MutexCoversIoctl'
  BY <1>4 DEF Check, CheckRetry, CheckExpired, CheckDone, Finish
<1>5. CASE Submit \/ Retire \/ Break \/ Tick
  BY <1>5 DEF Submit, Retire, Break, Tick, threadVars
<1>6. CASE UNCHANGED vars
  BY <1>6 DEF vars, threadVars
<1>7. QED BY <1>1, <1>2, <1>3, <1>4, <1>5, <1>6 DEF Next

\* A thread is in the ioctl exactly while it holds submit_mutex.
THEOREM MutualExclusion == Spec => []MutexCoversIoctl
<1>1. Init => MutexCoversIoctl
  BY ConstAssumption DEF ConstAssumption, Init, MutexCoversIoctl
<1>2. QED BY <1>1, MutexStep, TypeCorrect, PTL DEF Spec

\* A wait sees EDEADLK only on a context that is broken: with the mutex held no
\* other thread is in the ioctl, and the context stays broken.
THEOREM DetectorNotTripped == Spec => []NoSelfDeadlock
<1>1. Init => NoSelfDeadlock
  BY DEF Init, NoSelfDeadlock
<1>2. TypeOK /\ MutexCoversIoctl /\ NoSelfDeadlock /\ [Next]_vars => NoSelfDeadlock'
  <2> SUFFICES ASSUME TypeOK, MutexCoversIoctl, NoSelfDeadlock, [Next]_vars
               PROVE  NoSelfDeadlock'
    OBVIOUS
  <2> USE DEF TypeOK, NoSelfDeadlock
  <2>1. ASSUME NEW t \in Waiters, Call(t) PROVE NoSelfDeadlock'
    BY <2>1
    DEF Call, QueueWaitFence, SyncobjWait, SyncobjWaitAny, Begin, Immediately, deviceVars
  <2>2. ASSUME NEW t \in Waiters, LockAndWait(t) PROVE NoSelfDeadlock'
    BY <2>2 DEF LockAndWait, deviceVars
  <2>3. ASSUME NEW t \in Waiters, WakeAndUnlock(t) PROVE NoSelfDeadlock'
    <3>1. ~ConcurrentWait(t)
      BY <2>3 DEF WakeAndUnlock, ConcurrentWait, MutexCoversIoctl
    <3>2. errno'[t] = "EDEADLK" => context = "EDEADLK"
      BY <2>3, <3>1 DEF WakeAndUnlock, KernelAnswers
    <3>3. QED BY <2>3, <3>2 DEF WakeAndUnlock, deviceVars
  <2>4. ASSUME NEW t \in Waiters, Check(t) PROVE NoSelfDeadlock'
    BY <2>4 DEF Check, CheckRetry, CheckExpired, CheckDone, Finish, deviceVars
  <2>5. CASE Submit \/ Retire \/ Tick
    BY <2>5 DEF Submit, Retire, Tick, threadVars, deviceVars
  <2>6. CASE Break
    BY <2>6 DEF Break, threadVars
  <2>7. CASE UNCHANGED vars
    BY <2>7 DEF vars, threadVars, deviceVars
  <2>8. QED BY <2>1, <2>2, <2>3, <2>4, <2>5, <2>6, <2>7 DEF Next
<1>3. QED BY <1>1, <1>2, TypeCorrect, MutualExclusion, PTL DEF Spec

-----------------------------------------------------------------------------
(* What a wait waits for *)

\* The timestamp given to the kernel is the lowest of those asked for, and a
\* kernel that answered without error had retired it.
WaitsForLowest ==
    \A t \in Waiters :
        /\ pc[t] # "idle" => ts[t] \in want[t] /\ \A x \in want[t] : ts[t] <= x
        /\ (pc[t] = "check" /\ errno[t] = "OK") => ts[t] <= retired

\* A call enters the loop with the lowest of the timestamps it was given.
LEMMA BeginWaitsForLowest ==
  ASSUME TypeOK, WaitsForLowest, NEW t \in Waiters,
         NEW S \in SUBSET Timestamps, S # {}, NEW d, Begin(t, S, d)
  PROVE  WaitsForLowest'
<1>1. Lowest(S) \in S /\ \A x \in S : Lowest(S) <= x
  BY LowestIsLeast
<1>2. QED BY <1>1 DEF TypeOK, WaitsForLowest, Begin, deviceVars

\* No step makes a wait forget it: want and ts change together, and the GPU
\* never takes a retired timestamp back.
LEMMA WaitsForLowestStep == TypeOK /\ WaitsForLowest /\ [Next]_vars => WaitsForLowest'
<1> SUFFICES ASSUME TypeOK, WaitsForLowest, [Next]_vars PROVE WaitsForLowest'
  OBVIOUS
<1>1. ASSUME NEW t \in Waiters, Call(t) PROVE WaitsForLowest'
  <2>1. ASSUME NEW S \in SUBSET (1 .. submitted), S # {}, NEW d, Begin(t, S, d)
        PROVE  WaitsForLowest'
    BY <2>1, SubmittedIsTimestamp, BeginWaitsForLowest
  <2>2. CASE QueueWaitFence(t)
    BY <2>1, <2>2 DEF QueueWaitFence
  <2>3. CASE SyncobjWait(t)
    <3>1. PICK f \in Timestamps, d \in Timeouts :
            \/ Immediately(t, "TIMEOUT")
            \/ f <= submitted /\ Begin(t, {f}, d)
      BY <2>3 DEF SyncobjWait
    <3>2. CASE Immediately(t, "TIMEOUT")
      BY <3>2 DEF WaitsForLowest, Immediately, deviceVars
    <3>3. CASE f <= submitted /\ Begin(t, {f}, d)
      BY <3>3, BeginWaitsForLowest
    <3>4. QED BY <3>1, <3>2, <3>3
  <2>4. CASE SyncobjWaitAny(t)
    <3>1. PICK S \in SUBSET (1 .. submitted), d \in Timeouts :
            Cardinality(S) > 1 /\ Begin(t, S, d)
      BY <2>4 DEF SyncobjWaitAny
    <3>2. S # {}
      BY <3>1, FS_EmptySet
    <3>3. QED BY <2>1, <3>1, <3>2
  <2>5. QED BY <1>1, <2>2, <2>3, <2>4 DEF Call
<1>2. ASSUME NEW t \in Waiters, LockAndWait(t) PROVE WaitsForLowest'
  BY <1>2 DEF TypeOK, WaitsForLowest, LockAndWait, deviceVars
<1>3. ASSUME NEW t \in Waiters, WakeAndUnlock(t) PROVE WaitsForLowest'
  <2>1. errno'[t] = "OK" => ts[t] <= retired
    BY <1>3 DEF TypeOK, WakeAndUnlock, KernelAnswers, Broken
  <2>2. QED BY <1>3, <2>1 DEF TypeOK, WaitsForLowest, WakeAndUnlock, deviceVars
<1>4. ASSUME NEW t \in Waiters, Check(t) PROVE WaitsForLowest'
  BY <1>4 DEF TypeOK, WaitsForLowest, Check, CheckRetry, CheckExpired, CheckDone, Finish,
              deviceVars
<1>5. CASE Retire
  BY <1>5 DEF TypeOK, WaitsForLowest, Retire, threadVars
<1>6. CASE Submit \/ Break \/ Tick
  BY <1>6 DEF WaitsForLowest, Submit, Break, Tick, threadVars, deviceVars
<1>7. CASE UNCHANGED vars
  BY <1>7 DEF WaitsForLowest, vars, threadVars, deviceVars
<1>8. QED BY <1>1, <1>2, <1>3, <1>4, <1>5, <1>6, <1>7 DEF Next

\* Every wait is for the lowest timestamp asked for, in every reachable state.
LEMMA WaitsForLowestAlways == Spec => []WaitsForLowest
<1>1. Init => WaitsForLowest
  BY DEF Init, WaitsForLowest
<1>2. QED BY <1>1, WaitsForLowestStep, TypeCorrect, PTL DEF Spec

\* A wait only returns in Check, and with VK_SUCCESS only if the kernel answered
\* without error.
LEMMA SuccessStep ==
  ASSUME TypeOK, [Next]_vars, NEW t \in Waiters,
         pc[t] # "idle", pc'[t] = "idle", result'[t] = "SUCCESS"
  PROVE  pc[t] = "check" /\ errno[t] = "OK"
<1> USE DEF TypeOK
<1>1. ASSUME NEW u \in Waiters, Call(u) PROVE FALSE
  BY <1>1 DEF Call, QueueWaitFence, SyncobjWait, SyncobjWaitAny, Begin, Immediately
<1>2. ASSUME NEW u \in Waiters, LockAndWait(u) \/ WakeAndUnlock(u) \/ CheckRetry(u) PROVE FALSE
  BY <1>2 DEF LockAndWait, WakeAndUnlock, CheckRetry
<1>3. ASSUME NEW u \in Waiters, CheckExpired(u) PROVE FALSE
  BY <1>3 DEF CheckExpired, Finish
<1>4. ASSUME NEW u \in Waiters, CheckDone(u) PROVE pc[t] = "check" /\ errno[t] = "OK"
  BY <1>4 DEF CheckDone, Finish
<1>5. CASE Submit \/ Retire \/ Break \/ Tick \/ UNCHANGED vars
  BY <1>5 DEF Submit, Retire, Break, Tick, vars, threadVars
<1>6. QED BY <1>1, <1>2, <1>3, <1>4, <1>5 DEF Next, Check

\* VK_SUCCESS is only returned when the GPU has retired a timestamp the caller
\* asked for.
THEOREM SuccessMeansRetired == Spec => SuccessIsTrue
<1>1. TypeOK /\ WaitsForLowest /\ [Next]_vars
        => [\A t \in Waiters :
              (pc[t] # "idle" /\ pc'[t] = "idle" /\ result'[t] = "SUCCESS")
                 => \E x \in want[t] : x <= retired]_vars
  <2> SUFFICES ASSUME TypeOK, WaitsForLowest, [Next]_vars, NEW t \in Waiters,
                      pc[t] # "idle", pc'[t] = "idle", result'[t] = "SUCCESS"
               PROVE  \E x \in want[t] : x <= retired
    OBVIOUS
  <2>1. pc[t] = "check" /\ errno[t] = "OK"
    BY SuccessStep
  <2>2. ts[t] \in want[t] /\ ts[t] <= retired
    BY <2>1 DEF WaitsForLowest
  <2>3. QED BY <2>2
<1>2. QED BY <1>1, TypeCorrect, WaitsForLowestAlways, PTL DEF Spec, SuccessIsTrue

\* When the kernel reports a timeout, nothing the caller asked for had retired.
THEOREM TimeoutOnlyWhilePending == Spec => TimeoutMeansPending
<1>1. TypeOK /\ WaitsForLowest /\ [Next]_vars
        => [\A t \in Waiters :
              (pc[t] = "ioctl" /\ pc'[t] = "check" /\ errno'[t] = "ETIMEDOUT")
                 => \A x \in want[t] : x > retired]_vars
  <2> SUFFICES ASSUME TypeOK, WaitsForLowest, [Next]_vars, NEW t \in Waiters,
                      pc[t] = "ioctl", pc'[t] = "check", errno'[t] = "ETIMEDOUT"
               PROVE  \A x \in want[t] : x > retired
    OBVIOUS
  <2> USE DEF TypeOK
  <2>1. ASSUME NEW u \in Waiters, WakeAndUnlock(u) PROVE ts[t] > retired
    BY <2>1 DEF WakeAndUnlock, KernelAnswers, Broken
  <2>2. ASSUME NEW u \in Waiters, Call(u) \/ LockAndWait(u) \/ Check(u) PROVE FALSE
    BY <2>2 DEF Call, QueueWaitFence, SyncobjWait, SyncobjWaitAny, Begin, Immediately,
                LockAndWait, Check, CheckRetry, CheckExpired, CheckDone, Finish
  <2>3. ASSUME Submit \/ Retire \/ Break \/ Tick \/ UNCHANGED vars PROVE FALSE
    BY <2>3 DEF Submit, Retire, Break, Tick, vars, threadVars
  <2>4. ts[t] > retired
    BY <2>1, <2>2, <2>3 DEF Next
  <2>5. \A x \in want[t] : x \in Nat /\ ts[t] <= x
    BY ConstAssumption DEF WaitsForLowest, Timestamps, ConstAssumption
  <2>6. ts[t] \in Nat /\ retired \in Nat
    BY ConstAssumption DEF ConstAssumption
  <2>7. QED BY <2>4, <2>5, <2>6
<1>2. QED BY <1>1, TypeCorrect, WaitsForLowestAlways, PTL DEF Spec, TimeoutMeansPending

-----------------------------------------------------------------------------
(* Deadlines *)

\* A deadline that never comes nearer is always clamped.
ForeverClamped == \A t \in Waiters : left[t] = Forever => timeout[t] = MaxMs

\* DeadlineKept is inductive with it: the kernel's timer and the deadline count
\* down together, and only a deadline that never shrinks could fall behind.
LEMMA DeadlineStep ==
  TypeOK /\ ForeverClamped /\ DeadlineKept /\ [Next]_vars
     => ForeverClamped' /\ DeadlineKept'
<1> SUFFICES ASSUME TypeOK, ForeverClamped, DeadlineKept, [Next]_vars
             PROVE  ForeverClamped' /\ DeadlineKept'
  OBVIOUS
<1> USE ConstAssumption DEF ConstAssumption, TypeOK, ForeverClamped, DeadlineKept
<1>1. ASSUME NEW t \in Waiters, NEW S, NEW d \in 0 .. Forever, Begin(t, S, d)
      PROVE  ForeverClamped' /\ DeadlineKept'
  <2>1. /\ RelativeMs(d) \in 0 .. MaxMs
        /\ RelativeMs(d) # MaxMs => d < RelativeMs(d) * UnitsPerMs + UnitsPerMs
        /\ d = Forever => RelativeMs(d) = MaxMs
    BY RelativeMsBounds, ForeverIsClamped
  <2>2. QED BY <1>1, <2>1 DEF Begin
<1>2. ASSUME NEW t \in Waiters, Call(t) PROVE ForeverClamped' /\ DeadlineKept'
  <2>1. ASSUME Immediately(t, "TIMEOUT") PROVE ForeverClamped' /\ DeadlineKept'
    BY <2>1 DEF Immediately
  <2>2. \A d \in Timeouts : d \in 0 .. Forever /\ FenceDeadline(d) \in 0 .. Forever
    BY DEF FenceDeadline
  <2>3. QED
    BY <1>1, <1>2, <2>1, <2>2 DEF Call, QueueWaitFence, SyncobjWait, SyncobjWaitAny
<1>3. ASSUME NEW t \in Waiters, LockAndWait(t) PROVE ForeverClamped' /\ DeadlineKept'
  BY <1>3 DEF LockAndWait
<1>4. ASSUME NEW t \in Waiters, WakeAndUnlock(t) PROVE ForeverClamped' /\ DeadlineKept'
  <2>1. errno'[t] = "ETIMEDOUT" => timer[t] = 0
    BY <1>4 DEF WakeAndUnlock, KernelAnswers, Broken
  <2>2. QED BY <1>4, <2>1 DEF WakeAndUnlock
<1>5. ASSUME NEW t \in Waiters, CheckRetry(t) PROVE ForeverClamped' /\ DeadlineKept'
  <2>1. /\ RelativeMs(left[t]) \in 0 .. MaxMs
        /\ RelativeMs(left[t]) # MaxMs
              => left[t] < RelativeMs(left[t]) * UnitsPerMs + UnitsPerMs
        /\ left[t] = Forever => RelativeMs(left[t]) = MaxMs
    BY RelativeMsBounds, ForeverIsClamped
  <2>2. QED BY <1>5, <2>1 DEF CheckRetry
<1>6. ASSUME NEW t \in Waiters, CheckExpired(t) \/ CheckDone(t)
      PROVE  ForeverClamped' /\ DeadlineKept'
  <2>1. PICK answer : Finish(t, answer)
    BY <1>6 DEF CheckExpired, CheckDone
  <2>2. Forever = 0 => MaxMs = 0
    OBVIOUS
  <2>3. QED BY <2>1, <2>2 DEF Finish
<1>7. CASE Submit \/ Retire \/ Break
  BY <1>7 DEF Submit, Retire, Break, threadVars
<1>8. CASE Tick
  <2>1. \A t \in Waiters :
          /\ left[t] = Forever => left'[t] = Forever
          /\ left[t] # Forever =>
                left'[t] # Forever /\ left'[t] = IF left[t] = 0 THEN 0 ELSE left[t] - 1
    BY <1>8 DEF Tick, Countdown
  <2>2. \A t \in Waiters :
          timer'[t] = IF pc[t] = "ioctl" /\ timer[t] > 0 THEN timer[t] - 1 ELSE timer[t]
    BY <1>8 DEF Tick
  <2>3. UNCHANGED <<pc, timeout, errno>>
    BY <1>8 DEF Tick
  <2>4. QED BY <2>1, <2>2, <2>3
<1>9. CASE UNCHANGED vars
  BY <1>9 DEF vars, threadVars
<1>10. QED BY <1>2, <1>3, <1>4, <1>5, <1>6, <1>7, <1>8, <1>9 DEF Next, Check

\* Nothing waits at first.
LEMMA ForeverClampedAtFirst == Init => ForeverClamped /\ DeadlineKept
BY ConstAssumption DEF ConstAssumption, Init, ForeverClamped, DeadlineKept

\* The kernel's timer never ends a millisecond or more before the deadline.
THEOREM DeadlinesKept == Spec => []DeadlineKept
BY ForeverClampedAtFirst, DeadlineStep, TypeCorrect, PTL DEF Spec

\* A wait that reached the kernel does not time out a millisecond or more before
\* its deadline, unless the error was EINVAL or the timeout was clamped.
THEOREM NoEarlyTimeout == Spec => TimeoutNotEarly
<1>1. TypeOK /\ DeadlineKept /\ [Next]_vars
        => [\A t \in Waiters :
              (/\ pc[t] = "check" /\ pc'[t] = "idle" /\ result'[t] = "TIMEOUT"
               /\ errno[t] # "EINVAL" /\ timeout[t] # MaxMs)
                 => left[t] < UnitsPerMs]_vars
  <2> SUFFICES ASSUME TypeOK, DeadlineKept, [Next]_vars, NEW t \in Waiters,
                      pc[t] = "check", pc'[t] = "idle", result'[t] = "TIMEOUT",
                      errno[t] # "EINVAL", timeout[t] # MaxMs
               PROVE  left[t] < UnitsPerMs
    OBVIOUS
  <2> USE DEF TypeOK
  <2>1. ASSUME NEW u \in Waiters, CheckExpired(u) PROVE left[t] < UnitsPerMs
    <3>1. u = t /\ RelativeMs(left[t]) = 0
      BY <2>1 DEF CheckExpired, Finish
    <3>2. left[t] \in Nat /\ MaxMs # 0
      BY ConstAssumption DEF ConstAssumption
    <3>3. left[t] < 0 * UnitsPerMs + UnitsPerMs
      BY <3>1, <3>2, RelativeMsBounds
    <3>4. QED BY <3>3, ConstAssumption DEF ConstAssumption
  <2>2. ASSUME NEW u \in Waiters, CheckDone(u) PROVE left[t] < UnitsPerMs
    <3>1. errno[t] = "ETIMEDOUT"
      BY <2>2 DEF CheckDone, Finish
    <3>2. QED BY <3>1 DEF DeadlineKept
  <2>3. ASSUME NEW u \in Waiters,
               Call(u) \/ LockAndWait(u) \/ WakeAndUnlock(u) \/ CheckRetry(u)
        PROVE  FALSE
    BY <2>3 DEF Call, QueueWaitFence, SyncobjWait, SyncobjWaitAny, Begin, Immediately,
                LockAndWait, WakeAndUnlock, CheckRetry
  <2>4. CASE Submit \/ Retire \/ Break \/ Tick \/ UNCHANGED vars
    BY <2>4 DEF Submit, Retire, Break, Tick, vars, threadVars
  <2>5. QED BY <2>1, <2>2, <2>3, <2>4 DEF Next, Check
<1>2. QED BY <1>1, TypeCorrect, DeadlinesKept, PTL DEF Spec, TimeoutNotEarly
=============================================================================
