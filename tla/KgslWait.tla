------------------------------ MODULE KgslWait ------------------------------
(***************************************************************************)
(* Waiting for GPU timestamps through the KGSL kernel driver, as patched   *)
(* by mesa/patches/0001: wait_timestamp_safe() holds device->submit_mutex  *)
(* across the blocking WAITTIMESTAMP ioctl.  Threads wait through the      *)
(* three callers of the patch, a submitter shares the mutex, the GPU       *)
(* retires timestamps, signals interrupt the ioctl, the KGSL context may   *)
(* break, and time passes between any two steps.                           *)
(*                                                                         *)
(* Time is counted in units of 1/UnitsPerMs ms.  left[t] is what           *)
(* get_relative_ms() computes from: max(abs_timeout_ns - now, 0).  The     *)
(* kernel and the submitting code are external: the kernel is modelled by  *)
(* the answers the code (and the tests' mock ioctl) tells apart.           *)
(***************************************************************************)
EXTENDS Integers, FiniteSets

CONSTANTS
    Waiters,      \* threads that wait
    NoThread,     \* the mutex is free
    MaxTs,        \* bound: timestamps ever submitted
    UnitsPerMs,   \* time units in a millisecond
    MaxMs,        \* INT_MAX of get_relative_ms
    Timeouts,     \* timeouts callers pass, in units
    Forever,      \* the timeout that never shrinks (UINT64_MAX, INT64_MAX ns),
                  \* which is longer than INT_MAX ms
    MaxCalls,     \* bound: calls started, all threads together
    MaxSignals    \* bound: interrupted ioctls

ASSUME ConstAssumption ==
    /\ NoThread \notin Waiters
    /\ MaxTs \in Nat
    /\ UnitsPerMs \in Nat \ {0}
    /\ MaxMs \in Nat
    /\ Forever \in Nat
    /\ Forever >= MaxMs * UnitsPerMs
    /\ Timeouts \subseteq 0 .. Forever
    /\ MaxCalls \in Nat
    /\ MaxSignals \in Nat

VARIABLES
    pc,         \* "idle", "lock", "ioctl" (mutex held, blocked in the kernel), "check"
    want,       \* timestamps the caller asked for
    ts,         \* wait.timestamp
    left,       \* abs_timeout_ns - now, 0 once it has passed
    timeout,    \* wait.timeout, in ms
    timer,      \* the kernel's countdown for the ioctl in progress
    errno,      \* how the last ioctl ended
    result,     \* VkResult of the last wait
    mutex,      \* holder of device->submit_mutex
    submitted,  \* last timestamp submitted to the queue
    retired,    \* last timestamp the GPU has finished
    context,    \* what the kernel answers about the context, "OK" while it is sound
    calls, signals

threadVars == <<pc, want, ts, left, timeout, timer, errno, result>>
deviceVars == <<submitted, retired, context>>
bounds     == <<calls, signals>>
vars       == <<threadVars, mutex, deviceVars, bounds>>

Timestamps == 1 .. MaxTs
Retry      == {"EINTR", "EDEADLK"}     \* EAGAIN is handled as EINTR is
Broken     == {"EDEADLK", "EINVAL", "EBADF"}
Errno      == {"OK", "ETIMEDOUT"} \union Retry \union Broken
Results    == {"NONE", "SUCCESS", "TIMEOUT", "DEVICE_LOST"}

TypeOK ==
    /\ pc \in [Waiters -> {"idle", "lock", "ioctl", "check"}]
    /\ want \in [Waiters -> SUBSET Timestamps]
    /\ ts \in [Waiters -> 0 .. MaxTs]
    /\ left \in [Waiters -> 0 .. Forever]
    /\ timeout \in [Waiters -> 0 .. MaxMs]
    /\ timer \in [Waiters -> Nat]
    /\ errno \in [Waiters -> Errno]
    /\ result \in [Waiters -> Results]
    /\ mutex \in Waiters \union {NoThread}
    /\ submitted \in 0 .. MaxTs
    /\ retired \in 0 .. submitted
    /\ context \in {"OK"} \union Broken
    /\ calls \in 0 .. MaxCalls
    /\ signals \in 0 .. MaxSignals

Init ==
    /\ pc = [t \in Waiters |-> "idle"]
    /\ want = [t \in Waiters |-> {}]
    /\ ts = [t \in Waiters |-> 0]
    /\ left = [t \in Waiters |-> 0]
    /\ timeout = [t \in Waiters |-> 0]
    /\ timer = [t \in Waiters |-> 0]
    /\ errno = [t \in Waiters |-> "OK"]
    /\ result = [t \in Waiters |-> "NONE"]
    /\ mutex = NoThread
    /\ submitted = 0
    /\ retired = 0
    /\ context = "OK"
    /\ calls = 0
    /\ signals = 0

-----------------------------------------------------------------------------
(* Operators of the code *)

\* Mutant: the INT_MAX clamp is missing.
RelativeMsUnclamped(l) == l \div UnitsPerMs

\* get_relative_ms: whole milliseconds left, rounded down, clamped to INT_MAX.
RelativeMs(l) ==
    LET ms == l \div UnitsPerMs IN IF ms > MaxMs THEN MaxMs ELSE ms

\* Mutant: the comparison is the wrong way round.
Highest(S) == CHOOSE x \in S : \A y \in S : x >= y

Lowest(S) == CHOOSE x \in S : \A y \in S : x <= y

\* What now + timeout_ns leaves on the clock: uint64_t wraps, and the longest
\* timeout lands just before now.
FenceDeadline(d) == IF d = Forever THEN 0 ELSE d

\* wait_timestamp_safe up to its loop.
Begin(t, S, d) ==
    /\ calls < MaxCalls
    /\ pc[t] = "idle"
    /\ pc' = [pc EXCEPT ![t] = "lock"]
    /\ want' = [want EXCEPT ![t] = S]
    /\ ts' = [ts EXCEPT ![t] = Lowest(S)]
    /\ left' = [left EXCEPT ![t] = d]
    /\ timeout' = [timeout EXCEPT ![t] = RelativeMs(d)]
    /\ result' = [result EXCEPT ![t] = "NONE"]
    /\ calls' = calls + 1
    /\ UNCHANGED <<timer, errno, mutex, deviceVars, signals>>

\* A call that answers without reaching the kernel.
Immediately(t, answer) ==
    /\ calls < MaxCalls
    /\ pc[t] = "idle"
    /\ result' = [result EXCEPT ![t] = answer]
    /\ calls' = calls + 1
    /\ UNCHANGED <<pc, want, ts, left, timeout, timer, errno, mutex, deviceVars, signals>>

-----------------------------------------------------------------------------
(* The three callers *)

\* kgsl_queue_wait_fence: a relative timeout on a fence of the queue.
QueueWaitFence(t) ==
    \E f \in 1 .. submitted, d \in Timeouts : Begin(t, {f}, FenceDeadline(d))

\* kgsl_syncobj_wait: a syncobj is unsignaled until its submission gave it a
\* timestamp, and then an absolute deadline applies.
SyncobjWait(t) ==
    \E f \in Timestamps, d \in Timeouts :
        \/ f > submitted  /\ Immediately(t, "TIMEOUT")
        \/ f <= submitted /\ Begin(t, {f}, d)

\* kgsl_syncobj_wait_any with no fd among the syncobjs: wait for the lowest.
SyncobjWaitAny(t) ==
    \E S \in SUBSET (1 .. submitted), d \in Timeouts :
        Cardinality(S) > 1 /\ Begin(t, S, d)

-----------------------------------------------------------------------------
(* The loop of wait_timestamp_safe *)

\* Return to the caller: the locals of the wait are gone.
Finish(t, answer) ==
    /\ pc' = [pc EXCEPT ![t] = "idle"]
    /\ result' = [result EXCEPT ![t] = answer]
    /\ want' = [want EXCEPT ![t] = {}]
    /\ ts' = [ts EXCEPT ![t] = 0]
    /\ left' = [left EXCEPT ![t] = 0]
    /\ timeout' = [timeout EXCEPT ![t] = 0]
    /\ errno' = [errno EXCEPT ![t] = "OK"]
    /\ UNCHANGED <<timer, mutex, deviceVars, bounds>>

\* Mutant: the ioctl is issued without the lock, as before the patch.
WaitWithoutLock(t) ==
    /\ pc[t] = "lock"
    /\ pc' = [pc EXCEPT ![t] = "ioctl"]
    /\ timer' = [timer EXCEPT ![t] = timeout[t] * UnitsPerMs]
    /\ UNCHANGED <<want, ts, left, timeout, errno, result, mutex, deviceVars, bounds>>

\* Mutant: the clock is asked before the kernel.
ClockFirst(t) ==
    /\ pc[t] = "lock"
    /\ mutex = NoThread
    /\ \/ left[t] = 0 /\ Finish(t, "TIMEOUT")
       \/ /\ left[t] > 0
          /\ mutex' = t
          /\ pc' = [pc EXCEPT ![t] = "ioctl"]
          /\ timer' = [timer EXCEPT ![t] = timeout[t] * UnitsPerMs]
          /\ UNCHANGED <<want, ts, left, timeout, errno, result, deviceVars, bounds>>

\* pthread_mutex_lock, then the ioctl enters the kernel, which starts its timer.
LockAndWait(t) ==
    /\ pc[t] = "lock"
    /\ mutex = NoThread
    /\ mutex' = t
    /\ pc' = [pc EXCEPT ![t] = "ioctl"]
    /\ timer' = [timer EXCEPT ![t] = timeout[t] * UnitsPerMs]
    /\ UNCHANGED <<want, ts, left, timeout, errno, result, deviceVars, bounds>>

\* Another thread is inside the same ioctl on the same context.
ConcurrentWait(t) == \E u \in Waiters \ {t} : pc[u] = "ioctl"

\* The answers the kernel may give: it tests the context, then the timestamp,
\* and only then sleeps, so only an unretired timestamp times out.
KernelAnswers(t, e) ==
    \/ context # "OK" /\ e = context
    \/ context = "OK" /\ ConcurrentWait(t) /\ e = "EDEADLK"
    \/ context = "OK" /\ ts[t] <= retired /\ e = "OK"
    \/ context = "OK" /\ ts[t] > retired /\ timer[t] = 0 /\ e = "ETIMEDOUT"
    \/ context = "OK" /\ ts[t] > retired /\ signals < MaxSignals /\ e = "EINTR"

\* Mutant: an error path that forgets to unlock.
WakeKeepsLockOnError(t) ==
    /\ pc[t] = "ioctl"
    /\ \E e \in Errno :
        /\ KernelAnswers(t, e)
        /\ errno' = [errno EXCEPT ![t] = e]
        /\ signals' = IF e = "EINTR" THEN signals + 1 ELSE signals
        /\ mutex' = IF e = "OK" THEN NoThread ELSE mutex
    /\ pc' = [pc EXCEPT ![t] = "check"]
    /\ timer' = [timer EXCEPT ![t] = 0]
    /\ UNCHANGED <<want, ts, left, timeout, result, deviceVars, calls>>

\* The ioctl returns and pthread_mutex_unlock follows, whatever it returned.
WakeAndUnlock(t) ==
    /\ pc[t] = "ioctl"
    /\ \E e \in Errno :
        /\ KernelAnswers(t, e)
        /\ errno' = [errno EXCEPT ![t] = e]
        /\ signals' = IF e = "EINTR" THEN signals + 1 ELSE signals
    /\ mutex' = NoThread
    /\ pc' = [pc EXCEPT ![t] = "check"]
    /\ timer' = [timer EXCEPT ![t] = 0]
    /\ UNCHANGED <<want, ts, left, timeout, result, deviceVars, calls>>

\* Mutant: the retry polls instead of waiting for the rest of the deadline.
RetryPolls(t) ==
    /\ pc[t] = "check"
    /\ errno[t] \in Retry
    /\ RelativeMs(left[t]) > 0
    /\ timeout' = [timeout EXCEPT ![t] = 0]
    /\ pc' = [pc EXCEPT ![t] = "lock"]
    /\ UNCHANGED <<want, ts, left, timer, errno, result, mutex, deviceVars, bounds>>

\* EINTR, EAGAIN, EDEADLK: go round again with what is left of the deadline.
CheckRetry(t) ==
    /\ pc[t] = "check"
    /\ errno[t] \in Retry
    /\ RelativeMs(left[t]) > 0
    /\ timeout' = [timeout EXCEPT ![t] = RelativeMs(left[t])]
    /\ pc' = [pc EXCEPT ![t] = "lock"]
    /\ UNCHANGED <<want, ts, left, timer, errno, result, mutex, deviceVars, bounds>>

\* Mutant: an interrupted wait counts as timed out.
InterruptedIsTimeout(t) ==
    pc[t] = "check" /\ errno[t] \in Retry /\ Finish(t, "TIMEOUT")

\* The same errors with less than a millisecond left.
CheckExpired(t) ==
    /\ pc[t] = "check"
    /\ errno[t] \in Retry
    /\ RelativeMs(left[t]) = 0
    /\ Finish(t, "TIMEOUT")

\* Mutant: only EBADF is an error of its own.
TimeoutIsSuccess(t) ==
    /\ pc[t] = "check"
    /\ errno[t] \notin Retry
    /\ Finish(t, IF errno[t] = "EBADF" THEN "DEVICE_LOST" ELSE "SUCCESS")

\* ETIMEDOUT and EINVAL are timeouts, any other errno loses the device.
CheckDone(t) ==
    /\ pc[t] = "check"
    /\ errno[t] \notin Retry
    /\ Finish(t, IF errno[t] = "OK" THEN "SUCCESS"
                 ELSE IF errno[t] \in {"ETIMEDOUT", "EINVAL"} THEN "TIMEOUT"
                 ELSE "DEVICE_LOST")

-----------------------------------------------------------------------------
(* The environment: submission, GPU, kernel context, clock *)

\* A queue submission, under the same mutex.
Submit ==
    /\ mutex = NoThread
    /\ submitted < MaxTs
    /\ submitted' = submitted + 1
    /\ UNCHANGED <<threadVars, mutex, retired, context, bounds>>

Retire ==
    /\ retired < submitted
    /\ retired' = retired + 1
    /\ UNCHANGED <<threadVars, mutex, submitted, context, bounds>>

\* The kernel gives up on the context: every later wait gets the same error.
Break ==
    /\ context = "OK"
    /\ context' \in Broken
    /\ UNCHANGED <<threadVars, mutex, submitted, retired, bounds>>

Countdown(n) == IF n \in {0, Forever} THEN n ELSE n - 1

\* Time passes for every deadline and for the timer of the ioctl in progress.
Tick ==
    /\ left' = [t \in Waiters |-> Countdown(left[t])]
    /\ timer' = [t \in Waiters |->
                    IF pc[t] = "ioctl" /\ timer[t] > 0 THEN timer[t] - 1 ELSE timer[t]]
    /\ <<left, timer>>' # <<left, timer>>
    /\ UNCHANGED <<pc, want, ts, timeout, errno, result, mutex, deviceVars, bounds>>

Call(t)  == QueueWaitFence(t) \/ SyncobjWait(t) \/ SyncobjWaitAny(t)
Check(t) == CheckRetry(t) \/ CheckExpired(t) \/ CheckDone(t)

Next ==
    \/ \E t \in Waiters : Call(t) \/ LockAndWait(t) \/ WakeAndUnlock(t) \/ Check(t)
    \/ Submit \/ Retire \/ Break \/ Tick

\* Threads that can run do, the clock runs, and the GPU finishes what it was
\* given.  The mutex is only weakly fair, as pthread mutexes are: a thread gets
\* it if it stays free.  Nobody has to call, signal or break anything.
Fairness ==
    /\ \A t \in Waiters : /\ WF_vars(LockAndWait(t))
                          /\ WF_vars(WakeAndUnlock(t))
                          /\ WF_vars(Check(t))
    /\ WF_vars(Tick)
    /\ WF_vars(Submit)
    /\ WF_vars(Retire)

Spec == Init /\ [][Next]_vars /\ Fairness

-----------------------------------------------------------------------------
(* Safety *)

\* A thread is inside the WAITTIMESTAMP ioctl exactly while it holds
\* submit_mutex, so no two waits, and no wait and submission, overlap in the
\* kernel: the lock and unlock around the ioctl (patch 0001, lines 35-37).
MutexCoversIoctl == \A t \in Waiters : pc[t] = "ioctl" <=> mutex = t

\* The driver's own threads never trip the kernel's deadlock detector: a wait
\* sees EDEADLK only when the context itself is broken (the purpose of the
\* patch, test_kgsl_sync.c lines 4-5).
NoSelfDeadlock == \A t \in Waiters : errno[t] = "EDEADLK" => context = "EDEADLK"

\* VK_SUCCESS is true: the GPU has retired a timestamp the caller asked for,
\* also when several were asked for and after any number of retries.
SuccessIsTrue ==
    [][\A t \in Waiters :
         (pc[t] # "idle" /\ pc'[t] = "idle" /\ result'[t] = "SUCCESS")
            => \E x \in want[t] : x <= retired]_vars

\* What a thread knows about its deadline: unless get_relative_ms clamped it,
\* the kernel's timer ends less than a millisecond before the deadline or
\* later, and by the time the kernel reports a timeout that point has passed.
DeadlineKept ==
    \A t \in Waiters :
        \/ timeout[t] = MaxMs
        \/ /\ pc[t] = "lock" => timeout[t] * UnitsPerMs + UnitsPerMs > left[t]
           /\ pc[t] = "ioctl" => timer[t] + UnitsPerMs > left[t]
           /\ (pc[t] = "check" /\ errno[t] = "ETIMEDOUT") => left[t] < UnitsPerMs

\* A wait that reached the kernel gives VK_TIMEOUT less than a millisecond
\* before its deadline or later, however often it was interrupted; only EINVAL
\* and a deadline beyond INT_MAX ms end it sooner.
TimeoutNotEarly ==
    [][\A t \in Waiters :
         (/\ pc[t] = "check" /\ pc'[t] = "idle" /\ result'[t] = "TIMEOUT"
          /\ errno[t] # "EINVAL" /\ timeout[t] # MaxMs)
            => left[t] < UnitsPerMs]_vars

\* When the kernel reports a timeout, nothing the caller asked for had been
\* retired: waiting for the lowest timestamp is waiting for any of them.
TimeoutMeansPending ==
    [][\A t \in Waiters :
         (pc[t] = "ioctl" /\ pc'[t] = "check" /\ errno'[t] = "ETIMEDOUT")
            => \A x \in want[t] : x > retired]_vars

-----------------------------------------------------------------------------
(* Liveness *)

\* A wait without deadline on a context for which every ioctl answers EDEADLK.
Spinning == context = "EDEADLK" /\ \E t \in Waiters : left[t] = Forever

\* Every wait returns, however its ioctls are interrupted and whoever holds the
\* mutex, unless some thread spins on a broken context without a deadline.
WaitReturns == \A t \in Waiters : pc[t] # "idle" ~> (pc[t] = "idle" \/ Spinning)

\* A wait for a timestamp that has retired, with a deadline that may long have
\* passed, ends in VK_SUCCESS: the kernel is asked before the clock is.
SignalledIsSeen ==
    \A t \in Waiters :
        (pc[t] = "lock" /\ ts[t] <= retired) ~> (result[t] = "SUCCESS" \/ context # "OK")

\* Submission shares the mutex with the waits and is not kept out by them for
\* ever.
SubmitGetsThrough == <>(submitted = MaxTs \/ Spinning)

-----------------------------------------------------------------------------
(* What the tests say *)

\* "timeout_ns=0 means immediate timeout" (test_kgsl_sync.c, line 213): a
\* wait whose deadline has passed is not held up by another thread's wait that
\* still has a millisecond or more to sleep.
ExpiredWaitIsImmediate ==
    \A t, u \in Waiters :
        ~ /\ pc[t] = "lock" /\ left[t] = 0
          /\ pc[u] = "ioctl" /\ context = "OK" /\ ts[u] > retired
          /\ timer[u] >= UnitsPerMs
=============================================================================
