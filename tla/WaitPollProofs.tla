--------------------------- MODULE WaitPollProofs ---------------------------
(* For every choice of the intervals and of the deadline: the safety          *)
(* properties of WaitPoll, from one inductive invariant.  It adds to them     *)
(* where the clock may stand in each stage, and what the answer being read,   *)
(* or slept on, says of the task.                                             *)
EXTENDS WaitPoll, NumberLemmas, TLAPS

(* In every stage a timer is armed that fires by the deadline, and the clock  *)
(* does not pass it; a pause begins after the call and lasts as long as       *)
(* backoff said.                                                              *)
ClockInv ==
    /\ started <= now
    /\ stage # "done" => now <= Deadline
    /\ started <= Deadline
    /\ now <= Horizon
    /\ stage \in {"headers", "body"} => now <= started + HTTPTimeout
    /\ stage = "sleep" => /\ now <= wake
                          /\ started + backoff <= wake
                          /\ wake <= started + HTTPTimeout + backoff
    /\ outcome = "deadline" => now >= Deadline

(* An answer is not older than its call.                                      *)
SnapshotInv ==
    /\ stage \in {"body", "sleep"} /\ snapshot = "running" => started <= settled
    /\ stage = "body" /\ snapshot \in Terminal => task = snapshot
    /\ stage = "sleep" => snapshot = "running"

BudgetInv == (polls - 1) * ShortestPause <= started

IInv == TypeOK /\ ClockInv /\ SnapshotInv /\ BudgetInv /\ Verdict /\ NotMissed

-----------------------------------------------------------------------------
(* The bounds of a pause are natural numbers in order, and the first pause is *)
(* within them.                                                               *)
LEMMA PauseBounds ==
    /\ ShortestPause \in Nat /\ LongestPause \in Nat
    /\ PollInterval \in ShortestPause .. LongestPause
  BY TimingAssumption DEF ShortestPause, LongestPause

(* Doubling under the cap stays within the bounds (client.go:639-642).        *)
LEMMA NextBackoffBounds ==
    ASSUME NEW b \in ShortestPause .. LongestPause
    PROVE  NextBackoff(b) \in ShortestPause .. LongestPause
  BY TimingAssumption DEF ShortestPause, LongestPause, NextBackoff

(* One more request costs one more shortest pause.                            *)
LEMMA OneMorePoll ==
    ASSUME NEW p \in Nat \ {0}, NEW s \in Nat
    PROVE  /\ (p - 1) * s \in Nat
           /\ (p + 1 - 1) * s = (p - 1) * s + s
  <1>1. p + 1 - 1 = (p - 1) + 1 /\ p - 1 \in Nat
    OBVIOUS
  <1>2. \A a \in Nat : a * s \in Nat /\ (a + 1) * s = a * s + s
    BY SMT
  <1> QED BY <1>1, <1>2

(* The powers of two, as the recursion says.                                  *)
LEMMA PowerOfTwoMeans ==
    /\ PowerOfTwo \in [Nat -> Nat] /\ PowerOfTwo[0] = 1
    /\ \A n \in Nat : PowerOfTwo[n + 1] = 2 * PowerOfTwo[n]
  <1> DEFINE twice == [p \in Nat \X Nat |-> 2 * p[2]]
  <1>1. PICK f \in [Nat -> Nat] : Iterates(f, 1, twice)
    <2>1. twice \in [Nat \X Nat -> Nat]
      OBVIOUS
    <2> HIDE DEF twice
    <2> QED BY <2>1, Iteration
  <1>2. f[0] = 1 /\ \A n \in Nat : f[n + 1] = 2 * f[n]
    BY <1>1 DEF Iterates
  <1>3. f = [n \in Nat |-> IF n = 0 THEN 1 ELSE 2 * f[n - 1]]
    <2>1. ASSUME NEW n \in Nat PROVE f[n] = IF n = 0 THEN 1 ELSE 2 * f[n - 1]
      <3>1. CASE n = 0
        BY <1>2, <3>1
      <3>2. CASE n # 0
        <4>1. n - 1 \in Nat /\ (n - 1) + 1 = n
          BY <3>2
        <4> QED BY <1>2, <3>2, <4>1
      <3> QED BY <3>1, <3>2
    <2> QED BY <2>1
  <1>4. PowerOfTwo = [n \in Nat |-> IF n = 0 THEN 1 ELSE 2 * PowerOfTwo[n - 1]]
    BY <1>3, Zenon DEF PowerOfTwo
  <1>5. PowerOfTwo[0] = 1 /\ \A n \in Nat : PowerOfTwo[n + 1] = 2 * PowerOfTwo[n]
    <2>1. \A n \in Nat : PowerOfTwo[n] = IF n = 0 THEN 1 ELSE 2 * PowerOfTwo[n - 1]
      BY <1>4
    <2>2. \A n \in Nat : n + 1 \in Nat /\ n + 1 # 0 /\ (n + 1) - 1 = n
      OBVIOUS
    <2> QED BY <2>1, <2>2
  <1>6. \A n \in Nat : PowerOfTwo[n] \in Nat
    <2> DEFINE T == {n \in Nat : PowerOfTwo[n] \in Nat}
    <2>1. 0 \in T /\ \A n \in Nat : n \in T => n + 1 \in T
      BY <1>5
    <2> HIDE DEF T
    <2>2. Nat \subseteq T
      BY <2>1, Induction
    <2> QED BY <2>2 DEF T
  <1>7. PowerOfTwo \in [Nat -> Nat]
    BY <1>4, <1>6, Zenon
  <1> QED BY <1>5, <1>7

(* Doubling the pause under the cap gives the next one.                       *)
LEMMA NextPause ==
    ASSUME NEW n \in Nat \ {0} PROVE NextBackoff(Pause(n)) = Pause(n + 1)
  <1>1. PICK m \in Nat : n = m + 1
    <2>1. n - 1 \in Nat /\ n = (n - 1) + 1
      OBVIOUS
    <2> QED BY <2>1
  <1>2. PICK p \in Nat : p = PowerOfTwo[m]
    BY PowerOfTwoMeans
  <1>3. /\ PowerOfTwo[m + 1] = 2 * p /\ n - 1 = m /\ (n + 1) - 1 = m + 1
        /\ n = 1 => p = 1
    BY <1>1, <1>2, PowerOfTwoMeans
  <1>4. PICK pause \in Nat : pause = PollInterval * p
    BY TimingAssumption
  <1>5. PollInterval * (2 * p) = 2 * pause
    BY <1>4, TimingAssumption
  <1>6. n = 1 => pause = PollInterval
    BY <1>3, <1>4, TimingAssumption
  <1>7. Pause(n) = IF n = 1 THEN PollInterval
                   ELSE IF pause > MaxPollInterval THEN MaxPollInterval ELSE pause
    BY <1>2, <1>3, <1>4 DEF Pause
  <1>8. Pause(n + 1) = IF 2 * pause > MaxPollInterval THEN MaxPollInterval ELSE 2 * pause
    BY <1>3, <1>5 DEF Pause
  <1> QED BY <1>6, <1>7, <1>8, TimingAssumption DEF NextBackoff

(* The invariant holds when Wait is called.                                   *)
LEMMA InitIInv == Init => IInv
  <1> SUFFICES ASSUME Init PROVE IInv
    OBVIOUS
  <1>1. TypeOK
    BY PauseBounds, TimingAssumption DEF Init, TypeOK, TaskState, Terminal, Outcome, Horizon, Never
  <1>2. ClockInv /\ SnapshotInv /\ Verdict /\ NotMissed
    BY TimingAssumption DEF Init, ClockInv, SnapshotInv, Verdict, NotMissed, Terminal, Horizon, Never
  <1>3. BudgetInv
    BY PauseBounds DEF Init, BudgetInv
  <1> QED BY <1>1, <1>2, <1>3 DEF IInv

(* Every step preserves it.                                                   *)
LEMMA NextIInv == IInv /\ [Next]_vars => IInv'
  <1> SUFFICES ASSUME TypeOK, ClockInv, SnapshotInv, BudgetInv, Verdict, NotMissed, [Next]_vars
               PROVE  IInv'
    BY DEF IInv
  <1> USE TimingAssumption DEF Terminal, TaskState, Horizon, Never
  <1>1. CASE PeerSettles
    <2> USE <1>1 DEF PeerSettles
    <2>1. TypeOK'
      BY DEF TypeOK, ClockInv
    <2>2. ClockInv' /\ SnapshotInv'
      BY DEF TypeOK, ClockInv, SnapshotInv
    <2>3. Verdict'
      BY DEF TypeOK, Verdict
    <2>4. NotMissed'
      BY PauseBounds DEF TypeOK, ClockInv, NotMissed
    <2>5. BudgetInv'
      BY DEF BudgetInv, ShortestPause
    <2> QED BY <2>1, <2>2, <2>3, <2>4, <2>5 DEF IInv
  <1>2. CASE PeerAnswers
    <2> USE <1>2 DEF PeerAnswers
    <2>1. TypeOK'
      BY DEF TypeOK
    <2>2. ClockInv' /\ SnapshotInv'
      BY DEF TypeOK, ClockInv, SnapshotInv
    <2>3. Verdict' /\ NotMissed'
      BY DEF Verdict, NotMissed
    <2>4. BudgetInv'
      BY DEF BudgetInv, ShortestPause
    <2> QED BY <2>1, <2>2, <2>3, <2>4 DEF IInv
  <1>3. CASE PeerRefuses \/ PeerBabbles \/ NetworkFails \/ RejectRequest \/ CallTimeout \/ BodyTimeout
    <2>1. \E o \in {"usage", "auth", "protocol", "transport", "call timeout"} : Finish(o)
      BY <1>3 DEF PeerRefuses, PeerBabbles, NetworkFails, RejectRequest, CallTimeout, BodyTimeout
    <2>2. TypeOK'
      BY <2>1 DEF Finish, TypeOK, Outcome
    <2>3. ClockInv' /\ SnapshotInv'
      BY <2>1 DEF Finish, TypeOK, ClockInv, SnapshotInv
    <2>4. Verdict' /\ NotMissed'
      BY <2>1 DEF Finish, Verdict, NotMissed
    <2>5. BudgetInv'
      BY <2>1 DEF Finish, BudgetInv, ShortestPause
    <2> QED BY <2>2, <2>3, <2>4, <2>5 DEF IInv
  <1>4. CASE ReturnTask
    <2> USE <1>4 DEF ReturnTask, Finish
    <2>1. TypeOK'
      BY DEF TypeOK, Outcome
    <2>2. ClockInv' /\ SnapshotInv'
      BY DEF TypeOK, ClockInv, SnapshotInv
    <2>3. Verdict' /\ NotMissed'
      BY DEF SnapshotInv, Verdict, NotMissed
    <2>4. BudgetInv'
      BY DEF BudgetInv, ShortestPause
    <2> QED BY <2>1, <2>2, <2>3, <2>4 DEF IInv
  <1>5. CASE FallAsleep
    <2> USE <1>5 DEF FallAsleep
    <2>1. TypeOK'
      BY PauseBounds DEF TypeOK
    <2>2. ClockInv' /\ SnapshotInv'
      BY PauseBounds DEF TypeOK, ClockInv, SnapshotInv
    <2>3. Verdict' /\ NotMissed'
      BY DEF Verdict, NotMissed
    <2>4. BudgetInv'
      BY DEF BudgetInv, ShortestPause
    <2> QED BY <2>1, <2>2, <2>3, <2>4 DEF IInv
  <1>6. CASE WakeUp
    <2> USE <1>6 DEF WakeUp, PauseOver
    <2>1. TypeOK'
      BY NextBackoffBounds DEF TypeOK
    <2>2. ClockInv' /\ SnapshotInv'
      BY DEF TypeOK, ClockInv, SnapshotInv
    <2>3. Verdict' /\ NotMissed'
      BY DEF Verdict, NotMissed
    <2>4. BudgetInv'
      <3>1. started' >= started + ShortestPause
        BY PauseBounds DEF TypeOK, ClockInv
      <3>2. /\ (polls - 1) * ShortestPause \in Nat
            /\ (polls' - 1) * ShortestPause = (polls - 1) * ShortestPause + ShortestPause
        BY PauseBounds, OneMorePoll DEF TypeOK
      <3>3. ShortestPause \in Nat /\ started \in Nat /\ started' \in Nat
        BY PauseBounds DEF TypeOK
      <3>4. (polls - 1) * ShortestPause <= started
        BY DEF BudgetInv
      <3>5. (polls' - 1) * ShortestPause <= started'
        BY ONLY <3>1, <3>2, <3>3, <3>4
      <3> QED BY <3>5 DEF BudgetInv, ShortestPause
    <2> QED BY <2>1, <2>2, <2>3, <2>4 DEF IInv
  <1>7. CASE DeadlineInSleep
    <2> USE <1>7 DEF DeadlineInSleep, ContextDone, Finish
    <2>1. TypeOK'
      BY DEF TypeOK, Outcome
    <2>2. ClockInv' /\ SnapshotInv'
      BY DEF TypeOK, ClockInv, SnapshotInv
    <2>3. Verdict'
      BY DEF Verdict
    <2>4. NotMissed'
      <3>1. started <= settled /\ Deadline <= wake /\ wake <= started + HTTPTimeout + backoff
        BY DEF TypeOK, ClockInv, SnapshotInv
      <3> QED BY <3>1, PauseBounds DEF TypeOK, NotMissed, LongestPause
    <2>5. BudgetInv'
      BY DEF BudgetInv, ShortestPause
    <2> QED BY <2>1, <2>2, <2>3, <2>4, <2>5 DEF IInv
  <1>8. CASE Tick
    <2> USE <1>8 DEF Tick
    <2>1. TypeOK' /\ SnapshotInv'
      BY DEF TypeOK, SnapshotInv
    <2>2. ClockInv'
      BY DEF TypeOK, ClockInv, CallDue, PauseOver, ContextDone
    <2>3. Verdict' /\ NotMissed'
      BY DEF Verdict, NotMissed
    <2>4. BudgetInv'
      BY DEF BudgetInv, ShortestPause
    <2> QED BY <2>1, <2>2, <2>3, <2>4 DEF IInv
  <1>9. CASE UNCHANGED vars
    <2> USE <1>9 DEF vars
    <2>1. TypeOK' /\ ClockInv' /\ SnapshotInv'
      BY DEF TypeOK, ClockInv, SnapshotInv
    <2>2. Verdict' /\ NotMissed' /\ BudgetInv'
      BY DEF Verdict, NotMissed, BudgetInv, ShortestPause
    <2> QED BY <2>1, <2>2 DEF IInv
  <1> QED
    BY <1>1, <1>2, <1>3, <1>4, <1>5, <1>6, <1>7, <1>8, <1>9 DEF Next, Peer, Timers, Code

(* The invariant holds of every state.                                        *)
LEMMA SpecIInv == Spec => []IInv
  BY InitIInv, NextIInv, PTL DEF Spec

(* The next pause is the one the exponential backoff promises.                *)
BackoffInv == backoff = Pause(polls)

(* backoff is the pause of the poll at hand, always.                          *)
LEMMA SpecBackoffInv == Spec => []BackoffInv
  <1>1. Init => BackoffInv
    BY DEF Init, BackoffInv, Pause
  <1>2. TypeOK /\ BackoffInv /\ [Next]_vars => BackoffInv'
    <2> SUFFICES ASSUME TypeOK, BackoffInv, [Next]_vars PROVE BackoffInv'
      OBVIOUS
    <2>1. CASE WakeUp
      <3>1. polls' = polls + 1 /\ backoff' = NextBackoff(backoff)
        BY <2>1 DEF WakeUp
      <3>2. backoff' = Pause(polls + 1)
        BY <3>1, NextPause DEF BackoffInv, TypeOK
      <3> QED BY <3>1, <3>2 DEF BackoffInv
    <2>2. CASE ~WakeUp
      <3>1. UNCHANGED <<polls, backoff>>
        BY <2>2 DEF Next, Peer, Timers, Code, PeerSettles, PeerAnswers, PeerRefuses, PeerBabbles,
           NetworkFails, DeadlineInSleep, CallTimeout, BodyTimeout, RejectRequest, ReturnTask,
           FallAsleep, Tick, Finish, vars
      <3> QED BY <3>1 DEF BackoffInv, Pause
    <2> QED BY <2>1, <2>2
  <1> QED BY <1>1, <1>2, SpecIInv, PTL DEF Spec, IInv

-----------------------------------------------------------------------------
(* Every variable keeps its type, and the pause its bounds.                   *)
THEOREM TypeCorrect == Spec => []TypeOK
  BY SpecIInv, PTL DEF IInv

(* Wait never reports an end the task does not have.                          *)
THEOREM VerdictHolds == Spec => []Verdict
  BY SpecIInv, PTL DEF IInv

(* Wait does not outlive its context: in each of its stages a timer is armed  *)
(* that ends it by the deadline.                                              *)
THEOREM EndsByDeadlineHolds == Spec => []EndsByDeadline
  <1>1. IInv => EndsByDeadline
    BY TimingAssumption DEF IInv, TypeOK, ClockInv, EndsByDeadline
  <1> QED BY <1>1, SpecIInv, PTL

(* The number of requests of a wait is bounded by its length.                 *)
THEOREM PollBudgetHolds == Spec => []PollBudget
  <1>1. IInv => PollBudget
    BY TimingAssumption DEF IInv, TypeOK, ClockInv, BudgetInv, PollBudget
  <1> QED BY <1>1, SpecIInv, PTL

(* A wait that gives up in its pause did not miss a task that had ended one   *)
(* longest call and one longest pause before.                                 *)
THEOREM NotMissedHolds == Spec => []NotMissed
  BY SpecIInv, PTL DEF IInv

(* Between two requests lies at least the pause the exponential backoff       *)
(* promises, doubled for every poll before and cut off at the cap.            *)
THEOREM PoliteGapsHolds == Spec => PoliteGaps
  <1>1. IInv /\ BackoffInv /\ [Next]_vars => [polls' # polls => now - started >= Pause(polls)]_vars
    <2> SUFFICES ASSUME TypeOK, ClockInv, BackoffInv, Next, polls' # polls
                 PROVE  now - started >= Pause(polls)
      BY DEF IInv
    <2>1. stage = "sleep" /\ now >= wake
      BY DEF Next, Peer, Timers, Code, PeerSettles, PeerAnswers, PeerRefuses, PeerBabbles,
         NetworkFails, WakeUp, PauseOver, DeadlineInSleep, CallTimeout, BodyTimeout, RejectRequest,
         ReturnTask, FallAsleep, Tick, Finish
    <2>2. started + backoff <= wake
      BY <2>1 DEF ClockInv
    <2>3. now \in Nat /\ started \in Nat /\ wake \in Nat /\ backoff \in Nat
      BY PauseBounds DEF TypeOK
    <2>4. now - started >= backoff
      BY <2>1, <2>2, <2>3
    <2> QED BY <2>4 DEF BackoffInv
  <1> QED BY <1>1, SpecIInv, SpecBackoffInv, PTL DEF Spec, PoliteGaps
=============================================================================
