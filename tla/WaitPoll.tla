------------------------------ MODULE WaitPoll ------------------------------
(* Client.Wait of internal/a2a/client.go: the loop that polls a peer's task   *)
(* with GetTask until the task is terminal or the context's deadline passes,  *)
(* and doubles the pause between polls up to a maximum.                       *)
(*                                                                            *)
(* Time is a natural number.  It passes unless a timer that the client has    *)
(* armed is due (Tick), so that a step of the Go code takes no time; the      *)
(* peer, the network and the timers that are due race at every instant.  A    *)
(* timer the client did not arm holds nothing up: time goes past it.  The     *)
(* states of a task are kept apart as far as Wait tells them apart:           *)
(*   running      submitted, working, input-required, auth-required           *)
(*   completed    completed                                                   *)
(*   failed       failed, rejected, canceled                                  *)
EXTENDS Naturals

CONSTANTS PollInterval,      \* Client.PollInterval, the first pause
          MaxPollInterval,   \* Client.MaxPollInterval, the cap on later pauses
          HTTPTimeout,       \* http.Client.Timeout of one call
          Deadline           \* when the caller's context expires, 0 being now

ASSUME TimingAssumption ==
    /\ PollInterval \in Nat \ {0}
    /\ MaxPollInterval \in Nat \ {0}
    /\ HTTPTimeout \in Nat \ {0}
    /\ Deadline \in Nat \ {0}

VARIABLES
    now,         \* the time
    stage,       \* headers, body: in a GetTask call; sleep: in the select; done
    started,     \* when the last GetTask call began
    polls,       \* how many GetTask calls have begun
    backoff,     \* the next pause
    wake,        \* when the current pause ends
    snapshot,    \* the task state the answer being read carries
    outcome,     \* how Wait returned
    task,        \* the peer's task
    settled      \* history: when the task became terminal, Never before

vars == <<now, stage, started, polls, backoff, wake, snapshot, outcome, task, settled>>

(* The last instant modelled, after Wait has returned, and one after it.      *)
Horizon == Deadline + 1
Never == Horizon + 1

Terminal == {"completed", "failed"}
TaskState == {"running"} \cup Terminal

(* How Wait returns: with the task (nil error, or TaskFailedError), or with   *)
(* an error of its own.  The two transport errors with Timeout set are kept   *)
(* apart by where they come from: "deadline" from the select, "call timeout"  *)
(* from http.Client.Do.                                                       *)
Outcome == {"none", "completed", "failed", "usage", "auth", "protocol", "transport",
            "deadline", "call timeout"}

Init ==
    /\ now = 0
    /\ stage = "headers"
    /\ started = 0
    /\ polls = 1
    /\ backoff = PollInterval
    /\ wake = 0
    /\ snapshot = "running"
    /\ outcome = "none"
    /\ task = "running"
    /\ settled = Never

-----------------------------------------------------------------------------
(* Pieces of actions.                                                         *)

Finish(o) ==
    /\ stage' = "done"
    /\ outcome' = o
    /\ UNCHANGED <<now, started, polls, backoff, wake, snapshot, task, settled>>

(* The timers.  http.Client gives up on the whole call, headers and body,     *)
(* after HTTPTimeout, and the request's context expires at Deadline.          *)
CallDue ==
    /\ stage \in {"headers", "body"}
    /\ now >= started + HTTPTimeout \/ now >= Deadline

(* time.After in the select, and ctx.Done.                                    *)
PauseOver == stage = "sleep" /\ now >= wake

ContextDoneIgnored == FALSE              \* mutant: time.Sleep instead of the select
ContextDone == stage = "sleep" /\ now >= Deadline

(* The value of backoff after the pause: doubled, and never above the cap.    *)
NextBackoffUncapped(b) == 2 * b          \* mutant: no cap
NextBackoff(b) == IF 2 * b > MaxPollInterval THEN MaxPollInterval ELSE 2 * b

-----------------------------------------------------------------------------
(* The peer.                                                                  *)

(* It works on the task at its own pace; a terminal state is final.           *)
PeerSettles ==
    /\ task = "running"
    /\ task' \in Terminal
    /\ settled' = now
    /\ UNCHANGED <<now, stage, started, polls, backoff, wake, snapshot, outcome>>

(* It handles the request and the headers of its answer arrive; the body that *)
(* follows carries the task as it is now.  A request whose context had        *)
(* expired already is not sent.                                               *)
PeerAnswers ==
    /\ stage = "headers"
    /\ started < Deadline
    /\ stage' = "body"
    /\ snapshot' = task
    /\ UNCHANGED <<now, started, polls, backoff, wake, outcome, task, settled>>

(* 401 and 403; any other status outside 2xx, an unsupported A2A-Version, a   *)
(* content type that is not JSON.                                             *)
PeerRefuses ==
    /\ stage = "headers"
    /\ started < Deadline
    /\ Finish("auth") \/ Finish("protocol")

(* The connection fails, before the headers or in the body; so does a body    *)
(* above MaxBodyBytes.                                                        *)
NetworkFails ==
    /\ (stage = "headers" /\ started < Deadline) \/ stage = "body"
    /\ Finish("transport")

(* The body is not a JSON-RPC 2.0 answer to this request with a valid Task,   *)
(* or the task's state is unknown.                                            *)
PeerBabbles ==
    /\ stage = "body"
    /\ Finish("protocol")

-----------------------------------------------------------------------------
(* The client.                                                                *)

(* The task id, the token or the endpoint is not one a request can be made    *)
(* with.  The first call finds that out at once.                              *)
RejectRequest ==
    /\ stage = "headers"
    /\ polls = 1 /\ now = started
    /\ Finish("usage") \/ Finish("auth")

(* GetTask returns a terminal task, and so does Wait: with an error when the  *)
(* state IsFailure.                                                           *)
ReturnTaskEager ==                       \* mutant: any recognized state is returned
    /\ stage = "body"
    /\ Finish(IF snapshot = "failed" THEN "failed" ELSE "completed")
ReturnTask ==
    /\ stage = "body"
    /\ snapshot \in Terminal
    /\ Finish(snapshot)

(* GetTask returns a task that still runs: the select starts.                 *)
FallAsleep ==
    /\ stage = "body"
    /\ snapshot = "running"
    /\ stage' = "sleep"
    /\ wake' = now + backoff
    /\ UNCHANGED <<now, started, polls, backoff, snapshot, outcome, task, settled>>

(* time.After fires: the next poll starts and the pause after it is longer.   *)
WakeUpEarly ==                           \* mutant: the select has a default branch
    /\ stage = "sleep"
    /\ stage' = "headers"
    /\ started' = now
    /\ polls' = polls + 1
    /\ backoff' = NextBackoff(backoff)
    /\ UNCHANGED <<now, wake, snapshot, outcome, task, settled>>
WakeUp ==
    /\ PauseOver
    /\ stage' = "headers"
    /\ started' = now
    /\ polls' = polls + 1
    /\ backoff' = NextBackoff(backoff)
    /\ UNCHANGED <<now, wake, snapshot, outcome, task, settled>>

(* ctx.Done fires in the select.  When both are ready either may be taken.    *)
DeadlineInSleep ==
    /\ ContextDone
    /\ Finish("deadline")

(* http.Client.Do fails on its timeout or on the context's deadline: isTimeout*)
(* holds of the error, and Timeout is set.                                    *)
CallTimeoutRetried ==                    \* mutant: a call that timed out is made again
    /\ stage = "headers"
    /\ CallDue
    /\ started' = now
    /\ UNCHANGED <<now, stage, polls, backoff, wake, snapshot, outcome, task, settled>>
CallTimeout ==
    /\ stage = "headers"
    /\ CallDue
    /\ Finish("call timeout")

(* The same timers while the body is read: readBounded does not ask why the   *)
(* read failed, and Timeout is not set.                                       *)
BodyTimeout ==
    /\ stage = "body"
    /\ CallDue
    /\ Finish("transport")

-----------------------------------------------------------------------------
(* Time waits for the client's timers and for nothing else; the instants      *)
(* after Wait has returned and its deadline has passed are left out.          *)
Tick ==
    /\ ~ (CallDue \/ PauseOver \/ ContextDone)
    /\ stage = "done" => now < Horizon
    /\ now' = now + 1
    /\ UNCHANGED <<stage, started, polls, backoff, wake, snapshot, outcome, task, settled>>

Peer == PeerSettles \/ PeerAnswers \/ PeerRefuses \/ PeerBabbles \/ NetworkFails
Timers == WakeUp \/ DeadlineInSleep \/ CallTimeout \/ BodyTimeout
Code == RejectRequest \/ ReturnTask \/ FallAsleep

Next == Peer \/ Timers \/ Code \/ Tick

Spec == Init /\ [][Next]_vars

(* Time passes and timers fire.  Nothing is asked of the peer or the network: *)
(* no answer need ever come.                                                  *)
FairSpec == Spec /\ WF_vars(Tick) /\ WF_vars(Timers)

-----------------------------------------------------------------------------
(* The longest pause between two polls.  The first one is not capped.         *)
LongestPause == IF PollInterval > MaxPollInterval THEN PollInterval ELSE MaxPollInterval
ShortestPause == IF PollInterval < MaxPollInterval THEN PollInterval ELSE MaxPollInterval

(* The type of every variable.  The pause stays within its bounds however     *)
(* often it is doubled, and an outcome is there exactly when Wait returned.   *)
TypeOK ==
    /\ now \in Nat
    /\ stage \in {"headers", "body", "sleep", "done"}
    /\ started \in Nat
    /\ polls \in Nat \ {0}
    /\ backoff \in ShortestPause .. LongestPause
    /\ wake \in Nat
    /\ snapshot \in TaskState
    /\ outcome \in Outcome
    /\ stage = "done" <=> outcome # "none"
    /\ task \in TaskState
    /\ settled \in Nat
    /\ task = "running" <=> settled = Never

(* Wait reports the end of a task that has ended, and the end it had, however *)
(* late the answer is read: never an interrupted task, never success for a    *)
(* failed one.                                                                *)
Verdict == outcome \in Terminal => task = outcome

(* When the caller's deadline has passed, Wait is over, whatever it was doing *)
(* when it passed: a pause that would last longer, a call without an answer,  *)
(* a body half read ("stops at the context deadline", THREAT-MODEL.md:33-34). *)
EndsByDeadline == now > Deadline => stage = "done"

(* The n-th pause: PollInterval, doubled for every poll before, up to the cap.*)
PowerOfTwo[n \in Nat] == IF n = 0 THEN 1 ELSE 2 * PowerOfTwo[n - 1]
Pause(n) ==
    IF n = 1 THEN PollInterval
    ELSE IF PollInterval * PowerOfTwo[n - 1] > MaxPollInterval THEN MaxPollInterval
    ELSE PollInterval * PowerOfTwo[n - 1]

(* Between two requests lies at least the pause the exponential backoff       *)
(* promises, also when an answer comes late or the deadline is near           *)
(* ("designed not to trip common peer rate limits", README.md:126).           *)
PoliteGaps == [][polls' # polls => now - started >= Pause(polls)]_vars

(* A whole wait sends a bounded number of requests: no more than fit between  *)
(* its begin and its deadline with the shortest pause between them.           *)
PollBudget == (polls - 1) * ShortestPause <= started /\ started <= Deadline

(* A task that ended early enough is not missed.  When Wait gives up in its   *)
(* pause, the task had not ended one longest call and one longest pause       *)
(* before the deadline: the backoff never makes the last answer older.        *)
NotMissed ==
    outcome = "deadline" => settled + HTTPTimeout + LongestPause >= Deadline

(* Wait returns although the peer may never answer.                           *)
Returns == <>(stage = "done")

(* "DefaultTimeout bounds any single HTTP call when the caller has no         *)
(* deadline" (client.go:28): with a deadline, a call that is answered late    *)
(* lasts until the deadline.  NewClient sets the timeout for every call.      *)
DeadlineDecides == outcome = "call timeout" => now >= Deadline
=============================================================================
