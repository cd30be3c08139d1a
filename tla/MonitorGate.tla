----------------------------- MODULE MonitorGate -----------------------------
(***************************************************************************)
(* The approval gate and the record lifecycle of the proxy's monitor.      *)
(* Request tasks record themselves, may be held for an operator's verdict, *)
(* and then follow the upstream answer; operator handlers (the approve and *)
(* reject endpoints) decide held requests; the client of a request may     *)
(* disconnect, which drops its task at an await.  Every action is one      *)
(* critical section of the monitor's mutex, or one step of the oneshot     *)
(* channel between decide and wait_for_approval.                           *)
(***************************************************************************)
EXTENDS Naturals, Sequences, FiniteSets

CONSTANTS
    Requests,   \* LLM requests, one task each
    Operators,  \* concurrent approve / reject handlers
    NoRequest,
    MaxRecords, \* MAX_RECORDS: the length of the ring
    Limits,     \* values an operator may give max_pending_approvals
    StartLimit, \* DEFAULT_MAX_PENDING_APPROVALS
    Disconnects, \* whether clients may disconnect
    MaxOps      \* bound: number of mode changes

ASSUME RequestAssumption  == NoRequest \notin Requests /\ IsFiniteSet(Requests)
ASSUME RingAssumption     == MaxRecords \in Nat \ {0}
ASSUME LimitAssumption    == Limits \subseteq Nat /\ StartLimit \in Nat
ASSUME SwitchAssumption   == Disconnects \in BOOLEAN
ASSUME BoundAssumption    == MaxOps \in Nat

VARIABLES
    mode,     \* Inner.mode
    limit,    \* Inner.max_pending_approvals
    records,  \* Inner.records: the ring of recorded requests, newest first
    decision, \* the decision field of each record
    waiters,  \* Inner.waiters: requests an operator can still decide
    channel,  \* the oneshot channel of each held request
    task,     \* where the task of each request is
    handler,  \* the decide call of each operator
    ops,      \* mode changes so far
    held,     \* history: requests that were held
    verdicts  \* history: the verdicts operators gave, <<request, verdict>>

ringVars == <<records, decision>>
gateVars == <<waiters, channel>>
modeVars == <<mode, limit, ops>>
history  == <<held, verdicts>>
vars == <<modeVars, ringVars, gateVars, task, handler, history>>

-----------------------------------------------------------------------------
MonitorMode == {"Off", "ManualAllLlm", "ManualOnDetection"}

Terminal == {"Rejected", "BackpressureRejected", "TimedOut", "UpstreamError",
             "Aborted", "Completed"}

RequestDecision == Terminal \cup {"AutoAccepted", "Pending", "Approved", "InFlight"}

Verdicts == {"approve", "reject"}

\* "new" has not reached the monitor; "expire" and "expired" are the two halves
\* of the timeout path; "refused" answered 403; "dropped" lost its client.
Places == {"new", "waiting", "expire", "expired", "go", "upstream", "streaming",
           "answered", "refused", "dropped"}

\* "sent" has the verdict in it; the receiver of a "closed" channel is gone.
Channel == {"none", "open", "closed"} \cup Verdicts

Handler == [step : {"idle", "send", "update"},
            on : Requests \cup {NoRequest},
            verdict : Verdicts]

IdleHandler == [step |-> "idle", on |-> NoRequest, verdict |-> "reject"]

\* Types; the ring never exceeds MAX_RECORDS (push_record).
TypeOK ==
    /\ mode \in MonitorMode /\ limit \in Limits \cup {StartLimit}
    /\ records \in Seq(Requests) /\ Len(records) <= MaxRecords
    /\ decision \in [Requests -> RequestDecision \cup {"none"}]
    /\ waiters \subseteq Requests
    /\ channel \in [Requests -> Channel]
    /\ task \in [Requests -> Places]
    /\ handler \in [Operators -> Handler]
    /\ ops \in 0 .. MaxOps
    /\ held \subseteq Requests
    /\ verdicts \subseteq Requests \X Verdicts

-----------------------------------------------------------------------------
(* The ring and its records.                                               *)

Recorded(r) == \E i \in 1 .. Len(records) : records[i] = r

\* push_record
Pushed(r) == SubSeq(<<r>> \o records, 1,
                    IF Len(records) < MaxRecords THEN Len(records) + 1 ELSE MaxRecords)

\* update_record with a closure that always writes: a no-op once evicted.
Overwrite(r, d) ==
    decision' = IF Recorded(r) THEN [decision EXCEPT ![r] = d] ELSE decision

\* The closures of record_response, complete_response, record_aborted and
\* record_upstream_error: a terminal record is left alone.
Finish(r, d) ==
    decision' = IF Recorded(r) /\ decision[r] \notin Terminal
                THEN [decision EXCEPT ![r] = d] ELSE decision

Move(r, place) == task' = [task EXCEPT ![r] = place]

ShouldHold(detected) ==
    CASE mode = "Off"               -> FALSE
      [] mode = "ManualAllLlm"      -> TRUE
      [] mode = "ManualOnDetection" -> detected

-----------------------------------------------------------------------------
(* The task of a request: messages_inner and its OpenAI counterparts.      *)

\* record_llm_request, and the answer of wait_for_approval to a ticket that
\* holds no channel.
Record(r, detected) ==
    /\ task[r] = "new"
    /\ records' = Pushed(r)
    /\ \/ /\ ~ ShouldHold(detected)
          /\ decision' = [decision EXCEPT ![r] = "AutoAccepted"]
          /\ Move(r, "go")
          /\ UNCHANGED <<gateVars, held>>
       \/ /\ ShouldHold(detected) /\ Cardinality(waiters) >= limit
          /\ decision' = [decision EXCEPT ![r] = "BackpressureRejected"]
          /\ Move(r, "refused")
          /\ held' = held \cup {r}
          /\ UNCHANGED gateVars
       \/ /\ ShouldHold(detected) /\ Cardinality(waiters) < limit
          /\ waiters' = waiters \cup {r}
          /\ channel' = [channel EXCEPT ![r] = "open"]
          /\ decision' = [decision EXCEPT ![r] = "Pending"]
          /\ Move(r, "waiting")
          /\ held' = held \cup {r}
    /\ UNCHANGED <<modeVars, handler, verdicts>>

\* Mutant: any answer lets the request pass.
ReceiveAnything(r) ==
    /\ task[r] = "waiting" /\ channel[r] \in Verdicts
    /\ Move(r, "go")
    /\ UNCHANGED <<modeVars, ringVars, gateVars, handler, history>>

\* The channel delivers; the timer loses to a verdict that is already there.
\* A sender is only dropped by sending, so the "approval channel closed" answer
\* is not reached.
Receive(r) ==
    /\ task[r] = "waiting" /\ channel[r] \in Verdicts
    /\ Move(r, IF channel[r] = "approve" THEN "go" ELSE "refused")
    /\ UNCHANGED <<modeVars, ringVars, gateVars, handler, history>>

\* Mutant: the wait has no timer of its own.
TimeoutOnlyClosed(r) ==
    /\ task[r] = "waiting" /\ channel[r] = "closed"
    /\ Move(r, "expire")
    /\ UNCHANGED <<modeVars, ringVars, gateVars, handler, history>>

\* APPROVAL_TIMEOUT elapses: the receiver is dropped.
Timeout(r) ==
    /\ task[r] = "waiting" /\ channel[r] = "open"
    /\ channel' = [channel EXCEPT ![r] = "closed"]
    /\ Move(r, "expire")
    /\ UNCHANGED <<modeVars, ringVars, waiters, handler, history>>

\* Mutant: a timeout leaves its waiter in the map.
ExpireWaiterKept(r) ==
    /\ task[r] = "expire"
    /\ Move(r, "expired")
    /\ UNCHANGED <<modeVars, ringVars, gateVars, handler, history>>

ExpireWaiter(r) ==
    /\ task[r] = "expire"
    /\ waiters' = waiters \ {r}
    /\ Move(r, "expired")
    /\ UNCHANGED <<modeVars, ringVars, channel, handler, history>>

ExpireRecord(r) ==
    /\ task[r] = "expired"
    /\ Overwrite(r, "TimedOut")
    /\ Move(r, "refused")
    /\ UNCHANGED <<modeVars, records, gateVars, handler, history>>

\* record_dispatched, then the upstream call starts.
Dispatch(r) ==
    /\ task[r] = "go"
    /\ decision' = IF Recorded(r) /\ decision[r] \in {"AutoAccepted", "Approved"}
                   THEN [decision EXCEPT ![r] = "InFlight"] ELSE decision
    /\ Move(r, "upstream")
    /\ UNCHANGED <<modeVars, records, gateVars, handler, history>>

\* Mutant: a failed upstream call is made again.
UpstreamRetried(r) ==
    /\ task[r] = "upstream"
    /\ UNCHANGED decision
    /\ Move(r, "go")
    /\ UNCHANGED <<modeVars, records, gateVars, handler, history>>

\* The upstream request or its body failed.
UpstreamFails(r) ==
    /\ task[r] = "upstream"
    /\ Finish(r, "UpstreamError")
    /\ Move(r, "answered")
    /\ UNCHANGED <<modeVars, records, gateVars, handler, history>>

\* A JSON answer: record_response.
RespondJson(r) ==
    /\ task[r] = "upstream"
    /\ Finish(r, "Completed")
    /\ Move(r, "answered")
    /\ UNCHANGED <<modeVars, records, gateVars, handler, history>>

\* An SSE answer: the CompletionGuard is armed.
StartStream(r) ==
    /\ task[r] = "upstream"
    /\ Move(r, "streaming")
    /\ UNCHANGED <<modeVars, ringVars, gateVars, handler, history>>

\* CompletionGuard::complete or ::upstream_error.
EndStream(r) ==
    /\ task[r] = "streaming"
    /\ \E d \in {"Completed", "UpstreamError"} : Finish(r, d)
    /\ Move(r, "answered")
    /\ UNCHANGED <<modeVars, records, gateVars, handler, history>>

\* The client goes away: the task is dropped at its await.  Only a stream has
\* a guard whose Drop records the abort.
Disconnect(r) ==
    /\ Disconnects
    /\ task[r] \in {"waiting", "upstream", "streaming"}
    /\ IF task[r] = "streaming" THEN Finish(r, "Aborted") ELSE UNCHANGED decision
    /\ channel' = [channel EXCEPT ![r] = IF @ = "open" THEN "closed" ELSE @]
    /\ Move(r, "dropped")
    /\ UNCHANGED <<modeVars, records, waiters, handler, history>>

-----------------------------------------------------------------------------
(* The operators.                                                          *)

\* set_mode
SetMode(m, n) ==
    /\ ops < MaxOps /\ ops' = ops + 1
    /\ mode' = m /\ limit' = n
    /\ UNCHANGED <<ringVars, gateVars, task, handler, history>>

\* Mutant: the waiter is looked up and left in the map.
DecideByLookup(o, r, v) ==
    /\ handler[o] = IdleHandler
    /\ r \in waiters
    /\ handler' = [handler EXCEPT ![o] = [step |-> "send", on |-> r, verdict |-> v]]
    /\ verdicts' = verdicts \cup {<<r, v>>}
    /\ UNCHANGED <<modeVars, ringVars, gateVars, task, held>>

\* decide: take the waiter out of the map; a request without one is answered
\* "unknown or non-pending" and nothing changes.
Decide(o, r, v) ==
    /\ handler[o] = IdleHandler
    /\ r \in waiters
    /\ waiters' = waiters \ {r}
    /\ handler' = [handler EXCEPT ![o] = [step |-> "send", on |-> r, verdict |-> v]]
    /\ verdicts' = verdicts \cup {<<r, v>>}
    /\ UNCHANGED <<modeVars, ringVars, channel, task, held>>

\* waiter.send(decision): lost when the receiver is gone.
Send(o) ==
    /\ handler[o].step = "send"
    /\ LET r == handler[o].on IN
       channel' = [channel EXCEPT ![r] = IF @ = "open" THEN handler[o].verdict ELSE @]
    /\ handler' = [handler EXCEPT ![o].step = "update"]
    /\ UNCHANGED <<modeVars, ringVars, waiters, task, history>>

\* The update_record of decide.
StampVerdict(o) ==
    /\ handler[o].step = "update"
    /\ Overwrite(handler[o].on,
                 IF handler[o].verdict = "approve" THEN "Approved" ELSE "Rejected")
    /\ handler' = [handler EXCEPT ![o] = IdleHandler]
    /\ UNCHANGED <<modeVars, records, gateVars, task, history>>

-----------------------------------------------------------------------------
Init ==
    /\ mode = "Off" /\ limit = StartLimit /\ ops = 0
    /\ records = <<>>
    /\ decision = [r \in Requests |-> "none"]
    /\ waiters = {}
    /\ channel = [r \in Requests |-> "none"]
    /\ task = [r \in Requests |-> "new"]
    /\ handler = [o \in Operators |-> IdleHandler]
    /\ held = {} /\ verdicts = {}

TaskStep(r) ==
    \/ Receive(r)
    \/ Timeout(r)
    \/ ExpireWaiter(r)
    \/ ExpireRecord(r)
    \/ Dispatch(r)
    \/ UpstreamFails(r)
    \/ RespondJson(r)
    \/ StartStream(r)
    \/ EndStream(r)

OperatorStep(o) ==
    \/ \E r \in Requests, v \in Verdicts : Decide(o, r, v)
    \/ Send(o)
    \/ StampVerdict(o)

Next ==
    \/ \E r \in Requests, detected \in BOOLEAN : Record(r, detected)
    \/ \E r \in Requests : TaskStep(r) \/ Disconnect(r)
    \/ \E o \in Operators : OperatorStep(o)
    \/ \E m \in MonitorMode, n \in Limits \cup {limit} : SetMode(m, n)

Spec == Init /\ [][Next]_vars

\* The runtime polls every task again, timers fire, the upstream client has a
\* result in the end, and a decide call that started runs to its end.
\* Clients need not send or disconnect, and operators need not act.
FairSpec ==
    /\ Spec
    /\ \A r \in Requests : WF_vars(TaskStep(r))
    /\ \A o \in Operators : WF_vars(Send(o) \/ StampVerdict(o))

-----------------------------------------------------------------------------
(* Properties.                                                             *)

Sent == {r \in Requests : task[r] \in {"upstream", "streaming", "answered"}}

\* A request the gate held goes upstream only when an operator approved it, and
\* never when it timed out, met the pending limit or was rejected.
NothingSentUnapproved ==
    \A r \in Sent \cap held : <<r, "approve">> \in verdicts /\ <<r, "reject">> \notin verdicts

\* The trail a verdict leaves: a waiter has had no verdict, a channel carries
\* only a verdict that was given, the decide call that took a waiter owns its
\* request alone, and only an approval lets a held request pass the gate.
VerdictTrail ==
    /\ \A r \in waiters : r \in held /\ \A v \in Verdicts : <<r, v>> \notin verdicts
    /\ \A r \in Requests : channel[r] \in Verdicts => <<r, channel[r]>> \in verdicts
    /\ \A r \in Requests :
          task[r] = "new" => r \notin held /\ \A v \in Verdicts : <<r, v>> \notin verdicts
    /\ \A o \in Operators :
          handler[o].step # "idle" =>
              /\ handler[o].on \in Requests \ waiters
              /\ <<handler[o].on, handler[o].verdict>> \in verdicts
    /\ \A r \in held :
          task[r] \in {"go", "upstream", "streaming", "answered"} => <<r, "approve">> \in verdicts

\* What the task of a request amounts to for the operator.
Phase(place) ==
    CASE place = "new"                               -> "new"
      [] place = "waiting"                           -> "pending"
      [] place \in {"expire", "expired", "refused"} -> "refused"
      [] place = "go"                                -> "cleared"
      [] place \in {"upstream", "streaming"}        -> "sent"
      [] place = "answered"                          -> "answered"
      [] place = "dropped"                           -> "gone"

Approval == INSTANCE ApprovalGate WITH phase <- [r \in Requests |-> Phase(task[r])],
                                       given <- verdicts

\* The channels, the waiter map and the two halves of decide and of the timeout
\* implement the promise of ApprovalGate: a held request passes only by an
\* approval given while it was held, is sent once, and is refused for good.
ImplementsApproval == Approval!Spec

\* However many windows decide the same request, one verdict is taken: a second
\* decide finds no waiter.
OneVerdict ==
    /\ \A r \in Requests : ~ (<<r, "approve">> \in verdicts /\ <<r, "reject">> \in verdicts)
    /\ \A o, p \in Operators :
          (o # p /\ handler[o].step # "idle" /\ handler[p].step # "idle")
              => handler[o].on # handler[p].on

\* A request that still waits for a verdict can get one, from the map or from a
\* decide call that holds its waiter and is about to send; and a waiter outlives
\* its wait only when the client disconnected while the request was pending, so
\* that a timeout always gives its slot of the pending limit back.
WaitersMatchWaits ==
    /\ \A r \in Requests :
          (task[r] = "waiting" /\ channel[r] = "open")
              => \/ r \in waiters
                 \/ \E o \in Operators : handler[o].step = "send" /\ handler[o].on = r
    /\ \A r \in waiters :
          task[r] \in {"waiting", "expire"} \/ (Disconnects /\ task[r] = "dropped")

\* Every recorded request that is not dropped by its client is answered; and the
\* record of one that was never held ends in a terminal decision, or leaves the
\* ring, once the response has started to stream.
RequestsSettle ==
    \A r \in Requests :
        /\ (task[r] # "new") ~> (task[r] \in {"answered", "refused", "dropped"})
        /\ (task[r] = "streaming" /\ r \notin held)
              ~> (decision[r] \in Terminal \/ ~ Recorded(r))

=============================================================================
