-------------------------- MODULE MonitorGateProofs --------------------------
(***************************************************************************)
(* For any number of requests, operators and disconnecting clients: what   *)
(* the approval gate lets through, and that a request gets one verdict.    *)
(***************************************************************************)
EXTENDS MonitorGate, SequenceTheorems, TLAPS

(***************************************************************************)
(* The ring keeps its type and its length when push_record puts a request  *)
(* in front and drops the oldest.                                          *)
(***************************************************************************)
LEMMA PushedInRing ==
    ASSUME TypeOK, NEW r \in Requests
    PROVE  Pushed(r) \in Seq(Requests) /\ Len(Pushed(r)) <= MaxRecords
<1>1. records \in Seq(Requests) /\ Len(records) \in Nat /\ Len(records) <= MaxRecords
  BY LenProperties DEF TypeOK
<1> DEFINE longer == <<r>> \o records
           n == IF Len(records) < MaxRecords THEN Len(records) + 1 ELSE MaxRecords
<1>2. longer \in Seq(Requests) /\ Len(longer) = Len(records) + 1
  BY <1>1
<1>3. n \in Nat /\ n <= Len(longer) /\ n <= MaxRecords /\ 1 <= n
  BY <1>1, <1>2, RingAssumption
<1> HIDE DEF longer, n
<1>4. SubSeq(longer, 1, n) \in Seq(Requests) /\ Len(SubSeq(longer, 1, n)) = n
  BY <1>2, <1>3, SubSeqProperties
<1>5. Pushed(r) = SubSeq(longer, 1, n)
  BY DEF Pushed, longer, n
<1>6. QED
  BY <1>3, <1>4, <1>5

(***************************************************************************)
(* Every variable keeps its type through every task, operator and client   *)
(* step.                                                                   *)
(***************************************************************************)
THEOREM TypeCorrect == Spec => []TypeOK
<1> USE RequestAssumption, RingAssumption, LimitAssumption, BoundAssumption
<1>1. Init => TypeOK
  BY DEF Init, TypeOK, MonitorMode, Channel, Places, Handler, IdleHandler, Verdicts
<1>2. TypeOK /\ [Next]_vars => TypeOK'
  <2> SUFFICES ASSUME TypeOK, [Next]_vars
               PROVE  TypeOK'
    OBVIOUS
  <2> USE DEF TypeOK, RequestDecision, Terminal, Places, Channel, Verdicts, Handler, IdleHandler,
              MonitorMode, modeVars, ringVars, gateVars, history, Move
  <2>record. ASSUME NEW r \in Requests, NEW detected \in BOOLEAN, Record(r, detected)
        PROVE  TypeOK'
    <3>1. records' \in Seq(Requests) /\ Len(records') <= MaxRecords
      BY <2>record, PushedInRing DEF Record
    <3>2. QED
      BY <2>record, <3>1 DEF Record
  <2>task. ASSUME NEW r \in Requests, TaskStep(r) \/ Disconnect(r)
        PROVE  TypeOK'
    <3>1. CASE Receive(r)
      BY <3>1 DEF Receive
    <3>2. CASE Timeout(r)
      BY <3>2 DEF Timeout
    <3>3. CASE ExpireWaiter(r)
      BY <3>3 DEF ExpireWaiter
    <3>4. CASE ExpireRecord(r)
      BY <3>4 DEF ExpireRecord, Overwrite
    <3>5. CASE Dispatch(r)
      BY <3>5 DEF Dispatch
    <3>6. CASE UpstreamFails(r)
      BY <3>6 DEF UpstreamFails, Finish
    <3>7. CASE RespondJson(r)
      BY <3>7 DEF RespondJson, Finish
    <3>8. CASE StartStream(r)
      BY <3>8 DEF StartStream
    <3>9. CASE EndStream(r)
      BY <3>9 DEF EndStream, Finish
    <3>10. CASE Disconnect(r)
      BY <3>10 DEF Disconnect, Finish
    <3>11. QED
      BY <2>task, <3>1, <3>2, <3>3, <3>4, <3>5, <3>6, <3>7, <3>8, <3>9, <3>10 DEF TaskStep
  <2>operator. ASSUME NEW o \in Operators, OperatorStep(o)
        PROVE  TypeOK'
    <3>1. ASSUME NEW r \in Requests, NEW v \in Verdicts, Decide(o, r, v)
          PROVE  TypeOK'
      BY <3>1 DEF Decide
    <3>2. CASE Send(o)
      BY <3>2 DEF Send
    <3>3. CASE StampVerdict(o)
      BY <3>3 DEF StampVerdict, Overwrite
    <3>4. QED
      BY <2>operator, <3>1, <3>2, <3>3 DEF OperatorStep
  <2>mode. ASSUME NEW m \in MonitorMode, NEW n \in Limits \cup {limit}, SetMode(m, n)
        PROVE  TypeOK'
    BY <2>mode DEF SetMode
  <2>idle. CASE UNCHANGED vars
    BY <2>idle DEF vars
  <2> QED
    BY <2>record, <2>task, <2>operator, <2>mode, <2>idle DEF Next
<1>3. QED
  BY <1>1, <1>2, PTL DEF Spec

(***************************************************************************)
(* The trail of verdicts is inductive: decide is the only writer of a      *)
(* verdict, it takes the waiter out of the map in the same critical        *)
(* section, and wait_for_approval lets a held request pass only on a       *)
(* received approval, so neither the timeout nor a second window can       *)
(* forge one.                                                              *)
(***************************************************************************)
THEOREM Trail == Spec => [](VerdictTrail /\ OneVerdict)
<1> USE RequestAssumption
<1>1. Init => VerdictTrail /\ OneVerdict
  BY DEF Init, VerdictTrail, OneVerdict, IdleHandler, Verdicts
<1>2. TypeOK /\ VerdictTrail /\ OneVerdict /\ [Next]_vars => (VerdictTrail /\ OneVerdict)'
  <2> SUFFICES ASSUME TypeOK, VerdictTrail, OneVerdict, [Next]_vars
               PROVE  (VerdictTrail /\ OneVerdict)'
    OBVIOUS
  <2> USE DEF TypeOK, VerdictTrail, OneVerdict, Verdicts, Move,
              modeVars, ringVars, gateVars, history
  <2>record. ASSUME NEW r \in Requests, NEW detected \in BOOLEAN, Record(r, detected)
        PROVE  (VerdictTrail /\ OneVerdict)'
    <3>1. VerdictTrail'
      <4>1. CASE UNCHANGED gateVars
        BY <2>record, <4>1 DEF Record
      <4>2. CASE /\ waiters' = waiters \cup {r} /\ channel' = [channel EXCEPT ![r] = "open"]
                 /\ held' = held \cup {r} /\ Move(r, "waiting")
        <5>1. \A o \in Operators : handler[o].step # "idle" => handler[o].on # r
          BY <2>record DEF Record, Handler
        <5>2. task[r] = "new" /\ UNCHANGED <<handler, verdicts>>
          BY <2>record DEF Record
        <5>3. QED
          BY <4>2, <5>1, <5>2
      <4>3. QED
        BY <2>record, <4>1, <4>2 DEF Record
    <3>2. OneVerdict'
      BY <2>record DEF Record
    <3>3. QED
      BY <3>1, <3>2
  <2>task. ASSUME NEW r \in Requests, TaskStep(r) \/ Disconnect(r)
        PROVE  (VerdictTrail /\ OneVerdict)'
    <3>1. CASE Receive(r)
      BY <3>1 DEF Receive
    <3>2. CASE Timeout(r)
      BY <3>2 DEF Timeout
    <3>3. CASE ExpireWaiter(r)
      BY <3>3 DEF ExpireWaiter
    <3>4. CASE ExpireRecord(r)
      BY <3>4 DEF ExpireRecord
    <3>5. CASE Dispatch(r)
      BY <3>5 DEF Dispatch
    <3>6. CASE UpstreamFails(r)
      BY <3>6 DEF UpstreamFails
    <3>7. CASE RespondJson(r)
      BY <3>7 DEF RespondJson
    <3>8. CASE StartStream(r)
      BY <3>8 DEF StartStream
    <3>9. CASE EndStream(r)
      BY <3>9 DEF EndStream
    <3>10. CASE Disconnect(r)
      BY <3>10 DEF Disconnect
    <3>11. QED
      BY <2>task, <3>1, <3>2, <3>3, <3>4, <3>5, <3>6, <3>7, <3>8, <3>9, <3>10 DEF TaskStep
  <2>operator. ASSUME NEW o \in Operators, OperatorStep(o)
        PROVE  (VerdictTrail /\ OneVerdict)'
    <3>1. ASSUME NEW r \in Requests, NEW v \in Verdicts, Decide(o, r, v)
          PROVE  (VerdictTrail /\ OneVerdict)'
      <4>1. /\ handler'[o] = [step |-> "send", on |-> r, verdict |-> v]
            /\ \A p \in Operators \ {o} : handler'[p] = handler[p]
            /\ waiters' = waiters \ {r} /\ verdicts' = verdicts \cup {<<r, v>>}
            /\ UNCHANGED <<channel, task, held>>
        BY <3>1 DEF Decide
      <4>2. r \in waiters /\ r \in held /\ task[r] # "new" /\ \A w \in Verdicts : <<r, w>> \notin verdicts
        BY <3>1 DEF Decide
      <4>3. \A p \in Operators : handler[p].step # "idle" => handler[p].on # r
        <5>1. \A p \in Operators : handler[p].step # "idle" => handler[p].on \in Requests \ waiters
          BY DEF VerdictTrail
        <5>2. QED
          BY ONLY <4>2, <5>1
      <4>4. VerdictTrail'
        BY <4>1, <4>2
      <4>5. OneVerdict'
        BY <4>1, <4>2, <4>3
      <4>6. QED
        BY <4>4, <4>5
    <3>2. CASE Send(o)
      <4>1. /\ handler'[o].on = handler[o].on /\ handler'[o].verdict = handler[o].verdict
            /\ handler[o].step # "idle"
            /\ \A p \in Operators \ {o} : handler'[p] = handler[p]
        BY <3>2 DEF Send, Handler
      <4>2. /\ \A q \in Requests : channel'[q] = channel[q] \/ (q = handler[o].on /\ channel'[q] = handler[o].verdict)
            /\ UNCHANGED <<waiters, task, held, verdicts>>
        BY <3>2 DEF Send
      <4>3. QED
        BY <4>1, <4>2
    <3>3. CASE StampVerdict(o)
      BY <3>3 DEF StampVerdict, IdleHandler
    <3>4. QED
      BY <2>operator, <3>1, <3>2, <3>3 DEF OperatorStep
  <2>mode. ASSUME NEW m \in MonitorMode, NEW n \in Limits \cup {limit}, SetMode(m, n)
        PROVE  (VerdictTrail /\ OneVerdict)'
    BY <2>mode DEF SetMode
  <2>idle. CASE UNCHANGED vars
    BY <2>idle DEF vars
  <2> QED
    BY <2>record, <2>task, <2>operator, <2>mode, <2>idle DEF Next
<1>3. QED
  BY <1>1, <1>2, TypeCorrect, PTL DEF Spec

(***************************************************************************)
(* A held request goes upstream only on an operator's approval, whatever   *)
(* the timing of verdicts, timeouts, mode changes and disconnects.         *)
(***************************************************************************)
THEOREM GateHolds == Spec => []NothingSentUnapproved
<1>1. VerdictTrail /\ OneVerdict => NothingSentUnapproved
  BY DEF VerdictTrail, OneVerdict, NothingSentUnapproved, Sent
<1>2. QED
  BY <1>1, Trail, PTL

(***************************************************************************)
(* A request that waits with an open channel can still be decided, and a   *)
(* waiter stands for a wait: the map, the channel and the task agree       *)
(* through every half of decide and of the timeout.  Receive needs the     *)
(* trail: a channel with a verdict has no waiter left.                     *)
(***************************************************************************)
THEOREM WaitersMatch == Spec => []WaitersMatchWaits
<1> USE RequestAssumption, SwitchAssumption
<1>1. Init => WaitersMatchWaits
  BY DEF Init, WaitersMatchWaits
<1>2. TypeOK /\ VerdictTrail /\ WaitersMatchWaits /\ [Next]_vars => WaitersMatchWaits'
  <2> SUFFICES ASSUME TypeOK, VerdictTrail, WaitersMatchWaits, [Next]_vars
               PROVE  WaitersMatchWaits'
    OBVIOUS
  <2> USE DEF TypeOK, WaitersMatchWaits, Move, modeVars, ringVars, gateVars, history
  <2>record. ASSUME NEW r \in Requests, NEW detected \in BOOLEAN, Record(r, detected)
        PROVE  WaitersMatchWaits'
    BY <2>record DEF Record
  <2>receive. ASSUME NEW r \in Requests, Receive(r)
        PROVE  WaitersMatchWaits'
    <3>1. r \notin waiters
      BY <2>receive DEF Receive, VerdictTrail
    <3>2. QED
      BY <2>receive, <3>1 DEF Receive
  <2>wait. ASSUME NEW r \in Requests,
                  Timeout(r) \/ ExpireWaiter(r) \/ ExpireRecord(r) \/ Disconnect(r)
        PROVE  WaitersMatchWaits'
    <3>1. CASE Timeout(r)
      BY <3>1 DEF Timeout
    <3>2. CASE ExpireWaiter(r)
      BY <3>2 DEF ExpireWaiter
    <3>3. CASE ExpireRecord(r)
      BY <3>3 DEF ExpireRecord
    <3>4. CASE Disconnect(r)
      BY <3>4 DEF Disconnect
    <3>5. QED
      BY <2>wait, <3>1, <3>2, <3>3, <3>4
  <2>answer. ASSUME NEW r \in Requests,
                    Dispatch(r) \/ UpstreamFails(r) \/ RespondJson(r) \/ StartStream(r) \/ EndStream(r)
        PROVE  WaitersMatchWaits'
    <3>1. /\ task[r] \in {"go", "upstream", "streaming"}
          /\ task'[r] \in {"upstream", "streaming", "answered"}
          /\ \A q \in Requests \ {r} : task'[q] = task[q]
          /\ UNCHANGED <<gateVars, handler>>
      BY <2>answer DEF Dispatch, UpstreamFails, RespondJson, StartStream, EndStream
    <3>2. QED
      BY <3>1
  <2>decide. ASSUME NEW o \in Operators, NEW r \in Requests, NEW v \in Verdicts, Decide(o, r, v)
        PROVE  WaitersMatchWaits'
    <3>1. /\ handler'[o].step = "send" /\ handler'[o].on = r
          /\ \A p \in Operators \ {o} : handler'[p] = handler[p]
          /\ handler[o].step = "idle"
          /\ waiters' = waiters \ {r} /\ UNCHANGED <<channel, task>>
      BY <2>decide DEF Decide, IdleHandler
    <3>2. ASSUME NEW q \in Requests, task[q] = "waiting", channel[q] = "open"
          PROVE  \/ q \in waiters'
                 \/ \E p \in Operators : handler'[p].step = "send" /\ handler'[p].on = q
      <4>1. CASE q \in waiters
        BY <3>1, <4>1
      <4>2. CASE \E p \in Operators : handler[p].step = "send" /\ handler[p].on = q
        <5>1. PICK p \in Operators : handler[p].step = "send" /\ handler[p].on = q
          BY <4>2
        <5>2. p # o /\ handler'[p] = handler[p]
          BY <3>1, <5>1
        <5>3. QED
          BY <5>1, <5>2
      <4>3. QED
        BY <3>2, <4>1, <4>2
    <3>3. QED
      BY <3>1, <3>2
  <2>send. ASSUME NEW o \in Operators, Send(o)
        PROVE  WaitersMatchWaits'
    <3>1. /\ handler[o].on \in Requests /\ handler[o].verdict \in Verdicts
          /\ \A p \in Operators \ {o} : handler'[p] = handler[p]
      <4>1. handler[o] \in Handler /\ handler[o].step = "send"
        BY <2>send DEF Send
      <4>2. handler[o].on \in Requests
        BY <4>1 DEF VerdictTrail
      <4>3. handler[o].verdict \in Verdicts
        BY <4>1 DEF Handler
      <4>4. \A p \in Operators \ {o} : handler'[p] = handler[p]
        BY <2>send DEF Send
      <4>5. QED
        BY <4>2, <4>3, <4>4
    <3>2. /\ channel'[handler[o].on] # "open"
          /\ \A q \in Requests \ {handler[o].on} : channel'[q] = channel[q]
          /\ UNCHANGED <<waiters, task>>
      BY <2>send, <3>1 DEF Send, Verdicts
    <3>3. QED
      BY <3>1, <3>2
  <2>stamp. ASSUME NEW o \in Operators, StampVerdict(o)
        PROVE  WaitersMatchWaits'
    BY <2>stamp DEF StampVerdict, IdleHandler
  <2>mode. ASSUME NEW m \in MonitorMode, NEW n \in Limits \cup {limit}, SetMode(m, n)
        PROVE  WaitersMatchWaits'
    BY <2>mode DEF SetMode
  <2>idle. CASE UNCHANGED vars
    BY <2>idle DEF vars
  <2> QED
    BY <2>record, <2>receive, <2>wait, <2>answer, <2>decide, <2>send, <2>stamp, <2>mode, <2>idle
       DEF Next, TaskStep, OperatorStep
<1>3. QED
  BY <1>1, <1>2, TypeCorrect, Trail, PTL DEF Spec

(***************************************************************************)
(* The gate implements its abstract promise: each step of a task, of an    *)
(* operator or of a client is a step of ApprovalGate on the phase of one   *)
(* request, or none.                                                       *)
(***************************************************************************)
THEOREM Implements == Spec => ImplementsApproval
<1> USE RequestAssumption
<1> DEFINE phase == [q \in Requests |-> Phase(task[q])]
<1>1. Init => Approval!Init
  BY DEF Init, Approval!Init, Phase
<1>2. TypeOK /\ VerdictTrail /\ WaitersMatchWaits /\ [Next]_vars => [Approval!Next]_(Approval!gate)
  <2> SUFFICES ASSUME TypeOK, VerdictTrail, WaitersMatchWaits, [Next]_vars
               PROVE  Approval!Next \/ UNCHANGED Approval!gate
    OBVIOUS
  <2>moved. ASSUME NEW r \in Requests, NEW place \in Places, task' = [task EXCEPT ![r] = place]
        PROVE  phase' = [phase EXCEPT ![r] = Phase(place)]
    BY <2>moved DEF TypeOK
  <2>stay. ASSUME UNCHANGED <<task, verdicts>>
        PROVE  UNCHANGED Approval!gate
    BY <2>stay DEF Approval!gate
  <2> USE DEF Move, history, modeVars, ringVars, gateVars
  <2>record. ASSUME NEW r \in Requests, NEW detected \in BOOLEAN, Record(r, detected)
        PROVE  Approval!Next
    <3>1. PICK place \in {"go", "refused", "waiting"} : task' = [task EXCEPT ![r] = place]
      BY <2>record DEF Record
    <3>2. Approval!Arrive(r)
      BY <2>record, <2>moved, <3>1 DEF Record, Approval!Arrive, Approval!Step, Phase, Places
    <3>3. QED
      BY <3>2 DEF Approval!Next
  <2>receive. ASSUME NEW r \in Requests, Receive(r)
        PROVE  Approval!Next
    <3>1. <<r, channel[r]>> \in verdicts /\ channel[r] \in {"approve", "reject"}
      BY <2>receive DEF Receive, VerdictTrail, Verdicts
    <3>2. Approval!Approve(r) \/ Approval!Reject(r)
      BY <2>receive, <2>moved, <3>1 DEF Receive, Approval!Approve, Approval!Reject, Approval!Step, Phase, Places
    <3>3. QED
      BY <3>2 DEF Approval!Next
  <2>task. ASSUME NEW r \in Requests,
                  \/ Timeout(r) \/ ExpireWaiter(r) \/ ExpireRecord(r) \/ Dispatch(r)
                  \/ UpstreamFails(r) \/ RespondJson(r) \/ StartStream(r) \/ EndStream(r)
                  \/ Disconnect(r)
        PROVE  Approval!Next \/ UNCHANGED Approval!gate
    <3> USE <2>moved DEF Approval!Step, Phase, Places
    <3>1. CASE Timeout(r)
      <4>1. Approval!Expire(r)
        BY <3>1 DEF Timeout, Approval!Expire
      <4>2. QED
        BY <4>1 DEF Approval!Next
    <3>2. CASE ExpireWaiter(r) \/ ExpireRecord(r) \/ StartStream(r)
      <4>1. phase' = [phase EXCEPT ![r] = phase[r]] /\ UNCHANGED verdicts
        BY <3>2 DEF ExpireWaiter, ExpireRecord, StartStream
      <4>2. QED
        BY <4>1 DEF Approval!gate
    <3>3. CASE Dispatch(r)
      <4>1. Approval!Pass(r)
        BY <3>3 DEF Dispatch, Approval!Pass
      <4>2. QED
        BY <4>1 DEF Approval!Next
    <3>4. CASE UpstreamFails(r) \/ RespondJson(r) \/ EndStream(r)
      <4>1. Approval!Answer(r)
        BY <3>4 DEF UpstreamFails, RespondJson, EndStream, Approval!Answer
      <4>2. QED
        BY <4>1 DEF Approval!Next
    <3>5. CASE Disconnect(r)
      <4>1. Approval!Leave(r)
        BY <3>5 DEF Disconnect, Approval!Leave
      <4>2. QED
        BY <4>1 DEF Approval!Next
    <3>6. QED
      BY <2>task, <3>1, <3>2, <3>3, <3>4, <3>5
  <2>decide. ASSUME NEW o \in Operators, NEW r \in Requests, NEW v \in Verdicts, Decide(o, r, v)
        PROVE  Approval!Next
    <3>1. r \in waiters /\ verdicts' = verdicts \cup {<<r, v>>} /\ UNCHANGED task
      BY <2>decide DEF Decide
    <3>2. Phase(task[r]) \in {"pending", "refused", "gone"}
      BY <3>1 DEF WaitersMatchWaits, Phase
    <3>3. <<r, "approve">> \notin verdicts /\ <<r, "reject">> \notin verdicts
      BY <3>1 DEF VerdictTrail, Verdicts
    <3>4. Approval!Give(r, v)
      BY <3>1, <3>2, <3>3 DEF Approval!Give, Approval!Undecided
    <3>5. QED
      BY <3>4 DEF Approval!Next, Verdicts
  <2>operator. ASSUME NEW o \in Operators, Send(o) \/ StampVerdict(o)
        PROVE  UNCHANGED Approval!gate
    BY <2>operator, <2>stay DEF Send, StampVerdict
  <2>mode. ASSUME NEW m \in MonitorMode, NEW n \in Limits \cup {limit}, SetMode(m, n)
        PROVE  UNCHANGED Approval!gate
    BY <2>mode, <2>stay DEF SetMode
  <2>idle. CASE UNCHANGED vars
    BY <2>idle, <2>stay DEF vars
  <2> QED
    BY <2>record, <2>receive, <2>task, <2>decide, <2>operator, <2>mode, <2>idle
       DEF Next, TaskStep, OperatorStep
<1>3. QED
  BY <1>1, <1>2, TypeCorrect, Trail, WaitersMatch, PTL DEF Spec, ImplementsApproval, Approval!Spec
=============================================================================
