------------------------ MODULE OutboxDeliveryProofs ------------------------
(***************************************************************************)
(* Theorems of OutboxDelivery, for any jobs, scopes and targets: the type  *)
(* invariant, the four properties of what reaches the backend, and that    *)
(* the worker implements OutboxChannel; and of the machines beside it, the *)
(* reconciliation cursor, for any page size, number of pages and feed, the *)
(* live acceptance run, for any number of failures, and the audit log.     *)
(*                                                                         *)
(* The inductive invariant adds to the properties what the worker relies   *)
(* on between its awaits: the job in its hands is still the head of its    *)
(* scope and pinned to this session's target, whatever was enqueued since  *)
(* the tick took its snapshot; everything on the wire or stored was sent   *)
(* for an accepted job; and a send that is in flight while private mode is *)
(* observed has been aborted.                                              *)
(***************************************************************************)
EXTENDS MCDeliveryTools, Sequences, FiniteSetTheorems, TLAPS

Accepted(j) == status[j] # "none"
Active == phase \in InFlight \cup {"failed"}
IsHead(j) ==
    /\ Pending(j)
    /\ \A k \in Jobs : Pending(k) /\ ScopeOf[k] = ScopeOf[j] => seq[k] >= seq[j]

SeqsGood == \A j \in Jobs : seq[j] < next
SendsGood == \A r \in sent : Accepted(r[2]) /\ r[1] = pin[r[2]]
NetGood == wire \subseteq sent /\ stored \subseteq sent
WorkGood ==
    /\ Active => cur \in Jobs /\ IsHead(cur) /\ PinHolds(cur) /\ cur \notin todo
    /\ \A j \in todo : IsHead(j)
AbortGood == phase \in InFlight /\ observed => aborted

IInv == /\ SeqsGood /\ SendsGood /\ NetGood /\ WorkGood /\ AbortGood
        /\ AckedIsStored /\ ScopeOrder

(****************************** type correctness ***************************)

LEMMA InitType == Init => TypeOK
<1> SUFFICES ASSUME Init PROVE TypeOK
  OBVIOUS
<1>1. /\ status \in [Jobs -> Statuses] /\ due \in [Jobs -> BOOLEAN]
      /\ reason \in [Jobs -> Errors \cup {"none"}] /\ pin \in [Jobs -> Targets]
  BY ZenonT(20) DEF Init, Statuses
<1>2. seq \in [Jobs -> Nat] /\ next \in Nat \ {0}
  BY DEF Init
<1>3. /\ target \in Targets /\ private \in BOOLEAN /\ observed \in BOOLEAN
      /\ phase \in Phases /\ todo \subseteq Jobs /\ cur \in Jobs \cup {NoJob}
      /\ aborted \in BOOLEAN /\ tried \in BOOLEAN /\ err \in Errors \cup {"none"}
      /\ wire \subseteq Requests /\ stored \subseteq Requests /\ sent \subseteq Requests
  BY DEF Init, Phases
<1> QED
  BY <1>1, <1>2, <1>3 DEF TypeOK

\* The request about to leave is one of the requests there are.
LEMMA PostType ==
    ASSUME TypeOK, cur \in Jobs, Post
    PROVE  /\ phase' \in Phases /\ cur' = cur /\ err' \in Errors \cup {"none"}
           /\ wire' \subseteq Requests /\ sent' \subseteq Requests
BY DEF TypeOK, Post, Fail, This, Requests, Phases, Errors

LEMMA AcknowledgeType ==
    ASSUME TypeOK, NEW j \in Jobs, Acknowledge(j)
    PROVE  /\ phase' \in Phases /\ cur' \in Jobs \cup {NoJob}
           /\ status' \in [Jobs -> Statuses]
              /\ UNCHANGED <<due, reason, seq, next, pin, tried, err>>
BY DEF TypeOK, Acknowledge, Phases, Statuses

\* Each step of a job's delivery keeps the variables in their types; in the
\* steps that follow an await the worker holds a job.
LEMMA TypeStep ==
    ASSUME TypeOK, Active => cur \in Jobs, [Next]_vars
    PROVE  TypeOK'
<1> USE DEF job, gate, send, net
<1>1. ASSUME NEW j \in Jobs, Enqueue(j) PROVE TypeOK'
  BY <1>1 DEF Enqueue, TypeOK, Statuses
<1>2. ASSUME NEW j \in Jobs, BackoffElapses(j) PROVE TypeOK'
  BY <1>2 DEF BackoffElapses, TypeOK
<1>3. ASSUME NEW j \in Jobs, Visit(j) PROVE TypeOK'
  BY <1>3 DEF Visit, TypeOK, Phases
<1>4. ASSUME NEW j \in Jobs, Connected(j) PROVE TypeOK'
  BY <1>4 DEF Connected, Fail, TypeOK, Phases, Errors
<1>5. ASSUME NEW j \in Jobs, ReadReply(j) PROVE TypeOK'
  <2>1. CASE This \in stored
    BY <1>5, <2>1, AcknowledgeType DEF ReadReply, TypeOK
  <2>2. CASE This \notin stored
    BY <1>5, <2>2, PostType DEF ReadReply, TypeOK
  <2> QED
    BY <2>1, <2>2
<1>6. ASSUME NEW j \in Jobs, WriteReply(j) PROVE TypeOK'
  BY <1>6, AcknowledgeType DEF WriteReply, TypeOK
<1>7. CASE Toggle \/ Edit \/ OtherRead
  BY <1>7 DEF Toggle, Edit, OtherRead, Observe, TypeOK
<1>8. CASE TickBegin \/ TickEnd
  BY <1>8 DEF TickBegin, TickEnd, Heads, TypeOK, Phases
<1>9. CASE ConnectFails \/ NotRetried \/ Cancelled
  BY <1>9 DEF ConnectFails, NotRetried, Cancelled, Fail, TypeOK, Phases, Errors
<1>10. CASE Unavailable
  <2>1. cur \in Jobs
    BY <1>10 DEF Unavailable, Active, InFlight
  <2> QED
    BY <1>10, <2>1, PostType DEF Unavailable, Fail, TypeOK, Phases, Errors
<1>11. CASE Catch
  <2>1. cur \in Jobs
    BY <1>11 DEF Catch, Active
  <2> QED
    BY <1>11, <2>1 DEF Catch, TypeOK, Phases, Statuses, Errors
<1>12. ASSUME NEW r \in Requests, Apply(r) \/ Lose(r) PROVE TypeOK'
  BY <1>12 DEF Apply, Lose, TypeOK
<1>13. CASE Crash
  BY <1>13 DEF Crash, TypeOK, Phases
<1>14. ASSUME NEW t \in Targets, Restart(t) PROVE TypeOK'
  BY <1>14 DEF Restart, TypeOK, Phases
<1>15. CASE UNCHANGED vars
  BY <1>15 DEF vars, TypeOK
<1> QED
  BY <1>1, <1>2, <1>3, <1>4, <1>5, <1>6, <1>7, <1>8, <1>9, <1>10, <1>11, <1>12,
     <1>13, <1>14, <1>15 DEF Next, Worker

(************************ the inductive invariant **************************)

LEMMA InitInv == Init => IInv
BY DEF Init, IInv, SeqsGood, SendsGood, NetGood, WorkGood, Active, AbortGood,
       InFlight, AckedIsStored, ScopeOrder

\* A step that changes neither the journal's order nor what was sent, and leaves
\* the worker with the job it had or with none, keeps the invariant.
LEMMA QuietStep ==
    ASSUME IInv, UNCHANGED <<status, seq, next, pin, net>>,
           todo' \subseteq todo,
           Active' => Active /\ cur' = cur /\ target' = target,
           AbortGood'
    PROVE  IInv'
<1> USE DEF net
<1>1. SeqsGood' /\ SendsGood' /\ NetGood' /\ AckedIsStored' /\ ScopeOrder'
  BY DEF IInv, SeqsGood, SendsGood, Accepted, NetGood, AckedIsStored, ScopeOrder,
     Pending
<1>2. \A j : IsHead(j) => IsHead(j)'
  BY DEF IsHead, Pending
<1>3. WorkGood'
  <2>1. Active' => cur' \in Jobs /\ IsHead(cur') /\ PinHolds(cur)' /\ cur' \notin todo'
    BY DEF IInv, WorkGood, PinHolds
  <2> QED
    BY <2>1, <1>2 DEF IInv, WorkGood, IsHead, Pending
<1> QED
  BY <1>1, <1>3 DEF IInv

\* An accepted job comes after every other: heads stay heads.
LEMMA EnqueueInv ==
    ASSUME TypeOK, IInv, NEW j \in Jobs, Enqueue(j)
    PROVE  IInv'
<1> USE DEF gate, send, net
<1>1. /\ status[j] = "none" /\ status' = [status EXCEPT ![j] = "pending"]
      /\ seq' = [seq EXCEPT ![j] = next] /\ next' = next + 1
      /\ pin' = [pin EXCEPT ![j] = target]
      /\ UNCHANGED <<target, gate, send, net>>
  BY DEF Enqueue
<1>2. \A k \in Jobs \ {j} : status'[k] = status[k] /\ seq'[k] = seq[k] /\ pin'[k] = pin[k]
  BY <1>1 DEF TypeOK
<1>3. status'[j] = "pending" /\ seq'[j] = next
  BY <1>1 DEF TypeOK
<1>4. next \in Nat /\ \A k \in Jobs : seq[k] \in Nat /\ seq[k] < next
  BY DEF IInv, SeqsGood, TypeOK
<1>5. \A r \in sent : r[2] \in Jobs /\ r[2] # j
  BY <1>1 DEF IInv, SendsGood, Accepted, TypeOK, Requests
<1>6. \A k \in Jobs : IsHead(k) => k # j /\ IsHead(k)'
  <2>1. TAKE k \in Jobs
  <2>2. HAVE IsHead(k)
  <2>3. k # j
    BY <2>2, <1>1 DEF IsHead, Pending
  <2>4. Pending(k)' /\ seq'[k] = seq[k]
    BY <2>2, <2>3, <1>2 DEF IsHead, Pending
  <2>5. \A i \in Jobs : status'[i] = "pending" /\ ScopeOf[i] = ScopeOf[k]
          => seq'[i] >= seq'[k]
    BY <2>2, <2>4, <1>2, <1>3, <1>4 DEF IsHead, Pending
  <2> QED
    BY <2>3, <2>4, <2>5 DEF IsHead, Pending
<1>7. SeqsGood'
  BY <1>1, <1>2, <1>3, <1>4 DEF SeqsGood, TypeOK
<1>8. SendsGood' /\ NetGood'
  BY <1>1, <1>2, <1>5 DEF IInv, SendsGood, NetGood, Accepted
<1>9. WorkGood'
  <2>1. CASE Active
    <3>1. cur \in Jobs /\ IsHead(cur) /\ PinHolds(cur) /\ cur \notin todo
      BY <2>1 DEF IInv, WorkGood
    <3>2. cur # j /\ IsHead(cur)'
      BY <3>1, <1>1, <1>6 DEF IsHead, Pending
    <3> QED
      BY <3>1, <3>2, <1>1, <1>2, <1>6 DEF IInv, WorkGood, PinHolds, TypeOK
  <2>2. CASE ~Active
    BY <2>2, <1>1, <1>6 DEF IInv, WorkGood, Active, TypeOK
  <2> QED
    BY <2>1, <2>2
<1>10. AbortGood'
  BY <1>1 DEF IInv, AbortGood
<1>11. AckedIsStored'
  BY <1>1, <1>2, <1>3 DEF IInv, AckedIsStored
<1>12. ScopeOrder'
  BY <1>1, <1>2, <1>3, <1>4, <1>5 DEF IInv, ScopeOrder, Pending
<1> QED
  BY <1>7, <1>8, <1>9, <1>10, <1>11, <1>12 DEF IInv

\* The worker is done with its job, which is acknowledged or quarantined.
LEMMA FinishInv ==
    ASSUME TypeOK, IInv, Active, NEW s \in {"acked", "quarantined"},
           s = "acked" => <<pin[cur], cur>> \in stored,
           status' = [status EXCEPT ![cur] = s],
           UNCHANGED <<seq, next, pin, net, todo>>,
           phase' = "loop"
    PROVE  IInv'
<1> USE DEF net
<1>1. cur \in Jobs /\ cur \notin todo /\ Pending(cur)
  BY DEF IInv, WorkGood, IsHead
<1>2. status'[cur] = s /\ \A k \in Jobs \ {cur} : status'[k] = status[k]
  BY <1>1 DEF TypeOK
<1>3. \A k \in Jobs \ {cur} : IsHead(k) => IsHead(k)'
  BY <1>2 DEF IsHead, Pending
<1>4. SeqsGood'
  BY DEF IInv, SeqsGood
<1>5. SendsGood' /\ NetGood'
  BY <1>1, <1>2 DEF IInv, SendsGood, NetGood, Accepted, Pending, TypeOK, Requests
<1>6. WorkGood'
  BY <1>1, <1>3 DEF IInv, WorkGood, Active, InFlight, TypeOK
<1>7. AbortGood'
  BY DEF AbortGood, InFlight
<1>8. AckedIsStored'
  BY <1>1, <1>2 DEF IInv, AckedIsStored
<1>9. ScopeOrder'
  BY <1>2 DEF IInv, ScopeOrder, Pending, TypeOK
<1> QED
  BY <1>4, <1>5, <1>6, <1>7, <1>8, <1>9 DEF IInv

\* The write of a scope's head leaves, or its abort is noticed first.
LEMMA PostInv ==
    ASSUME TypeOK, IInv, phase \in {"read", "write"}, Post,
           UNCHANGED <<status, seq, next, pin, target, observed, aborted, todo, stored>>
    PROVE  IInv'
<1>1. /\ cur \in Jobs /\ IsHead(cur) /\ PinHolds(cur) /\ cur \notin todo
      /\ Active
  BY DEF IInv, WorkGood, Active, InFlight
<1>2. cur' = cur /\ phase' \in {"failed", "write"}
  BY DEF Post, Fail
<1>3. \A j : IsHead(j) => IsHead(j)'
  BY DEF IsHead, Pending
<1>4. SeqsGood' /\ AckedIsStored'
  BY DEF IInv, SeqsGood, AckedIsStored
<1>5. WorkGood'
  BY <1>1, <1>2, <1>3 DEF IInv, WorkGood, PinHolds
<1>6. AbortGood'
  BY DEF IInv, AbortGood, InFlight, Post, Fail
<1>7. \A r \in sent' : r \in sent \/ r = <<pin[cur], cur>>
  BY <1>1 DEF Post, This, PinHolds
<1>8. SendsGood'
  BY <1>1, <1>7 DEF IInv, SendsGood, Accepted, IsHead, Pending
<1>9. NetGood'
  BY DEF IInv, NetGood, Post
<1>10. ScopeOrder'
  BY <1>1, <1>7 DEF IInv, ScopeOrder, IsHead, Pending
<1> QED
  BY <1>4, <1>5, <1>6, <1>8, <1>9, <1>10 DEF IInv

\* The sender resolves: the record is at the backend; the acknowledgement is
\* recorded or throws.
LEMMA AcknowledgeInv ==
    ASSUME TypeOK, IInv, Active, NEW j \in Jobs, cur = j, This \in stored,
           Acknowledge(j), UNCHANGED <<target, todo, observed, aborted, net>>
    PROVE  IInv'
<1>1. <<pin[cur], cur>> \in stored
  BY DEF IInv, WorkGood, PinHolds, This
<1>2. CASE status' = [status EXCEPT ![j] = "acked"]
  BY <1>1, <1>2, FinishInv DEF Acknowledge
<1>3. CASE UNCHANGED status
  <2>1. ~Active' /\ AbortGood'
    BY DEF Acknowledge, Active, AbortGood, InFlight
  <2> QED
    BY <1>3, <2>1, QuietStep DEF Acknowledge
<1> QED
  BY <1>2, <1>3 DEF Acknowledge

\* One step of the session, its worker, its surroundings or the backend.
LEMMA InvStep ==
    ASSUME TypeOK, IInv, [Next]_vars
    PROVE  IInv'
<1> USE DEF job, gate, send, net
<1>1. ASSUME NEW j \in Jobs, Enqueue(j) PROVE IInv'
  BY <1>1, EnqueueInv
<1>2. ASSUME NEW j \in Jobs, BackoffElapses(j) PROVE IInv'
  BY <1>2, QuietStep DEF BackoffElapses, Active, IInv, AbortGood
<1>3. ASSUME NEW j \in Jobs, Visit(j) PROVE IInv'
  <2>1. CASE private \/ ~PinHolds(j)
    BY <1>3, <2>1, QuietStep DEF Visit, Active, InFlight, AbortGood
  <2>2. CASE ~private /\ PinHolds(j)
    <3>1. /\ phase' = "connect" /\ cur' = j /\ todo' = todo \ {j} /\ j \in todo
          /\ observed' = FALSE /\ UNCHANGED <<job, target, net>>
      BY <1>3, <2>2 DEF Visit, TypeOK
    <3>2. IsHead(j) /\ \A k \in todo : IsHead(k)
      BY <3>1 DEF IInv, WorkGood
    <3>3. WorkGood'
      BY <3>1, <3>2, <2>2 DEF WorkGood, IsHead, Pending, PinHolds
    <3>4. SeqsGood' /\ SendsGood' /\ NetGood' /\ AckedIsStored' /\ ScopeOrder'
      BY <3>1 DEF IInv, SeqsGood, SendsGood, Accepted, NetGood, AckedIsStored,
                  ScopeOrder, Pending
    <3>5. AbortGood'
      BY <3>1 DEF AbortGood
    <3> QED
      BY <3>3, <3>4, <3>5 DEF IInv
  <2> QED
    BY <2>1, <2>2
<1>4. ASSUME NEW j \in Jobs, Connected(j) PROVE IInv'
  BY <1>4, QuietStep DEF Connected, Fail, Active, InFlight, IInv, AbortGood
<1>5. ASSUME NEW j \in Jobs, ReadReply(j) PROVE IInv'
  <2>1. Active
    BY <1>5 DEF ReadReply, Active, InFlight
  <2>2. CASE This \in stored
    BY <1>5, <2>1, <2>2, AcknowledgeInv DEF ReadReply
  <2>3. CASE This \notin stored
    BY <1>5, <2>3, PostInv DEF ReadReply
  <2> QED
    BY <2>2, <2>3
<1>6. ASSUME NEW j \in Jobs, WriteReply(j) PROVE IInv'
  BY <1>6, AcknowledgeInv DEF WriteReply, Active, InFlight
<1>7. CASE Toggle \/ Edit \/ OtherRead
  BY <1>7, QuietStep DEF Toggle, Edit, OtherRead, Observe, Active, IInv, AbortGood,
     TypeOK
<1>8. CASE TickBegin
  <2>1. /\ \A j \in todo' : IsHead(j)
        /\ phase' = "loop" /\ UNCHANGED <<job, target, net>>
    BY <1>8 DEF TickBegin, Heads, EarlierPending, IsHead, Pending, TypeOK
  <2>2. WorkGood' /\ AbortGood'
    BY <2>1 DEF WorkGood, Active, AbortGood, InFlight, IsHead, Pending
  <2>3. SeqsGood' /\ SendsGood' /\ NetGood' /\ AckedIsStored' /\ ScopeOrder'
    BY <2>1 DEF IInv, SeqsGood, SendsGood, Accepted, NetGood, AckedIsStored,
                ScopeOrder, Pending
  <2> QED
    BY <2>2, <2>3 DEF IInv
<1>9. CASE TickEnd
  BY <1>9, QuietStep DEF TickEnd, Active, InFlight, AbortGood
<1>10. CASE ConnectFails \/ NotRetried \/ Cancelled
  BY <1>10, QuietStep DEF ConnectFails, NotRetried, Cancelled, Fail, Active,
     InFlight, AbortGood
<1>11. CASE Unavailable
  <2>1. CASE tried \/ aborted
    BY <1>11, <2>1, QuietStep DEF Unavailable, Fail, Active, InFlight, AbortGood
  <2>2. CASE ~(tried \/ aborted) /\ phase = "write"
    BY <1>11, <2>2, PostInv DEF Unavailable
  <2>3. CASE ~(tried \/ aborted) /\ phase # "write"
    BY <1>11, <2>3, QuietStep DEF Unavailable, Active, IInv, AbortGood
  <2> QED
    BY <2>1, <2>2, <2>3
<1>12. CASE Catch
  <2>1. Active /\ ~Active' /\ AbortGood'
    BY <1>12 DEF Catch, Active, InFlight, AbortGood
  <2>2. CASE UNCHANGED <<status, seq, next, pin>>
    BY <1>12, <2>1, <2>2, QuietStep DEF Catch
  <2>3. CASE status' = [status EXCEPT ![cur] = "quarantined"]
             /\ UNCHANGED <<seq, next, pin>>
    BY <1>12, <2>1, <2>3, FinishInv DEF Catch
  <2> QED
    BY <1>12, <2>2, <2>3 DEF Catch
<1>13. ASSUME NEW r \in Requests, Apply(r) \/ Lose(r) PROVE IInv'
  <2>1. /\ wire' \subseteq sent /\ stored' \subseteq sent /\ stored \subseteq stored'
        /\ UNCHANGED <<job, target, gate, send, sent>>
    BY <1>13 DEF Apply, Lose, IInv, NetGood
  <2> QED
    BY <2>1 DEF IInv, SeqsGood, SendsGood, Accepted, NetGood, WorkGood, Active, IsHead,
                Pending, PinHolds, AbortGood, AckedIsStored, ScopeOrder
<1>14. CASE Crash
  BY <1>14, QuietStep DEF Crash, Active, InFlight, AbortGood
<1>15. ASSUME NEW t \in Targets, Restart(t) PROVE IInv'
  BY <1>15, QuietStep DEF Restart, Active, InFlight, AbortGood
<1>16. CASE UNCHANGED vars
  BY <1>16, QuietStep DEF vars, Active, IInv, AbortGood
<1> QED
  BY <1>1, <1>2, <1>3, <1>4, <1>5, <1>6, <1>7, <1>8, <1>9, <1>10, <1>11, <1>12,
     <1>13, <1>14, <1>15, <1>16 DEF Next, Worker

(****************************** theorems ***********************************)

LEMMA InvAlways == Spec => [](TypeOK /\ IInv)
<1>1. Init => TypeOK /\ IInv
  BY InitType, InitInv
<1>2. TypeOK /\ IInv /\ [Next]_vars => (TypeOK /\ IInv)'
  <2> SUFFICES ASSUME TypeOK, IInv, [Next]_vars PROVE TypeOK' /\ IInv'
    OBVIOUS
  <2>1. Active => cur \in Jobs
    BY DEF IInv, WorkGood
  <2> QED
    BY <2>1, TypeStep, InvStep
<1> QED
  BY <1>1, <1>2, PTL DEF Spec

\* The variables of the worker, the gate and the network have their types
\* (OutboxJob, the worker's and the gate's fields).
THEOREM TypeCorrect == Spec => []TypeOK
BY InvAlways, PTL

\* A job the journal marks acknowledged has its record at the backend it was
\* pinned to (deliver() and writeImmutable()).
THEOREM AckedJobsAreStored == Spec => []AckedIsStored
<1>1. IInv => AckedIsStored
  BY DEF IInv
<1> QED
  BY <1>1, InvAlways, PTL

\* No write leaves for a target other than the one the job was accepted for
\* (the pin check of runTick()).
THEOREM WritesAreNotRerouted == Spec => []NeverRerouted
<1>1. IInv => NeverRerouted
  BY DEF IInv, SendsGood, NeverRerouted
<1> QED
  BY <1>1, InvAlways, PTL

\* Once a write of a job has left, every earlier job of its scope is finished
\* (the scope heads of runTick()).
THEOREM WritesKeepScopeOrder == Spec => []ScopeOrder
<1>1. IInv => ScopeOrder
  BY DEF IInv
<1> QED
  BY <1>1, InvAlways, PTL

\* No write leaves while the gate has last seen private mode (onCancel's abort
\* and the checks before each request).
THEOREM NoWriteWhileObserved == Spec => QuietWhileObserved
<1>1. IInv /\ [Next]_vars => [wire' \subseteq wire \/ ~observed]_vars
  <2> SUFFICES ASSUME IInv, Next, observed PROVE wire' \subseteq wire
    BY DEF vars, net
  <2> USE DEF job, gate, send, net
  <2>1. ASSUME Post, phase \in {"read", "write"} PROVE wire' \subseteq wire
    BY <2>1 DEF Post, IInv, AbortGood, InFlight
  <2>2. CASE \E j \in Jobs : Enqueue(j) \/ BackoffElapses(j) \/ Worker(j)
    BY <2>1, <2>2 DEF Enqueue, BackoffElapses, Worker, Visit, Connected, ReadReply,
       WriteReply
  <2>3. CASE Toggle \/ Edit \/ OtherRead \/ TickBegin \/ TickEnd \/ ConnectFails
             \/ NotRetried \/ Cancelled \/ Catch \/ Crash
    BY <2>3 DEF Toggle, Edit, OtherRead, TickBegin, TickEnd, ConnectFails, NotRetried,
                Cancelled, Catch, Crash
  <2>4. CASE Unavailable
    BY <2>1, <2>4 DEF Unavailable
  <2>5. CASE \E r \in Requests : Apply(r) \/ Lose(r)
    BY <2>5 DEF Apply, Lose
  <2>6. CASE \E t \in Targets : Restart(t)
    BY <2>6 DEF Restart
  <2> QED
    BY <2>2, <2>3, <2>4, <2>5, <2>6 DEF Next
<1> QED
  BY <1>1, InvAlways, PTL DEF Spec, QuietWhileObserved

(*************************** implementation ********************************)

LEMMA ChannelInit == Init => Channel!Init
BY DEF Init, Channel!Init

\* Steps that leave the journal's order and the network alone stutter.
LEMMA ChannelStutter ==
    ASSUME UNCHANGED <<status, seq, next, pin, net>>
    PROVE  UNCHANGED Channel!vars
BY DEF net, Channel!vars

\* The head in the worker's hands is a head of the channel.
LEMMA ChannelHead ==
    ASSUME IInv, Active
    PROVE  cur \in Jobs /\ Channel!Head(cur) /\ This = <<pin[cur], cur>>
BY DEF IInv, WorkGood, IsHead, Pending, Channel!Head, Channel!Pending, PinHolds, This

LEMMA ChannelPost ==
    ASSUME TypeOK, IInv, phase \in {"read", "write"}, Post,
           UNCHANGED <<status, seq, next, pin, stored>>
    PROVE  [Channel!Next]_Channel!vars
<1>1. /\ cur \in Jobs /\ Channel!Head(cur) /\ This = <<pin[cur], cur>>
  BY ChannelHead DEF Active, InFlight
<1>2. CASE aborted
  BY <1>2 DEF Post, Channel!vars
<1>3. CASE ~aborted
  <2>1. sent' = sent \cup {<<pin[cur], cur>>}
    BY <1>1, <1>3 DEF Post
  <2>2. {j \in Jobs : <<pin'[j], j>> \in sent'}
          = {j \in Jobs : <<pin[j], j>> \in sent} \cup {cur}
    BY <2>1, <1>1
  <2>3. PICK j \in Jobs : j = cur
    BY <1>1
  <2>4. Channel!Attempt(j)
    BY <1>1, <2>2, <2>3 DEF Channel!Attempt
  <2> QED
    BY <2>4 DEF Channel!Next
<1> QED
  BY <1>2, <1>3

LEMMA ChannelAcknowledge ==
    ASSUME TypeOK, IInv, Active, NEW j \in Jobs, cur = j, This \in stored,
           Acknowledge(j), UNCHANGED net
    PROVE  [Channel!Next]_Channel!vars
<1>1. Channel!Head(j) /\ <<pin[j], j>> \in stored
  BY ChannelHead
<1>2. CASE UNCHANGED status
  BY <1>2, ChannelStutter DEF Acknowledge
<1>3. CASE status' = [status EXCEPT ![j] = "acked"]
  <2>1. Channel!Deliver(j)
    BY <1>1, <1>3 DEF Channel!Deliver, Acknowledge, net
  <2> QED
    BY <2>1 DEF Channel!Next
<1> QED
  BY <1>2, <1>3 DEF Acknowledge

\* Every step of the worker and its surroundings is a step of the channel or
\* none of its business.
LEMMA ChannelStep ==
    ASSUME TypeOK, IInv, [Next]_vars
    PROVE  [Channel!Next]_Channel!vars
<1> USE DEF job, gate, send
<1>1. ASSUME NEW j \in Jobs, Enqueue(j) PROVE [Channel!Next]_Channel!vars
  <2>1. /\ status[j] = "none" /\ pin' = [pin EXCEPT ![j] = target]
        /\ UNCHANGED <<sent, stored>>
    BY <1>1 DEF Enqueue, net
  <2>2. \A k \in Jobs \ {j} : pin'[k] = pin[k]
    BY <2>1 DEF TypeOK
  <2>3. \A t : <<t, j>> \notin sent /\ <<t, j>> \notin stored
    BY <2>1 DEF IInv, SendsGood, Accepted, NetGood
  <2>4. /\ {k \in Jobs : <<pin'[k], k>> \in sent'} = {k \in Jobs : <<pin[k], k>> \in sent}
        /\ {k \in Jobs : <<pin'[k], k>> \in stored'}
           = {k \in Jobs : <<pin[k], k>> \in stored}
    BY <2>1, <2>2, <2>3
  <2>5. Channel!Accept(j)
    BY <1>1, <2>4 DEF Enqueue, Channel!Accept
  <2> QED
    BY <2>5 DEF Channel!Next
<1>2. ASSUME NEW j \in Jobs, BackoffElapses(j) \/ Visit(j) \/ Connected(j)
      PROVE [Channel!Next]_Channel!vars
  BY <1>2, ChannelStutter DEF BackoffElapses, Visit, Connected
<1>3. ASSUME NEW j \in Jobs, ReadReply(j) PROVE [Channel!Next]_Channel!vars
  <2>1. CASE This \in stored
    BY <1>3, <2>1, ChannelAcknowledge DEF ReadReply, net, Active, InFlight
  <2>2. CASE This \notin stored
    BY <1>3, <2>2, ChannelPost DEF ReadReply
  <2> QED
    BY <2>1, <2>2
<1>4. ASSUME NEW j \in Jobs, WriteReply(j) PROVE [Channel!Next]_Channel!vars
  BY <1>4, ChannelAcknowledge DEF WriteReply, Active, InFlight
<1>5. CASE Unavailable
  <2>1. CASE phase = "write" /\ ~(tried \/ aborted)
    BY <1>5, <2>1, ChannelPost DEF Unavailable
  <2>2. CASE ~(phase = "write" /\ ~(tried \/ aborted))
    BY <1>5, <2>2, ChannelStutter DEF Unavailable, net
  <2> QED
    BY <2>1, <2>2
<1>6. CASE Catch
  <2>1. CASE UNCHANGED <<status, seq, next, pin>>
    BY <1>6, <2>1, ChannelStutter DEF Catch
  <2>2. CASE status' = [status EXCEPT ![cur] = "quarantined"]
             /\ UNCHANGED <<seq, next, pin>>
    <3>1. cur \in Jobs /\ Channel!Head(cur)
      BY <1>6, ChannelHead DEF Catch, Active
    <3>2. Channel!GiveUp(cur)
      BY <1>6, <2>2, <3>1 DEF Catch, Channel!GiveUp, net
    <3> QED
      BY <3>1, <3>2 DEF Channel!Next
  <2> QED
    BY <1>6, <2>1, <2>2 DEF Catch
<1>7. ASSUME NEW r \in Requests, Apply(r) PROVE [Channel!Next]_Channel!vars
  <2>1. /\ r \in sent /\ r[2] \in Jobs /\ r = <<pin[r[2]], r[2]>>
        /\ stored' = stored \cup {r} /\ UNCHANGED <<status, seq, next, pin, sent>>
    BY <1>7 DEF Apply, IInv, NetGood, SendsGood, Requests
  <2>2. {k \in Jobs : <<pin'[k], k>> \in stored'}
          = {k \in Jobs : <<pin[k], k>> \in stored} \cup {r[2]}
    <3>1. \A k \in Jobs : <<pin[k], k>> = r <=> k = r[2]
      BY <2>1
    <3> QED
      BY <2>1, <3>1
  <2>3. r[2] \in {k \in Jobs : <<pin[k], k>> \in sent}
    BY <2>1
  <2>4. Channel!Store(r[2])
    BY <2>1, <2>2, <2>3 DEF Channel!Store
  <2> QED
    BY <2>1, <2>4 DEF Channel!Next
<1>8. CASE \/ Toggle \/ Edit \/ OtherRead \/ TickBegin \/ TickEnd \/ ConnectFails
           \/ NotRetried \/ Cancelled \/ Crash \/ \E t \in Targets : Restart(t)
  BY <1>8, ChannelStutter DEF Toggle, Edit, OtherRead, TickBegin, TickEnd, ConnectFails,
     NotRetried, Cancelled, Crash, Restart
<1>9. ASSUME NEW r \in Requests, Lose(r) PROVE [Channel!Next]_Channel!vars
  BY <1>9 DEF Lose, Channel!vars
<1>10. CASE UNCHANGED vars
  BY <1>10, ChannelStutter DEF vars
<1> QED
  BY <1>1, <1>2, <1>3, <1>4, <1>5, <1>6, <1>7, <1>8, <1>9, <1>10 DEF Next, Worker

\* The worker, its retries, aborts, crashes and restarts included, is an
\* in-order at-least-once channel.
THEOREM DeliveryIsChannel == Spec => IsChannel
<1>1. Init => Channel!Init
  BY ChannelInit
<1>2. TypeOK /\ IInv /\ [Next]_vars => [Channel!Next]_Channel!vars
  BY ChannelStep
<1> QED
  BY <1>1, <1>2, InvAlways, PTL DEF Spec, IsChannel, Channel!Spec

-----------------------------------------------------------------------------
(* The reconciliation cursor, CursorReconcile.  The invariant compares     *)
(* three copies of the advisory position: the file, which a save that      *)
(* threw may have left behind; the process's memory; and the pass under    *)
(* way, which is ahead of it.  A page that does not drift prolongs what    *)
(* the pass has seen by the seqs that follow, so that what is adopted      *)
(* agrees with all three wherever they overlap.                            *)

AtMostOne(S) == \A x, y \in S : x = y

Hashes == {<< >>} \cup (0..MaxMishaps) \X (0..MaxSeq)

\* The seqs of C up to `back' are a run of seqs that ends there.
Gapless(C, back) == back > 0 => \E from \in 1..back : C \cap (1..back) = from..back

FeedGood ==
    /\ feed \in [epoch : 0..mishaps, low : 0..MaxSeq, head : 1..MaxSeq]
    /\ feed.low =< feed.head

CopiesGood ==
    /\ Gapless(chain, cursors.back)
    /\ \A s \in mem : Gapless(chain, s.back) /\ cursors.back =< s.back

PassGood ==
    \A p \in pass :
        /\ p.since \in Hashes /\ p.last \in 0..MaxSeq /\ p.pages \in 0..(MaxPages - 1)
        /\ p.seen \subseteq 1..p.last /\ Gapless(p.seen, p.last)
        /\ \A s \in mem : /\ s.back =< p.last
                          /\ p.seen \cap (1..s.back) = chain \cap (1..s.back)

DurableGood == ~failed => cursors.local >= durable
    /\ \A s \in mem : s.local = cursors.local

TypesGood ==
    /\ cursors \in Cursor!States
       /\ mem \subseteq {s \in Cursor!States : s.kind # "corrupt"}
    /\ pass # {} => mem # {}
    /\ chain \subseteq 1..MaxSeq /\ durable \in 0..MaxLocal
    /\ failed \in BOOLEAN /\ mishaps \in 0..MaxMishaps
    /\ AtMostOne(mem) /\ AtMostOne(pass)

CursorInv == TypesGood /\ FeedGood /\ CopiesGood /\ PassGood /\ DurableGood

-----------------------------------------------------------------------------
(* Operators.                                                              *)

LEMMA AtMostOneIs == ASSUME NEW S, AtMostOne(S) PROVE Cardinality(S) =< 1
<1>1. CASE S = {}
  BY <1>1, FS_EmptySet
<1>2. CASE S # {}
  <2>1. PICK x \in S : TRUE
    BY <1>2
  <2>2. S = {x}
    BY <2>1 DEF AtMostOne
  <2>3. Cardinality({x}) = 1
    BY FS_Singleton, Zenon
  <2> QED
    BY <2>2, <2>3
<1> QED
  BY <1>1, <1>2

\* Two sets that agree up to `back' are both gapless there, and further down.
LEMMA GaplessBelow ==
    ASSUME NEW C, NEW D, NEW back \in Nat, NEW low \in 0..back,
           C \cap (1..back) = D \cap (1..back), Gapless(C, low)
    PROVE  Gapless(D, low)
<1> SUFFICES ASSUME low > 0 PROVE \E from \in 1..low : D \cap (1..low) = from..low
  BY DEF Gapless
<1>1. C \cap (1..low) = D \cap (1..low)
  <2>1. \A i \in 1..low : i \in 1..back
    OBVIOUS
  <2>2. \A i \in 1..back : i \in C <=> i \in D
    OBVIOUS
  <2> QED
    BY <2>1, <2>2
<1> QED
  BY <1>1 DEF Gapless

LEMMA GaplessRun ==
    ASSUME NEW C, NEW last \in Nat, NEW top \in Nat, last < top,
           C \subseteq 1..last, Gapless(C, last),
           NEW D, NEW first \in 1..top, D = first..top,
           first > last, last > 0 => first = last + 1
    PROVE  Gapless(C \cup D, top) /\ C \cup D \subseteq 1..top
<1>1. CASE last = 0
  <2>1. C = {}
    BY <1>1
  <2>2. (C \cup D) \cap (1..top) = first..top
    BY <2>1
  <2> QED
    BY <2>1, <2>2 DEF Gapless
<1>2. CASE last > 0
  <2>1. PICK from \in 1..last : C \cap (1..last) = from..last
    BY <1>2 DEF Gapless
  <2>2. C = from..last
    BY <2>1
  <2>3. \A i \in Int : i \in C \cup D <=> from =< i /\ i =< top
    BY <1>2, <2>2
  <2>4. \A i \in C \cup D : i \in Int
    BY <2>2
  <2>5. C \cup D = from..top
    <3>1. \A i \in from..top : i \in C \cup D
      BY <2>3
    <3>2. \A i \in C \cup D : i \in from..top
      BY <2>3, <2>4
    <3> QED
      BY <3>1, <3>2
  <2>6. (C \cup D) \cap (1..top) = from..top /\ from \in 1..top
    BY <1>2, <2>5
  <2> QED
    BY <2>5, <2>6 DEF Gapless
<1> QED
  BY <1>1, <1>2

\* What a page holds.
LEMMA PageIs ==
    ASSUME Cursor!BoundsAssumption, CursorInv, NEW since \in Hashes
    PROVE  \E from \in Nat, upto \in 0..MaxSeq :
             Cursor!Page(since) = [changes |-> (from + 1)..upto, first |-> from + 1,
                last |-> upto,
                            hash |-> <<feed.epoch, upto>>, more |-> upto < feed.head]
<1>1. since # << >> => since[2] \in Nat
  BY DEF Hashes
<1>2. /\ feed.low \in Nat /\ feed.head \in 1..MaxSeq /\ PageSize \in Nat /\ MaxSeq \in Nat
  BY DEF CursorInv, FeedGood, Cursor!BoundsAssumption
<1> DEFINE known == since # << >> /\ since[1] = feed.epoch /\ since[2] >= feed.low
           from  == IF known THEN since[2] ELSE feed.low
           upto  == IF from + PageSize < feed.head THEN from + PageSize ELSE feed.head
<1>3. from \in Nat
  BY <1>1, <1>2
<1>4. upto \in 0..MaxSeq
  <2> HIDE DEF from
  <2> QED
    BY <1>2, <1>3
<1>5. Cursor!Page(since)
        = [changes |-> (from + 1)..upto, first |-> from + 1, last |-> upto,
                     hash |-> <<feed.epoch, upto>>, more |-> upto < feed.head]
  BY DEF Cursor!Page
<1> QED
  BY <1>3, <1>4, <1>5

-----------------------------------------------------------------------------
(* Saves.                                                                  *)

\* What the memory, the file and the advisory position are after a save of t
\* over s, whether it throws or not.
LEMMA SaveStep ==
    ASSUME Cursor!BoundsAssumption, CursorInv, NEW s \in mem,
           NEW t \in Cursor!States, t.kind # "corrupt",
           Cursor!Save(t), UNCHANGED feed, t.back >= s.back,
           chain' \subseteq 1..MaxSeq, Gapless(chain', t.back),
           chain' \cap (1..s.back) = chain \cap (1..s.back),
           pass' = {} \/ (pass' = pass /\ t.back = s.back),
           durable' \in 0..MaxLocal, ~failed' => t.local >= durable'
    PROVE  CursorInv'
<1>1. /\ mem' = {t} /\ cursors' \in {cursors, t}
      /\ \/ cursors' = t /\ UNCHANGED <<failed, mishaps>>
         \/ failed' = TRUE /\ mishaps < MaxMishaps /\ mishaps' = mishaps + 1
  BY DEF Cursor!Save, Cursor!Mishap
<1>2. /\ mishaps \in 0..MaxMishaps /\ MaxMishaps \in Nat /\ cursors \in Cursor!States
      /\ s \in Cursor!States /\ cursors.back =< s.back /\ Gapless(chain, cursors.back)
  BY DEF CursorInv, TypesGood, CopiesGood, Cursor!BoundsAssumption
<1>3. s.back \in Nat /\ t.back \in Nat /\ cursors.back \in 0..s.back
  BY <1>2 DEF Cursor!States
<1>4. mishaps' \in 0..MaxMishaps /\ mishaps' >= mishaps
  BY <1>1, <1>2
<1>5. TypesGood'
  <2>1. cursors' \in Cursor!States
          /\ mem' \subseteq {x \in Cursor!States : x.kind # "corrupt"} /\ mem' # {}
    BY <1>1, <1>2
  <2>2. AtMostOne(mem') /\ AtMostOne(pass')
    BY <1>1 DEF AtMostOne, CursorInv, TypesGood
  <2>3. failed' \in BOOLEAN
    BY <1>1 DEF CursorInv, TypesGood
  <2> QED
    BY <1>4, <2>1, <2>2, <2>3 DEF TypesGood, AtMostOne
<1>6. FeedGood'
  BY <1>2, <1>4 DEF CursorInv, FeedGood
<1>7. CopiesGood'
  <2>1. Gapless(chain', cursors.back)
    BY <1>2, <1>3, GaplessBelow
  <2>2. Gapless(chain', cursors'.back) /\ cursors'.back =< t.back
    BY <1>1, <1>3, <2>1
  <2> QED
    BY <1>1, <2>2 DEF CopiesGood, Gapless
<1>8. PassGood'
  <2>1. CASE pass' = {}
    BY <2>1 DEF PassGood
  <2>2. CASE pass' = pass /\ t.back = s.back
    BY <1>1, <2>2 DEF CursorInv, PassGood, Gapless
  <2> QED
    BY <2>1, <2>2
<1>9. DurableGood'
  BY <1>1 DEF DurableGood
<1> QED
  BY <1>5, <1>6, <1>7, <1>8, <1>9 DEF CursorInv

\* A seq that is accepted.
LEMMA AdvanceStep ==
    ASSUME Cursor!BoundsAssumption, CursorInv, NEW q \in 1..MaxLocal,
           Cursor!AdvanceLocalSeq(q)
    PROVE  CursorInv'

<1>1. PICK s \in mem :
        /\ \/ /\ Cursor!Advances(s, q) /\ Cursor!Save([s EXCEPT !.local = q])
              /\ durable' = IF mishaps' = mishaps /\ q > durable THEN q ELSE durable
           \/ /\ ~Cursor!Advances(s, q)
              /\ durable' = IF q > durable THEN q ELSE durable
              /\ UNCHANGED <<cursors, mem, failed, mishaps>>
        /\ UNCHANGED <<feed, pass, chain>>
  BY DEF Cursor!AdvanceLocalSeq
<1>2. /\ s \in Cursor!States /\ s.kind # "corrupt" /\ Gapless(chain, s.back)
         /\ chain \subseteq 1..MaxSeq
      /\ durable \in 0..MaxLocal /\ MaxLocal \in Nat /\ cursors \in Cursor!States
      /\ ~failed => durable =< cursors.local /\ s.local = cursors.local
  BY DEF CursorInv, TypesGood, CopiesGood, DurableGood, Cursor!BoundsAssumption
<1>3. s.local \in Nat /\ s.back \in Nat /\ cursors.local \in Nat
  BY <1>2 DEF Cursor!States
<1>4. durable' \in 0..MaxLocal /\ (durable' = durable \/ durable' = q)
  BY <1>1, <1>2
<1>5. CASE Cursor!Advances(s, q)
  <2> DEFINE t == [s EXCEPT !.local = q]
  <2>1. t \in Cursor!States /\ t.kind # "corrupt" /\ t.back = s.back /\ t.local = q
    BY <1>2 DEF Cursor!States
  <2>2. Cursor!Save(t)
    BY <1>1, <1>5
  <2>3. ~failed' => ~failed
    BY <2>2 DEF Cursor!Save
  <2>4. ~failed' => q >= durable'
    BY <1>2, <1>3, <1>4, <1>5, <2>3 DEF Cursor!Advances
  <2> HIDE DEF t
  <2> QED
    BY <1>1, <1>2, <1>3, <1>4, <2>1, <2>2, <2>4, SaveStep
<1>6. CASE ~Cursor!Advances(s, q)
  <2>1. UNCHANGED <<cursors, mem, failed, mishaps, feed, pass, chain>>
    BY <1>1, <1>6
  <2>2. ~failed => durable' =< cursors.local
    BY <1>2, <1>3, <1>4, <1>6 DEF Cursor!Advances
  <2>3. DurableGood'
    BY <2>1, <2>2 DEF CursorInv, DurableGood
  <2>4. TypesGood'
    BY <1>4, <2>1 DEF CursorInv, TypesGood
  <2>5. FeedGood' /\ CopiesGood' /\ PassGood'
    BY <2>1 DEF CursorInv, FeedGood, CopiesGood, PassGood, Gapless
  <2> QED
    BY <2>3, <2>4, <2>5 DEF CursorInv
<1> QED
  BY <1>5, <1>6

-----------------------------------------------------------------------------
(* The other steps.                                                        *)

LEMMA OpenStep == ASSUME Cursor!BoundsAssumption, CursorInv, Cursor!Open PROVE CursorInv'
<1> DEFINE s == [cursors EXCEPT !.flag = @ \/ cursors.kind = "newer"]
<1>1. mem = {} /\ cursors.kind # "corrupt" /\ mem' = {s}
      /\ UNCHANGED <<cursors, feed, pass, chain, durable, failed, mishaps>>
  BY DEF Cursor!Open, Cursor!history
<1>2. cursors \in Cursor!States /\ pass = {}
  BY <1>1 DEF CursorInv, TypesGood
<1>3. s \in Cursor!States /\ s.kind # "corrupt" /\ s.back = cursors.back
        /\ s.local = cursors.local
  <2>1. (cursors.flag \/ cursors.kind = "newer") \in BOOLEAN
    OBVIOUS
  <2> QED
    BY <1>1, <1>2, <2>1 DEF Cursor!States
<1> HIDE DEF s
<1>4. TypesGood'
  BY <1>1, <1>2, <1>3 DEF CursorInv, TypesGood, AtMostOne
<1>5. FeedGood' /\ PassGood'
  BY <1>1, <1>2 DEF CursorInv, FeedGood, PassGood
<1>6. CopiesGood'
  <2>1. cursors.back =< cursors.back
    BY <1>2 DEF Cursor!States
  <2> QED
    BY <1>1, <1>3, <2>1 DEF CursorInv, CopiesGood, Gapless
<1>7. DurableGood'
  BY <1>1, <1>3 DEF CursorInv, DurableGood
<1> QED
  BY <1>4, <1>5, <1>6, <1>7 DEF CursorInv

LEMMA FeedStep ==
    ASSUME Cursor!BoundsAssumption, CursorInv, Cursor!Grow \/ Cursor!Trim
           \/ Cursor!StartOver
    PROVE  CursorInv'
<1>1. UNCHANGED <<cursors, mem, pass, chain, durable, failed>>
  BY DEF Cursor!Grow, Cursor!Trim, Cursor!StartOver, Cursor!history
<1>2. /\ mishaps \in 0..MaxMishaps /\ MaxMishaps \in Nat /\ MaxSeq \in Nat \ {0}
      /\ feed \in [epoch : 0..mishaps, low : 0..MaxSeq, head : 1..MaxSeq]
      /\ feed.low =< feed.head
  BY DEF CursorInv, TypesGood, FeedGood, Cursor!BoundsAssumption
<1>3. mishaps' \in 0..MaxMishaps /\ mishaps' >= mishaps
  BY <1>2 DEF Cursor!Grow, Cursor!Trim, Cursor!StartOver, Cursor!Mishap
<1>4. FeedGood'
  <2>1. CASE Cursor!Grow
    <3>1. /\ feed' \in [epoch : 0..mishaps, low : 0..MaxSeq, head : 1..MaxSeq]
          /\ feed'.low =< feed'.head /\ mishaps' = mishaps
      BY <1>2, <2>1 DEF Cursor!Grow
    <3> QED
      BY <3>1 DEF FeedGood
  <2>2. CASE Cursor!Trim
    <3>1. PICK low \in (feed.low + 1)..feed.head : feed' = [feed EXCEPT !.low = low]
      BY <2>2 DEF Cursor!Trim
    <3>2. /\ feed' \in [epoch : 0..mishaps, low : 0..MaxSeq, head : 1..MaxSeq]
          /\ feed'.low =< feed'.head
      BY <1>2, <3>1
    <3> QED
      BY <1>2, <1>3, <3>2 DEF FeedGood
  <2>3. CASE Cursor!StartOver
    <3>1. feed' = [epoch |-> feed.epoch + 1, low |-> 0, head |-> 1]
            /\ mishaps' = mishaps + 1
      BY <2>3 DEF Cursor!StartOver, Cursor!Mishap
    <3> QED
      BY <1>2, <3>1 DEF FeedGood
  <2> QED
    BY <2>1, <2>2, <2>3
<1>5. TypesGood'
  BY <1>1, <1>3 DEF CursorInv, TypesGood
<1>6. CopiesGood' /\ PassGood' /\ DurableGood'
  BY <1>1 DEF CursorInv, CopiesGood, PassGood, DurableGood, Gapless
<1> QED
  BY <1>4, <1>5, <1>6 DEF CursorInv

LEMMA BeginStep ==
    ASSUME Cursor!BoundsAssumption, CursorInv, Cursor!Begin
    PROVE  CursorInv'
<1>1. PICK s \in mem : pass' = {[since |-> s.hash, last |-> s.back, pages |-> 0,
                                seen |-> chain \cap (1..s.back)]}
  BY DEF Cursor!Begin
<1>2. UNCHANGED <<cursors, mem, feed, chain, durable, failed, mishaps>>
  BY DEF Cursor!Begin, Cursor!history
<1>3. s \in Cursor!States /\ mem = {s} /\ Gapless(chain, s.back) /\ MaxPages \in Nat \ {0}
  BY DEF CursorInv, TypesGood, AtMostOne, CopiesGood, Cursor!BoundsAssumption
<1>4. s.hash \in Hashes /\ s.back \in 0..MaxSeq
  BY <1>3 DEF Cursor!States, Hashes
<1>5. TypesGood'
  BY <1>1, <1>2 DEF CursorInv, TypesGood, AtMostOne
<1>6. FeedGood' /\ CopiesGood' /\ DurableGood'
  BY <1>2 DEF CursorInv, FeedGood, CopiesGood, DurableGood, Gapless
<1>7. PassGood'
  <2> DEFINE seen == chain \cap (1..s.back)
  <2>1. seen \subseteq 1..s.back /\ seen \cap (1..s.back) = seen
    OBVIOUS
  <2>2. Gapless(seen, s.back)
    BY <1>3, <2>1 DEF Gapless
  <2>3. s.back =< s.back /\ 0 \in 0..(MaxPages - 1)
    BY <1>3, <1>4
  <2> HIDE DEF seen
  <2>4. pass' = {[since |-> s.hash, last |-> s.back, pages |-> 0, seen |-> seen]}
    BY <1>1 DEF seen
  <2>5. seen \cap (1..s.back) = chain \cap (1..s.back)
    BY DEF seen
  <2> QED
    BY <1>2, <1>3, <1>4, <2>1, <2>2, <2>3, <2>4, <2>5 DEF PassGood, Gapless
<1> QED
  BY <1>5, <1>6, <1>7 DEF CursorInv

LEMMA EndStep ==
    ASSUME Cursor!BoundsAssumption, CursorInv, Cursor!FetchFails \/ Cursor!Crash
    PROVE  CursorInv'
<1>1. /\ UNCHANGED <<cursors, feed, chain, durable, failed>> /\ pass' = {}
      /\ mem' \in {mem, {}} /\ mishaps < MaxMishaps /\ mishaps' = mishaps + 1
  BY DEF Cursor!FetchFails, Cursor!Crash, Cursor!Mishap, Cursor!history
<1>2. mishaps \in 0..MaxMishaps /\ MaxMishaps \in Nat
  BY DEF CursorInv, TypesGood, Cursor!BoundsAssumption
<1>3. TypesGood'
  BY <1>1, <1>2 DEF CursorInv, TypesGood, AtMostOne
<1>4. FeedGood' /\ PassGood'
  BY <1>1, <1>2 DEF CursorInv, FeedGood, PassGood
<1>5. CopiesGood' /\ DurableGood'
  BY <1>1 DEF CursorInv, CopiesGood, DurableGood, Gapless
<1> QED
  BY <1>3, <1>4, <1>5 DEF CursorInv

\* A step that changes nothing but the pass.
LEMMA Rested ==
    ASSUME CursorInv, UNCHANGED <<cursors, mem, feed, chain, durable, failed, mishaps>>,
           pass' = pass \/ pass' = {} \/ (AtMostOne(pass') /\ PassGood' /\ mem # {})
    PROVE  CursorInv'
<1>1. TypesGood'
  BY DEF CursorInv, TypesGood, AtMostOne
<1>2. FeedGood' /\ CopiesGood' /\ DurableGood'
  BY DEF CursorInv, FeedGood, CopiesGood, DurableGood, Gapless
<1>3. PassGood'
  BY DEF CursorInv, PassGood, Gapless
<1> QED
  BY <1>1, <1>2, <1>3 DEF CursorInv

\* A page, in its four ways.
LEMMA PageStep ==
    ASSUME Cursor!BoundsAssumption, CursorInv, Cursor!FetchPage
    PROVE  CursorInv'
<1>1. PICK p \in pass, s \in mem :
        LET page == Cursor!Page(p.since) IN
        /\ \/ Cursor!Drift(p, s, page) \/ Cursor!Adopt(p, s, page)
           \/ Cursor!Turn(p, page) \/ Cursor!Pause(p, s, page)
        /\ UNCHANGED <<feed, durable>>
  BY DEF Cursor!FetchPage
<1>2. /\ s \in Cursor!States /\ s.kind # "corrupt" /\ s.back \in Nat /\ mem = {s}
      /\ Gapless(chain, s.back) /\ chain \subseteq 1..MaxSeq
      /\ durable \in 0..MaxLocal /\ (~failed => s.local >= durable)
  BY DEF CursorInv, TypesGood, AtMostOne, CopiesGood, DurableGood, Cursor!States
<1>3. /\ p.since \in Hashes /\ p.last \in 0..MaxSeq /\ p.pages \in 0..(MaxPages - 1)
      /\ p.seen \subseteq 1..p.last /\ Gapless(p.seen, p.last) /\ s.back =< p.last
      /\ p.seen \cap (1..s.back) = chain \cap (1..s.back)
  BY DEF CursorInv, PassGood
<1>4. MaxSeq \in Nat \ {0} /\ MaxPages \in Nat \ {0} /\ feed.epoch \in 0..MaxMishaps
  BY DEF Cursor!BoundsAssumption, CursorInv, FeedGood, TypesGood
<1> DEFINE page == Cursor!Page(p.since)
<1>5. PICK from \in Nat, upto \in 0..MaxSeq :
        page = [changes |-> (from + 1)..upto, first |-> from + 1, last |-> upto,
                hash |-> <<feed.epoch, upto>>, more |-> upto < feed.head]
  BY <1>3, PageIs
<1>6. page.hash \in Hashes
  BY <1>4, <1>5 DEF Hashes
<1>7. Cursor!Drift(p, s, page) \/ Cursor!Adopt(p, s, page) \/ Cursor!Turn(p, page)
        \/ Cursor!Pause(p, s, page)
  BY <1>1
<1>8. feed' = feed /\ durable' = durable
  BY <1>1
<1> HIDE DEF page
\* How far the pass is after the page, if it is adopted or goes on.
<1> DEFINE last == IF page.changes = {} THEN p.last ELSE page.last
           seen == p.seen \cup page.changes
<1>9. ASSUME ~Cursor!Drifted(p, page)
      PROVE  /\ last \in 0..MaxSeq /\ p.last =< last
             /\ seen \subseteq 1..last /\ Gapless(seen, last)
             /\ seen \cap (1..s.back) = chain \cap (1..s.back)
  <2>1. CASE page.changes = {}
    BY <1>3, <1>4, <2>1
  <2>2. CASE page.changes # {}
    <3>1. page.changes = page.first..upto /\ page.first \in 1..upto /\ page.last = upto
      BY <1>5, <2>2
    <3>2. page.first > p.last /\ (p.last > 0 => page.first = p.last + 1)
      BY <1>3, <1>9, <2>2, <3>1 DEF Cursor!Drifted
    <3>3. Gapless(seen, upto) /\ seen \subseteq 1..upto
      <4>1. p.last \in Nat /\ upto \in Nat /\ p.last < upto
        BY <1>3, <3>1, <3>2
      <4>2. /\ Gapless(p.seen \cup page.changes, upto)
            /\ p.seen \cup page.changes \subseteq 1..upto
        BY <1>3, <3>1, <3>2, <4>1, GaplessRun
      <4> QED
        BY <4>2
    <3>4. page.changes \cap (1..s.back) = {}
      BY <1>2, <1>3, <3>1, <3>2
    <3> QED
      BY <1>3, <2>2, <3>1, <3>2, <3>3, <3>4
  <2> QED
    BY <2>1, <2>2
<1> HIDE DEF last, seen
<1>10. ASSUME Cursor!Flag(s), pass' = {}, chain' = chain PROVE CursorInv'
  <2> DEFINE t == [s EXCEPT !.flag = TRUE]
  <2>1. t \in Cursor!States /\ t.kind # "corrupt" /\ t.back = s.back /\ t.local = s.local
    BY <1>2 DEF Cursor!States
  <2>2. Cursor!Save(t)
    BY <1>10 DEF Cursor!Flag
  <2>3. ~failed' => ~failed
    BY <2>2 DEF Cursor!Save
  <2> HIDE DEF t
  <2>4. /\ t.back >= s.back /\ Gapless(chain', t.back) /\ chain' \subseteq 1..MaxSeq
        /\ chain' \cap (1..s.back) = chain \cap (1..s.back)
    BY <1>2, <1>10, <2>1
  <2>5. durable' \in 0..MaxLocal /\ (~failed' => t.local >= durable')
    BY <1>2, <1>8, <2>1, <2>3
  <2> QED
    BY <1>8, <1>10, <2>1, <2>2, <2>4, <2>5, SaveStep
<1>11. CASE Cursor!Drift(p, s, page) \/ Cursor!Pause(p, s, page)
  BY <1>10, <1>11 DEF Cursor!Drift, Cursor!Pause
<1>12. CASE Cursor!Adopt(p, s, page) /\ s.kind = "v1"
  <2> DEFINE t == [s EXCEPT !.back = last, !.hash = page.hash, !.flag = FALSE]
  <2>1. ~Cursor!Drifted(p, page) /\ Cursor!Save(t) /\ pass' = {} /\ chain' = seen
    BY <1>12 DEF Cursor!Adopt, Cursor!SetBackend, last, seen
  <2>2. t \in Cursor!States /\ t.kind # "corrupt" /\ t.back = last /\ t.local = s.local
    BY <1>2, <1>6, <1>9, <2>1 DEF Cursor!States, Hashes
  <2>3. ~failed' => ~failed
    BY <2>1 DEF Cursor!Save
  <2>4. last >= s.back /\ seen \subseteq 1..MaxSeq
    BY <1>2, <1>3, <1>4, <1>9, <2>1
  <2> HIDE DEF t
  <2> QED
    BY <1>2, <1>8, <1>9, <2>1, <2>2, <2>3, <2>4, SaveStep
<1>13. CASE Cursor!Adopt(p, s, page) /\ s.kind # "v1"
  <2>1. UNCHANGED <<cursors, mem, feed, chain, durable, failed, mishaps>> /\ pass' = {}
    BY <1>8, <1>13 DEF Cursor!Adopt, Cursor!SetBackend
  <2> QED
    BY <2>1, Rested
<1>14. CASE Cursor!Turn(p, page)
  <2>1. /\ UNCHANGED <<cursors, mem, feed, chain, durable, failed, mishaps>>
        /\ ~Cursor!Drifted(p, page) /\ p.pages + 1 < MaxPages
        /\ pass'
           = {[since |-> page.hash, pages |-> p.pages + 1, last |-> last, seen |-> seen]}
    BY <1>8, <1>14 DEF Cursor!Turn, last, seen
  <2>2. p.pages + 1 \in 0..(MaxPages - 1) /\ s.back =< last
    BY <1>2, <1>3, <1>4, <1>9, <2>1
  <2>3. PassGood'
    BY <1>2, <1>6, <1>9, <2>1, <2>2 DEF PassGood, Gapless
  <2>4. AtMostOne(pass') /\ mem # {}
    BY <1>2, <2>1 DEF AtMostOne
  <2> QED
    BY <2>1, <2>3, <2>4, Rested
<1> QED
  BY <1>7, <1>11, <1>12, <1>13, <1>14

-----------------------------------------------------------------------------
(* The theorem.                                                            *)

LEMMA CursorInit == Cursor!BoundsAssumption /\ Cursor!Init => CursorInv
<1> SUFFICES ASSUME Cursor!BoundsAssumption, Cursor!Init PROVE CursorInv
  OBVIOUS
<1>1. /\ MaxMishaps \in Nat /\ MaxSeq \in Nat \ {0} /\ MaxLocal \in Nat \ {0}
  BY DEF Cursor!BoundsAssumption
<1>2. /\ mem = {} /\ pass = {} /\ failed = FALSE /\ mishaps = 0
      /\ feed = [epoch |-> 0, low |-> 0, head |-> 1]
      /\ chain = (IF cursors.back = 0 THEN {} ELSE {1}) /\ durable = cursors.local
  BY DEF Cursor!Init
<1>3. /\ cursors \in Cursor!States /\ (cursors.back = 0 \/ cursors.back = 1)
  <2>1. <<0, 1>> \in (0..MaxMishaps) \X (0..MaxSeq)
    BY <1>1
  <2>2. Cursor!Fresh \in Cursor!States /\ Cursor!Fresh.back = 0
    BY <1>1 DEF Cursor!Fresh, Cursor!States
  <2>3. CASE cursors = Cursor!Fresh
    BY <2>2, <2>3
  <2>4. CASE cursors = [Cursor!Fresh EXCEPT !.kind = "corrupt"]
    BY <2>2, <2>4 DEF Cursor!States
  <2>5. CASE cursors
             = [Cursor!Fresh EXCEPT !.kind = "newer", !.local = 1, !.back = 1, !.hash = <<0, 1>>]
    <3>1. cursors
            = [kind |-> "newer", local |-> 1, back |-> 1, hash |-> <<0, 1>>,
                  flag |-> FALSE]
      BY <2>5 DEF Cursor!Fresh
    <3>2. 1 \in 0..MaxLocal /\ 1 \in 0..MaxSeq
      BY <1>1
    <3> QED
      BY <2>1, <3>1, <3>2 DEF Cursor!States
  <2> QED
    BY <2>3, <2>4, <2>5 DEF Cursor!Init, Cursor!Files
<1>4. TypesGood
  <2>1. chain \subseteq 1..MaxSeq /\ durable \in 0..MaxLocal
    BY <1>1, <1>2, <1>3 DEF Cursor!States
  <2>2. failed \in BOOLEAN
    BY <1>2, Zenon
  <2>3. mishaps \in 0..MaxMishaps
    <3>1. mishaps = 0
      BY <1>2, Zenon
    <3> QED
      BY <1>1, <3>1
  <2> QED
    BY <1>2, <1>3, <2>1, <2>2, <2>3 DEF TypesGood, AtMostOne
<1>5. FeedGood
  BY <1>1, <1>2 DEF FeedGood
<1>6. CopiesGood
  <2>1. ASSUME cursors.back = 1 PROVE chain \cap (1..1) = 1..1
    BY <1>2, <2>1
  <2> QED
    BY <1>2, <1>3, <2>1 DEF CopiesGood, Gapless
<1>7. PassGood /\ DurableGood
  BY <1>2, <1>3 DEF PassGood, DurableGood, Cursor!States
<1> QED
  BY <1>4, <1>5, <1>6, <1>7 DEF CursorInv

LEMMA CursorStep ==
    Cursor!BoundsAssumption /\ CursorInv /\ [Cursor!Next]_(Cursor!vars) => CursorInv'
<1> SUFFICES ASSUME Cursor!BoundsAssumption, CursorInv, [Cursor!Next]_(Cursor!vars)
             PROVE  CursorInv'
  OBVIOUS
<1>1. CASE Cursor!Next
  BY <1>1, OpenStep, FeedStep, AdvanceStep, BeginStep, PageStep, EndStep DEF Cursor!Next
<1>2. CASE UNCHANGED Cursor!vars
  BY <1>2, Rested DEF Cursor!vars, Cursor!history
<1> QED
  BY <1>1, <1>2

LEMMA CardIs == ASSUME NEW S PROVE Cursor!Cardinality(S) = Cardinality(S)
BY DEF Cursor!Cardinality, Cardinality

LEMMA CursorHolds == CursorInv => Cursor!CursorSafety
<1> SUFFICES ASSUME CursorInv PROVE Cursor!CursorSafety
  OBVIOUS
<1>1. Cursor!TypeOK
  BY AtMostOneIs, CardIs DEF CursorInv, TypesGood, FeedGood, PassGood, Cursor!TypeOK
<1>2. Cursor!AdoptedWithoutGap
  BY DEF CursorInv, CopiesGood, Gapless, Cursor!AdoptedWithoutGap
<1>3. Cursor!AdvancedIsDurable
  BY DEF CursorInv, DurableGood, Cursor!AdvancedIsDurable
<1> QED
  BY <1>1, <1>2, <1>3 DEF Cursor!CursorSafety

\* The advisory position rests on every change before it, whatever the feed does
\* between two pages and wherever a save throws; and a seq whose advance returned
\* is in the file as long as no save of it threw (cursor.ts:141-149, :224-243).
THEOREM CursorIsSafe == MCSpec => []CursorSafety
<1> DEFINE Good == part = "cursor" => CursorInv
<1>1. MCInit => Good
  BY CursorAssumption, CursorInit DEF MCInit
<1>2. Good /\ [MCNext]_<<part, vars, cursorVars, auditVars, runnerVars>> => Good'
  <2> SUFFICES ASSUME Good, part' = "cursor",
                      [MCNext]_<<part, vars, cursorVars, auditVars, runnerVars>>
               PROVE  CursorInv'
    OBVIOUS
  <2>1. part = "cursor" /\ [Cursor!Next]_(Cursor!vars)
    BY DEF MCNext, cursorVars, Cursor!vars, Cursor!history
  <2> QED
    BY <2>1, CursorAssumption, CursorStep
<1>3. Good => CursorSafety
  BY CursorHolds DEF CursorSafety
<1> QED
  BY <1>1, <1>2, <1>3, PTL DEF MCSpec

-----------------------------------------------------------------------------
(* The live acceptance run, LiveRunner, for any number of failed calls and *)
(* untrue answers.  The invariant says what the step the run is at implies *)
(* about the parts that have passed, what the manifest holds, and whom a   *)
(* record that no manifest owns is to be blamed on.                        *)

Steps == {"discover", "route", "create", "readBack", "update", "search", "feed", "hybrid",
          "delete", "absence", "cleanup", "check", "done"}
Parts == {"discovery", "routing", "crud", "feed", "hybrid", "delete"}
Report == [outcome : Runner!Outcomes \cup {"none"},
           cleanup : {"none", "deleted", "leftover"}]
Core == {"discovery", "routing", "crud", "hybrid", "delete"}

\* What the steps before `step' have left: what they reported, and a record that
\* exists only once it was created.
SoFar ==
    /\ step \in {"discover", "route", "create"} => ~record /\ ~pending /\ ~manifest
    /\ step \in {"readBack", "update", "search", "feed", "hybrid", "delete", "absence"}
         => manifest
    /\ step \in {"route", "create", "readBack", "update", "search", "feed", "hybrid",
                 "delete", "absence"} => "discovery" \in passed
    /\ step \in {"create", "readBack", "update", "search", "feed", "hybrid",
                 "delete", "absence"} => "routing" \in passed
    /\ step \in {"feed", "hybrid", "delete", "absence"} => "crud" \in passed
    /\ step \in {"delete", "absence"} => "hybrid" \in passed
    /\ step \in {"hybrid", "delete", "absence"} => (degraded <=> "feed" \notin passed)
    /\ step \in {"discover", "route", "create", "readBack", "update", "search", "feed"}
         => ~degraded /\ "feed" \notin passed
    /\ step \notin {"cleanup", "check", "done"} => stop = "none" /\ "delete" \notin passed

\* The suite that came to its end has seen the record gone.
Ended ==
    /\ step = "cleanup" /\ stop = "none"
         => Core \subseteq passed /\ ~manifest /\ (degraded <=> "feed" \notin passed)
    /\ step = "check" => stop # "none"
    /\ "delete" \in passed => ~manifest /\ (record => "late" \in blame)

\* A record no one owns is one the report cannot know of.
Owned ==
    /\ step \notin {"check", "done"} /\ ~manifest /\ record => blame # {}
    /\ step \notin {"check", "done"} /\ ~manifest /\ pending => blame # {}
       \/ "delete" \in passed
    /\ step = "check" /\ trouble = 0 /\ record => blame # {}

RInv == Runner!RunnerTypeOK /\ SoFar /\ Ended /\ Owned
        /\ Runner!CleanMeansClean /\ Runner!LeftIsReported /\ Runner!DeadlineLeavesNothing

LEMMA RunnerInit == MaxTrouble \in Nat /\ Runner!Init => RInv
<1> SUFFICES ASSUME MaxTrouble \in Nat, Runner!Init PROVE RInv
  OBVIOUS
<1>1. Runner!RunnerTypeOK
  <2>1. report \in Report /\ (step = "done") = (report.outcome # "none")
    BY DEF Runner!Init, Runner!NoReport, Report, Runner!Outcomes
  <2>2. {deadline, record, pending, manifest, degraded} \subseteq BOOLEAN
    BY DEF Runner!Init
  <2>3. step \in Steps /\ calls \in 0..3 /\ trouble \in 0..MaxTrouble
    BY DEF Runner!Init, Steps
  <2>4. /\ passed \subseteq Parts /\ stop \in {"none", "error", "auth", "gap"}
        /\ blame \subseteq {"unowned", "late", "unchecked"}
    BY DEF Runner!Init, Parts
  <2> QED
    BY <2>1, <2>2, <2>3, <2>4 DEF Runner!RunnerTypeOK, Steps, Parts, Report
<1>2. SoFar /\ Ended /\ Owned
  BY DEF Runner!Init, SoFar, Ended, Owned, Core
<1>3. Runner!CleanMeansClean /\ Runner!LeftIsReported /\ Runner!DeadlineLeavesNothing
  BY DEF Runner!Init, Runner!CleanMeansClean, Runner!LeftIsReported,
     Runner!DeadlineLeavesNothing, Runner!NoReport
<1> QED
  BY <1>1, <1>2, <1>3 DEF RInv

LEMMA RunnerStep ==
    ASSUME MaxTrouble \in Nat, RInv, [Runner!Next]_(Runner!vars)
    PROVE  RInv'
<1> USE DEF RInv, Runner!Goes, Runner!Stops, Runner!FailsWith, Runner!MayHaveSet,
   Runner!Fails, Runner!Trouble, Runner!Calm, Runner!backend
<1>1. CASE Runner!Deadline
  <2>1. Runner!RunnerTypeOK'
    <3>1. step' \in Steps /\ stop' \in {"none", "error", "auth", "gap"}
      BY <1>1 DEF Runner!Deadline, Runner!RunnerTypeOK, Steps
    <3>4. calls' \in 0..3
      BY <1>1 DEF Runner!Deadline, Runner!RunnerTypeOK
    <3>5. trouble' \in 0..MaxTrouble
      <4>1. trouble' = trouble \/ (trouble < MaxTrouble /\ trouble' = trouble + 1)
        BY <1>1 DEF Runner!Deadline
      <4> QED
        BY <4>1 DEF Runner!RunnerTypeOK
    <3>6. passed' \subseteq Parts
      BY <1>1 DEF Runner!Deadline, Runner!RunnerTypeOK, Parts
    <3>7. blame' \subseteq {"unowned", "late", "unchecked"}
      BY <1>1 DEF Runner!Deadline, Runner!RunnerTypeOK
    <3>2. {deadline, record, pending, manifest, degraded}' \subseteq BOOLEAN
      BY <1>1 DEF Runner!Deadline, Runner!RunnerTypeOK
    <3>3. /\ report' \in Report
          /\ (step' = "done") = (report'.outcome # "none")
      BY <1>1 DEF Runner!Deadline, Runner!RunnerTypeOK, Report, Runner!Outcomes
    <3> QED
      BY <3>1, <3>2, <3>3, <3>4, <3>5, <3>6, <3>7 DEF Runner!RunnerTypeOK, Steps,
         Parts, Report
  <2>2. SoFar' /\ Ended' /\ Owned'
    BY <1>1 DEF Runner!Deadline, Runner!RunnerTypeOK, SoFar, Ended, Owned, Core
  <2>3. Runner!CleanMeansClean' /\ Runner!LeftIsReported' /\ Runner!DeadlineLeavesNothing'
    BY <1>1 DEF Runner!Deadline, Runner!RunnerTypeOK, SoFar, Ended, Owned, Core,
       Runner!CleanMeansClean, Runner!LeftIsReported,
                  Runner!DeadlineLeavesNothing
  <2> QED
    BY <2>1, <2>2, <2>3
<1>2. CASE Runner!LateWrite
  <2>1. Runner!RunnerTypeOK'
    <3>1. step' \in Steps /\ stop' \in {"none", "error", "auth", "gap"}
      BY <1>2 DEF Runner!LateWrite, Runner!RunnerTypeOK, Steps
    <3>4. calls' \in 0..3
      BY <1>2 DEF Runner!LateWrite, Runner!RunnerTypeOK
    <3>5. trouble' \in 0..MaxTrouble
      <4>1. trouble' = trouble \/ (trouble < MaxTrouble /\ trouble' = trouble + 1)
        BY <1>2 DEF Runner!LateWrite
      <4> QED
        BY <4>1 DEF Runner!RunnerTypeOK
    <3>6. passed' \subseteq Parts
      BY <1>2 DEF Runner!LateWrite, Runner!RunnerTypeOK, Parts
    <3>7. blame' \subseteq {"unowned", "late", "unchecked"}
      BY <1>2 DEF Runner!LateWrite, Runner!RunnerTypeOK
    <3>2. {deadline, record, pending, manifest, degraded}' \subseteq BOOLEAN
      BY <1>2 DEF Runner!LateWrite, Runner!RunnerTypeOK
    <3>3. /\ report' \in Report
          /\ (step' = "done") = (report'.outcome # "none")
      BY <1>2 DEF Runner!LateWrite, Runner!RunnerTypeOK, Report, Runner!Outcomes
    <3> QED
      BY <3>1, <3>2, <3>3, <3>4, <3>5, <3>6, <3>7 DEF Runner!RunnerTypeOK, Steps,
         Parts, Report
  <2>2. SoFar' /\ Ended' /\ Owned'
    BY <1>2 DEF Runner!LateWrite, Runner!RunnerTypeOK, SoFar, Ended, Owned, Core
  <2>3. Runner!CleanMeansClean' /\ Runner!LeftIsReported' /\ Runner!DeadlineLeavesNothing'
    BY <1>2 DEF Runner!LateWrite, Runner!RunnerTypeOK, SoFar, Ended, Owned, Core,
       Runner!CleanMeansClean, Runner!LeftIsReported,
                  Runner!DeadlineLeavesNothing
  <2> QED
    BY <2>1, <2>2, <2>3
<1>3. CASE Runner!Discover
  <2>1. Runner!RunnerTypeOK'
    <3>1. step' \in Steps /\ stop' \in {"none", "error", "auth", "gap"}
      BY <1>3 DEF Runner!Discover, Runner!RunnerTypeOK, Steps
    <3>4. calls' \in 0..3
      BY <1>3 DEF Runner!Discover, Runner!RunnerTypeOK
    <3>5. trouble' \in 0..MaxTrouble
      <4>1. trouble' = trouble \/ (trouble < MaxTrouble /\ trouble' = trouble + 1)
        BY <1>3 DEF Runner!Discover
      <4> QED
        BY <4>1 DEF Runner!RunnerTypeOK
    <3>6. passed' \subseteq Parts
      BY <1>3 DEF Runner!Discover, Runner!RunnerTypeOK, Parts
    <3>7. blame' \subseteq {"unowned", "late", "unchecked"}
      BY <1>3 DEF Runner!Discover, Runner!RunnerTypeOK
    <3>2. {deadline, record, pending, manifest, degraded}' \subseteq BOOLEAN
      BY <1>3 DEF Runner!Discover, Runner!RunnerTypeOK
    <3>3. /\ report' \in Report
          /\ (step' = "done") = (report'.outcome # "none")
      BY <1>3 DEF Runner!Discover, Runner!RunnerTypeOK, Report, Runner!Outcomes
    <3> QED
      BY <3>1, <3>2, <3>3, <3>4, <3>5, <3>6, <3>7 DEF Runner!RunnerTypeOK, Steps,
         Parts, Report
  <2>2. SoFar' /\ Ended' /\ Owned'
    BY <1>3 DEF Runner!Discover, Runner!RunnerTypeOK, SoFar, Ended, Owned, Core
  <2>3. Runner!CleanMeansClean' /\ Runner!LeftIsReported' /\ Runner!DeadlineLeavesNothing'
    BY <1>3 DEF Runner!Discover, Runner!RunnerTypeOK, SoFar, Ended, Owned, Core,
       Runner!CleanMeansClean, Runner!LeftIsReported,
                  Runner!DeadlineLeavesNothing
  <2> QED
    BY <2>1, <2>2, <2>3
<1>4. CASE Runner!Route
  <2>1. Runner!RunnerTypeOK'
    <3>1. step' \in Steps /\ stop' \in {"none", "error", "auth", "gap"}
      BY <1>4 DEF Runner!Route, Runner!RunnerTypeOK, Steps
    <3>4. calls' \in 0..3
      BY <1>4 DEF Runner!Route, Runner!RunnerTypeOK
    <3>5. trouble' \in 0..MaxTrouble
      <4>1. trouble' = trouble \/ (trouble < MaxTrouble /\ trouble' = trouble + 1)
        BY <1>4 DEF Runner!Route
      <4> QED
        BY <4>1 DEF Runner!RunnerTypeOK
    <3>6. passed' \subseteq Parts
      BY <1>4 DEF Runner!Route, Runner!RunnerTypeOK, Parts
    <3>7. blame' \subseteq {"unowned", "late", "unchecked"}
      BY <1>4 DEF Runner!Route, Runner!RunnerTypeOK
    <3>2. {deadline, record, pending, manifest, degraded}' \subseteq BOOLEAN
      BY <1>4 DEF Runner!Route, Runner!RunnerTypeOK
    <3>3. /\ report' \in Report
          /\ (step' = "done") = (report'.outcome # "none")
      BY <1>4 DEF Runner!Route, Runner!RunnerTypeOK, Report, Runner!Outcomes
    <3> QED
      BY <3>1, <3>2, <3>3, <3>4, <3>5, <3>6, <3>7 DEF Runner!RunnerTypeOK, Steps,
         Parts, Report
  <2>2. SoFar' /\ Ended' /\ Owned'
    BY <1>4 DEF Runner!Route, Runner!RunnerTypeOK, SoFar, Ended, Owned, Core
  <2>3. Runner!CleanMeansClean' /\ Runner!LeftIsReported' /\ Runner!DeadlineLeavesNothing'
    BY <1>4 DEF Runner!Route, Runner!RunnerTypeOK, SoFar, Ended, Owned, Core,
       Runner!CleanMeansClean, Runner!LeftIsReported,
                  Runner!DeadlineLeavesNothing
  <2> QED
    BY <2>1, <2>2, <2>3
<1>5. CASE Runner!Create
  <2>1. Runner!RunnerTypeOK'
    <3>1. step' \in Steps /\ stop' \in {"none", "error", "auth", "gap"}
      BY <1>5 DEF Runner!Create, Runner!RunnerTypeOK, Steps
    <3>4. calls' \in 0..3
      BY <1>5 DEF Runner!Create, Runner!RunnerTypeOK
    <3>5. trouble' \in 0..MaxTrouble
      <4>1. trouble' = trouble \/ (trouble < MaxTrouble /\ trouble' = trouble + 1)
        BY <1>5 DEF Runner!Create
      <4> QED
        BY <4>1 DEF Runner!RunnerTypeOK
    <3>6. passed' \subseteq Parts
      BY <1>5 DEF Runner!Create, Runner!RunnerTypeOK, Parts
    <3>7. blame' \subseteq {"unowned", "late", "unchecked"}
      BY <1>5 DEF Runner!Create, Runner!RunnerTypeOK
    <3>2. {deadline, record, pending, manifest, degraded}' \subseteq BOOLEAN
      BY <1>5 DEF Runner!Create, Runner!RunnerTypeOK
    <3>3. /\ report' \in Report
          /\ (step' = "done") = (report'.outcome # "none")
      BY <1>5 DEF Runner!Create, Runner!RunnerTypeOK, Report, Runner!Outcomes
    <3> QED
      BY <3>1, <3>2, <3>3, <3>4, <3>5, <3>6, <3>7 DEF Runner!RunnerTypeOK, Steps,
         Parts, Report
  <2>2. SoFar' /\ Ended' /\ Owned'
    BY <1>5 DEF Runner!Create, Runner!RunnerTypeOK, SoFar, Ended, Owned, Core
  <2>3. Runner!CleanMeansClean' /\ Runner!LeftIsReported' /\ Runner!DeadlineLeavesNothing'
    BY <1>5 DEF Runner!Create, Runner!RunnerTypeOK, SoFar, Ended, Owned, Core,
       Runner!CleanMeansClean, Runner!LeftIsReported,
                  Runner!DeadlineLeavesNothing
  <2> QED
    BY <2>1, <2>2, <2>3
<1>6. CASE Runner!ReadBack
  <2>1. Runner!RunnerTypeOK'
    <3>1. step' \in Steps /\ stop' \in {"none", "error", "auth", "gap"}
      BY <1>6 DEF Runner!ReadBack, Runner!RunnerTypeOK, Steps
    <3>4. calls' \in 0..3
      BY <1>6 DEF Runner!ReadBack, Runner!RunnerTypeOK
    <3>5. trouble' \in 0..MaxTrouble
      <4>1. trouble' = trouble \/ (trouble < MaxTrouble /\ trouble' = trouble + 1)
        BY <1>6 DEF Runner!ReadBack
      <4> QED
        BY <4>1 DEF Runner!RunnerTypeOK
    <3>6. passed' \subseteq Parts
      BY <1>6 DEF Runner!ReadBack, Runner!RunnerTypeOK, Parts
    <3>7. blame' \subseteq {"unowned", "late", "unchecked"}
      BY <1>6 DEF Runner!ReadBack, Runner!RunnerTypeOK
    <3>2. {deadline, record, pending, manifest, degraded}' \subseteq BOOLEAN
      BY <1>6 DEF Runner!ReadBack, Runner!RunnerTypeOK
    <3>3. /\ report' \in Report
          /\ (step' = "done") = (report'.outcome # "none")
      BY <1>6 DEF Runner!ReadBack, Runner!RunnerTypeOK, Report, Runner!Outcomes
    <3> QED
      BY <3>1, <3>2, <3>3, <3>4, <3>5, <3>6, <3>7 DEF Runner!RunnerTypeOK, Steps,
         Parts, Report
  <2>2. SoFar' /\ Ended' /\ Owned'
    BY <1>6 DEF Runner!ReadBack, Runner!RunnerTypeOK, SoFar, Ended, Owned, Core
  <2>3. Runner!CleanMeansClean' /\ Runner!LeftIsReported' /\ Runner!DeadlineLeavesNothing'
    BY <1>6 DEF Runner!ReadBack, Runner!RunnerTypeOK, SoFar, Ended, Owned, Core,
       Runner!CleanMeansClean, Runner!LeftIsReported,
                  Runner!DeadlineLeavesNothing
  <2> QED
    BY <2>1, <2>2, <2>3
<1>7. CASE Runner!Update
  <2>1. Runner!RunnerTypeOK'
    <3>1. step' \in Steps /\ stop' \in {"none", "error", "auth", "gap"}
      BY <1>7 DEF Runner!Update, Runner!RunnerTypeOK, Steps
    <3>4. calls' \in 0..3
      BY <1>7 DEF Runner!Update, Runner!RunnerTypeOK
    <3>5. trouble' \in 0..MaxTrouble
      <4>1. trouble' = trouble \/ (trouble < MaxTrouble /\ trouble' = trouble + 1)
        BY <1>7 DEF Runner!Update
      <4> QED
        BY <4>1 DEF Runner!RunnerTypeOK
    <3>6. passed' \subseteq Parts
      BY <1>7 DEF Runner!Update, Runner!RunnerTypeOK, Parts
    <3>7. blame' \subseteq {"unowned", "late", "unchecked"}
      BY <1>7 DEF Runner!Update, Runner!RunnerTypeOK
    <3>2. {deadline, record, pending, manifest, degraded}' \subseteq BOOLEAN
      BY <1>7 DEF Runner!Update, Runner!RunnerTypeOK
    <3>3. /\ report' \in Report
          /\ (step' = "done") = (report'.outcome # "none")
      BY <1>7 DEF Runner!Update, Runner!RunnerTypeOK, Report, Runner!Outcomes
    <3> QED
      BY <3>1, <3>2, <3>3, <3>4, <3>5, <3>6, <3>7 DEF Runner!RunnerTypeOK, Steps,
         Parts, Report
  <2>2. SoFar' /\ Ended' /\ Owned'
    <3>1. step = "update" /\ step' \in {"search", "cleanup"}
            /\ UNCHANGED <<manifest, blame, degraded>>
      BY <1>7 DEF Runner!Update
    <3>2. passed' = passed /\ (step' = "search" => stop' = stop)
            /\ (step' = "cleanup" => stop' # "none")
      BY <1>7 DEF Runner!Update
    <3>3. SoFar'
      BY <3>1, <3>2 DEF SoFar
    <3>4. Ended'
      BY <3>1, <3>2 DEF SoFar, Ended
    <3>5. Owned'
      BY <3>1, <1>7 DEF SoFar, Owned, Runner!Update
    <3> QED
      BY <3>3, <3>4, <3>5
  <2>3. Runner!CleanMeansClean' /\ Runner!LeftIsReported' /\ Runner!DeadlineLeavesNothing'
    BY <1>7 DEF Runner!Update, Runner!RunnerTypeOK, SoFar, Ended, Owned, Core,
       Runner!CleanMeansClean, Runner!LeftIsReported,
                  Runner!DeadlineLeavesNothing
  <2> QED
    BY <2>1, <2>2, <2>3
<1>8. CASE Runner!Search
  <2>1. Runner!RunnerTypeOK'
    <3>1. step' \in Steps /\ stop' \in {"none", "error", "auth", "gap"}
      BY <1>8 DEF Runner!Search, Runner!RunnerTypeOK, Steps
    <3>4. calls' \in 0..3
      BY <1>8 DEF Runner!Search, Runner!RunnerTypeOK
    <3>5. trouble' \in 0..MaxTrouble
      <4>1. trouble' = trouble \/ (trouble < MaxTrouble /\ trouble' = trouble + 1)
        BY <1>8 DEF Runner!Search
      <4> QED
        BY <4>1 DEF Runner!RunnerTypeOK
    <3>6. passed' \subseteq Parts
      BY <1>8 DEF Runner!Search, Runner!RunnerTypeOK, Parts
    <3>7. blame' \subseteq {"unowned", "late", "unchecked"}
      BY <1>8 DEF Runner!Search, Runner!RunnerTypeOK
    <3>2. {deadline, record, pending, manifest, degraded}' \subseteq BOOLEAN
      BY <1>8 DEF Runner!Search, Runner!RunnerTypeOK
    <3>3. /\ report' \in Report
          /\ (step' = "done") = (report'.outcome # "none")
      BY <1>8 DEF Runner!Search, Runner!RunnerTypeOK, Report, Runner!Outcomes
    <3> QED
      BY <3>1, <3>2, <3>3, <3>4, <3>5, <3>6, <3>7 DEF Runner!RunnerTypeOK, Steps,
         Parts, Report
  <2>2. SoFar' /\ Ended' /\ Owned'
    BY <1>8 DEF Runner!Search, Runner!RunnerTypeOK, SoFar, Ended, Owned, Core
  <2>3. Runner!CleanMeansClean' /\ Runner!LeftIsReported' /\ Runner!DeadlineLeavesNothing'
    BY <1>8 DEF Runner!Search, Runner!RunnerTypeOK, SoFar, Ended, Owned, Core,
       Runner!CleanMeansClean, Runner!LeftIsReported,
                  Runner!DeadlineLeavesNothing
  <2> QED
    BY <2>1, <2>2, <2>3
<1>9. CASE Runner!Feed
  <2>1. Runner!RunnerTypeOK'
    <3>1. step' \in Steps /\ stop' \in {"none", "error", "auth", "gap"}
      BY <1>9 DEF Runner!Feed, Runner!RunnerTypeOK, Steps
    <3>4. calls' \in 0..3
      BY <1>9 DEF Runner!Feed, Runner!RunnerTypeOK
    <3>5. trouble' \in 0..MaxTrouble
      <4>1. trouble' = trouble \/ (trouble < MaxTrouble /\ trouble' = trouble + 1)
        BY <1>9 DEF Runner!Feed
      <4> QED
        BY <4>1 DEF Runner!RunnerTypeOK
    <3>6. passed' \subseteq Parts
      BY <1>9 DEF Runner!Feed, Runner!RunnerTypeOK, Parts
    <3>7. blame' \subseteq {"unowned", "late", "unchecked"}
      BY <1>9 DEF Runner!Feed, Runner!RunnerTypeOK
    <3>2. {deadline, record, pending, manifest, degraded}' \subseteq BOOLEAN
      BY <1>9 DEF Runner!Feed, Runner!RunnerTypeOK
    <3>3. /\ report' \in Report
          /\ (step' = "done") = (report'.outcome # "none")
      BY <1>9 DEF Runner!Feed, Runner!RunnerTypeOK, Report, Runner!Outcomes
    <3> QED
      BY <3>1, <3>2, <3>3, <3>4, <3>5, <3>6, <3>7 DEF Runner!RunnerTypeOK, Steps,
         Parts, Report
  <2>2. SoFar' /\ Ended' /\ Owned'
    BY <1>9 DEF Runner!Feed, Runner!RunnerTypeOK, SoFar, Ended, Owned, Core
  <2>3. Runner!CleanMeansClean' /\ Runner!LeftIsReported' /\ Runner!DeadlineLeavesNothing'
    BY <1>9 DEF Runner!Feed, Runner!RunnerTypeOK, SoFar, Ended, Owned, Core,
       Runner!CleanMeansClean, Runner!LeftIsReported,
                  Runner!DeadlineLeavesNothing
  <2> QED
    BY <2>1, <2>2, <2>3
<1>10. CASE Runner!Hybrid
  <2>1. Runner!RunnerTypeOK'
    <3>1. step' \in Steps /\ stop' \in {"none", "error", "auth", "gap"}
      BY <1>10 DEF Runner!Hybrid, Runner!RunnerTypeOK, Steps
    <3>4. calls' \in 0..3
      BY <1>10 DEF Runner!Hybrid, Runner!RunnerTypeOK
    <3>5. trouble' \in 0..MaxTrouble
      <4>1. trouble' = trouble \/ (trouble < MaxTrouble /\ trouble' = trouble + 1)
        BY <1>10 DEF Runner!Hybrid
      <4> QED
        BY <4>1 DEF Runner!RunnerTypeOK
    <3>6. passed' \subseteq Parts
      BY <1>10 DEF Runner!Hybrid, Runner!RunnerTypeOK, Parts
    <3>7. blame' \subseteq {"unowned", "late", "unchecked"}
      BY <1>10 DEF Runner!Hybrid, Runner!RunnerTypeOK
    <3>2. {deadline, record, pending, manifest, degraded}' \subseteq BOOLEAN
      BY <1>10 DEF Runner!Hybrid, Runner!RunnerTypeOK
    <3>3. /\ report' \in Report
          /\ (step' = "done") = (report'.outcome # "none")
      BY <1>10 DEF Runner!Hybrid, Runner!RunnerTypeOK, Report, Runner!Outcomes
    <3> QED
      BY <3>1, <3>2, <3>3, <3>4, <3>5, <3>6, <3>7 DEF Runner!RunnerTypeOK, Steps,
         Parts, Report
  <2>2. SoFar' /\ Ended' /\ Owned'
    BY <1>10 DEF Runner!Hybrid, Runner!RunnerTypeOK, SoFar, Ended, Owned, Core
  <2>3. Runner!CleanMeansClean' /\ Runner!LeftIsReported' /\ Runner!DeadlineLeavesNothing'
    BY <1>10 DEF Runner!Hybrid, Runner!RunnerTypeOK, SoFar, Ended, Owned, Core,
       Runner!CleanMeansClean, Runner!LeftIsReported,
                  Runner!DeadlineLeavesNothing
  <2> QED
    BY <2>1, <2>2, <2>3
<1>11. CASE Runner!Delete
  <2>1. Runner!RunnerTypeOK'
    <3>1. step' \in Steps /\ stop' \in {"none", "error", "auth", "gap"}
      BY <1>11 DEF Runner!Delete, Runner!RunnerTypeOK, Steps
    <3>4. calls' \in 0..3
      BY <1>11 DEF Runner!Delete, Runner!RunnerTypeOK
    <3>5. trouble' \in 0..MaxTrouble
      <4>1. trouble' = trouble \/ (trouble < MaxTrouble /\ trouble' = trouble + 1)
        BY <1>11 DEF Runner!Delete
      <4> QED
        BY <4>1 DEF Runner!RunnerTypeOK
    <3>6. passed' \subseteq Parts
      BY <1>11 DEF Runner!Delete, Runner!RunnerTypeOK, Parts
    <3>7. blame' \subseteq {"unowned", "late", "unchecked"}
      BY <1>11 DEF Runner!Delete, Runner!RunnerTypeOK
    <3>2. {deadline, record, pending, manifest, degraded}' \subseteq BOOLEAN
      BY <1>11 DEF Runner!Delete, Runner!RunnerTypeOK
    <3>3. /\ report' \in Report
          /\ (step' = "done") = (report'.outcome # "none")
      BY <1>11 DEF Runner!Delete, Runner!RunnerTypeOK, Report, Runner!Outcomes
    <3> QED
      BY <3>1, <3>2, <3>3, <3>4, <3>5, <3>6, <3>7 DEF Runner!RunnerTypeOK, Steps,
         Parts, Report
  <2>2. SoFar' /\ Ended' /\ Owned'
    BY <1>11 DEF Runner!Delete, Runner!RunnerTypeOK, SoFar, Ended, Owned, Core
  <2>3. Runner!CleanMeansClean' /\ Runner!LeftIsReported' /\ Runner!DeadlineLeavesNothing'
    BY <1>11 DEF Runner!Delete, Runner!RunnerTypeOK, SoFar, Ended, Owned, Core,
       Runner!CleanMeansClean, Runner!LeftIsReported,
                  Runner!DeadlineLeavesNothing
  <2> QED
    BY <2>1, <2>2, <2>3
<1>12. CASE Runner!Absence
  <2>1. Runner!RunnerTypeOK'
    <3>1. step' \in Steps /\ stop' \in {"none", "error", "auth", "gap"}
      BY <1>12 DEF Runner!Absence, Runner!RunnerTypeOK, Steps
    <3>4. calls' \in 0..3
      BY <1>12 DEF Runner!Absence, Runner!RunnerTypeOK
    <3>5. trouble' \in 0..MaxTrouble
      <4>1. trouble' = trouble \/ (trouble < MaxTrouble /\ trouble' = trouble + 1)
        BY <1>12 DEF Runner!Absence
      <4> QED
        BY <4>1 DEF Runner!RunnerTypeOK
    <3>6. passed' \subseteq Parts
      BY <1>12 DEF Runner!Absence, Runner!RunnerTypeOK, Parts
    <3>7. blame' \subseteq {"unowned", "late", "unchecked"}
      BY <1>12 DEF Runner!Absence, Runner!RunnerTypeOK
    <3>2. {deadline, record, pending, manifest, degraded}' \subseteq BOOLEAN
      BY <1>12 DEF Runner!Absence, Runner!RunnerTypeOK
    <3>3. /\ report' \in Report
          /\ (step' = "done") = (report'.outcome # "none")
      BY <1>12 DEF Runner!Absence, Runner!RunnerTypeOK, Report, Runner!Outcomes
    <3> QED
      BY <3>1, <3>2, <3>3, <3>4, <3>5, <3>6, <3>7 DEF Runner!RunnerTypeOK, Steps,
         Parts, Report
  <2>2. SoFar' /\ Ended' /\ Owned'
    BY <1>12 DEF Runner!Absence, Runner!RunnerTypeOK, SoFar, Ended, Owned, Core
  <2>3. Runner!CleanMeansClean' /\ Runner!LeftIsReported' /\ Runner!DeadlineLeavesNothing'
    BY <1>12 DEF Runner!Absence, Runner!RunnerTypeOK, SoFar, Ended, Owned, Core,
       Runner!CleanMeansClean, Runner!LeftIsReported,
                  Runner!DeadlineLeavesNothing
  <2> QED
    BY <2>1, <2>2, <2>3
<1>13. CASE Runner!CleanupDelete
  <2>1. /\ step = "cleanup"
        /\ UNCHANGED <<calls, deadline, manifest, passed, degraded, stop, blame>>
        /\ trouble' = trouble \/ (trouble < MaxTrouble /\ trouble' = trouble + 1)
        /\ record' \in BOOLEAN /\ pending' \in BOOLEAN
    BY <1>13 DEF Runner!CleanupDelete, Runner!RunnerTypeOK
  <2>2. trouble' \in 0..MaxTrouble
    BY <2>1 DEF Runner!RunnerTypeOK
  <2>3. CASE manifest /\ step' = "check" /\ UNCHANGED <<report, pending>>
             /\ (record' = FALSE \/ (record' = record /\ trouble' = trouble + 1))
    <3>1. Runner!RunnerTypeOK'
      BY <2>1, <2>2, <2>3 DEF Runner!RunnerTypeOK
    <3>2. trouble' = trouble + 1 => trouble' # 0
      BY DEF Runner!RunnerTypeOK
    <3>3. SoFar' /\ Ended' /\ Owned'
      BY <2>1, <2>3, <3>2 DEF SoFar, Ended, Owned
    <3>4. report'.outcome = "none"
      BY <2>1, <2>3 DEF Runner!RunnerTypeOK
    <3> QED
      BY <2>3, <3>1, <3>3, <3>4 DEF Runner!CleanMeansClean, Runner!LeftIsReported,
         Runner!DeadlineLeavesNothing
  <2>4. ASSUME NEW c \in {"none", "leftover"}, step' = "done",
               report' = [outcome |-> Runner!Outcome(c), cleanup |-> c],
               c = "none" => ~manifest /\ UNCHANGED <<record, pending>>,
               c = "leftover" => manifest /\ (trouble' = trouble => ~record')
        PROVE  RInv'
    <3>1. /\ Runner!Outcome(c) \in Runner!Outcomes
          /\ Runner!Outcome(c) \in {"clean-pass", "clean-pass-with-degradations"}
               => c = "none" /\ stop = "none"
                   /\ (Runner!Outcome(c) = "clean-pass" <=> ~degraded)
      BY DEF Runner!Outcome, Runner!Outcomes, Runner!RunnerTypeOK
    <3>2. report' \in Report /\ report'.outcome # "none"
            /\ report'.outcome = Runner!Outcome(c)
          /\ report'.cleanup = c
      BY <2>4, <3>1 DEF Report, Runner!Outcomes
    <3>3. Runner!RunnerTypeOK'
      BY <2>1, <2>2, <2>4, <3>2 DEF Runner!RunnerTypeOK, Report
    <3>4. SoFar' /\ Ended' /\ Owned'
      BY <2>1, <2>4 DEF SoFar, Ended, Owned
    <3>5. Runner!CleanMeansClean'
      BY <2>1, <2>4, <3>1, <3>2 DEF Runner!CleanMeansClean, Ended, Core
    <3>6. Runner!LeftIsReported'
      BY <2>1, <2>4, <3>2 DEF Runner!LeftIsReported, Owned
    <3>7. Runner!DeadlineLeavesNothing'
      <4>1. trouble' = 0 => trouble' = trouble
        BY <2>1 DEF Runner!RunnerTypeOK
      <4> QED
        BY <2>1, <2>4, <4>1 DEF Runner!DeadlineLeavesNothing, Owned
    <3> QED
      BY <3>3, <3>4, <3>5, <3>6, <3>7
  <2>5. trouble' = trouble + 1 => trouble' # trouble
    BY DEF Runner!RunnerTypeOK
  <2>6. CASE ~manifest /\ Runner!Reports("none") /\ UNCHANGED <<record, pending>>
    BY <2>4, <2>6 DEF Runner!Reports
  <2>7. CASE manifest /\ Runner!Reports("leftover") /\ (trouble' = trouble => ~record')
    BY <2>4, <2>7 DEF Runner!Reports
  <2>8. CASE manifest /\ Runner!Reports("leftover") /\ ~record
             /\ UNCHANGED <<trouble, record>>
    BY <2>7, <2>8
  <2>9. CASE manifest /\ Runner!Reports("leftover") /\ trouble' = trouble + 1
    BY <2>5, <2>7, <2>9
  <2>10. \/ ~manifest /\ Runner!Reports("none") /\ UNCHANGED <<record, pending>>
         \/ manifest /\ step' = "check" /\ UNCHANGED <<report, pending>>
            /\ (record' = FALSE \/ (record' = record /\ trouble' = trouble + 1))
         \/ manifest /\ Runner!Reports("leftover") /\ ~record
            /\ UNCHANGED <<trouble, record>>
         \/ manifest /\ Runner!Reports("leftover") /\ trouble' = trouble + 1
    BY <1>13 DEF Runner!CleanupDelete
  <2> QED
    BY <2>3, <2>6, <2>8, <2>9, <2>10
<1>14. CASE Runner!CleanupCheck
  <2>1. Runner!RunnerTypeOK'
    <3>1. step' \in Steps /\ stop' \in {"none", "error", "auth", "gap"}
      BY <1>14 DEF Runner!CleanupCheck, Runner!RunnerTypeOK, Steps, Runner!Reports,
         Runner!Outcome
    <3>4. calls' \in 0..3
      BY <1>14 DEF Runner!CleanupCheck, Runner!RunnerTypeOK, Runner!Reports,
         Runner!Outcome
    <3>5. trouble' \in 0..MaxTrouble
      <4>1. trouble' = trouble \/ (trouble < MaxTrouble /\ trouble' = trouble + 1)
        BY <1>14 DEF Runner!CleanupCheck, Runner!Reports, Runner!Outcome
      <4> QED
        BY <4>1 DEF Runner!RunnerTypeOK
    <3>6. passed' \subseteq Parts
      BY <1>14 DEF Runner!CleanupCheck, Runner!RunnerTypeOK, Parts, Runner!Reports,
         Runner!Outcome
    <3>7. blame' \subseteq {"unowned", "late", "unchecked"}
      BY <1>14 DEF Runner!CleanupCheck, Runner!RunnerTypeOK, Runner!Reports,
         Runner!Outcome
    <3>2. {deadline, record, pending, manifest, degraded}' \subseteq BOOLEAN
      BY <1>14 DEF Runner!CleanupCheck, Runner!RunnerTypeOK
    <3>3. /\ report' \in Report
          /\ (step' = "done") = (report'.outcome # "none")
      BY <1>14 DEF Runner!CleanupCheck, Runner!RunnerTypeOK, Report, Runner!Outcomes,
         Runner!Reports, Runner!Outcome
    <3> QED
      BY <3>1, <3>2, <3>3, <3>4, <3>5, <3>6, <3>7 DEF Runner!RunnerTypeOK, Steps,
         Parts, Report
  <2>2. SoFar' /\ Ended' /\ Owned'
    BY <1>14 DEF Runner!CleanupCheck, Runner!RunnerTypeOK, SoFar, Ended, Owned, Core,
       Runner!Reports, Runner!Outcome
  <2>3. Runner!CleanMeansClean' /\ Runner!LeftIsReported' /\ Runner!DeadlineLeavesNothing'
    BY <1>14 DEF Runner!CleanupCheck, Runner!RunnerTypeOK, SoFar, Ended, Owned, Core,
       Runner!CleanMeansClean, Runner!LeftIsReported,
                  Runner!DeadlineLeavesNothing, Runner!Reports, Runner!Outcome
  <2> QED
    BY <2>1, <2>2, <2>3
<1>15. CASE UNCHANGED Runner!vars
  BY <1>15 DEF Runner!vars, Runner!RunnerTypeOK, SoFar, Ended, Owned,
     Runner!CleanMeansClean, Runner!LeftIsReported,
               Runner!DeadlineLeavesNothing
<1> QED
  BY <1>1, <1>2, <1>3, <1>4, <1>5, <1>6, <1>7, <1>8, <1>9, <1>10, <1>11, <1>12,
     <1>13, <1>14, <1>15 DEF Runner!Next

\* The report of a live run can be believed, whatever the backend answers and
\* whenever the deadline fires: a clean pass has seen every core step pass and the
\* record gone, and what is left is reported, unless a write landed late, the
\* creation was never answered or the last read failed (runner.ts:88, :209-215,
\* :478-517, :538-544).
THEOREM ReportsAreTrue == MCSpec => []RunnerSafety
<1> DEFINE Good == part = "runner" => RInv
<1>1. MCInit => Good
  BY RunnerAssumption, RunnerInit DEF MCInit
<1>2. Good /\ [MCNext]_<<part, vars, cursorVars, auditVars, runnerVars>> => Good'
  <2> SUFFICES ASSUME Good, part' = "runner",
                      [MCNext]_<<part, vars, cursorVars, auditVars, runnerVars>>
               PROVE  RInv'
    OBVIOUS
  <2>1. part = "runner" /\ [Runner!Next]_(Runner!vars)
    BY DEF MCNext, runnerVars, Runner!vars
  <2> QED
    BY <2>1, RunnerAssumption, RunnerStep
<1>3. Good => RunnerSafety
  BY DEF RInv, RunnerSafety, Runner!RunnerSafety
<1> QED
  BY <1>1, <1>2, <1>3, PTL DEF MCSpec
-----------------------------------------------------------------------------
(* The audit log, for any number of processes, lines of a file, segments,  *)
(* events and faults.  A process owns the log only while its pid is in the *)
(* lock file, a pid that was judged stale is of a dead process, and the    *)
(* files hold the events in their order, whatever calls of a rotation were *)
(* made (InOrder).                                                         *)

Places == 0..Segments
Whole(lines) == Audit!Whole(lines)

Ascends(lines) ==
    \A a, b \in DOMAIN lines : a < b /\ 0 \notin {lines[a], lines[b]} => lines[a] < lines[b]

\* f are the files, n is the last event, gone are the events that were deleted.
InOrder(f, n, gone) ==
    /\ f \in [Places -> Seq(0..n)]
    /\ \A i \in Places : Ascends(f[i])
    /\ \A i, j \in Places : i < j => \A e \in Whole(f[i]), d \in Whole(f[j]) : d < e
    /\ \A i \in Places : \A e \in Whole(f[i]), d \in gone : d < e

Readable(e, f) == \E i \in Places : e \in Whole(f[i])

Stages == {"idle", "create", "judge", "remove", "own", "denied", "shut", "dead"}

AuditLocks ==
    /\ at \in [Pids -> Stages]
    /\ tries \in [Pids -> 0..2] /\ judged \in [Pids -> Pids \cup {NoPid, Unreadable}]
    /\ lock \in Pids \cup {NoPid, Unreadable} /\ old \in BOOLEAN
    /\ \A p \in Pids : at[p] = "create" => tries[p] # 0
    /\ "race" \notin marred => \A p \in Pids : at[p] = "own" => lock = p
    /\ \A p \in Pids : judged[p] \in Pids => at[judged[p]] = "dead"

AuditFiles ==
    /\ events \in 0..MaxEvents /\ faults \in 0..MaxFaults
    /\ kept \subseteq 1..events /\ dropped \subseteq 1..events
    /\ marred \subseteq {"merged", "rotation", "race"}
    /\ InOrder(log, events, dropped)
    /\ tail \in BOOLEAN /\ (tail => log[0] # << >> /\ log[0][Len(log[0])] = 0)
    /\ "merged" \notin marred => \A e \in kept : e \in dropped \/ Readable(e, log)
    /\ "rotation" \notin marred => \A i \in Places : Len(log[i]) <= Room

AuditInv == AuditLocks /\ AuditFiles

LEMMA WholeIs ==
    ASSUME NEW n \in Nat, NEW lines \in Seq(0..n)
    PROVE  /\ Whole(lines) \subseteq 1..n
           /\ \A a \in DOMAIN lines : lines[a] # 0 => lines[a] \in Whole(lines)
BY DEF Whole, Audit!Whole, Audit!ToSet

LEMMA WholeOf ==
    ASSUME NEW lines, NEW e \in Whole(lines)
    PROVE  e # 0 /\ \E a \in DOMAIN lines : lines[a] = e
BY DEF Whole, Audit!Whole, Audit!ToSet

\* A line more, an event newer than all, or a line that is not whole.
Appended(f, e) == [f EXCEPT ![0] = Append(@, e)]

LEMMA AppendInOrder ==
    ASSUME NEW n \in Nat, NEW f, NEW gone \in SUBSET (1..n), InOrder(f, n, gone),
           NEW m \in Nat, n <= m, NEW e \in 0..m, e # 0 => e > n,
           NEW g, g = Appended(f, e), Segments \in Nat
    PROVE  /\ InOrder(g, m, gone) /\ (e # 0 => Readable(e, g))
           /\ \A d : Readable(d, f) => Readable(d, g)
<1> DEFINE k == Len(f[0])
<1>1. /\ f \in [Places -> Seq(0..n)] /\ 0 \in Places /\ k \in Nat
      /\ g[0] = Append(f[0], e) /\ \A i \in Places \ {0} : g[i] = f[i]
  BY DEF InOrder, Places, Appended
<1>2. \A i \in Places : f[i] \in Seq(0..m) /\ g[i] \in Seq(0..m)
  <2>1. \A i \in Places : f[i] \in Seq(0..m)
    BY <1>1
  <2>2. e \in 0..m
    OBVIOUS
  <2>3. g[0] \in Seq(0..m)
    BY <1>1, <2>1, <2>2
  <2> QED
    BY <1>1, <2>1, <2>3
<1>3. /\ DOMAIN g[0] = 1..(k + 1) /\ DOMAIN f[0] = 1..k
      /\ g[0][k + 1] = e /\ \A a \in 1..k : g[0][a] = f[0][a]
  BY <1>1
<1>4. Whole(g[0]) = Whole(f[0]) \cup ({e} \ {0})
  <2>1. ASSUME NEW d \in Whole(g[0]) PROVE d \in Whole(f[0]) \cup ({e} \ {0})
    BY <1>3, <2>1, WholeOf DEF Whole, Audit!Whole, Audit!ToSet
  <2>2. ASSUME NEW d \in Whole(f[0]) \cup ({e} \ {0}) PROVE d \in Whole(g[0])
    BY <1>1, <1>3, <2>2, WholeOf DEF Whole, Audit!Whole, Audit!ToSet
  <2> QED
    BY <2>1, <2>2
<1>5. \A i \in Places : Whole(f[i]) \subseteq 1..n
  BY <1>1, WholeIs
<1>6. Ascends(g[0])
  <2> SUFFICES ASSUME NEW a \in 1..(k + 1), NEW b \in 1..(k + 1), a < b,
                      g[0][a] # 0, g[0][b] # 0
               PROVE  g[0][a] < g[0][b]
    BY <1>3 DEF Ascends
  <2>1. CASE b = k + 1
    <3>1. a \in 1..k /\ g[0][a] = f[0][a] /\ g[0][b] = e
      BY <1>1, <1>3, <2>1
    <3>2. f[0][a] \in 1..n
      BY <1>1, <1>3, <3>1
    <3> QED
      BY <3>1, <3>2
  <2>2. CASE b \in 1..k
    <3>1. a \in 1..k
      BY <1>1, <2>2
    <3> QED
      BY <1>1, <1>3, <2>2, <3>1 DEF InOrder, Ascends
  <2> QED
    BY <1>1, <2>1, <2>2
<1>7. \A i \in Places : Ascends(g[i])
  BY <1>1, <1>6 DEF InOrder
<1>8. \A i, j \in Places : i < j => \A x \in Whole(g[i]), d \in Whole(g[j]) : d < x
  <2> SUFFICES ASSUME NEW i \in Places, NEW j \in Places, i < j,
                      NEW x \in Whole(g[i]), NEW d \in Whole(g[j])
               PROVE  d < x
    OBVIOUS
  <2>1. j # 0 /\ d \in Whole(f[j]) /\ d \in 1..n
    BY <1>1, <1>5 DEF Places
  <2>2. x \in Whole(f[i]) \/ (x = e /\ e # 0)
    BY <1>1, <1>4
  <2> QED
    BY <2>1, <2>2 DEF InOrder
<1>9. \A i \in Places : \A x \in Whole(g[i]), d \in gone : d < x
  <2> SUFFICES ASSUME NEW i \in Places, NEW x \in Whole(g[i]), NEW d \in gone PROVE d < x
    OBVIOUS
  <2>1. x \in Whole(f[i]) \/ (x = e /\ e # 0)
    BY <1>1, <1>4
  <2> QED
    BY <2>1 DEF InOrder
<1>10. g \in [Places -> Seq(0..m)]
  BY <1>1, <1>2 DEF Appended
<1>11. InOrder(g, m, gone)
  BY <1>7, <1>8, <1>9, <1>10 DEF InOrder
<1>12. \A i \in Places : Whole(f[i]) \subseteq Whole(g[i])
  BY <1>1, <1>4
<1> QED
  BY <1>1, <1>4, <1>11, <1>12 DEF Readable

LEMMA InOrderGrows ==
    ASSUME NEW n \in Nat, NEW f, NEW gone, InOrder(f, n, gone), NEW m \in Nat, n <= m
    PROVE  InOrder(f, m, gone)
<1>1. \A i \in Places : f[i] \in Seq(0..m)
  BY DEF InOrder
<1> QED
  BY <1>1 DEF InOrder

\* All but the last line.
LEMMA FrontIs ==
    ASSUME NEW n \in Nat, NEW lines \in Seq(0..n), lines # << >>,
           NEW front, front = Audit!Front(lines)
    PROVE  /\ Len(lines) \in Nat \ {0} /\ Len(front) = Len(lines) - 1
           /\ front \in Seq(0..n)
           /\ \A a \in 1..(Len(lines) - 1) : front[a] = lines[a]
<1> DEFINE k == Len(lines)
<1>1. k \in Nat \ {0}
  OBVIOUS
<1>2. front = SubSeq(lines, 1, k - 1)
  BY DEF Audit!Front
<1>3. \A a \in 1..(k - 1) : lines[a] \in 0..n
  BY <1>1
<1> HIDE DEF k
<1>4. k - 1 \in Nat /\ 1 \in Nat /\ front = SubSeq(lines, 1, k - 1)
  BY <1>1, <1>2
<1>5. Len(front) = k - 1
  BY <1>4
<1>6. \A a \in 1..(k - 1) : front[a] = lines[a]
  BY <1>4
<1>7. front \in Seq(0..n)
  BY <1>3, <1>4
<1> QED
  BY <1>1, <1>5, <1>6, <1>7 DEF k

\* An unterminated last line is cut off.
LEMMA FrontInOrder ==
    ASSUME NEW n \in Nat, NEW f, NEW gone, InOrder(f, n, gone), Segments \in Nat,
           f[0] # << >>, f[0][Len(f[0])] = 0,
           NEW g, g = [f EXCEPT ![0] = Audit!Front(@)]
    PROVE  /\ InOrder(g, n, gone) /\ \A d : Readable(d, f) => Readable(d, g)
           /\ \A i \in Places : Len(g[i]) <= Len(f[i])
<1> DEFINE k == Len(f[0])
<1>0. f \in [Places -> Seq(0..n)] /\ 0 \in Places /\ f[0] \in Seq(0..n)
  BY DEF InOrder, Places
<1>1. /\ k \in Nat \ {0} /\ g[0] = Audit!Front(f[0])
      /\ \A i \in Places \ {0} : g[i] = f[i]
  BY <1>0, FrontIs
<1>2. /\ g[0] \in Seq(0..n) /\ Len(g[0]) = k - 1
      /\ \A a \in 1..(k - 1) : g[0][a] = f[0][a]
  BY <1>0, <1>1, FrontIs
<1>8. DOMAIN g[0] = 1..(k - 1) /\ DOMAIN f[0] = 1..k
  BY <1>0, <1>2
<1> HIDE DEF k
<1>3. Whole(g[0]) = Whole(f[0])
  <2>1. ASSUME NEW d \in Whole(g[0]) PROVE d \in Whole(f[0])
    <3>1. PICK a \in 1..(k - 1) : g[0][a] = d /\ d # 0
      BY <1>2, <1>8, <2>1, WholeOf
    <3>2. a \in 1..k
      BY <1>1, <3>1
    <3>3. a \in DOMAIN f[0] /\ f[0][a] = d
      BY <1>2, <1>8, <3>1, <3>2
    <3> QED
      BY <3>1, <3>3 DEF Whole, Audit!Whole, Audit!ToSet
  <2>2. ASSUME NEW d \in Whole(f[0]) PROVE d \in Whole(g[0])
    <3>1. PICK a \in 1..k : f[0][a] = d /\ d # 0
      BY <1>0, <1>1, <1>8, <2>2, WholeOf
    <3>2. a \in 1..(k - 1)
      BY <1>0, <1>1, <1>8, <3>1
    <3> QED
      BY <1>2, <1>8, <3>1, <3>2 DEF Whole, Audit!Whole, Audit!ToSet
  <2> QED
    BY <2>1, <2>2
<1>4. \A i \in Places : Whole(g[i]) = Whole(f[i])
  BY <1>0, <1>1, <1>8, <1>3
<1>5. \A i \in Places : Ascends(g[i])
  <2>1. Ascends(f[0])
    BY <1>0, <1>1 DEF InOrder
  <2>2. \A a \in 1..(k - 1) : a \in DOMAIN f[0]
    BY <1>0, <1>1, <1>8
  <2>3. Ascends(g[0])
    BY <1>2, <1>8, <2>1, <2>2 DEF Ascends
  <2> QED
    BY <1>0, <1>1, <1>8, <2>3 DEF InOrder
<1>6. g \in [Places -> Seq(0..n)]
  BY <1>0, <1>1, <1>2
<1>7. \A i \in Places : Len(g[i]) <= Len(f[i])
  BY <1>0, <1>1, <1>2 DEF k
<1> QED
  BY <1>4, <1>5, <1>6, <1>7 DEF InOrder, Readable

\* After the first k calls of a rotation a file is one of before, or none.
LEMMA ShiftedFrom ==
    ASSUME Segments \in Nat, NEW k \in 0..(Segments + 1), NEW i \in Places
    PROVE  LET g == Audit!Shifted(k)
           IN  g[i] = << >> \/ \E j \in Places : g[i] = log[j]
BY DEF Places, Audit!Shifted, Audit!All

\* The first k calls of a rotation: what is gone is older than what is left.
LEMMA ShiftedInOrder ==
    ASSUME NEW n \in Nat, InOrder(log, n, dropped), Segments \in Nat \ {0},
           NEW k \in 0..(Segments + 1), NEW g, g = Audit!Shifted(k)
    PROVE  /\ InOrder(g, n, dropped \cup Audit!Deleted(k))
           /\ \A d : Readable(d, log) => Readable(d, g) \/ d \in Audit!Deleted(k)
           /\ g[0] = IF k = Segments + 1 THEN << >> ELSE log[0]
           /\ Audit!Deleted(k) \subseteq 1..n
<1> DEFINE gap == Segments + 1 - k
<1>1. gap \in 0..(Segments + 1) /\ 0 \in Places /\ Segments \in Places
  BY DEF Places
<1>2. \A i \in Places : /\ i = gap => g[i] = << >>
                        /\ i < gap => g[i] = log[i]
                        /\ i > gap => i - 1 \in Places /\ g[i] = log[i - 1]
  BY <1>1 DEF Places, Audit!Shifted, Audit!All
<1>3. log \in [Places -> Seq(0..n)] /\ DOMAIN g = Places /\ g = [i \in Places |-> g[i]]
  BY DEF InOrder, Places, Audit!Shifted
<1>4. Whole(<< >>) = {} /\ Ascends(<< >>)
  BY DEF Whole, Audit!Whole, Audit!ToSet, Ascends
<1>5. Audit!Deleted(k) = IF k = 0 THEN {} ELSE Whole(log[Segments])
  BY DEF Audit!Deleted, Whole
<1>6. \A i \in Places : i \in Int
  BY DEF Places
<1> HIDE DEF gap
<1>7. \A i \in Places : g[i] = << >> \/ \E j \in Places : g[i] = log[j]
  BY ShiftedFrom
<1>8. \A i \in Places : g[i] \in Seq(0..n) /\ Ascends(g[i])
  <2> SUFFICES ASSUME NEW i \in Places PROVE g[i] \in Seq(0..n) /\ Ascends(g[i])
    OBVIOUS
  <2>1. << >> \in Seq(0..n)
    OBVIOUS
  <2>2. \A j \in Places : log[j] \in Seq(0..n) /\ Ascends(log[j])
    BY <1>3 DEF InOrder
  <2> QED
    BY <1>4, <1>7, <2>1, <2>2
<1>9. \A i, j \in Places : i < j => \A e \in Whole(g[i]), d \in Whole(g[j]) : d < e
  <2> SUFFICES ASSUME NEW i \in Places, NEW j \in Places, i < j,
                      NEW e \in Whole(g[i]), NEW d \in Whole(g[j])
               PROVE  d < e
    OBVIOUS
  <2>1. i # gap /\ j # gap
    BY <1>2, <1>4
  <2>2. CASE j < gap
    BY <1>1, <1>2, <1>6, <2>2 DEF InOrder
  <2>3. CASE i < gap /\ j > gap
    <3>1. g[i] = log[i] /\ g[j] = log[j - 1] /\ j - 1 \in Places /\ i < j - 1
      BY <1>1, <1>2, <1>6, <2>3
    <3> QED
      BY <3>1 DEF InOrder
  <2>4. CASE i > gap
    <3>1. /\ g[i] = log[i - 1] /\ g[j] = log[j - 1] /\ i - 1 \in Places /\ j - 1 \in Places
          /\ i - 1 < j - 1
      <4>1. i \in Int /\ j \in Int /\ gap \in Int
        BY <1>1, <1>6
      <4>2. j > gap /\ i - 1 < j - 1
        BY <2>4, <4>1
      <4> QED
        BY <1>2, <2>4, <4>2
    <3> QED
      BY <3>1 DEF InOrder
  <2> QED
    BY <1>1, <1>6, <2>1, <2>2, <2>3, <2>4
<1>10. \A i \in Places : \A e \in Whole(g[i]), d \in dropped \cup Audit!Deleted(k) : d < e
  <2> SUFFICES ASSUME NEW i \in Places, NEW e \in Whole(g[i]),
                      NEW d \in dropped \cup Audit!Deleted(k)
               PROVE  d < e
    OBVIOUS
  <2>1. CASE d \in dropped
    BY <1>4, <1>7, <2>1 DEF InOrder
  <2>2. CASE d \in Audit!Deleted(k)
    <3>1. k # 0 /\ d \in Whole(log[Segments]) /\ gap <= Segments
      BY <1>5, <2>2 DEF gap
    <3>2. PICK j \in Places : j < Segments /\ g[i] = log[j]
      <4>1. CASE i < gap
        BY <1>1, <1>2, <1>6, <3>1, <4>1
      <4>2. CASE i > gap
        <5>1. i - 1 \in Places /\ g[i] = log[i - 1] /\ i - 1 < Segments
          BY <1>2, <4>2 DEF Places
        <5> QED
          BY <5>1
      <4>3. i # gap
        BY <1>2, <1>4
      <4>4. i \in Int /\ gap \in Int
        BY <1>1, <1>6
      <4>5. i < gap \/ i > gap
        BY <4>3, <4>4
      <4> QED
        BY <4>1, <4>2, <4>5
    <3> QED
      BY <1>1, <3>1, <3>2 DEF InOrder
  <2> QED
    BY <2>1, <2>2
<1>11. ASSUME NEW d, Readable(d, log) PROVE Readable(d, g) \/ d \in Audit!Deleted(k)
  <2>1. PICK j \in Places : d \in Whole(log[j])
    BY <1>11 DEF Readable
  <2>2. CASE j < gap
    BY <1>2, <2>1, <2>2 DEF Readable
  <2>3. CASE j >= gap /\ j < Segments
    <3>1. j + 1 \in Places /\ j + 1 > gap /\ (j + 1) - 1 = j
      BY <1>1, <2>3 DEF Places
    <3> QED
      BY <1>2, <2>1, <3>1 DEF Readable
  <2>4. CASE j >= gap /\ j = Segments
    <3>1. k # 0
      BY <2>4 DEF gap
    <3> QED
      BY <1>5, <2>1, <2>4, <3>1
  <2> QED
    BY <1>1, <2>2, <2>3, <2>4 DEF Places
<1>12. g[0] = IF k = Segments + 1 THEN << >> ELSE log[0]
  BY <1>1, <1>2 DEF gap
<1>13. Audit!Deleted(k) \subseteq 1..n
  BY <1>1, <1>3, <1>5, WholeIs
<1>14. g \in [Places -> Seq(0..n)]
  BY <1>3, <1>8
<1>15. InOrder(g, n, dropped \cup Audit!Deleted(k))
  BY <1>8, <1>9, <1>10, <1>14 DEF InOrder
<1> QED
  BY <1>11, <1>12, <1>13, <1>15

(******************************** the files *********************************)

LEMMA FilesStay ==
    ASSUME AuditFiles, UNCHANGED <<log, tail, kept, dropped, events>>,
           faults' \in 0..MaxFaults, marred' \in {marred, marred \cup {"race"}}
    PROVE  AuditFiles'
BY DEF AuditFiles, InOrder, Ascends, Readable

LEMMA FaultIs ==
    ASSUME AuditFiles, Audit!Fault, MaxFaults \in Nat
    PROVE  faults' \in 0..MaxFaults
BY DEF AuditFiles, Audit!Fault

LEMMA CreateFiles ==
    ASSUME AuditFiles, NEW p \in Pids, Audit!CreateLock(p)
    PROVE  AuditFiles'
<1>1. /\ UNCHANGED <<kept, dropped, events, marred>>
      /\ faults' = faults \/ Audit!Fault
      /\ Audit!Repair \/ UNCHANGED <<log, tail>>
  BY DEF Audit!CreateLock, Audit!history
<1>2. faults' \in 0..MaxFaults /\ Segments \in Nat
  BY <1>1, FaultIs, AuditAssumption DEF AuditFiles, Audit!BoundsAssumption
<1>3. CASE UNCHANGED <<log, tail>>
  BY <1>1, <1>2, <1>3, FilesStay
<1>4. CASE tail /\ Audit!Repair
  <2>1. /\ log' = [log EXCEPT ![0] = Audit!Front(@)] /\ tail' = FALSE
        /\ log[0] # << >> /\ log[0][Len(log[0])] = 0 /\ events \in Nat
    BY <1>4 DEF Audit!Repair, AuditFiles
  <2>2. /\ InOrder(log', events, dropped) /\ \A d : Readable(d, log) => Readable(d, log')
        /\ \A i \in Places : Len(log'[i]) <= Len(log[i])
    BY <1>2, <2>1, FrontInOrder DEF AuditFiles
  <2>3. InOrder(log, events, dropped)'
    BY <1>1, <2>2
  <2>4. ASSUME NEW i \in Places
        PROVE  Len(log'[i]) \in Nat /\ Len(log[i]) \in Nat /\ Len(log'[i]) <= Len(log[i])
    BY <2>2 DEF AuditFiles, InOrder
  <2>5. "rotation" \notin marred => \A i \in Places : Len(log'[i]) <= Room
    BY <2>4, AuditAssumption DEF AuditFiles, Audit!BoundsAssumption
  <2>6. "merged" \notin marred => \A e \in kept : e \in dropped \/ Readable(e, log)'
    BY <2>2 DEF AuditFiles, Readable
  <2> QED
    BY <1>1, <1>2, <2>1, <2>3, <2>5, <2>6 DEF AuditFiles
<1>5. CASE ~tail /\ Audit!Repair
  <2>1. log' = log /\ tail' = FALSE
    BY <1>5 DEF Audit!Repair
  <2> QED
    BY <1>1, <1>2, <1>5, <2>1, FilesStay DEF AuditFiles
<1> QED
  BY <1>1, <1>3, <1>4, <1>5

\* What the calls of a record leave, its line included if it is appended, is in
\* order, and what was readable is, but what the rotation deleted.
LEMMA RecordedInOrder ==
    ASSUME NEW n \in Nat, InOrder(log, n, dropped), dropped \subseteq 1..n,
           Segments \in Nat \ {0}, NEW k \in 0..(Segments + 1),
           NEW m \in Nat, n <= m, NEW e \in 0..m, e # 0 => e > n,
           NEW g, g = Audit!Shifted(k),
           NEW h, h = g \/ h = Appended(g, e)
    PROVE  /\ InOrder(h, m, dropped \cup Audit!Deleted(k))
           /\ \A d : Readable(d, log) => Readable(d, h) \/ d \in Audit!Deleted(k)
           /\ h # g /\ e # 0 => Readable(e, h)
           /\ dropped \cup Audit!Deleted(k) \subseteq 1..m
<1> DEFINE gone == dropped \cup Audit!Deleted(k)
<1>1. /\ InOrder(g, n, gone) /\ gone \subseteq 1..n
      /\ \A d : Readable(d, log) => Readable(d, g) \/ d \in Audit!Deleted(k)
  BY ShiftedInOrder
<1>2. gone \subseteq 1..m
  BY <1>1
<1> HIDE DEF gone
<1>3. CASE h = g
  <2>1. InOrder(h, m, gone)
    BY <1>1, <1>3, InOrderGrows
  <2> QED
    BY <1>1, <1>2, <1>3, <2>1 DEF gone
<1>4. CASE h = Appended(g, e)
  <2>1. Segments \in Nat /\ gone \in SUBSET (1..n)
    BY <1>1
  <2>2. InOrder(h, m, gone)
    BY <1>1, <1>4, <2>1, AppendInOrder
  <2>3. e # 0 => Readable(e, h)
    BY <1>1, <1>4, <2>1, AppendInOrder
  <2>4. \A d : Readable(d, g) => Readable(d, h)
    BY <1>1, <1>4, <2>1, AppendInOrder
  <2> QED
    BY <1>1, <1>2, <2>2, <2>3, <2>4 DEF gone
<1> QED
  BY <1>3, <1>4

\* No file outgrows its bound when the line goes to an empty file, or to one
\* with room for it.
LEMMA RecordedWithinRoom ==
    ASSUME NEW n \in Nat, InOrder(log, n, dropped), Segments \in Nat \ {0},
           Room \in Nat \ {0}, \A i \in Places : Len(log[i]) <= Room,
           NEW k \in 0..(Segments + 1), NEW g, g = Audit!Shifted(k),
           NEW e, NEW h, \/ h = g
                         \/ /\ h = Appended(g, e)
                            /\ ~Audit!Rotates \/ k = Segments + 1
    PROVE  \A i \in Places : Len(h[i]) <= Room
<1>1. \A i \in Places : g[i] = << >> \/ \E j \in Places : g[i] = log[j]
  BY ShiftedFrom
<1>2. g[0] = IF k = Segments + 1 THEN << >> ELSE log[0]
  BY ShiftedInOrder
<1>6. InOrder(g, n, dropped \cup Audit!Deleted(k))
  BY ShiftedInOrder
<1>3. /\ g \in [Places -> Seq(0..n)] /\ 0 \in Places /\ log[0] \in Seq(0..n)
  BY <1>6 DEF InOrder, Places
<1>7. \A i \in Places : Len(g[i]) <= Room
  <2>1. Len(<< >>) = 0
    OBVIOUS
  <2> QED
    BY <1>1, <2>1
<1>4. CASE h = g
  BY <1>4, <1>7
<1>5. CASE /\ h = Appended(g, e)
           /\ ~Audit!Rotates \/ k = Segments + 1
  <2>1. g[0] = << >> \/ Len(g[0]) + 1 <= Room
    <3>1. Len(log[0]) \in Nat
      BY <1>3
    <3> QED
      BY <1>2, <1>5, <3>1 DEF Audit!Rotates
  <2>2. h[0] = Append(g[0], e) /\ \A i \in Places \ {0} : h[i] = g[i]
    BY <1>3, <1>5 DEF Appended
  <2>3. Len(h[0]) = Len(g[0]) + 1
    BY <1>3, <2>2
  <2>4. Len(h[0]) <= Room
    BY <2>1, <2>3
  <2> QED
    BY <1>7, <2>2, <2>4
<1> QED
  BY <1>4, <1>5

LEMMA RecordFiles ==
    ASSUME AuditFiles, NEW p \in Pids, Audit!Record(p)
    PROVE  AuditFiles'
<1>1. PICK k \in IF Audit!Rotates THEN 0..(Segments + 1) ELSE {0},
           append \in {"whole", "none", "cut"} :
       LET failing == Audit!Rotates /\ k # Segments + 1
           torn    == tail /\ k # Segments + 1
           line    == IF append = "whole" THEN events + 1 ELSE 0
       IN  /\ IF failing \/ append # "whole" THEN Audit!Fault ELSE UNCHANGED faults
           /\ log' = IF torn \/ append = "none" THEN Audit!Shifted(k)
                     ELSE Appended(Audit!Shifted(k), line)
           /\ tail' = (append = "cut" \/ (torn /\ append = "none"))
           /\ kept' = kept \cup IF append = "whole" THEN {events + 1} ELSE {}
           /\ dropped' = dropped \cup Audit!Deleted(k)
           /\ marred' = marred \cup (IF failing THEN {"rotation"} ELSE {})
                \cup (IF torn /\ append = "whole" THEN {"merged"} ELSE {})
  BY DEF Audit!Record, Audit!All, Appended
<1> DEFINE g == Audit!Shifted(k)
           line == IF append = "whole" THEN events + 1 ELSE 0
           torn == tail /\ k # Segments + 1
<1>2. /\ Segments \in Nat \ {0} /\ Room \in Nat \ {0} /\ MaxEvents \in Nat
      /\ MaxFaults \in Nat
  BY AuditAssumption DEF Audit!BoundsAssumption
<1>3. /\ events \in Nat /\ events' = events + 1 /\ events' \in 0..MaxEvents
      /\ k \in 0..(Segments + 1) /\ InOrder(log, events, dropped)
      /\ dropped \subseteq 1..events /\ kept \subseteq 1..events
  BY <1>2 DEF Audit!Record, AuditFiles
<1>4. /\ events' \in Nat /\ events <= events' /\ line \in 0..events'
      /\ (line # 0 => line > events)
  BY <1>3
<1>5. log' = g \/ log' = Appended(g, line)
  BY <1>1
<1>6. InOrder(log', events', dropped \cup Audit!Deleted(k))
  <2> HIDE DEF g, line
  <2> QED
    BY <1>2, <1>3, <1>4, <1>5, RecordedInOrder DEF g
<1>7. \A d : Readable(d, log) => Readable(d, log') \/ d \in Audit!Deleted(k)
  <2> HIDE DEF g, line
  <2> QED
    BY <1>2, <1>3, <1>4, <1>5, RecordedInOrder DEF g
<1>8. log' # g /\ line # 0 => Readable(line, log')
  <2> HIDE DEF g, line
  <2> QED
    BY <1>2, <1>3, <1>4, <1>5, RecordedInOrder DEF g
<1>9. dropped \cup Audit!Deleted(k) \subseteq 1..events'
  <2> HIDE DEF g, line
  <2> QED
    BY <1>2, <1>3, <1>4, <1>5, RecordedInOrder DEF g
<1>10. InOrder(log, events, dropped)' /\ dropped' \subseteq 1..events'
  BY <1>1, <1>6, <1>9
<1>11. kept' \subseteq 1..events'
  BY <1>1, <1>3
<1>12. faults' \in 0..MaxFaults /\ marred' \subseteq {"merged", "rotation", "race"}
  BY <1>1, <1>2, FaultIs DEF AuditFiles
<1>13. g[0] = (IF k = Segments + 1 THEN << >> ELSE log[0]) /\ InOrder(g, events, dropped \cup Audit!Deleted(k))
  <2> HIDE DEF g
  <2> QED
    BY <1>2, <1>3, ShiftedInOrder DEF g
<1>14. g \in [Places -> Seq(0..events)] /\ 0 \in Places
  BY <1>2, <1>13 DEF InOrder, Places
<1>15. tail' \in BOOLEAN /\ (tail' => log'[0] # << >> /\ log'[0][Len(log'[0])] = 0)
  <2>1. CASE torn
    <3>1. log' = g /\ g[0] = log[0]
      BY <1>1, <1>13, <2>1
    <3> QED
      BY <1>1, <2>1, <3>1 DEF AuditFiles
  <2>2. CASE ~torn /\ append = "cut"
    <3>1. log' = Appended(g, 0)
      BY <1>1, <2>2
    <3>2. log'[0] = Append(g[0], 0)
      BY <1>14, <3>1 DEF Appended
    <3> HIDE DEF g
    <3> QED
      BY <1>1, <1>14, <2>2, <3>2
  <2>3. CASE ~torn /\ append # "cut"
    BY <1>1, <2>3
  <2> QED
    BY <2>1, <2>2, <2>3
<1>16. "merged" \notin marred' => \A e \in kept' : e \in dropped' \/ Readable(e, log')
  <2> SUFFICES ASSUME "merged" \notin marred', NEW e \in kept'
               PROVE  e \in dropped' \/ Readable(e, log')
    OBVIOUS
  <2>1. CASE e \in kept
    BY <1>1, <1>7, <2>1 DEF AuditFiles
  <2>2. CASE e \notin kept
    <3>1. append = "whole" /\ e = events + 1 /\ ~torn
      BY <1>1, <2>2
    <3>2. log' = Appended(g, line) /\ line = e /\ line # 0
      BY <1>1, <1>3, <3>1
    <3>3. log' # g
      <4>1. log'[0] = Append(g[0], line) /\ g[0] \in Seq(0..events)
        BY <1>14, <3>2 DEF Appended
      <4> HIDE DEF g, line
      <4>2. Len(log'[0]) # Len(g[0])
        BY <4>1
      <4> QED
        BY <4>2
    <3> QED
      BY <1>8, <3>2, <3>3
  <2> QED
    BY <2>1, <2>2
<1>17. "rotation" \notin marred' => \A i \in Places : Len(log'[i]) <= Room
  <2> SUFFICES ASSUME "rotation" \notin marred' PROVE \A i \in Places : Len(log'[i]) <= Room
    OBVIOUS
  <2>1. (~Audit!Rotates \/ k = Segments + 1) /\ \A i \in Places : Len(log[i]) <= Room
    BY <1>1 DEF AuditFiles
  <2> HIDE DEF g, line
  <2> QED
    BY <1>2, <1>3, <1>5, <2>1, RecordedWithinRoom DEF g
<1> QED
  BY <1>3, <1>10, <1>11, <1>12, <1>15, <1>16, <1>17 DEF AuditFiles, Readable

LEMMA DieRecordingFiles ==
    ASSUME AuditFiles, NEW p \in Pids, Audit!DieRecording(p)
    PROVE  AuditFiles'
<1>1. PICK k \in IF Audit!Rotates THEN 0..(Segments + 1) ELSE {0}, cut \in BOOLEAN :
       LET torn == tail /\ k # Segments + 1
       IN  /\ cut => ~Audit!Rotates \/ k = Segments + 1
           /\ log' = IF cut /\ ~torn THEN Appended(Audit!Shifted(k), 0)
                     ELSE Audit!Shifted(k)
           /\ tail' = (cut \/ torn)
           /\ dropped' = dropped \cup Audit!Deleted(k)
  BY DEF Audit!DieRecording, Audit!All, Appended
<1> DEFINE g == Audit!Shifted(k)
           torn == tail /\ k # Segments + 1
<1>2. /\ Segments \in Nat \ {0} /\ Room \in Nat \ {0} /\ MaxEvents \in Nat
      /\ MaxFaults \in Nat
  BY AuditAssumption DEF Audit!BoundsAssumption
<1>3. /\ events \in Nat /\ 0 \in 0..events /\ events <= events
      /\ k \in 0..(Segments + 1) /\ InOrder(log, events, dropped)
      /\ dropped \subseteq 1..events /\ UNCHANGED <<kept, events, marred>>
  BY <1>2 DEF Audit!DieRecording, AuditFiles
<1>4. log' = g \/ log' = Appended(g, 0)
  BY <1>1
<1>5. InOrder(log', events, dropped \cup Audit!Deleted(k))
  <2> HIDE DEF g
  <2> QED
    BY <1>2, <1>3, <1>4, RecordedInOrder DEF g
<1>6. \A d : Readable(d, log) => Readable(d, log') \/ d \in Audit!Deleted(k)
  <2> HIDE DEF g
  <2> QED
    BY <1>2, <1>3, <1>4, RecordedInOrder DEF g
<1>7. dropped \cup Audit!Deleted(k) \subseteq 1..events
  <2> HIDE DEF g
  <2> QED
    BY <1>2, <1>3, <1>4, RecordedInOrder DEF g
<1>8. InOrder(log, events, dropped)' /\ dropped' \subseteq 1..events'
  BY <1>1, <1>3, <1>5, <1>7
<1>9. faults' \in 0..MaxFaults
  BY <1>2, FaultIs DEF Audit!DieRecording
<1>10. /\ g[0] = (IF k = Segments + 1 THEN << >> ELSE log[0])
       /\ InOrder(g, events, dropped \cup Audit!Deleted(k))
  <2> HIDE DEF g
  <2> QED
    BY <1>2, <1>3, ShiftedInOrder DEF g
<1>11. g \in [Places -> Seq(0..events)] /\ 0 \in Places
  BY <1>2, <1>10 DEF InOrder, Places
<1>12. tail' \in BOOLEAN /\ (tail' => log'[0] # << >> /\ log'[0][Len(log'[0])] = 0)
  <2>1. CASE torn
    <3>1. log' = g /\ g[0] = log[0]
      BY <1>1, <1>10, <2>1
    <3> QED
      BY <1>1, <2>1, <3>1 DEF AuditFiles
  <2>2. CASE ~torn /\ cut
    <3>1. log' = Appended(g, 0)
      BY <1>1, <2>2
    <3>2. log'[0] = Append(g[0], 0)
      BY <1>11, <3>1 DEF Appended
    <3> HIDE DEF g
    <3> QED
      BY <1>1, <1>11, <2>2, <3>2
  <2>3. CASE ~torn /\ ~cut
    BY <1>1, <2>3
  <2> QED
    BY <2>1, <2>2, <2>3
<1>13. "merged" \notin marred' => \A e \in kept' : e \in dropped' \/ Readable(e, log')
  BY <1>1, <1>3, <1>6 DEF AuditFiles
<1>14. "rotation" \notin marred' => \A i \in Places : Len(log'[i]) <= Room
  <2> SUFFICES ASSUME "rotation" \notin marred' PROVE \A i \in Places : Len(log'[i]) <= Room
    OBVIOUS
  <2>1. \A i \in Places : Len(log[i]) <= Room
    BY <1>3 DEF AuditFiles
  <2>2. log' = g \/ (log' = Appended(g, 0) /\ (~Audit!Rotates \/ k = Segments + 1))
    BY <1>1
  <2> HIDE DEF g
  <2> QED
    BY <1>2, <1>3, <2>1, <2>2, RecordedWithinRoom DEF g
<1> QED
  BY <1>3, <1>8, <1>9, <1>12, <1>13, <1>14 DEF AuditFiles, Readable

LEMMA DeniedFiles ==
    ASSUME AuditFiles, NEW p \in Pids, Audit!RecordDenied(p)
    PROVE  AuditFiles'
<1>1. /\ events' = events + 1 /\ events \in Nat /\ events' \in 0..MaxEvents
      /\ UNCHANGED <<log, tail, kept, dropped, faults, marred>>
  BY AuditAssumption DEF Audit!RecordDenied, AuditFiles, Audit!BoundsAssumption
<1>2. InOrder(log, events, dropped)'
  <2>1. InOrder(log, events, dropped) /\ events + 1 \in Nat /\ events <= events + 1
    BY <1>1 DEF AuditFiles
  <2>2. InOrder(log, events + 1, dropped)
    BY <1>1, <2>1, InOrderGrows
  <2> QED
    BY <1>1, <2>2
<1>3. kept' \subseteq 1..events' /\ dropped' \subseteq 1..events'
  BY <1>1 DEF AuditFiles
<1> QED
  BY <1>1, <1>2, <1>3 DEF AuditFiles, Readable

\* The other calls leave the files.
LEMMA OtherFiles ==
    ASSUME AuditFiles, NEW p,
           \/ Audit!LockGetsOld \/ Audit!Open(p) \/ Audit!Judge(p)
           \/ Audit!RemoveLock(p) \/ Audit!Close(p) \/ Audit!Die(p)
    PROVE  AuditFiles'
<1>1. UNCHANGED <<log, tail, kept, dropped, events>>
  BY DEF Audit!LockGetsOld, Audit!Open, Audit!Judge, Audit!RemoveLock, Audit!Close,
         Audit!Die, Audit!history
<1>2. faults' = faults \/ Audit!Fault
  BY DEF Audit!LockGetsOld, Audit!Open, Audit!Judge, Audit!RemoveLock, Audit!Close,
         Audit!Die
<1>3. faults' \in 0..MaxFaults
  BY <1>2, FaultIs, AuditAssumption DEF AuditFiles, Audit!BoundsAssumption
<1>4. marred' \in {marred, marred \cup {"race"}}
  BY DEF Audit!LockGetsOld, Audit!Open, Audit!Judge, Audit!RemoveLock, Audit!Close,
         Audit!Die
<1> QED
  BY <1>1, <1>3, <1>4, FilesStay

(********************************* the lock *********************************)

Went(p, place) ==
    /\ at' \in [Pids -> Stages]
    /\ judged' \in [Pids -> Pids \cup {NoPid, Unreadable}]
    /\ \A q \in Pids : judged'[q] \in Pids => at'[judged'[q]] = "dead"
    /\ \A q \in Pids : at'[q] = IF q = p THEN place ELSE at[q]

\* A process that is not dead goes somewhere; what it judged may change.
LEMMA OneGoes ==
    ASSUME AuditLocks, NEW p \in Pids, at[p] # "dead", NEW place,
           place \in Stages,
           at' = [at EXCEPT ![p] = place],
           NEW j \in Pids \cup {NoPid, Unreadable}, j \in Pids => at[j] = "dead",
           judged' = judged \/ judged' = [judged EXCEPT ![p] = j]
    PROVE  Went(p, place)
<1>1. \A q \in Pids : at'[q] = IF q = p THEN place ELSE at[q]
  BY DEF AuditLocks, Went
<1>2. \A q \in Pids : judged'[q] \in {judged[q], j}
  BY DEF AuditLocks, Went
<1>3. \A q \in Pids : judged'[q] \in Pids => at[judged'[q]] = "dead"
  BY <1>2 DEF AuditLocks, Went
<1>4. \A q \in Pids : judged'[q] \in Pids => at'[judged'[q]] = "dead"
  BY <1>1, <1>3
<1>5. /\ at' \in [Pids -> Stages]
      /\ judged' \in [Pids -> Pids \cup {NoPid, Unreadable}]
  BY DEF AuditLocks, Went
<1> QED
  BY <1>1, <1>4, <1>5 DEF Went

\* The one pid in the lock file is of the one owner.
LEMMA NoOwner ==
    ASSUME AuditLocks, "race" \notin marred, NEW p \in Pids,
           lock \in {NoPid, Unreadable, judged[p]}
    PROVE  \A q \in Pids : at[q] # "own"
BY AuditAssumption DEF AuditLocks, Audit!BoundsAssumption

LEMMA OpenLocks ==
    ASSUME AuditLocks, NEW p \in Pids, Audit!Open(p)
    PROVE  AuditLocks'
<1>1. /\ at' = [at EXCEPT ![p] = "create"] /\ at[p] # "dead"
      /\ UNCHANGED <<judged, lock, old, marred>>
  BY DEF Audit!Open, Audit!Go
<1>2. NoPid \notin Pids
  BY AuditAssumption DEF Audit!BoundsAssumption
<1>3. Went(p, "create")
  BY <1>1, <1>2, OneGoes DEF Stages
<1>4. tries' \in [Pids -> 0..2] /\ \A q \in Pids : at'[q] = "create" => tries'[q] # 0
  BY <1>3 DEF Audit!Open, AuditLocks, Went
<1> QED
  BY <1>1, <1>3, <1>4 DEF AuditLocks, Went

LEMMA CreateLocks ==
    ASSUME AuditLocks, NEW p \in Pids, Audit!CreateLock(p)
    PROVE  AuditLocks'
<1>1. at[p] = "create" /\ marred' = marred
  BY DEF Audit!CreateLock
<1>2. NoPid \notin Pids /\ Unreadable \notin Pids /\ NoPid # Unreadable
  BY AuditAssumption DEF Audit!BoundsAssumption
<1>3. CASE /\ lock = NoPid /\ Audit!LockIs(p) /\ Audit!Leaves(p, "own")
  <2>1. /\ at' = [at EXCEPT ![p] = "own"] /\ tries' = [tries EXCEPT ![p] = 0]
        /\ judged' = [judged EXCEPT ![p] = NoPid] /\ lock' = p /\ old' = FALSE
    BY <1>3 DEF Audit!LockIs, Audit!Leaves, Audit!Go
  <2>2. Went(p, "own")
    BY <1>1, <1>2, <2>1, OneGoes DEF Stages
  <2>3. tries' \in [Pids -> 0..2] /\ \A q \in Pids : at'[q] = "create" => tries'[q] # 0
    BY <2>1, <2>2 DEF AuditLocks, Went
  <2>4. "race" \notin marred => \A q \in Pids : at[q] # "own"
    BY <1>3, NoOwner
  <2> QED
    BY <1>1, <2>1, <2>2, <2>3, <2>4 DEF AuditLocks, Went
<1>4. CASE /\ lock = NoPid /\ Audit!Leaves(p, "denied")
           /\ \E l \in {NoPid, Unreadable} : Audit!LockIs(l)
  <2>1. /\ at' = [at EXCEPT ![p] = "denied"] /\ tries' = [tries EXCEPT ![p] = 0]
        /\ judged' = [judged EXCEPT ![p] = NoPid] /\ lock' \in {NoPid, Unreadable}
        /\ old' = FALSE
    BY <1>4 DEF Audit!LockIs, Audit!Leaves, Audit!Go
  <2>2. Went(p, "denied")
    BY <1>1, <1>2, <2>1, OneGoes DEF Stages
  <2>3. tries' \in [Pids -> 0..2] /\ \A q \in Pids : at'[q] = "create" => tries'[q] # 0
    BY <2>1, <2>2 DEF AuditLocks, Went
  <2>4. "race" \notin marred => \A q \in Pids : at[q] # "own"
    BY <1>4, NoOwner
  <2> QED
    BY <1>1, <2>1, <2>2, <2>3, <2>4 DEF AuditLocks, Went
<1>5. CASE /\ Audit!Go(p, "judge") /\ tries' = [tries EXCEPT ![p] = @ - 1]
           /\ UNCHANGED <<judged, lock, old>>
  <2>1. at' = [at EXCEPT ![p] = "judge"]
    BY <1>5 DEF Audit!Go
  <2>2. Went(p, "judge")
    BY <1>1, <1>2, <1>5, <2>1, OneGoes DEF Stages
  <2>3. tries[p] \in 1..2
    BY <1>1 DEF AuditLocks, Went
  <2>4. tries' \in [Pids -> 0..2] /\ \A q \in Pids : at'[q] = "create" => tries'[q] # 0
    BY <1>5, <2>2, <2>3 DEF AuditLocks, Went
  <2> QED
    BY <1>1, <1>5, <2>2, <2>4 DEF AuditLocks, Went
<1> QED
  BY <1>3, <1>4, <1>5 DEF Audit!CreateLock

LEMMA JudgeLocks ==
    ASSUME AuditLocks, NEW p \in Pids, Audit!Judge(p)
    PROVE  AuditLocks'
<1>1. at[p] = "judge" /\ UNCHANGED <<lock, old, marred>>
  BY DEF Audit!Judge
<1>2. NoPid \notin Pids /\ Unreadable \notin Pids
  BY AuditAssumption DEF Audit!BoundsAssumption
<1>3. CASE /\ Audit!Stale /\ Audit!Go(p, "remove") /\ UNCHANGED tries
           /\ judged' = [judged EXCEPT ![p] = lock]
  <2>1. at' = [at EXCEPT ![p] = "remove"]
    BY <1>3 DEF Audit!Go
  <2>2. lock \in Pids \cup {NoPid, Unreadable} /\ (lock \in Pids => at[lock] = "dead")
    BY <1>2, <1>3 DEF AuditLocks, Audit!Stale
  <2>3. Went(p, "remove")
    BY <1>1, <1>3, <2>1, <2>2, OneGoes DEF Stages
  <2> QED
    BY <1>1, <1>3, <2>3 DEF AuditLocks, Went
<1>4. CASE Audit!Leaves(p, "denied")
  <2>1. /\ at' = [at EXCEPT ![p] = "denied"] /\ tries' = [tries EXCEPT ![p] = 0]
        /\ judged' = [judged EXCEPT ![p] = NoPid]
    BY <1>4 DEF Audit!Leaves, Audit!Go
  <2>2. Went(p, "denied")
    BY <1>1, <1>2, <2>1, OneGoes DEF Stages
  <2>3. tries' \in [Pids -> 0..2] /\ \A q \in Pids : at'[q] = "create" => tries'[q] # 0
    BY <2>1, <2>2 DEF AuditLocks, Went
  <2> QED
    BY <1>1, <2>2, <2>3 DEF AuditLocks, Went
<1> QED
  BY <1>3, <1>4 DEF Audit!Judge

LEMMA RemoveLocks ==
    ASSUME AuditLocks, NEW p \in Pids, Audit!RemoveLock(p)
    PROVE  AuditLocks'
<1>1. /\ at[p] = "remove" /\ lock' = NoPid /\ old' = FALSE
      /\ "race" \notin marred' => "race" \notin marred /\ lock \in {NoPid, judged[p]}
  BY DEF Audit!RemoveLock, Audit!LockIs
<1>2. NoPid \notin Pids
  BY AuditAssumption DEF Audit!BoundsAssumption
<1>3. "race" \notin marred' => \A q \in Pids : at[q] # "own"
  BY <1>1, NoOwner
<1>4. CASE Audit!Leaves(p, "denied")
  <2>1. /\ at' = [at EXCEPT ![p] = "denied"] /\ tries' = [tries EXCEPT ![p] = 0]
        /\ judged' = [judged EXCEPT ![p] = NoPid]
    BY <1>4 DEF Audit!Leaves, Audit!Go
  <2>2. Went(p, "denied")
    BY <1>1, <1>2, <2>1, OneGoes DEF Stages
  <2>3. tries' \in [Pids -> 0..2] /\ \A q \in Pids : at'[q] = "create" => tries'[q] # 0
    BY <2>1, <2>2 DEF AuditLocks, Went
  <2> QED
    BY <1>1, <1>3, <2>2, <2>3 DEF AuditLocks, Went
<1>5. CASE /\ tries[p] # 0 /\ Audit!Go(p, "create") /\ UNCHANGED tries
           /\ judged' = [judged EXCEPT ![p] = NoPid]
  <2>1. at' = [at EXCEPT ![p] = "create"]
    BY <1>5 DEF Audit!Go
  <2>2. Went(p, "create")
    BY <1>1, <1>2, <1>5, <2>1, OneGoes DEF Stages
  <2>3. tries' \in [Pids -> 0..2] /\ \A q \in Pids : at'[q] = "create" => tries'[q] # 0
    BY <1>5, <2>2 DEF AuditLocks, Went
  <2> QED
    BY <1>1, <1>3, <2>2, <2>3 DEF AuditLocks, Went
<1> QED
  BY <1>4, <1>5 DEF Audit!RemoveLock

LEMMA CloseLocks ==
    ASSUME AuditLocks, NEW p \in Pids, Audit!Close(p)
    PROVE  AuditLocks'
<1>1. /\ at[p] \in {"own", "denied"} /\ at' = [at EXCEPT ![p] = "shut"]
      /\ IF at[p] = "own" THEN lock' = NoPid /\ old' = FALSE ELSE UNCHANGED <<lock, old>>
      /\ UNCHANGED <<tries, judged, marred>>
  BY DEF Audit!Close, Audit!Go, Audit!LockIs
<1>2. NoPid \notin Pids
  BY AuditAssumption DEF Audit!BoundsAssumption
<1>3. Went(p, "shut")
  BY <1>1, <1>2, OneGoes DEF Stages
<1>4. \A q \in Pids : at'[q] = "create" => tries'[q] # 0
  BY <1>1, <1>3 DEF AuditLocks, Went
<1> QED
  BY <1>1, <1>3, <1>4 DEF AuditLocks, Went

LEMMA DieLocks ==
    ASSUME AuditLocks, NEW p \in Pids, Audit!Die(p) \/ Audit!DieRecording(p)
    PROVE  AuditLocks'
<1>1. /\ at[p] # "dead" /\ marred' = marred
      /\ at' = [at EXCEPT ![p] = "dead"] /\ tries' = [tries EXCEPT ![p] = 0]
      /\ judged' = [judged EXCEPT ![p] = NoPid]
  BY DEF Audit!Die, Audit!DieRecording, Audit!Leaves, Audit!Go
<1>2. \/ UNCHANGED <<lock, old>>
      \/ lock = NoPid /\ lock' = Unreadable /\ old' = FALSE
  BY DEF Audit!Die, Audit!DieRecording, Audit!LockIs
<1>3. NoPid \notin Pids /\ Unreadable \notin Pids
  BY AuditAssumption DEF Audit!BoundsAssumption
<1>4. Went(p, "dead")
  BY <1>1, <1>3, OneGoes DEF Stages
<1>5. tries' \in [Pids -> 0..2] /\ \A q \in Pids : at'[q] = "create" => tries'[q] # 0
  BY <1>1, <1>4 DEF AuditLocks, Went
<1>6. "race" \notin marred /\ lock = NoPid => \A q \in Pids : at[q] # "own"
  BY NoOwner
<1> QED
  BY <1>1, <1>2, <1>3, <1>4, <1>5, <1>6 DEF AuditLocks, Went

\* What a record of an event does to the files leaves the lock.
LEMMA OtherLocks ==
    ASSUME AuditLocks, NEW p,
           Audit!LockGetsOld \/ Audit!Record(p) \/ Audit!RecordDenied(p)
    PROVE  AuditLocks'
<1>1. /\ UNCHANGED <<at, tries, judged, lock>> /\ (old' = old \/ old' = TRUE)
      /\ "race" \notin marred' => "race" \notin marred
  BY DEF Audit!LockGetsOld, Audit!Record, Audit!RecordDenied
<1> QED
  BY <1>1 DEF AuditLocks

(******************************** the whole *********************************)

LEMMA AuditInit == Audit!Init => AuditInv
<1> SUFFICES ASSUME Audit!Init PROVE AuditInv
  OBVIOUS
<1>1. /\ Segments \in Nat \ {0} /\ Room \in Nat \ {0} /\ MaxEvents \in Nat
      /\ MaxFaults \in Nat /\ NoPid \notin Pids
  BY AuditAssumption DEF Audit!BoundsAssumption
<1>2. AuditLocks
  <2>1. at \in [Pids -> Stages] /\ tries \in [Pids -> 0..2]
    BY DEF Audit!Init, Stages
  <2>2. judged \in [Pids -> Pids \cup {NoPid, Unreadable}]
    BY DEF Audit!Init
  <2>3. lock \in Pids \cup {NoPid, Unreadable} /\ old \in BOOLEAN
    BY DEF Audit!Init
  <2>4. \A p \in Pids : at[p] = "idle" /\ judged[p] \notin Pids
    BY <1>1 DEF Audit!Init
  <2> QED
    BY <2>1, <2>2, <2>3, <2>4 DEF AuditLocks
<1>3. << >> \in Seq(0..0) /\ Ascends(<< >>) /\ Whole(<< >>) = {} /\ Len(<< >>) = 0
  BY DEF Ascends, Whole, Audit!Whole, Audit!ToSet
<1>4. log = [i \in Places |-> << >>] /\ dropped = {} /\ events = 0 /\ kept = {}
  BY DEF Audit!Init, Places
<1>5. InOrder(log, events, dropped)
  BY <1>3, <1>4 DEF InOrder
<1>6. \A i \in Places : Len(log[i]) <= Room
  BY <1>1, <1>3, <1>4
<1>7. AuditFiles
  <2>1. /\ tail = FALSE /\ faults = 0 /\ marred = {} /\ 0 \in 0..MaxEvents
        /\ 0 \in 0..MaxFaults
    BY <1>1 DEF Audit!Init
  <2> QED
    BY <1>4, <1>5, <1>6, <2>1 DEF AuditFiles
<1> QED
  BY <1>2, <1>7 DEF AuditInv

LEMMA AuditStep == AuditInv /\ [Audit!Next]_(Audit!vars) => AuditInv'
<1> SUFFICES ASSUME AuditInv, [Audit!Next]_(Audit!vars) PROVE AuditInv'
  OBVIOUS
<1>1. AuditLocks /\ AuditFiles
  BY DEF AuditInv
<1>2. CASE Audit!LockGetsOld
  BY <1>1, <1>2, OtherFiles, OtherLocks DEF AuditInv
<1>3. ASSUME NEW p \in Pids, Audit!Open(p) PROVE AuditInv'
  BY <1>1, <1>3, OtherFiles, OpenLocks DEF AuditInv
<1>4. ASSUME NEW p \in Pids, Audit!CreateLock(p) PROVE AuditInv'
  BY <1>1, <1>4, CreateFiles, CreateLocks DEF AuditInv
<1>5. ASSUME NEW p \in Pids, Audit!Judge(p) PROVE AuditInv'
  BY <1>1, <1>5, OtherFiles, JudgeLocks DEF AuditInv
<1>6. ASSUME NEW p \in Pids, Audit!RemoveLock(p) PROVE AuditInv'
  BY <1>1, <1>6, OtherFiles, RemoveLocks DEF AuditInv
<1>7. ASSUME NEW p \in Pids, Audit!Close(p) PROVE AuditInv'
  BY <1>1, <1>7, OtherFiles, CloseLocks DEF AuditInv
<1>8. ASSUME NEW p \in Pids, Audit!Die(p) PROVE AuditInv'
  BY <1>1, <1>8, OtherFiles, DieLocks DEF AuditInv
<1>9. ASSUME NEW p \in Pids, Audit!Record(p) PROVE AuditInv'
  BY <1>1, <1>9, RecordFiles, OtherLocks DEF AuditInv
<1>10. ASSUME NEW p \in Pids, Audit!DieRecording(p) PROVE AuditInv'
  BY <1>1, <1>10, DieRecordingFiles, DieLocks DEF AuditInv
<1>11. ASSUME NEW p \in Pids, Audit!RecordDenied(p) PROVE AuditInv'
  BY <1>1, <1>11, DeniedFiles, OtherLocks DEF AuditInv
<1>12. CASE UNCHANGED Audit!vars
  BY <1>1, <1>12 DEF Audit!vars, AuditInv, AuditLocks, AuditFiles, InOrder, Ascends,
                     Readable
<1> QED
  BY <1>2, <1>3, <1>4, <1>5, <1>6, <1>7, <1>8, <1>9, <1>10, <1>11, <1>12
     DEF Audit!Next

LEMMA AuditHolds == AuditInv => Audit!AuditSafety
<1> SUFFICES ASSUME AuditInv PROVE Audit!AuditSafety
  OBVIOUS
<1>1. AuditLocks /\ AuditFiles /\ Segments \in Nat /\ MaxEvents \in Nat
  BY AuditAssumption DEF AuditInv, Audit!BoundsAssumption
<1>2. /\ log \in [Places -> Seq(0..events)] /\ events \in 0..MaxEvents
      /\ InOrder(log, events, dropped)
  BY <1>1 DEF AuditFiles, InOrder
<1>3. log \in [Places -> Seq(0..MaxEvents)]
  <2>1. \A i \in Places : log[i] \in Seq(0..MaxEvents)
    BY <1>1, <1>2
  <2> QED
    BY <1>2, <2>1
<1>4. \A e : e \in Audit!OnDisk <=> Readable(e, log)
  BY DEF Audit!OnDisk, Readable, Places, Whole
<1>5. Audit!AuditTypeOK
  BY <1>1, <1>3 DEF AuditLocks, AuditFiles, Audit!AuditTypeOK, Audit!Last, Places, Stages
<1>6. Audit!OneOwner
  BY <1>1 DEF AuditLocks, Audit!OneOwner
<1>7. Audit!PersistedIsReadable
  BY <1>1, <1>4 DEF AuditFiles, Audit!PersistedIsReadable
<1>8. Audit!OldestGoesFirst
  <2>1. \A i \in Places : Ascends(log[i])
    BY <1>2 DEF InOrder
  <2>2. \A i, j \in Places : i < j => \A e \in Whole(log[i]), d \in Whole(log[j]) : d < e
    BY <1>2 DEF InOrder
  <2>3. \A d \in dropped, e \in Audit!OnDisk : d < e
    BY <1>2, <1>4 DEF InOrder, Readable
  <2> QED
    BY <2>1, <2>2, <2>3 DEF Ascends, Places, Whole, Audit!OldestGoesFirst
<1>9. Audit!WithinBudget
  BY <1>1 DEF AuditFiles, Audit!WithinBudget, Places
<1> QED
  BY <1>5, <1>6, <1>7, <1>8, <1>9 DEF Audit!AuditSafety

\* The audit log is kept through takeovers of its lock, rotations that fail at
\* any call, appends cut short and deaths: one owner, nothing persisted lost but
\* with the oldest segment, the order kept and the budget held
\* (audit-store.ts:239-270, :346, :370-389, :466-472).
THEOREM AuditIsSafe == MCSpec => []AuditSafety
<1> DEFINE Good == part = "audit" => AuditInv
<1>1. MCInit => Good
  BY AuditInit DEF MCInit
<1>2. Good /\ [MCNext]_<<part, vars, cursorVars, auditVars, runnerVars>> => Good'
  <2> SUFFICES ASSUME Good, part' = "audit",
                      [MCNext]_<<part, vars, cursorVars, auditVars, runnerVars>>
               PROVE  AuditInv'
    OBVIOUS
  <2>1. part = "audit" /\ [Audit!Next]_(Audit!vars)
    BY DEF MCNext, auditVars, Audit!vars
  <2> QED
    BY <2>1, AuditStep
<1>3. Good => AuditSafety
  BY AuditHolds DEF AuditSafety
<1> QED
  BY <1>1, <1>2, <1>3, PTL DEF MCSpec
=============================================================================
