----------------------- MODULE WebhookDeliveryProofs ------------------------
(* For any deliveries, any number of retries, any delays and any faults: the  *)
(* audit trail shows all that the receiver heard, and no more successes.      *)
EXTENDS WebhookDelivery, TLAPS

Row == [number : Nat, outcome : Outcome]
TaskRec == [pc : TaskPC, attempt : Nat, success : BOOLEAN]

\* Rows are numbered from one, and all but the last are failures.
Numbered(d) ==
    \A i \in 1 .. Len(attempts[d]) :
        /\ attempts[d][i].number = i
        /\ i < Len(attempts[d]) => attempts[d][i].outcome = "failure"

AllFailed(d) ==
    \A i \in 1 .. Len(attempts[d]) : attempts[d][i].outcome = "failure"

\* What the control location says of the trail: how many rows there are, and that the
\* last one waits for its result while the POST is under way.
Position(d) ==
    /\ task[d].pc = "dispatched" => attempts[d] = << >>
    /\ task[d].pc = "create" => task[d].attempt = Len(attempts[d]) + 1 /\ AllFailed(d)
    /\ task[d].pc = "sleep" =>
           /\ Len(attempts[d]) > 0 /\ task[d].attempt = Len(attempts[d]) /\ AllFailed(d)
           /\ RetryDelays # << >>
    /\ task[d].pc \in {"post", "record"} =>
           /\ Len(attempts[d]) > 0 /\ task[d].attempt = Len(attempts[d])
           /\ attempts[d][Len(attempts[d])].outcome = "pending"

\* What the receiver heard: no more than there are rows, one less before the POST.
Silence(d) ==
    /\ Len(heard[d]) <= Len(attempts[d])
    /\ task[d].pc = "post" => Len(heard[d]) < Len(attempts[d])

LastIs2xx(d) == heard[d] # << >> /\ heard[d][Len(heard[d])] = "2xx"

\* A success, seen or recorded, is the last thing that was heard.
Success(d) ==
    /\ task[d].pc = "record" /\ task[d].success => LastIs2xx(d)
    /\ \A i \in 1 .. Len(attempts[d]) :
           attempts[d][i].outcome = "success" => task[d].pc \in Ended /\ LastIs2xx(d)

DInv(d) == Numbered(d) /\ Position(d) /\ Silence(d) /\ Success(d)

IInv == TypeOK /\ \A d \in Deliveries : DInv(d)

-----------------------------------------------------------------------------

\* Initially nothing is recorded and nothing is heard.
LEMMA InitIInv == Init => IInv
  BY DEF Init, IInv, TypeOK, DInv, Numbered, Position, Silence, Success, AllFailed,
         LastIs2xx, TaskPC

\* Moving a task to another location changes nothing else of it.
LEMMA GotoTask ==
    ASSUME TypeOK, NEW d \in Deliveries, NEW pc \in TaskPC, Goto(d, pc)
    PROVE  /\ task' \in [Deliveries -> TaskRec]
           /\ task'[d].pc = pc /\ task'[d].attempt = task[d].attempt
           /\ task'[d].success = task[d].success
           /\ \A e \in Deliveries \ {d} : task'[e] = task[e]
<1>1. task \in [Deliveries -> TaskRec]
  BY DEF TypeOK, TaskRec
<1>2. [task[d] EXCEPT !.pc = pc] \in TaskRec
  BY <1>1 DEF TaskRec
<1>3. task' = [task EXCEPT ![d] = [task[d] EXCEPT !.pc = pc]]
  BY DEF Goto
<1>4. task'[d] = [task[d] EXCEPT !.pc = pc] /\ task[d] \in TaskRec
  BY <1>1, <1>3
<1>5. QED
  BY <1>1, <1>2, <1>3, <1>4 DEF TaskRec

\* A new row is pending, numbered by the attempt, and follows those there were.
LEMMA NewRowTrail ==
    ASSUME TypeOK, NEW d \in Deliveries, NewRow(d)
    PROVE  /\ attempts' \in [Deliveries -> Seq(Row)]
           /\ Len(attempts'[d]) = Len(attempts[d]) + 1
           /\ \A i \in 1 .. Len(attempts[d]) : attempts'[d][i] = attempts[d][i]
           /\ attempts'[d][Len(attempts[d]) + 1].number = task[d].attempt
           /\ attempts'[d][Len(attempts[d]) + 1].outcome = "pending"
           /\ \A e \in Deliveries \ {d} : attempts'[e] = attempts[e]
<1> DEFINE row == [number |-> task[d].attempt, outcome |-> "pending"]
<1>1. attempts \in [Deliveries -> Seq(Row)] /\ row \in Row
  BY DEF TypeOK, Row, Outcome
<1>2. row.number = task[d].attempt /\ row.outcome = "pending"
  OBVIOUS
<1>3. attempts' = [attempts EXCEPT ![d] = Append(attempts[d], row)]
  BY DEF NewRow
<1> HIDE DEF row
<1>4. QED
  BY <1>1, <1>2, <1>3

\* The last row gets the result of its POST; nothing else changes.
LEMMA UpdateRowTrail ==
    ASSUME TypeOK, NEW d \in Deliveries, Len(attempts[d]) > 0, UpdateRow(d)
    PROVE  /\ attempts' \in [Deliveries -> Seq(Row)]
           /\ Len(attempts'[d]) = Len(attempts[d])
           /\ \A i \in 1 .. Len(attempts[d]) :
                 /\ attempts'[d][i].number = attempts[d][i].number
                 /\ i < Len(attempts[d]) => attempts'[d][i] = attempts[d][i]
           /\ attempts'[d][Len(attempts[d])].outcome = Result(d)
           /\ \A e \in Deliveries \ {d} : attempts'[e] = attempts[e]
<1> DEFINE n   == Len(attempts[d])
           row == [attempts[d][n] EXCEPT !.outcome = Result(d)]
<1>1. attempts \in [Deliveries -> Seq(Row)] /\ n \in 1 .. Len(attempts[d])
  <2>1. attempts \in [Deliveries -> Seq(Row)]
    BY DEF TypeOK, Row
  <2>2. Len(attempts[d]) \in Nat
    BY <2>1
  <2>3. QED
    BY <2>1, <2>2
<1>2. Result(d) \in Outcome
  BY DEF Result, Outcome
<1>3. attempts[d][n] \in Row
  BY <1>1
<1>4. row \in Row /\ row.number = attempts[d][n].number /\ row.outcome = Result(d)
  BY <1>2, <1>3 DEF Row
<1>5. attempts' = [attempts EXCEPT ![d] = [attempts[d] EXCEPT ![n] = row]]
  BY DEF UpdateRow
<1> HIDE DEF row
<1>6. [attempts[d] EXCEPT ![n] = row] \in Seq(Row)
  BY <1>1, <1>4
<1>7. attempts'[d] = [attempts[d] EXCEPT ![n] = row]
  BY <1>1, <1>5
<1>8. QED
  BY <1>1, <1>4, <1>5, <1>6, <1>7

-----------------------------------------------------------------------------

\* What a task that ends, or that dies, leaves behind stays as it is.
LEMMA EndKeeps ==
    ASSUME NEW d \in Deliveries, TypeOK, DInv(d), task'[d].pc \in Ended,
           attempts'[d] = attempts[d], heard'[d] = heard[d]
    PROVE  DInv(d)'
  BY DEF DInv, Numbered, Position, Silence, Success, LastIs2xx, AllFailed, Ended

\* Every step of one delivery keeps its invariant.
LEMMA StepKeeps ==
    ASSUME IInv, NEW d \in Deliveries, Step(d) \/ CreateAttemptFails(d) \/ RecordFails(d)
    PROVE  TypeOK' /\ DInv(d)' /\ \A e \in Deliveries \ {d} : DInv(e)'
<1>0. /\ TypeOK /\ DInv(d)
      /\ task \in [Deliveries -> TaskRec] /\ attempts \in [Deliveries -> Seq(Row)]
      /\ waited \in [Deliveries -> Seq(Nat)] /\ heard \in [Deliveries -> Seq(Answers)]
      /\ attempts[d] \in Seq(Row) /\ heard[d] \in Seq(Answers) /\ task[d] \in TaskRec
  BY DEF IInv, TypeOK, TaskRec, Row
<1>l. Len(attempts[d]) \in Nat /\ Len(heard[d]) \in Nat
  BY <1>0
<1>p. {"create", "post", "record", "sleep"} \cup Ended \subseteq TaskPC
  BY DEF TaskPC
<1>o. ASSUME \A e \in Deliveries \ {d} : task'[e] = task[e] /\ attempts'[e] = attempts[e]
                                         /\ heard'[e] = heard[e]
      PROVE  \A e \in Deliveries \ {d} : DInv(e)'
  BY <1>o DEF IInv, DInv, Numbered, Position, Silence, Success, LastIs2xx, AllFailed
<1>t. ASSUME task' \in [Deliveries -> TaskRec], attempts' \in [Deliveries -> Seq(Row)],
             waited' \in [Deliveries -> Seq(Nat)], heard' \in [Deliveries -> Seq(Answers)]
      PROVE  TypeOK'
  BY <1>t DEF TypeOK, TaskRec, Row
<1>e. ASSUME NEW pc \in Ended, Goto(d, pc), UNCHANGED <<attempts, waited, heard>>
      PROVE  TypeOK' /\ DInv(d)' /\ \A e \in Deliveries \ {d} : DInv(e)'
  <2>1. /\ task' \in [Deliveries -> TaskRec] /\ task'[d].pc = pc
        /\ \A e \in Deliveries \ {d} : task'[e] = task[e]
    BY <1>0, <1>p, <1>e, GotoTask
  <2>2. QED
    BY <1>0, <1>e, <1>o, <1>t, <2>1, EndKeeps
<1>1. CASE Dispatch(d)
  <2>1. CASE \E pc \in Ended : Goto(d, pc)
    BY <1>1, <1>e, <2>1 DEF Dispatch
  <2>2. CASE task' = [task EXCEPT ![d].pc = "create", ![d].attempt = 1]
    <3>1. [task[d] EXCEPT !.pc = "create", !.attempt = 1] \in TaskRec
      BY <1>0, <1>p DEF TaskRec
    <3>2. task' = [task EXCEPT ![d] = [task[d] EXCEPT !.pc = "create", !.attempt = 1]]
      BY <2>2
    <3>3. /\ task' \in [Deliveries -> TaskRec]
          /\ task'[d] = [task[d] EXCEPT !.pc = "create", !.attempt = 1]
          /\ \A e \in Deliveries \ {d} : task'[e] = task[e]
      BY <1>0, <3>1, <3>2
    <3>4. task'[d].pc = "create" /\ task'[d].attempt = 1
      BY <1>0, <3>3 DEF TaskRec
    <3>5. attempts[d] = << >> /\ UNCHANGED <<attempts, waited, heard>>
      BY <1>0, <1>1 DEF Dispatch, DInv, Position
    <3>6. DInv(d)'
      BY <1>0, <3>4, <3>5 DEF DInv, Numbered, Position, Silence, Success, AllFailed, Ended
    <3>7. QED
      BY <1>0, <1>o, <1>t, <3>3, <3>5, <3>6
  <2>3. QED
    BY <1>1, <2>1, <2>2 DEF Dispatch, Ended
<1>2. CASE CreateAttempt(d)
  <2>1. NewRow(d) /\ Goto(d, "post") /\ UNCHANGED <<waited, heard>> /\ task[d].pc = "create"
    BY <1>2 DEF CreateAttempt
  <2>2. /\ task' \in [Deliveries -> TaskRec] /\ task'[d].pc = "post"
        /\ task'[d].attempt = task[d].attempt
        /\ \A e \in Deliveries \ {d} : task'[e] = task[e]
    BY <1>0, <1>p, <2>1, GotoTask
  <2>3. /\ task[d].attempt = Len(attempts[d]) + 1 /\ AllFailed(d)
        /\ Len(heard[d]) <= Len(attempts[d])
    BY <1>0, <2>1 DEF DInv, Position, Silence
  <2>4. /\ attempts' \in [Deliveries -> Seq(Row)]
        /\ Len(attempts'[d]) = Len(attempts[d]) + 1
        /\ \A i \in 1 .. Len(attempts[d]) : attempts'[d][i] = attempts[d][i]
        /\ attempts'[d][Len(attempts[d]) + 1].number = task[d].attempt
        /\ attempts'[d][Len(attempts[d]) + 1].outcome = "pending"
        /\ \A e \in Deliveries \ {d} : attempts'[e] = attempts[e]
    BY <1>0, <2>1, NewRowTrail
  <2>5. Numbered(d)'
    <3> SUFFICES ASSUME NEW i \in 1 .. Len(attempts[d]) + 1
                 PROVE  /\ attempts'[d][i].number = i
                        /\ i < Len(attempts[d]) + 1 => attempts'[d][i].outcome = "failure"
      BY <2>4 DEF Numbered
    <3>1. CASE i = Len(attempts[d]) + 1
      BY <1>l, <2>3, <2>4, <3>1
    <3>2. CASE i # Len(attempts[d]) + 1
      <4>1. i \in 1 .. Len(attempts[d])
        BY <1>l, <3>2
      <4>2. attempts[d][i].number = i /\ attempts[d][i].outcome = "failure"
        BY <1>0, <2>3, <4>1 DEF DInv, Numbered, AllFailed
      <4>3. QED
        BY <2>4, <4>1, <4>2
    <3>3. QED
      BY <3>1, <3>2
  <2>6. Position(d)' /\ Silence(d)'
    BY <1>l, <2>1, <2>2, <2>3, <2>4 DEF Position, Silence
  <2>7. Success(d)'
    BY <1>l, <2>2, <2>3, <2>4 DEF Success, AllFailed
  <2>8. QED
    BY <1>0, <1>o, <1>t, <2>1, <2>2, <2>4, <2>5, <2>6, <2>7 DEF DInv
<1>3. CASE CreateAttemptFails(d)
  <2>1. Goto(d, "error") /\ UNCHANGED <<waited, heard>> /\ task[d].pc = "create"
        /\ "error" \in Ended /\ (NewRow(d) \/ UNCHANGED attempts)
    BY <1>3 DEF CreateAttemptFails, Ended
  <2>2. CASE NewRow(d)
    <3>1. /\ task' \in [Deliveries -> TaskRec] /\ task'[d].pc = "error"
          /\ \A e \in Deliveries \ {d} : task'[e] = task[e]
      BY <1>0, <1>p, <2>1, GotoTask
    <3>2. /\ task[d].attempt = Len(attempts[d]) + 1 /\ AllFailed(d)
          /\ Len(heard[d]) <= Len(attempts[d])
      BY <1>0, <2>1 DEF DInv, Position, Silence
    <3>3. /\ attempts' \in [Deliveries -> Seq(Row)]
          /\ Len(attempts'[d]) = Len(attempts[d]) + 1
          /\ \A i \in 1 .. Len(attempts[d]) : attempts'[d][i] = attempts[d][i]
          /\ attempts'[d][Len(attempts[d]) + 1].number = task[d].attempt
          /\ attempts'[d][Len(attempts[d]) + 1].outcome = "pending"
          /\ \A e \in Deliveries \ {d} : attempts'[e] = attempts[e]
      BY <1>0, <2>2, NewRowTrail
    <3>4. Numbered(d)'
      <4> SUFFICES ASSUME NEW i \in 1 .. Len(attempts[d]) + 1
                   PROVE  /\ attempts'[d][i].number = i
                          /\ i < Len(attempts[d]) + 1 => attempts'[d][i].outcome = "failure"
        BY <3>3 DEF Numbered
      <4>1. CASE i = Len(attempts[d]) + 1
        BY <1>l, <3>2, <3>3, <4>1
      <4>2. CASE i # Len(attempts[d]) + 1
        <5>1. i \in 1 .. Len(attempts[d])
          BY <1>l, <4>2
        <5>2. attempts[d][i].number = i /\ attempts[d][i].outcome = "failure"
          BY <1>0, <3>2, <5>1 DEF DInv, Numbered, AllFailed
        <5>3. QED
          BY <3>3, <5>1, <5>2
      <4>3. QED
        BY <4>1, <4>2
    <3>5. Position(d)' /\ Silence(d)'
      BY <1>l, <2>1, <3>1, <3>2, <3>3 DEF Position, Silence
    <3>6. Success(d)'
      <4>1. \A i \in 1 .. Len(attempts[d]) : attempts'[d][i].outcome = "failure"
        BY <3>2, <3>3 DEF AllFailed
      <4>2. \A i \in 1 .. Len(attempts'[d]) : attempts'[d][i].outcome # "success"
        BY <1>l, <3>3, <4>1
      <4>3. QED
        BY <3>1, <4>2 DEF Success
    <3>7. QED
      BY <1>0, <1>o, <1>t, <2>1, <3>1, <3>3, <3>4, <3>5, <3>6 DEF DInv
  <2>3. CASE UNCHANGED attempts
    BY <1>e, <2>1, <2>3
  <2>4. QED
    BY <2>1, <2>2, <2>3
<1>4. CASE Post(d)
  <2>1. PICK success \in BOOLEAN : task' = [task EXCEPT ![d].pc = "record", ![d].success = success]
        /\ \/ \E answer \in Answers : /\ heard' = [heard EXCEPT ![d] = Append(heard[d], answer)]
                                      /\ success => answer = "2xx"
           \/ UNCHANGED heard /\ ~success
    BY <1>4 DEF Post
  <2>2. task[d].pc = "post" /\ UNCHANGED <<attempts, waited>>
    BY <1>4 DEF Post
  <2>3. [task[d] EXCEPT !.pc = "record", !.success = success] \in TaskRec
    BY <1>0, <1>p DEF TaskRec
  <2>4. task' = [task EXCEPT ![d] = [task[d] EXCEPT !.pc = "record", !.success = success]]
    BY <2>1
  <2>5. /\ task' \in [Deliveries -> TaskRec]
        /\ task'[d] = [task[d] EXCEPT !.pc = "record", !.success = success]
        /\ \A e \in Deliveries \ {d} : task'[e] = task[e]
    BY <1>0, <2>3, <2>4
  <2>6. task'[d].pc = "record" /\ task'[d].attempt = task[d].attempt /\ task'[d].success = success
    BY <1>0, <2>5 DEF TaskRec
  <2>7. /\ heard' \in [Deliveries -> Seq(Answers)]
        /\ Len(heard'[d]) <= Len(attempts[d])
        /\ success => heard'[d] # << >> /\ heard'[d][Len(heard'[d])] = "2xx"
        /\ \A e \in Deliveries \ {d} : heard'[e] = heard[e]
    <3>1. Len(heard[d]) < Len(attempts[d])
      BY <1>0, <2>2 DEF DInv, Silence
    <3>2. ASSUME NEW answer \in Answers, heard' = [heard EXCEPT ![d] = Append(heard[d], answer)]
          PROVE  /\ heard' \in [Deliveries -> Seq(Answers)]
                 /\ Len(heard'[d]) = Len(heard[d]) + 1
                 /\ heard'[d] # << >> /\ heard'[d][Len(heard'[d])] = answer
                 /\ \A e \in Deliveries \ {d} : heard'[e] = heard[e]
      <4>1. heard'[d] = Append(heard[d], answer)
        BY <1>0, <3>2
      <4>2. Append(heard[d], answer) \in Seq(Answers)
        BY <1>0
      <4>3. /\ Len(heard'[d]) = Len(heard[d]) + 1
            /\ heard'[d][Len(heard[d]) + 1] = answer
        BY <1>0, <1>l, <4>1
      <4>4. heard'[d] # << >>
        BY <1>l, <4>3
      <4>5. QED
        BY <1>0, <3>2, <4>2, <4>3, <4>4
    <3>3. CASE \E answer \in Answers : /\ heard' = [heard EXCEPT ![d] = Append(heard[d], answer)]
                                       /\ success => answer = "2xx"
      <4>1. PICK answer \in Answers : /\ heard' = [heard EXCEPT ![d] = Append(heard[d], answer)]
                                      /\ success => answer = "2xx"
        BY <3>3
      <4>2. /\ heard' \in [Deliveries -> Seq(Answers)]
            /\ Len(heard'[d]) = Len(heard[d]) + 1
            /\ heard'[d] # << >> /\ heard'[d][Len(heard'[d])] = answer
            /\ \A e \in Deliveries \ {d} : heard'[e] = heard[e]
        BY <3>2, <4>1
      <4>3. QED
        BY <1>l, <3>1, <4>1, <4>2
    <3>4. CASE UNCHANGED heard /\ ~success
      BY <1>0, <1>l, <3>1, <3>4
    <3>5. QED
      BY <2>1, <3>3, <3>4
  <2>8. DInv(d)'
    <3>1. Numbered(d)' /\ Position(d)' /\ Silence(d)'
      BY <1>0, <2>2, <2>6, <2>7 DEF DInv, Numbered, Position, Silence
    <3>2. Success(d)'
      BY <1>0, <2>2, <2>6, <2>7 DEF DInv, Success, LastIs2xx, Ended
    <3>3. QED
      BY <3>1, <3>2 DEF DInv
  <2>9. QED
    BY <1>0, <1>o, <1>t, <2>2, <2>5, <2>7, <2>8
<1>5. ASSUME NEW pc \in TaskPC, task[d].pc = "record", Goto(d, pc), UpdateRow(d),
             UNCHANGED <<waited, heard>>, pc \in Ended \/ (pc = "sleep" /\ ~task[d].success /\ RetryDelays # << >>)
      PROVE  TypeOK' /\ DInv(d)' /\ \A e \in Deliveries \ {d} : DInv(e)'
  <2>1. /\ task' \in [Deliveries -> TaskRec] /\ task'[d].pc = pc
        /\ task'[d].attempt = task[d].attempt
        /\ \A e \in Deliveries \ {d} : task'[e] = task[e]
    BY <1>0, <1>5, GotoTask
  <2>2. /\ Len(attempts[d]) > 0 /\ task[d].attempt = Len(attempts[d])
    BY <1>0, <1>5 DEF DInv, Position
  <2>3. /\ attempts' \in [Deliveries -> Seq(Row)]
        /\ Len(attempts'[d]) = Len(attempts[d])
        /\ \A i \in 1 .. Len(attempts[d]) :
              /\ attempts'[d][i].number = attempts[d][i].number
              /\ i < Len(attempts[d]) => attempts'[d][i] = attempts[d][i]
        /\ attempts'[d][Len(attempts[d])].outcome = Result(d)
        /\ \A e \in Deliveries \ {d} : attempts'[e] = attempts[e]
    BY <1>0, <1>5, <2>2, UpdateRowTrail
  <2>4. Numbered(d)'
    BY <1>0, <1>l, <2>3 DEF DInv, Numbered
  <2>5. ~task[d].success => AllFailed(d)'
    BY <1>0, <1>l, <2>3 DEF DInv, Numbered, AllFailed, Result
  <2>6. Position(d)' /\ Silence(d)'
    BY <1>0, <1>l, <1>5, <2>1, <2>2, <2>3, <2>5 DEF DInv, Position, Silence, Ended
  <2>7. Success(d)'
    <3>1. task[d].success => LastIs2xx(d)'
      BY <1>0, <1>5 DEF DInv, Success, LastIs2xx
    <3>2. task'[d].pc # "record"
      BY <1>5, <2>1 DEF Ended
    <3>3. CASE task[d].success
      BY <1>5, <2>1, <3>1, <3>2, <3>3 DEF Success
    <3>4. CASE ~task[d].success
      BY <2>5, <3>2, <3>4 DEF Success, AllFailed
    <3>5. QED
      BY <3>3, <3>4
  <2>8. QED
    BY <1>0, <1>5, <1>o, <1>t, <2>1, <2>3, <2>4, <2>6, <2>7 DEF DInv
<1>6. CASE Record(d)
  BY <1>5, <1>6 DEF Record, TaskPC, Ended
<1>7. CASE RecordFails(d)
  <2>1. /\ task[d].pc = "record" /\ Goto(d, "error") /\ UNCHANGED <<waited, heard>>
        /\ "error" \in Ended /\ "error" \in TaskPC /\ (UpdateRow(d) \/ UNCHANGED attempts)
    BY <1>7 DEF RecordFails, TaskPC, Ended
  <2>2. QED
    BY <1>5, <1>e, <2>1
<1>8. CASE Sleep(d)
  <2>1. /\ task[d].pc = "sleep" /\ UNCHANGED <<attempts, heard>>
        /\ task' = [task EXCEPT ![d].pc = "create", ![d].attempt = task[d].attempt + 1]
        /\ waited' = [waited EXCEPT ![d] = Append(waited[d], Delay(task[d].attempt))]
    BY <1>8 DEF Sleep
  <2>2. [task[d] EXCEPT !.pc = "create", !.attempt = task[d].attempt + 1] \in TaskRec
    <3>1. task[d].attempt \in Nat /\ task[d].attempt + 1 \in Nat
      BY <1>0 DEF TaskRec
    <3>2. QED
      BY <1>0, <1>p, <3>1 DEF TaskRec
  <2>3. task' = [task EXCEPT ![d] = [task[d] EXCEPT !.pc = "create", !.attempt = task[d].attempt + 1]]
    BY <2>1
  <2>4. /\ task' \in [Deliveries -> TaskRec]
        /\ task'[d] = [task[d] EXCEPT !.pc = "create", !.attempt = task[d].attempt + 1]
        /\ \A e \in Deliveries \ {d} : task'[e] = task[e]
    BY <1>0, <2>2, <2>3
  <2>5. task'[d].pc = "create" /\ task'[d].attempt = task[d].attempt + 1
    BY <1>0, <2>4 DEF TaskRec
  <2>6. DInv(d)'
    BY <1>0, <1>l, <2>1, <2>5 DEF DInv, Numbered, Position, Silence, Success, AllFailed,
       LastIs2xx, Ended
  <2>7. waited' \in [Deliveries -> Seq(Nat)]
    <3>1. RetryDelays # << >> /\ task[d].attempt \in Nat /\ task[d].attempt > 0
      BY <1>0, <1>l, <2>1 DEF DInv, Position, TaskRec
    <3>2. RetryDelays \in Seq(Nat) /\ Len(RetryDelays) \in Nat /\ Len(RetryDelays) > 0
      BY <3>1, DeliveryAssumption
    <3>3. Delay(task[d].attempt) \in Nat
      BY <3>1, <3>2 DEF Delay
    <3>4. waited[d] \in Seq(Nat)
      BY <1>0
    <3>5. QED
      BY <1>0, <2>1, <3>3, <3>4
  <2>8. QED
    BY <1>0, <1>o, <1>t, <2>1, <2>4, <2>6, <2>7
<1>9. QED
  BY <1>1, <1>2, <1>3, <1>4, <1>6, <1>7, <1>8 DEF Step

\* The death of the worker ends every task and leaves the trails as they are.
LEMMA DieKeeps == IInv /\ Die => IInv'
<1> SUFFICES ASSUME IInv, Die PROVE IInv'
  OBVIOUS
<1>1. task \in [Deliveries -> TaskRec] /\ UNCHANGED <<attempts, waited, heard>>
  BY DEF IInv, TypeOK, TaskRec, Die
<1>2. \A d \in Deliveries : task'[d] = [task[d] EXCEPT !.pc =
                                IF task[d].pc \in Ended THEN task[d].pc ELSE "lost"]
  BY DEF Die
<1>3. ASSUME NEW d \in Deliveries PROVE task'[d] \in TaskRec /\ task'[d].pc \in Ended
  BY <1>1, <1>2 DEF TaskRec, TaskPC, Ended
<1>4. task' \in [Deliveries -> TaskRec]
  BY <1>3 DEF Die
<1>5. TypeOK'
  BY <1>1, <1>4 DEF IInv, TypeOK, TaskRec
<1>6. ASSUME NEW d \in Deliveries PROVE DInv(d)'
  BY <1>1, <1>3, EndKeeps DEF IInv
<1>7. QED
  BY <1>5, <1>6 DEF IInv

\* Every step of a delivery and of its process keeps the invariant.
LEMMA NextIInv == IInv /\ [Next]_vars => IInv'
<1> SUFFICES ASSUME IInv, [Next]_vars PROVE IInv'
  OBVIOUS
<1>1. ASSUME NEW d \in Deliveries, Step(d) \/ CreateAttemptFails(d) \/ RecordFails(d)
      PROVE  IInv'
  BY <1>1, StepKeeps DEF IInv
<1>2. CASE UNCHANGED vars
  <2>1. TypeOK'
    BY <1>2 DEF IInv, TypeOK, vars
  <2>2. ASSUME NEW d \in Deliveries PROVE DInv(d)'
    BY <1>2 DEF IInv, DInv, Numbered, Position, Silence, Success, AllFailed, LastIs2xx, vars
  <2>3. QED
    BY <2>1, <2>2 DEF IInv
<1>3. QED
  BY <1>1, <1>2, DieKeeps DEF Next, AllEnded

\* The inductive invariant, for any deliveries, retries, delays and faults.
THEOREM DeliveryInvariance == Spec => []IInv
  BY InitIInv, NextIInv, PTL DEF Spec

\* For any number of retries the trail has no gap, and only its last row may be
\* pending or a success (webhook_service.py:262-291).
THEOREM TrailsAreComplete == Spec => []TrailIsComplete
<1>1. IInv => TrailIsComplete
  BY DEF IInv, TypeOK, DInv, Numbered, TrailIsComplete
<1>2. QED
  BY <1>1, DeliveryInvariance, PTL

\* For any faults, all that the receiver heard has a row, and a row says success
\* only if the receiver answered so (webhook_service.py:153-213).
THEOREM HeardRecorded == Spec => []HeardIsRecorded
<1>1. IInv => HeardIsRecorded
  <2> SUFFICES ASSUME IInv, NEW d \in Deliveries
               PROVE  /\ Len(heard[d]) <= Len(attempts[d])
                      /\ \A i \in DOMAIN attempts[d] :
                             attempts[d][i].outcome = "success" => LastIs2xx(d)
    BY DEF HeardIsRecorded, LastIs2xx
  <2>1. DOMAIN attempts[d] = 1 .. Len(attempts[d])
    BY DEF IInv, TypeOK
  <2>2. Silence(d) /\ Success(d)
    BY DEF IInv, DInv
  <2>3. QED
    BY <2>1, <2>2 DEF Silence, Success
<1>2. QED
  BY <1>1, DeliveryInvariance, PTL

\* A step of a task that has recorded a success calls nobody: such a task has ended.
THEOREM NoCallAfterSuccess == Spec => NoRepeatAfterSuccess
<1>1. IInv /\ [Next]_vars =>
         [\A d \in Deliveries :
             (\E i \in DOMAIN attempts[d] : attempts[d][i].outcome = "success") =>
                 heard'[d] = heard[d]]_vars
  <2> SUFFICES ASSUME IInv, Next, NEW d \in Deliveries, NEW i \in DOMAIN attempts[d],
                      attempts[d][i].outcome = "success"
               PROVE  heard'[d] = heard[d]
    OBVIOUS
  <2>1. task[d].pc \in Ended
    BY DEF IInv, TypeOK, DInv, Success
  <2>2. heard \in [Deliveries -> Seq(Answers)]
    BY DEF IInv, TypeOK
  <2>3. ASSUME NEW e \in Deliveries, Post(e) PROVE heard'[d] = heard[d]
    BY <2>1, <2>2, <2>3 DEF Post, Ended
  <2>4. ASSUME NEW e \in Deliveries, Step(e) \/ CreateAttemptFails(e) \/ RecordFails(e)
        PROVE  heard'[d] = heard[d]
    BY <2>3, <2>4 DEF Step, Dispatch, CreateAttempt, Record, Sleep, CreateAttemptFails,
       RecordFails
  <2>5. QED
    BY <2>4 DEF Next, Die, AllEnded, vars
<1>2. QED
  BY <1>1, DeliveryInvariance, PTL DEF Spec, NoRepeatAfterSuccess
=============================================================================
