-------------------------- MODULE TaskQueueProofs --------------------------
(***************************************************************************)
(* Proofs about TaskQueue, for any number of tasks, of messages in flight, *)
(* of retries and of faults: a message is never two, an accepted task is   *)
(* carried, a failure is recorded, a letter tells the truth and the marker *)
(* overwrites nothing.                                                     *)
(***************************************************************************)
EXTENDS TaskQueue, TLAPS


\* A letter's claim, and what a message knows: a task's retries have raised a retryable
\* error each, and who carries a letter has one to carry.
Tells(letter, j) ==
    letter.reason = "retries_exhausted"
        => letter.attempt = MaxRetries + 1 /\ 1 .. MaxRetries + 1 \subseteq failed[j]

Honest(m) ==
    /\ m.kind = "task" => m.retries <= MaxRetries /\ 1 .. m.retries \subseteq failed[m.job]
    /\ m.kind = "letter" \/ m.at \in {"failing", "handing"} => m.letter # NoLetter
    /\ Tells(m.letter, m.job)

\* What holds of one task.  A call that has not begun has left no trace.
Called(j) == /\ call[j] = "idle" => state[j] = "none" /\ \A m \in broker : m.job # j
             /\ call[j] \in {"marked", "accepted"} => state[j] # "none"
Carried(j) == call[j] = "accepted" => \/ state[j] \in {"SUCCESS", "FAILURE"}
                                      \/ Pending(j) \/ j \in forsaken
Recorded(j) == state[j] = "FAILURE" => \/ letters[j] # NoLetter \/ j \in logged
                                       \/ j \in forsaken \/ LetterUnderWay(j)

IInv == /\ TypeOK
        /\ \A m \in broker : Honest(m)
        /\ \A j \in Jobs : Called(j) /\ Carried(j) /\ Recorded(j) /\ Tells(letters[j], j)

-----------------------------------------------------------------------------
(* Messages *)

LEMMA LetterFields == /\ NoLetter \in Letter /\ NoLetter.reason = "none"
                      /\ \A attempt \in Nat \ {0}, reason \in Reasons :
                            [attempt |-> attempt, reason |-> reason] \in Letter \ {NoLetter}
  BY DEF Letter, NoLetter, Reasons

\* A message that is moved keeps all but its place.
LEMMA MovedMessage ==
    ASSUME NEW m \in Message, NEW place \in Places
    PROVE  \E n \in Message : /\ n = [m EXCEPT !.at = place]
                              /\ n.id = m.id /\ n.job = m.job /\ n.kind = m.kind
                              /\ n.retries = m.retries /\ n.letter = m.letter /\ n.at = place
<1> DEFINE n == [m EXCEPT !.at = place]
<1>1. n \in Message
  BY DEF Message
<1>2. /\ n.id = m.id /\ n.job = m.job /\ n.kind = m.kind
      /\ n.retries = m.retries /\ n.letter = m.letter /\ n.at = place
  BY DEF Message
<1> QED
  BY <1>1, <1>2

Rewritten(m, place, letter) == [m EXCEPT !.at = place, !.letter = letter]

LEMMA RewrittenMessage ==
    ASSUME NEW m \in Message, NEW place \in Places, NEW letter \in Letter
    PROVE  LET n == Rewritten(m, place, letter) IN
           /\ n \in Message
           /\ n.id = m.id /\ n.job = m.job /\ n.kind = m.kind
           /\ n.retries = m.retries /\ n.letter = letter /\ n.at = place
  BY DEF Message, Rewritten

\* A new message has an identity of its own.
LEMMA QueuedMessage ==
    ASSUME Free # {}, NEW j \in Jobs, NEW kind \in {"task", "letter"}, NEW retries \in Nat,
           NEW letter \in Letter
    PROVE  \E q \in Message : /\ q = Queued(j, kind, retries, letter) /\ q.id \in Free
                              /\ q.job = j /\ q.kind = kind /\ q.retries = retries
                              /\ q.letter = letter /\ q.at = "queued"
<1>1. (CHOOSE i \in Free : TRUE) \in Free
  OBVIOUS
<1>2. (CHOOSE i \in Free : TRUE) \in Ids
  BY <1>1 DEF Free
<1>3. Queued(j, kind, retries, letter) \in Message
  BY <1>2 DEF Queued, Message, Places
<1> QED
  BY <1>1, <1>3 DEF Queued

\* Errors are never taken back, so what was true of a letter or a message stays true.
LEMMA TellsStays ==
    ASSUME NEW letter, NEW j, Tells(letter, j), failed[j] \subseteq failed'[j]
    PROVE  Tells(letter, j)'
  BY DEF Tells

LEMMA HonestStays ==
    ASSUME NEW m, Honest(m), failed[m.job] \subseteq failed'[m.job]
    PROVE  Honest(m)'
  BY DEF Honest, Tells

-----------------------------------------------------------------------------
(* One step handles one message *)

Adds(m, added) ==
    added = {} \/ \E q \in Message : q.id \in Free /\ q.job = m.job /\ added = {q}

\* Identities stay unique.
LEMMA BrokerTyped ==
    ASSUME TypeOK, NEW m \in broker, NEW n \in Message, n.id = m.id,
           NEW added, Adds(m, added),
           broker' = ((broker \ {m}) \cup {n}) \cup added
    PROVE  /\ broker' \subseteq Message
           /\ \A x, y \in broker' : x.id = y.id => x = y
<1>1. \A x \in broker : x.id \notin Free
  BY DEF Free
<1>2. \A x \in broker \ {m} : x.id # n.id
  BY DEF TypeOK
<1>3. CASE added = {}
  BY <1>2, <1>3 DEF TypeOK
<1>4. CASE \E q \in Message : q.id \in Free /\ q.job = m.job /\ added = {q}
  <2>1. PICK q \in Message : q.id \in Free /\ added = {q}
    BY <1>4
  <2>2. q.id # n.id /\ \A x \in broker : x.id # q.id
    BY <1>1, <2>1
  <2> QED
    BY <1>2, <2>1, <2>2 DEF TypeOK
<1> QED
  BY <1>3, <1>4 DEF Adds

\* What the step may do to the rest, and what it owes the message's own task; every other
\* task keeps what it has.
LEMMA Handles ==
    ASSUME IInv, NEW m \in broker, NEW n \in Message, n.id = m.id, n.job = m.job,
           NEW added, Adds(m, added),
           broker' = ((broker \ {m}) \cup {n}) \cup added,
           call' = call, faults' \in 0 .. MaxFaults,
           state' = state \/ \E s \in States \ {"none"} : state' = Stored(m.job, s),
           letters' = letters \/ (m.letter # NoLetter /\ letters' = Inserted(m.job, m.letter)),
           logged' \in {logged, logged \cup {m.job}},
           forsaken' \in {forsaken, forsaken \cup {m.job}},
           failed' = failed \/ \E a \in Nat : failed' = [failed EXCEPT ![m.job] = @ \cup {a}],
           Honest(n)', \A q \in added : Honest(q)',
           Carried(m.job)', Recorded(m.job)'
    PROVE  IInv'
<1> USE DEF IInv
<1>1. m \in Message /\ m.job \in Jobs /\ m.letter \in Letter
  BY DEF TypeOK, Message
<1>2. failed' \in [Jobs -> SUBSET Nat] /\ \A j \in Jobs : failed[j] \subseteq failed'[j]
  BY <1>1 DEF TypeOK
<1>3. /\ state' \in [Jobs -> States]
      /\ \A j \in Jobs : j # m.job => state'[j] = state[j]
      /\ \A j \in Jobs : state[j] # "none" => state'[j] # "none"
  BY <1>1 DEF TypeOK, Stored
<1>4. /\ letters' \in [Jobs -> Letter]
      /\ \A j \in Jobs : letters'[j] \in {letters[j], m.letter}
      /\ \A j \in Jobs : j # m.job => letters'[j] = letters[j]
  BY <1>1 DEF TypeOK, Inserted
<1>5. TypeOK'
  <2>1. /\ broker' \subseteq Message
        /\ \A x, y \in broker' : x.id = y.id => x = y
    BY BrokerTyped
  <2> QED
    BY <1>1, <1>2, <1>3, <1>4, <2>1 DEF TypeOK
<1>6. \A x \in broker' : Honest(x)'
  <2>1. \A x \in broker : x.job \in Jobs
    BY DEF TypeOK, Message
  <2>2. \A x \in broker : Honest(x)'
    BY <1>2, <2>1, HonestStays
  <2> QED
    BY <2>2
<1>7. ASSUME NEW j \in Jobs PROVE Called(j)'
  <2>1. call[j] = "idle" => j # m.job
    BY DEF Called
  <2>2. \A x \in broker' : x.job = m.job \/ x \in broker
    BY DEF Adds
  <2> QED
    BY <1>3, <2>1, <2>2 DEF Called
<1>8. ASSUME NEW j \in Jobs PROVE Carried(j)' /\ Recorded(j)'
  <2>1. CASE j = m.job
    BY <2>1
  <2>2. CASE j # m.job
    <3>1. \A x \in broker : x.job = j => x \in broker'
      BY <2>2
    <3>2. Pending(j) => Pending(j)'
      BY <3>1 DEF Pending
    <3>3. LetterUnderWay(j) => LetterUnderWay(j)'
      BY <3>1 DEF LetterUnderWay
    <3>4. state'[j] = state[j] /\ letters'[j] = letters[j]
      BY <1>3, <1>4, <2>2
    <3>5. Carried(j) /\ Recorded(j)
      OBVIOUS
    <3>6. (j \in forsaken => j \in forsaken') /\ (j \in logged => j \in logged')
      OBVIOUS
    <3> QED
      BY <3>2, <3>3, <3>4, <3>5, <3>6 DEF Carried, Recorded
  <2> QED
    BY <2>1, <2>2
<1>9. ASSUME NEW j \in Jobs, NEW letter, letter = letters'[j] PROVE Tells(letter, j)'
  <2>1. CASE letter = letters[j]
    BY <1>2, <2>1, TellsStays
  <2>2. CASE letter # letters[j]
    <3>1. j = m.job /\ letter = m.letter
      BY <1>4, <1>9, <2>2
    <3>2. Tells(letter, j)
      BY <3>1 DEF Honest
    <3> QED
      BY <1>2, <3>2, TellsStays
  <2> QED
    BY <2>1, <2>2
<1>10. (\A j \in Jobs : Tells(letters[j], j))'
  BY <1>9 DEF Tells
<1> QED
  BY <1>5, <1>6, <1>7, <1>8, <1>10

LEMMA HandlesAlone ==
    ASSUME IInv, NEW m \in broker, NEW n \in Message, n.id = m.id, n.job = m.job,
           broker' = (broker \ {m}) \cup {n},
           call' = call, faults' \in 0 .. MaxFaults,
           state' = state \/ \E s \in States \ {"none"} : state' = Stored(m.job, s),
           letters' = letters \/ (m.letter # NoLetter /\ letters' = Inserted(m.job, m.letter)),
           logged' \in {logged, logged \cup {m.job}},
           forsaken' \in {forsaken, forsaken \cup {m.job}},
           failed' = failed \/ \E a \in Nat : failed' = [failed EXCEPT ![m.job] = @ \cup {a}],
           Honest(n)', Carried(m.job)', Recorded(m.job)'
    PROVE  IInv'
<1> DEFINE added == {}
<1>1. broker' = ((broker \ {m}) \cup {n}) \cup added
  OBVIOUS
<1>2. Adds(m, added) /\ \A q \in added : Honest(q)'
  BY DEF Adds
<1> HIDE DEF added
<1> QED
  BY <1>1, <1>2, Handles

-----------------------------------------------------------------------------
(* What a step owes the message's own task *)

\* A message that decides nothing can go anywhere.
LEMMA CarriedOn ==
    ASSUME IInv, NEW m \in broker, call' = call, forsaken \subseteq forsaken',
           broker \ {m} \subseteq broker',
           \/ state' = state /\ (m.kind = "letter" \/ m.at \notin {"queued", "running"})
           \/ state'[m.job] \in {"SUCCESS", "FAILURE"}
           \/ m.job \in forsaken'
           \/ \E x \in broker' : x.job = m.job /\ x.kind = "task" /\ x.at \in {"queued", "running"}
    PROVE  Carried(m.job)'
<1>1. m.job \in Jobs
  BY DEF IInv, TypeOK, Message
<1>2. CASE state' = state /\ (m.kind = "letter" \/ m.at \notin {"queued", "running"})
  <2>1. Pending(m.job) => Pending(m.job)'
    BY <1>2 DEF Pending
  <2> QED
    BY <1>1, <1>2, <2>1 DEF IInv, Carried
<1>3. CASE \E x \in broker' : x.job = m.job /\ x.kind = "task" /\ x.at \in {"queued", "running"}
  BY <1>3 DEF Carried, Pending
<1> QED
  BY <1>2, <1>3 DEF Carried

LEMMA RecordedOn ==
    ASSUME IInv, NEW m \in broker,
           \/ state'[m.job] # "FAILURE"
           \/ letters'[m.job] # NoLetter
           \/ m.job \in logged' \cup forsaken'
           \/ \E x \in broker' : x.job = m.job /\ x.at # "acking"
    PROVE  Recorded(m.job)'
  BY DEF Recorded, LetterUnderWay

\* A stored record is the new one, or the SUCCESS that stays.
LEMMA StoredRecord ==
    ASSUME TypeOK, NEW j \in Jobs, NEW s, state' = Stored(j, s)
    PROVE  state'[j] \in {s, "SUCCESS"}
  BY DEF TypeOK, Stored

LEMMA InsertedLetter ==
    ASSUME TypeOK, NEW j \in Jobs, NEW letter, letter # NoLetter, letters' = Inserted(j, letter)
    PROVE  letters'[j] # NoLetter
  BY DEF TypeOK, Inserted

LEMMA MessageFields ==
    ASSUME TypeOK, NEW m \in broker
    PROVE  /\ m \in Message /\ m.job \in Jobs /\ m.kind \in {"task", "letter"}
           /\ m.retries \in Nat /\ m.letter \in Letter /\ m.at \in Places
  BY DEF TypeOK, Message

\* What a message was honest about stays so wherever it is moved with its letter.
LEMMA HonestMoved ==
    ASSUME IInv, NEW m \in broker, NEW n \in Message, n.job = m.job, n.kind = m.kind,
           n.retries = m.retries, n.letter = m.letter,
           n.at \in {"failing", "handing"} => m.at \in {"failing", "handing"},
           failed[m.job] \subseteq failed'[m.job]
    PROVE  Honest(n)'
<1>1. Honest(m)
  BY DEF IInv
<1>2. Honest(n)
  BY <1>1 DEF Honest
<1> QED
  BY <1>2, HonestStays

-----------------------------------------------------------------------------
(* The worker's steps *)

LEMMA DeliverStep == ASSUME IInv, NEW m \in broker, Deliver(m) PROVE IInv'
<1>1. m.job \in Jobs /\ m.kind \in {"task", "letter"}
  BY MessageFields DEF IInv
<1>2. PICK n \in Message : /\ n = [m EXCEPT !.at = "running"]
                           /\ n.id = m.id /\ n.job = m.job /\ n.kind = m.kind
                           /\ n.retries = m.retries /\ n.letter = m.letter /\ n.at = "running"
  BY MessageFields, MovedMessage DEF IInv, Places
<1>3. broker' = (broker \ {m}) \cup {n}
  BY <1>2 DEF Deliver, Moved
<1>4. Honest(n)'
  BY <1>2, HonestMoved DEF Deliver
<1>5. Carried(m.job)'
  BY <1>1, <1>2, <1>3, CarriedOn DEF Deliver
<1>6. Recorded(m.job)'
  BY <1>2, <1>3, RecordedOn
<1>7. state' = state \/ \E s \in States \ {"none"} : state' = Stored(m.job, s)
  BY DEF Deliver, States
<1>8. faults' \in 0 .. MaxFaults
  BY DEF Deliver, IInv, TypeOK
<1> QED
  BY <1>2, <1>3, <1>4, <1>5, <1>6, <1>7, <1>8, HandlesAlone DEF Deliver

\* The steps that only hand the message back, done with: SUCCESS is stored, a letter is
\* written, or there is nobody left to tell but the log.
LEMMA DoneStep ==
    ASSUME IInv, NEW m \in broker,
           Succeed(m) \/ WriteLetter(m) \/ LogLetter(m) \/ Record(m) \/ RecorderGivesUp(m)
    PROVE  IInv'
<1>1. m.job \in Jobs /\ m.letter \in Letter /\ Honest(m) /\ TypeOK
  BY MessageFields DEF IInv
<1>2. PICK n \in Message : /\ n = [m EXCEPT !.at = "acking"]
                           /\ n.id = m.id /\ n.job = m.job /\ n.kind = m.kind
                           /\ n.retries = m.retries /\ n.letter = m.letter /\ n.at = "acking"
  BY MessageFields, MovedMessage DEF IInv, Places
<1>3. broker' = (broker \ {m}) \cup {n}
  BY <1>2 DEF Succeed, WriteLetter, LogLetter, Record, RecorderGivesUp, Moved
<1>4. UNCHANGED <<call, forsaken, failed, faults>> /\ faults' \in 0 .. MaxFaults
  BY <1>1 DEF Succeed, WriteLetter, LogLetter, Record, RecorderGivesUp, TypeOK
<1>5. Honest(n)'
  BY <1>2, <1>4, HonestMoved
<1>6. state' = state \/ \E s \in States \ {"none"} : state' = Stored(m.job, s)
  BY DEF Succeed, WriteLetter, LogLetter, Record, RecorderGivesUp, States
<1>7. /\ letters' = letters \/ (m.letter # NoLetter /\ letters' = Inserted(m.job, m.letter))
      /\ logged' \in {logged, logged \cup {m.job}}
  BY <1>1 DEF Succeed, WriteLetter, LogLetter, Record, RecorderGivesUp, Running, Honest
<1>8. Carried(m.job)'
  <2>1. CASE Succeed(m)
    <3>1. state'[m.job] = "SUCCESS"
      BY <1>1, <2>1, StoredRecord DEF Succeed
    <3> QED
      BY <1>3, <1>4, <3>1, CarriedOn
  <2>2. CASE WriteLetter(m) \/ LogLetter(m) \/ Record(m) \/ RecorderGivesUp(m)
    <3>1. state' = state /\ (m.kind = "letter" \/ m.at \notin {"queued", "running"})
      BY <2>2 DEF WriteLetter, LogLetter, Record, RecorderGivesUp, Running
    <3> QED
      BY <1>3, <1>4, <3>1, CarriedOn
  <2> QED
    BY <2>1, <2>2
<1>9. Recorded(m.job)'
  <2>1. CASE Succeed(m)
    BY <1>1, <2>1, StoredRecord, RecordedOn DEF Succeed
  <2>2. CASE WriteLetter(m) \/ Record(m)
    <3>1. m.letter # NoLetter /\ letters' = Inserted(m.job, m.letter)
      BY <1>1, <2>2 DEF WriteLetter, Record, Running, Honest
    <3> QED
      BY <1>1, <3>1, InsertedLetter, RecordedOn
  <2>3. CASE LogLetter(m) \/ RecorderGivesUp(m)
    BY <2>3, RecordedOn DEF LogLetter, RecorderGivesUp
  <2> QED
    BY <2>1, <2>2, <2>3
<1> QED
  BY <1>2, <1>3, <1>4, <1>5, <1>6, <1>7, <1>8, <1>9, HandlesAlone

LEMMA RefusedStep == ASSUME IInv, NEW m \in broker, LetterRefused(m) PROVE IInv'
<1>1. PICK n \in Message : /\ n = [m EXCEPT !.at = "handing"]
                           /\ n.id = m.id /\ n.job = m.job /\ n.kind = m.kind
                           /\ n.retries = m.retries /\ n.letter = m.letter /\ n.at = "handing"
  BY MessageFields, MovedMessage DEF IInv, Places
<1>2. broker' = (broker \ {m}) \cup {n}
  BY <1>1 DEF LetterRefused, Moved
<1>3. Honest(n)'
  BY <1>1, HonestMoved DEF LetterRefused
<1>4. Carried(m.job)'
  BY <1>2, CarriedOn DEF LetterRefused
<1>5. Recorded(m.job)'
  BY <1>1, <1>2, RecordedOn
<1>6. faults' \in 0 .. MaxFaults
  BY DEF LetterRefused, IInv, TypeOK
<1> QED
  BY <1>1, <1>2, <1>3, <1>4, <1>5, <1>6, HandlesAlone DEF LetterRefused

LEMMA FailForGoodStep == ASSUME IInv, NEW m \in broker, FailForGood(m) PROVE IInv'
<1>1. /\ m \in Message /\ m.job \in Jobs /\ m.kind = "task" /\ m.retries \in Nat
      /\ Honest(m) /\ TypeOK
  BY MessageFields DEF IInv, FailForGood, Running
<1>2. PICK retryable \in BOOLEAN :
        /\ retryable => m.retries >= MaxRetries
        /\ IF retryable THEN RetryableFailure(m) ELSE UNCHANGED failed
        /\ broker' = (broker \ {m}) \cup
             {[m EXCEPT !.at = "failing",
                        !.letter = [attempt |-> Attempt(m),
                                    reason |-> DeadLetterReason(retryable, m.retries)]]}
  BY DEF FailForGood
<1>3. PICK letter \in Letter \ {NoLetter} :
        /\ letter = [attempt |-> Attempt(m), reason |-> DeadLetterReason(retryable, m.retries)]
        /\ letter.attempt = m.retries + 1
        /\ letter.reason = DeadLetterReason(retryable, m.retries)
  <2>1. Attempt(m) \in Nat \ {0} /\ DeadLetterReason(retryable, m.retries) \in Reasons
    BY <1>1 DEF Attempt, DeadLetterReason, Reasons
  <2> QED
    BY <2>1, LetterFields DEF Attempt
<1>4. PICK n \in Message : /\ n = Rewritten(m, "failing", letter)
                           /\ n.id = m.id /\ n.job = m.job /\ n.kind = m.kind
                           /\ n.retries = m.retries /\ n.letter = letter /\ n.at = "failing"
  <2>1. "failing" \in Places /\ letter \in Letter
    BY DEF Places
  <2> QED
    BY <1>1, <2>1, RewrittenMessage
<1>5. broker' = (broker \ {m}) \cup {n}
  BY <1>2, <1>3, <1>4 DEF Rewritten
<1>6. failed' = failed \/ \E a \in Nat : failed' = [failed EXCEPT ![m.job] = @ \cup {a}]
  <2>1. Attempt(m) \in Nat
    BY <1>1 DEF Attempt
  <2> QED
    BY <1>2, <2>1 DEF RetryableFailure
<1>7. failed[m.job] \subseteq failed'[m.job]
  BY <1>1, <1>6 DEF TypeOK
<1>8. Tells(letter, m.job)'
  <2>1. CASE retryable
    <3>1. m.retries = MaxRetries /\ 1 .. MaxRetries \subseteq failed[m.job]
      BY <1>1, <1>2, <2>1, RetriesAssumption DEF Honest
    <3>2. MaxRetries + 1 \in failed'[m.job]
      BY <1>1, <1>2, <2>1, <3>1 DEF RetryableFailure, Attempt, TypeOK
    <3>3. 1 .. MaxRetries + 1 \subseteq failed'[m.job]
      BY <1>7, <3>1, <3>2, RetriesAssumption
    <3> QED
      BY <1>3, <3>1, <3>3 DEF Tells
  <2>2. CASE ~retryable
    BY <1>3, <2>2 DEF Tells, DeadLetterReason
  <2> QED
    BY <2>1, <2>2
<1>9. Honest(n)'
  <2>1. n.retries <= MaxRetries /\ 1 .. n.retries \subseteq failed'[n.job]
    BY <1>1, <1>4, <1>7 DEF Honest
  <2>2. Tells(n.letter, n.job)'
    BY <1>4, <1>8
  <2> QED
    BY <1>3, <1>4, <2>1, <2>2 DEF Honest
<1>10. state' = Stored(m.job, "FAILURE") /\ UNCHANGED <<call, letters, logged, forsaken, faults>>
  BY DEF FailForGood
<1>11. Carried(m.job)'
  <2>1. state'[m.job] \in {"SUCCESS", "FAILURE"}
    BY <1>1, <1>10, StoredRecord
  <2> QED
    BY <1>5, <1>10, <2>1, CarriedOn
<1>12. Recorded(m.job)'
  BY <1>4, <1>5, RecordedOn
<1>13. faults' \in 0 .. MaxFaults
  BY <1>1, <1>10 DEF TypeOK
<1>14. \E s \in States \ {"none"} : state' = Stored(m.job, s)
  BY <1>10 DEF States
<1> QED
  BY <1>4, <1>5, <1>6, <1>9, <1>10, <1>11, <1>12, <1>13, <1>14, HandlesAlone

\* A retry, of the task or of the recorder, and the handing over: the message is done with
\* and another one is queued.
LEMMA QueueStep ==
    ASSUME IInv, NEW m \in broker, Retry(m) \/ HandOver(m) \/ RecorderRetry(m)
    PROVE  IInv'
<1>1. /\ m \in Message /\ m.job \in Jobs /\ m.retries \in Nat /\ m.letter \in Letter
      /\ Honest(m) /\ TypeOK
  BY MessageFields DEF IInv
<1>2. PICK n \in Message : /\ n = [m EXCEPT !.at = "acking"]
                           /\ n.id = m.id /\ n.job = m.job /\ n.kind = m.kind
                           /\ n.retries = m.retries /\ n.letter = m.letter /\ n.at = "acking"
  BY <1>1, MovedMessage DEF Places
<1>3. Free # {} /\ UNCHANGED <<call, letters, logged, forsaken, faults>>
  BY DEF Retry, HandOver, RecorderRetry
<1>4. PICK q \in Message :
        /\ q.id \in Free /\ q.job = m.job /\ q.at = "queued"
        /\ broker' = ((broker \ {m}) \cup {n}) \cup {q}
        /\ \/ Retry(m) /\ q.kind = "task" /\ q.retries = m.retries + 1 /\ q.letter = NoLetter
           \/ ~Retry(m) /\ q.kind = "letter" /\ q.letter = m.letter
  <2>1. CASE Retry(m)
    <3>1. PICK q \in Message : /\ q = Queued(m.job, "task", m.retries + 1, NoLetter)
                               /\ q.id \in Free /\ q.job = m.job /\ q.kind = "task"
                               /\ q.retries = m.retries + 1 /\ q.letter = NoLetter
                               /\ q.at = "queued"
      BY <1>1, <1>3, QueuedMessage, LetterFields
    <3> QED
      BY <1>2, <2>1, <3>1 DEF Retry, Moved
  <2>2. CASE ~Retry(m)
    <3>1. PICK retries \in Nat :
            broker' = Moved(m, "acking") \cup {Queued(m.job, "letter", retries, m.letter)}
      BY <1>1, <2>2 DEF HandOver, RecorderRetry
    <3>2. PICK q \in Message : /\ q = Queued(m.job, "letter", retries, m.letter)
                               /\ q.id \in Free /\ q.job = m.job /\ q.kind = "letter"
                               /\ q.letter = m.letter /\ q.at = "queued"
      BY <1>1, <1>3, QueuedMessage
    <3> QED
      BY <1>2, <2>2, <3>1, <3>2 DEF Moved
  <2> QED
    BY <2>1, <2>2
<1>5. failed' = failed \/ \E a \in Nat : failed' = [failed EXCEPT ![m.job] = @ \cup {a}]
  BY <1>1 DEF Retry, HandOver, RecorderRetry, RetryableFailure, Attempt
<1>6. failed[m.job] \subseteq failed'[m.job]
  BY <1>1, <1>5 DEF TypeOK
<1>7. Honest(n)'
  BY <1>2, <1>6, HonestMoved
<1>8. Honest(q)'
  <2>1. CASE Retry(m)
    <3>1. /\ q.kind = "task" /\ q.retries = m.retries + 1 /\ q.letter = NoLetter
          /\ m.retries < MaxRetries /\ m.kind = "task"
      BY <1>4, <2>1 DEF Retry, Running
    <3>2. m.retries + 1 \in failed'[m.job] /\ 1 .. m.retries \subseteq failed'[m.job]
      BY <1>1, <1>6, <2>1, <3>1 DEF Retry, RetryableFailure, Attempt, TypeOK, Honest
    <3>3. q.retries <= MaxRetries /\ 1 .. q.retries \subseteq failed'[q.job]
      BY <1>1, <1>4, <3>1, <3>2, RetriesAssumption
    <3> QED
      BY <1>4, <3>1, <3>3, LetterFields DEF Honest, Tells
  <2>2. CASE ~Retry(m)
    <3>1. q.kind = "letter" /\ q.letter = m.letter /\ m.letter # NoLetter
      BY <1>1, <1>4, <2>2 DEF HandOver, RecorderRetry, Running, Honest
    <3>2. Honest(q)
      BY <1>1, <1>4, <3>1 DEF Honest
    <3> QED
      BY <1>4, <1>6, <3>2, HonestStays
  <2> QED
    BY <2>1, <2>2
<1>9. state' = state \/ state' = Stored(m.job, "RETRY")
  BY DEF Retry, HandOver, RecorderRetry
<1>10. Carried(m.job)'
  <2>1. CASE Retry(m)
    BY <1>3, <1>4, <2>1, CarriedOn
  <2>2. CASE ~Retry(m)
    <3>1. state' = state /\ (m.kind = "letter" \/ m.at \notin {"queued", "running"})
      BY <2>2 DEF HandOver, RecorderRetry, Running
    <3> QED
      BY <1>3, <1>4, <3>1, CarriedOn
  <2> QED
    BY <2>1, <2>2
<1>11. Recorded(m.job)'
  BY <1>4, RecordedOn
<1>12. faults' \in 0 .. MaxFaults
  BY <1>1, <1>3 DEF TypeOK
<1>13. state' = state \/ \E s \in States \ {"none"} : state' = Stored(m.job, s)
  BY <1>9 DEF States
<1> DEFINE added == {q}
<1>14. /\ broker' = ((broker \ {m}) \cup {n}) \cup added
       /\ Adds(m, added)
       /\ \A x \in added : Honest(x)'
  BY <1>4, <1>8 DEF Adds
<1> HIDE DEF added
<1> QED
  BY <1>2, <1>3, <1>5, <1>7, <1>10, <1>11, <1>12, <1>13, <1>14, Handles

-----------------------------------------------------------------------------
(* Faults *)

LEMMA FaultCounted == ASSUME TypeOK, Fault PROVE faults' \in 0 .. MaxFaults
  BY RetriesAssumption DEF TypeOK, Fault

LEMMA WorkerDiesStep == ASSUME IInv, NEW m \in broker, WorkerDies(m) PROVE IInv'
<1>1. /\ m \in Message /\ m.job \in Jobs /\ m.kind \in {"task", "letter"} /\ m.letter \in Letter
      /\ Honest(m) /\ TypeOK
  BY MessageFields DEF IInv
<1>2. PICK letter \in Letter : letter = IF m.kind = "task" THEN NoLetter ELSE m.letter
  BY <1>1, LetterFields
<1>3. PICK n \in Message : /\ n = Rewritten(m, "queued", letter)
                           /\ n.id = m.id /\ n.job = m.job /\ n.kind = m.kind
                           /\ n.retries = m.retries /\ n.letter = letter /\ n.at = "queued"
  <2>1. "queued" \in Places
    BY DEF Places
  <2> QED
    BY <1>1, <2>1, RewrittenMessage
<1>4. Rewritten(m, "queued", letter)
        = [m EXCEPT !.at = "queued", !.letter = IF m.kind = "task" THEN NoLetter ELSE @]
  BY <1>1, <1>2 DEF Rewritten, Message
<1>5. broker' = (broker \ {m}) \cup {n}
  BY <1>3, <1>4 DEF WorkerDies
<1>6. UNCHANGED <<call, state, letters, logged, forsaken, failed>> /\ faults' \in 0 .. MaxFaults
  BY <1>1, FaultCounted DEF WorkerDies
<1>7. Honest(n)'
  <2>1. Honest(n)
    BY <1>1, <1>2, <1>3, LetterFields DEF Honest, Tells
  <2> QED
    BY <1>6, <2>1, HonestStays
<1>8. Carried(m.job)'
  <2>1. CASE m.kind = "task"
    BY <1>3, <1>5, <1>6, <2>1, CarriedOn
  <2>2. CASE m.kind = "letter"
    BY <1>5, <1>6, <2>2, CarriedOn
  <2> QED
    BY <1>1, <2>1, <2>2
<1>9. Recorded(m.job)'
  BY <1>3, <1>5, RecordedOn
<1> QED
  BY <1>3, <1>5, <1>6, <1>7, <1>8, <1>9, HandlesAlone

\* What Celery gives up is forsaken.
LEMMA ForsakenStep == ASSUME IInv, NEW m \in broker, ChildLost(m) \/ RetryLost(m) PROVE IInv'
<1>1. /\ m \in Message /\ m.job \in Jobs /\ m.kind \in {"task", "letter"} /\ m.retries \in Nat
      /\ Honest(m) /\ TypeOK
  BY MessageFields DEF IInv
<1>2. PICK n \in Message : /\ n = [m EXCEPT !.at = "acking"]
                           /\ n.id = m.id /\ n.job = m.job /\ n.kind = m.kind
                           /\ n.retries = m.retries /\ n.letter = m.letter /\ n.at = "acking"
  BY <1>1, MovedMessage DEF Places
<1>3. /\ broker' = (broker \ {m}) \cup {n} /\ forsaken' = forsaken \cup {m.job}
      /\ UNCHANGED <<call, letters, logged>>
  BY <1>2 DEF ChildLost, RetryLost, Moved
<1>4. faults' \in 0 .. MaxFaults
  BY <1>1, FaultCounted DEF ChildLost, RetryLost
<1>5. failed' = failed \/ \E a \in Nat : failed' = [failed EXCEPT ![m.job] = @ \cup {a}]
  <2>1. Attempt(m) \in Nat
    BY <1>1 DEF Attempt
  <2> QED
    BY <2>1 DEF ChildLost, RetryLost, RetryableFailure
<1>6. failed[m.job] \subseteq failed'[m.job]
  BY <1>1, <1>5 DEF TypeOK
<1>7. Honest(n)'
  BY <1>2, <1>6, HonestMoved
<1>8. Carried(m.job)' /\ Recorded(m.job)'
  BY <1>3, CarriedOn, RecordedOn
<1>9. state' = state \/ \E s \in States \ {"none"} : state' = Stored(m.job, s)
  BY DEF ChildLost, RetryLost, States
<1> QED
  BY <1>2, <1>3, <1>4, <1>5, <1>7, <1>8, <1>9, HandlesAlone

\* A message that is done with decides nothing any more.
LEMMA AcknowledgeStep == ASSUME IInv, NEW m \in broker, Acknowledge(m) PROVE IInv'
<1>1. /\ m.at = "acking" /\ broker' = broker \ {m}
      /\ UNCHANGED <<call, state, letters, logged, forsaken, failed, faults>>
  BY DEF Acknowledge
<1>2. TypeOK'
  BY <1>1 DEF IInv, TypeOK
<1>3. \A x \in broker' : Honest(x)'
  BY <1>1 DEF IInv, Honest, Tells
<1>4. ASSUME NEW j \in Jobs PROVE (Called(j) /\ Carried(j) /\ Recorded(j) /\ Tells(letters[j], j))'
  <2>1. (Pending(j) => Pending(j)') /\ (LetterUnderWay(j) => LetterUnderWay(j)')
    BY <1>1 DEF Pending, LetterUnderWay
  <2> QED
    BY <1>1, <2>1 DEF IInv, Called, Carried, Recorded, Tells
<1> QED
  BY <1>2, <1>3, <1>4 DEF IInv

-----------------------------------------------------------------------------
(* The calls of enqueue *)

\* A call changes nothing of any other task, and of its own no letter and no message it has.
LEMMA Calls ==
    ASSUME IInv, NEW j \in Jobs, NEW to, CallGoes(j, call[j], to),
           to \in {"marked", "accepted", "forgetting", "unavailable"},
           state' \in [Jobs -> States], \A i \in Jobs : i # j => state'[i] = state[i],
           to \in {"marked", "accepted"} => state'[j] # "none",
           state'[j] = "FAILURE" => state[j] = "FAILURE",
           to = "accepted" => Pending(j)',
           NEW added, added = {} \/ \E q \in Message : /\ added = {q} /\ q.id \in Free
                                                       /\ q.job = j /\ Honest(q)',
           broker' = broker \cup added,
           UNCHANGED <<letters, logged, forsaken, failed>>, faults' \in 0 .. MaxFaults
    PROVE  IInv'
<1>1. call' \in [Jobs -> {"idle", "marked", "accepted", "forgetting", "unavailable"}]
      /\ call'[j] = to /\ \A i \in Jobs : i # j => call'[i] = call[i]
  BY DEF IInv, TypeOK, CallGoes
<1>2. broker' \subseteq Message /\ \A x, y \in broker' : x.id = y.id => x = y
  BY DEF IInv, TypeOK, Free
<1>3. TypeOK'
  BY <1>1, <1>2 DEF IInv, TypeOK
<1>4. \A x \in broker : Honest(x)'
  BY HonestStays DEF IInv
<1>5. \A x \in broker' : Honest(x)'
  BY <1>4
<1>6. ASSUME NEW i \in Jobs PROVE (Called(i) /\ Carried(i) /\ Recorded(i) /\ Tells(letters[i], i))'
  <2>1. (Pending(i) => Pending(i)') /\ (LetterUnderWay(i) => LetterUnderWay(i)')
    BY DEF Pending, LetterUnderWay
  <2>2. CASE i = j
    BY <1>1, <2>1, <2>2 DEF IInv, Called, Carried, Recorded, Tells
  <2>3. CASE i # j
    <3>1. \A x \in broker' : x.job = i => x \in broker
      BY <2>3
    <3> QED
      BY <1>1, <2>1, <2>3, <3>1 DEF IInv, Called, Carried, Recorded, Tells
  <2> QED
    BY <2>2, <2>3
<1> QED
  BY <1>3, <1>5, <1>6 DEF IInv

\* One call of enqueue, statement by statement.
LEMMA CallStep == ASSUME IInv, NEW j \in Jobs, Call(j) PROVE IInv'
<1> DEFINE none == {}
<1>1. TypeOK /\ Called(j)
  BY DEF IInv
<1>2. broker' = broker => broker' = broker \cup none
  OBVIOUS
<1>3. none = {}
  OBVIOUS
<1> HIDE DEF none
<1>4. ASSUME Mark(j) PROVE IInv'
  <2>1. PICK to \in {"marked", "forgetting"} :
          /\ CallGoes(j, "idle", to)
          /\ state' \in {state, Stored(j, "SENT")}
          /\ to = "marked" => state' = Stored(j, "SENT")
    BY <1>4 DEF Mark
  <2>2. state[j] = "none"
    BY <1>1, <2>1 DEF Called, CallGoes
  <2>3. /\ state' \in [Jobs -> States] /\ \A i \in Jobs : i # j => state'[i] = state[i]
        /\ state'[j] \in {"none", "SENT"} /\ (to = "marked" => state'[j] # "none")
    BY <1>1, <2>1, <2>2 DEF TypeOK, Stored, States
  <2>4. CallGoes(j, call[j], to)
    BY <2>1 DEF CallGoes
  <2>5. UNCHANGED <<broker, letters, logged, forsaken, failed, faults>>
    BY <1>4 DEF Mark
  <2>6. faults' \in 0 .. MaxFaults
    BY <1>1, <2>5 DEF TypeOK
  <2> QED
    BY <1>2, <1>3, <2>1, <2>3, <2>4, <2>5, <2>6, Calls
<1>5. ASSUME PublishFails(j) \/ Forget(j) PROVE IInv'
  <2>1. PICK to \in {"forgetting", "unavailable"} : CallGoes(j, call[j], to)
    BY <1>5 DEF PublishFails, Forget, CallGoes
  <2>2. /\ state' \in [Jobs -> States] /\ \A i \in Jobs : i # j => state'[i] = state[i]
        /\ state'[j] \in {"none", state[j]}
    BY <1>1, <1>5 DEF PublishFails, Forget, TypeOK, States
  <2>3. UNCHANGED <<broker, letters, logged, forsaken, failed, faults>>
    BY <1>5 DEF PublishFails, Forget
  <2>4. faults' \in 0 .. MaxFaults
    BY <1>1, <2>3 DEF TypeOK
  <2> QED
    BY <1>2, <1>3, <2>1, <2>2, <2>3, <2>4, Calls
<1>6. ASSUME Publish(j) \/ PublishUnacknowledged(j) PROVE IInv'
  <2>1. PICK to \in {"marked", "accepted", "forgetting"} : CallGoes(j, "marked", to)
    BY <1>6 DEF Publish, PublishUnacknowledged
  <2>2. CallGoes(j, call[j], to) /\ state[j] # "none"
    BY <1>1, <2>1 DEF CallGoes, Called
  <2>3. Free # {} /\ UNCHANGED <<state, letters, logged, forsaken, failed>>
    BY <1>6 DEF Publish, PublishUnacknowledged
  <2>4. PICK q \in Message : /\ q = Queued(j, "task", 0, NoLetter) /\ q.id \in Free
                             /\ q.job = j /\ q.kind = "task" /\ q.retries = 0
                             /\ q.letter = NoLetter /\ q.at = "queued"
    BY <2>3, QueuedMessage, LetterFields
  <2>5. Honest(q)'
    BY <2>4, RetriesAssumption, LetterFields DEF Honest, Tells
  <2> DEFINE added == {q}
  <2>6. /\ broker' = broker \cup added
        /\ \E x \in Message : added = {x} /\ x.id \in Free /\ x.job = j /\ Honest(x)'
    BY <1>6, <2>4, <2>5 DEF Publish, PublishUnacknowledged
  <2>7. Pending(j)'
    BY <2>4, <2>6 DEF Pending
  <2>8. faults' \in 0 .. MaxFaults
    BY <1>1, <1>6, FaultCounted DEF Publish, PublishUnacknowledged, TypeOK
  <2>9. state' \in [Jobs -> States]
    BY <1>1, <2>3 DEF TypeOK
  <2> HIDE DEF added
  <2> QED
    BY <2>1, <2>2, <2>3, <2>6, <2>7, <2>8, <2>9, Calls
<1> QED
  BY <1>4, <1>5, <1>6 DEF Call

-----------------------------------------------------------------------------
(* The theorems *)

LEMMA InitHolds == Init => IInv
<1> SUFFICES ASSUME Init PROVE IInv
  OBVIOUS
<1>1. TypeOK
  BY RetriesAssumption, LetterFields DEF Init, TypeOK, States
<1> QED
  BY <1>1, LetterFields DEF IInv, Init, Called, Carried, Recorded, Tells

LEMMA StepHolds == IInv /\ [Next]_vars => IInv'
<1> SUFFICES ASSUME IInv, [Next]_vars PROVE IInv'
  OBVIOUS
<1>1. ASSUME NEW j \in Jobs, Call(j) PROVE IInv'
  BY <1>1, CallStep
<1>2. ASSUME NEW m \in broker, Work(m) PROVE IInv'
  BY <1>2, DeliverStep, DoneStep, RefusedStep, FailForGoodStep, QueueStep, AcknowledgeStep DEF Work
<1>3. ASSUME NEW m \in broker, Loss(m) PROVE IInv'
  BY <1>3, WorkerDiesStep, ForsakenStep DEF Loss
<1>4. ASSUME UNCHANGED vars PROVE IInv'
  BY <1>4 DEF vars, IInv, TypeOK, Honest, Tells, Called, Carried, Recorded, Pending, LetterUnderWay
<1> QED
  BY <1>1, <1>2, <1>3, <1>4 DEF Next, Over

\* The state stays well formed, and two messages never share an identity.
THEOREM TypesHold == Spec => []TypeOK
<1>1. IInv => TypeOK
  BY DEF IInv
<1> QED
  BY <1>1, InitHolds, StepHolds, PTL DEF Spec

\* A task answered with 202 has a record and, until that is final, a message that decides
\* it, however its publication, its retries and its workers end.
THEOREM AcceptedAreCarried == Spec => []AcceptedIsCarried
<1>1. IInv => AcceptedIsCarried
  BY DEF IInv, Called, Carried, AcceptedIsCarried
<1> QED
  BY <1>1, InitHolds, StepHolds, PTL DEF Spec

\* No failure is without its letter: it is in the table, in the log or on its way, whoever
\* dies and however often a message is delivered.
THEOREM FailuresAreRecorded == Spec => []FailureIsRecorded
<1>1. IInv => FailureIsRecorded
  BY DEF IInv, Recorded, FailureIsRecorded
<1> QED
  BY <1>1, InitHolds, StepHolds, PTL DEF Spec

\* A letter that says that the retries are exhausted stands for MaxRetries + 1 errors.
THEOREM LettersTellAttempts == Spec => []LetterTellsAttempts
<1>1. IInv => LetterTellsAttempts
  BY DEF IInv, Tells, LetterTellsAttempts
<1> QED
  BY <1>1, InitHolds, StepHolds, PTL DEF Spec

\* The marker, written before publishing, overwrites nothing a worker recorded.
THEOREM MarkerIsFirst == Spec => MarkerOverwritesNothing
<1> DEFINE Keeps == \A j \in Jobs : state[j] \notin {"none", "SENT"} => state'[j] # "SENT"
<1>1. IInv /\ [Next]_vars => Keeps
  <2> SUFFICES ASSUME IInv, [Next]_vars, NEW j \in Jobs, state[j] \notin {"none", "SENT"}
               PROVE  state'[j] # "SENT"
    OBVIOUS
  <2>1. TypeOK /\ Called(j)
    BY DEF IInv
  <2>2. ASSUME NEW i \in Jobs, Call(i) PROVE state'[j] # "SENT"
    <3>1. CASE Mark(i)
      <4>1. i # j
        BY <2>1, <3>1 DEF Mark, CallGoes, Called
      <4> QED
        BY <2>1, <3>1, <4>1 DEF Mark, Stored, TypeOK
    <3>2. CASE Publish(i) \/ PublishUnacknowledged(i) \/ PublishFails(i) \/ Forget(i)
      BY <2>1, <3>2 DEF Publish, PublishUnacknowledged, PublishFails, Forget, TypeOK
    <3> QED
      BY <2>2, <3>1, <3>2 DEF Call
  <2>3. ASSUME NEW m \in broker, Work(m) \/ Loss(m) PROVE state'[j] # "SENT"
    <3>1. state' = state \/ \E s \in States \ {"SENT"} : state' = Stored(m.job, s)
      BY <2>3 DEF Work, Loss, Deliver, Succeed, Retry, FailForGood, Acknowledge, WriteLetter,
                  LetterRefused, HandOver, LogLetter, Record, RecorderRetry, RecorderGivesUp,
                  WorkerDies, ChildLost, RetryLost, States
    <3> QED
      BY <2>1, <3>1 DEF Stored, TypeOK
  <2>4. CASE UNCHANGED vars
    BY <2>4 DEF vars
  <2> QED
    BY <2>2, <2>3, <2>4 DEF Next, Over
<1> QED
  BY <1>1, InitHolds, StepHolds, PTL DEF Spec, MarkerOverwritesNothing
=============================================================================
