----------------------------- MODULE TaskQueue -----------------------------
(***************************************************************************)
(* services/tasks: the API enqueues a task through Redis, workers run it   *)
(* with retries, and a final failure becomes a dead letter, if need be by  *)
(* way of the recorder task.                                               *)
(*                                                                         *)
(* What Celery and Redis do is taken from how services/tasks configures    *)
(* and uses them: messages are delivered at least once, acknowledged late, *)
(* and a stored SUCCESS is never overwritten.  A retry's message waits at  *)
(* least five seconds, so storing RETRY is one step with publishing it.    *)
(***************************************************************************)
EXTENDS Naturals, FiniteSets

CONSTANTS Jobs,            \* task ids, one call of enqueue each
          Ids,             \* bound: identities of messages in flight
          MaxRetries,      \* MAX_RETRIES
          RecorderRetries, \* RECORDER_MAX_RETRIES
          MaxFaults        \* bound: lost acknowledgements, deaths and lost retries

ASSUME RetriesAssumption == MaxRetries \in Nat /\ RecorderRetries \in Nat /\ MaxFaults \in Nat

VARIABLES call,      \* call[j]: where enqueue is
          state,     \* state[j]: the result backend's record, "none" if there is none
          broker,    \* the messages not yet acknowledged
          letters,   \* letters[j]: the row of task_dead_letters
          logged,    \* tasks whose dead letter only the log has
          forsaken,  \* tasks Celery gave up without calling on_failure
          failed,    \* history, failed[j]: the attempts that raised a retryable error
          faults     \* faults so far

vars == <<call, state, broker, letters, logged, forsaken, failed, faults>>

States == {"none", "SENT", "STARTED", "RETRY", "SUCCESS", "FAILURE"}
Reasons == {"retries_exhausted", "not_retryable"}
NoLetter == [attempt |-> 0, reason |-> "none"]
Letter == [attempt : Nat \ {0}, reason : Reasons] \cup {NoLetter}
\* A message waits, or a worker holds it: its code runs, on_failure writes the
\* letter or hands it over, or all is done but the acknowledgement.
Places == {"queued", "running", "failing", "handing", "acking"}
Message == [id : Ids, job : Jobs, kind : {"task", "letter"}, retries : Nat,
            letter : Letter, at : Places]

Free == {i \in Ids : \A m \in broker : m.id # i}

Queued(j, kind, retries, letter) ==
    [id |-> CHOOSE i \in Free : TRUE, job |-> j, kind |-> kind, retries |-> retries,
     letter |-> letter, at |-> "queued"]

Moved(m, place) == (broker \ {m}) \cup {[m EXCEPT !.at = place]}

\* A record that is already SUCCESS is kept.
Stored(j, s) == [state EXCEPT ![j] = IF @ = "SUCCESS" THEN @ ELSE s]

\* insert_dead_letter: ON CONFLICT (task_id) DO NOTHING.
Inserted(j, letter) == [letters EXCEPT ![j] = IF @ = NoLetter THEN letter ELSE @]

Init == /\ call = [j \in Jobs |-> "idle"]
        /\ state = [j \in Jobs |-> "none"]
        /\ broker = {}
        /\ letters = [j \in Jobs |-> NoLetter]
        /\ logged = {}
        /\ forsaken = {}
        /\ failed = [j \in Jobs |-> {}]
        /\ faults = 0

Fault == faults < MaxFaults /\ faults' = faults + 1

-----------------------------------------------------------------------------
(* enqueue *)

CallGoes(j, from, to) == call[j] = from /\ call' = [call EXCEPT ![j] = to]

\* The SENT marker; on a queue error it may have been stored all the same.
Mark(j) == /\ \/ CallGoes(j, "idle", "marked") /\ state' = Stored(j, "SENT")
              \/ CallGoes(j, "idle", "forgetting") /\ state' \in {state, Stored(j, "SENT")}
           /\ UNCHANGED <<broker, letters, logged, forsaken, failed, faults>>

\* Mutant: the message is published before the marker is written.
PublishFirst(j) == /\ call[j] = "idle" /\ Free # {}
                   /\ broker' = broker \cup {Queued(j, "task", 0, NoLetter)}
                   /\ Fault
                   /\ UNCHANGED <<call, state, letters, logged, forsaken, failed>>

Publish(j) == /\ CallGoes(j, "marked", "accepted") /\ Free # {}
              /\ broker' = broker \cup {Queued(j, "task", 0, NoLetter)}
              /\ UNCHANGED <<state, letters, logged, forsaken, failed, faults>>

\* Redis took the message and its answer is lost: it is published again, or
\* the call gives up.
PublishUnacknowledged(j) ==
    /\ CallGoes(j, "marked", "marked") \/ CallGoes(j, "marked", "forgetting")
    /\ Free # {}
    /\ broker' = broker \cup {Queued(j, "task", 0, NoLetter)}
    /\ Fault
    /\ UNCHANGED <<state, letters, logged, forsaken, failed>>

PublishFails(j) == /\ CallGoes(j, "marked", "forgetting")
                   /\ UNCHANGED <<state, broker, letters, logged, forsaken, failed, faults>>

\* _forget, which may fail as well; the API answers 503 either way.
Forget(j) == /\ CallGoes(j, "forgetting", "unavailable")
             /\ state' \in {state, [state EXCEPT ![j] = "none"]}
             /\ UNCHANGED <<broker, letters, logged, forsaken, failed, faults>>

-----------------------------------------------------------------------------
(* A worker runs the task *)

\* A worker takes a message and keeps it unacknowledged; a task's start is
\* recorded (task_track_started).
Deliver(m) == /\ m.at = "queued"
              /\ broker' = Moved(m, "running")
              /\ state' = IF m.kind = "task" THEN Stored(m.job, "STARTED") ELSE state
              /\ UNCHANGED <<call, letters, logged, forsaken, failed, faults>>

Running(m, kind) == m.kind = kind /\ m.at = "running"

\* 1 for the first run, 2 for the first retry.
Attempt(m) == m.retries + 1

Succeed(m) == /\ Running(m, "task")
              /\ state' = Stored(m.job, "SUCCESS")
              /\ broker' = Moved(m, "acking")
              /\ UNCHANGED <<call, letters, logged, forsaken, failed, faults>>

RetryableFailure(m) == failed' = [failed EXCEPT ![m.job] = @ \cup {Attempt(m)}]

\* An error of autoretry_for with retries left: a new message, one retry on.
Retry(m) == /\ Running(m, "task")
            /\ m.retries < MaxRetries
            /\ RetryableFailure(m)
            /\ Free # {}
            /\ broker' = Moved(m, "acking") \cup {Queued(m.job, "task", m.retries + 1, NoLetter)}
            /\ state' = Stored(m.job, "RETRY")
            /\ UNCHANGED <<call, letters, logged, forsaken, faults>>

DeadLetterReason(retryable, retries) ==
    IF retryable /\ retries >= MaxRetries THEN "retries_exhausted" ELSE "not_retryable"

\* Any other error, or the last retry's: the task has failed for good.
FailForGood(m) ==
    /\ Running(m, "task")
    /\ \E retryable \in BOOLEAN :
         /\ retryable => m.retries >= MaxRetries
         /\ IF retryable THEN RetryableFailure(m) ELSE UNCHANGED failed
         /\ broker' = (broker \ {m}) \cup
              {[m EXCEPT !.at = "failing",
                         !.letter = [attempt |-> Attempt(m),
                                     reason |-> DeadLetterReason(retryable, m.retries)]]}
    /\ state' = Stored(m.job, "FAILURE")
    /\ UNCHANGED <<call, letters, logged, forsaken, faults>>

Acknowledge(m) == /\ m.at = "acking"
                  /\ broker' = broker \ {m}
                  /\ UNCHANGED <<call, state, letters, logged, forsaken, failed, faults>>

-----------------------------------------------------------------------------
(* on_failure and the recorder task *)

\* Mutant: the letter is given up.
LetterDropped(m) == /\ m.at = "failing"
                    /\ broker' = Moved(m, "acking")
                    /\ UNCHANGED <<call, state, letters, logged, forsaken, failed, faults>>

WriteLetter(m) == /\ m.at = "failing"
                  /\ letters' = Inserted(m.job, m.letter)
                  /\ broker' = Moved(m, "acking")
                  /\ UNCHANGED <<call, state, logged, forsaken, failed, faults>>

LetterRefused(m) == /\ m.at = "failing"
                    /\ broker' = Moved(m, "handing")
                    /\ UNCHANGED <<call, state, letters, logged, forsaken, failed, faults>>

HandOver(m) == /\ m.at = "handing" /\ Free # {}
               /\ broker' = Moved(m, "acking") \cup {Queued(m.job, "letter", 0, m.letter)}
               /\ UNCHANGED <<call, state, letters, logged, forsaken, failed, faults>>

\* Redis cannot be reached either: the log is the only place left.
LogLetter(m) == /\ m.at = "handing"
                /\ logged' = logged \cup {m.job}
                /\ broker' = Moved(m, "acking")
                /\ UNCHANGED <<call, state, letters, forsaken, failed, faults>>

Record(m) == /\ Running(m, "letter")
             /\ letters' = Inserted(m.job, m.letter)
             /\ broker' = Moved(m, "acking")
             /\ UNCHANGED <<call, state, logged, forsaken, failed, faults>>

RecorderRetry(m) ==
    /\ Running(m, "letter")
    /\ m.retries < RecorderRetries /\ Free # {}
    /\ broker' = Moved(m, "acking") \cup {Queued(m.job, "letter", m.retries + 1, m.letter)}
    /\ UNCHANGED <<call, state, letters, logged, forsaken, failed, faults>>

\* The last retry's error, or one that is no SQLAlchemyError.
RecorderGivesUp(m) == /\ Running(m, "letter")
                      /\ logged' = logged \cup {m.job}
                      /\ broker' = Moved(m, "acking")
                      /\ UNCHANGED <<call, state, letters, forsaken, failed, faults>>

-----------------------------------------------------------------------------
(* Faults *)

\* Mutant: task_acks_late is off, so the message is gone with the worker.
WorkerDiesAckedEarly(m) == /\ m.at # "queued"
                           /\ broker' = broker \ {m}
                           /\ Fault
                           /\ UNCHANGED <<call, state, letters, logged, forsaken, failed>>

\* The worker is gone before it acknowledged: Redis delivers the message again.
WorkerDies(m) ==
    /\ m.at # "queued"
    /\ broker' = (broker \ {m}) \cup
         {[m EXCEPT !.at = "queued", !.letter = IF m.kind = "task" THEN NoLetter ELSE @]}
    /\ Fault
    /\ UNCHANGED <<call, state, letters, logged, forsaken, failed>>

\* The pool process is killed (out of memory, the hard time limit): the worker
\* records FAILURE and acknowledges; on_failure is not called.
ChildLost(m) == /\ m.at \notin {"queued", "acking"}
                /\ state' = IF m.kind = "task" THEN Stored(m.job, "FAILURE") ELSE state
                /\ forsaken' = forsaken \cup {m.job}
                /\ broker' = Moved(m, "acking")
                /\ Fault
                /\ UNCHANGED <<call, letters, logged, failed>>

\* A retry that cannot be published: Celery rejects the message for good.
RetryLost(m) == /\ m.at = "running"
                /\ m.retries < IF m.kind = "task" THEN MaxRetries ELSE RecorderRetries
                /\ IF m.kind = "task" THEN RetryableFailure(m) ELSE UNCHANGED failed
                /\ forsaken' = forsaken \cup {m.job}
                /\ broker' = Moved(m, "acking")
                /\ Fault
                /\ UNCHANGED <<call, state, letters, logged>>

Call(j) == Mark(j) \/ Publish(j) \/ PublishUnacknowledged(j) \/ PublishFails(j) \/ Forget(j)

Work(m) == \/ Deliver(m) \/ Succeed(m) \/ Retry(m) \/ FailForGood(m) \/ Acknowledge(m)
           \/ WriteLetter(m) \/ LetterRefused(m) \/ HandOver(m) \/ LogLetter(m)
           \/ Record(m) \/ RecorderRetry(m) \/ RecorderGivesUp(m)

Loss(m) == WorkerDies(m) \/ ChildLost(m) \/ RetryLost(m)

\* Every call is answered and every message acknowledged.
Over == /\ \A j \in Jobs : call[j] \in {"accepted", "unavailable"}
        /\ broker = {}
        /\ UNCHANGED vars

Next == \/ \E j \in Jobs : Call(j)
        \/ \E m \in broker : Work(m) \/ Loss(m)
        \/ Over

Spec == Init /\ [][Next]_vars

\* A worker is there: it takes what is queued and, by the task's time limits,
\* finishes what it took.
WorkOn(i) == \E m \in broker : m.id = i /\ Work(m)
FairSpec == Spec /\ \A i \in Ids : WF_vars(WorkOn(i))

-----------------------------------------------------------------------------
(* Properties *)

TypeOK == /\ call \in [Jobs -> {"idle", "marked", "accepted", "forgetting", "unavailable"}]
          /\ state \in [Jobs -> States]
          /\ broker \subseteq Message
          /\ \A m, n \in broker : m.id = n.id => m = n
          /\ letters \in [Jobs -> Letter]
          /\ logged \subseteq Jobs
          /\ forsaken \subseteq Jobs
          /\ failed \in [Jobs -> SUBSET Nat]
          /\ faults \in 0 .. MaxFaults

\* Some message will still decide how j ends.
Pending(j) == \E m \in broker : m.job = j /\ m.kind = "task" /\ m.at \in {"queued", "running"}

\* A task the API answered 202 for never vanishes: it has a record, and until
\* that is final a message that will decide it, whoever dies in between.
AcceptedIsCarried ==
    \A j \in Jobs : call[j] = "accepted"
        => /\ state[j] # "none"
           /\ state[j] \in {"SUCCESS", "FAILURE"} \/ Pending(j) \/ j \in forsaken

\* What is still going to record j's failure.
LetterUnderWay(j) == \E m \in broker : m.job = j /\ m.at # "acking"

\* "When a task fails for good, on_failure records a dead letter": a task that
\* reads FAILURE has its letter in the table, on its way there or in the log,
\* unless its pool process was killed.
FailureIsRecorded ==
    \A j \in Jobs : state[j] = "FAILURE"
        => letters[j] # NoLetter \/ j \in logged \/ j \in forsaken \/ LetterUnderWay(j)

\* A letter tells what happened: retries_exhausted means that every attempt,
\* the last one included, raised a retryable error.
LetterTellsAttempts ==
    \A j \in Jobs : letters[j].reason = "retries_exhausted"
        => letters[j].attempt = MaxRetries + 1 /\ 1 .. MaxRetries + 1 \subseteq failed[j]

\* "Written before publishing, the marker can never overwrite what the worker
\* records afterwards".
MarkerOverwritesNothing ==
    [][\A j \in Jobs : state[j] \notin {"none", "SENT"} => state'[j] # "SENT"]_vars

\* Every accepted task comes to an end the client can read.
AcceptedEnds ==
    \A j \in Jobs : call[j] = "accepted" ~> state[j] \in {"SUCCESS", "FAILURE"} \/ j \in forsaken

\* Every failure reaches the table or the log, or a later delivery succeeds.
FailureSettles ==
    \A j \in Jobs : state[j] = "FAILURE"
        ~> letters[j] # NoLetter \/ j \in logged \/ j \in forsaken \/ state[j] = "SUCCESS"
=============================================================================
