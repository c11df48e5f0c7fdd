------------------------------- MODULE Media -------------------------------
(* Attachments: the row, the object a client uploads to the storage, the job  *)
(* queue in Redis and the workers that process the confirmed attachments.     *)
(*                                                                            *)
(* A request is an element of Requests, a server process that polls the queue *)
(* an element of Workers.  Every await is a step.  Rows are read whole and    *)
(* saved whole, so a status read before an await may be old when it is used.  *)
EXTENDS Naturals, FiniteSets

CONSTANTS
    Attachments, \* attachment ids
    Requests,    \* handlers that can run at the same time
    Workers,     \* server processes that poll the queue
    NoAttachment,\* the request or the worker has no attachment
    MaxAttempts, \* defaultMaxAttempts
    BatchSize    \* maxJobsPerTick

ASSUME AttachmentAssumption == NoAttachment \notin Attachments
ASSUME LimitAssumption == MaxAttempts \in Nat \ {0} /\ BatchSize \in Nat \ {0}

VARIABLES
    status,   \* the status column of an attachment, "none" before it exists
    object,   \* what the storage has under its object key
    queue,    \* the jobs in the sorted set of the queue
    pc,       \* the call a request makes next
    about,    \* the attachment it confirms
    wpc,      \* the call a worker makes next
    batch,    \* the jobs a worker has taken from the queue and not finished
    job,      \* the one it works on
    seen,     \* history: what the reads of an object have shown
    overlap,  \* history: attachments two confirmations of which overlapped
    shared,   \* history: attachments put into a message or given for download
    lost,     \* history: attachments whose job died with a process or a call
    doubted   \* history: attachments in whose last attempt the database failed:
              \* the read, or the save, which had its effect all the same

requests == <<pc, about>>
workers == <<wpc, batch, job, doubted>>
history == <<seen, overlap, shared, lost>>
vars == <<status, object, queue, requests, workers, history>>

Status == {"none", "pending", "processing", "ready", "failed"}
Final == {"ready", "failed"}
\* An object that does not fit has another type or size than the row says; a
\* fake one has the first bytes of another format.
Object == {"absent", "misfit", "fake", "good"}
\* The handler that enqueued the first attempt stands for availableAt: two
\* jobs of an attachment are two members of the sorted set.
Job == [on : Attachments, attempt : 0 .. MaxAttempts - 1, from : Requests]
NoJob == [on |-> NoAttachment, attempt |-> 0]

Init ==
    /\ status = [a \in Attachments |-> "none"]
    /\ object = [a \in Attachments |-> "absent"]
    /\ queue = {}
    /\ pc = [r \in Requests |-> "idle"]
    /\ about = [r \in Requests |-> NoAttachment]
    /\ wpc = [w \in Workers |-> "idle"]
    /\ batch = [w \in Workers |-> {}]
    /\ job = [w \in Workers |-> NoJob]
    /\ seen = [a \in Attachments |-> {}]
    /\ overlap = {}
    /\ shared = {}
    /\ lost = {}
    /\ doubted = {}

\* saveAttachment writes the status that its caller has chosen.
SetStatus(a, s) == status' = [status EXCEPT ![a] = s]
Enqueue(j) == queue' = queue \cup {j}

Goto(r, l) == pc' = [pc EXCEPT ![r] = l]

\* The request is over: answered, refused or failed.
Forget(r) ==
    /\ Goto(r, "idle")
    /\ about' = [about EXCEPT ![r] = NoAttachment]

\* inspectObject and readObjectBytes answer nothing for an object that is
\* absent and for a storage that fails.
Fits(a) == object[a] \in {"fake", "good"}
Matches(a) == object[a] \in {"misfit", "good"}
Notice(a, fact) == seen' = [seen EXCEPT ![a] = @ \cup {fact}]

-----------------------------------------------------------------------------
(* The client.                                                                *)

RequestUploadToken(a) ==
    /\ status[a] = "none"
    /\ SetStatus(a, "pending")
    /\ UNCHANGED <<object, queue, requests, workers, history>>

\* The signed PUT is good for ten minutes, before the confirmation and after.
Upload(a, o) ==
    /\ status[a] # "none"
    /\ o \in Object \ {"absent", object[a]}
    /\ object' = [object EXCEPT ![a] = o]
    /\ UNCHANGED <<status, queue, requests, workers, history>>

-----------------------------------------------------------------------------
(* confirmUpload                                                              *)

\* A confirmation goes on only for an attachment that is pending; it answers
\* every other one with its row.
Begin(r, a) ==
    /\ Goto(r, "inspect")
    /\ about' = [about EXCEPT ![r] = a]
    /\ overlap' = IF \E q \in Requests : about[q] = a THEN overlap \cup {a} ELSE overlap
    /\ UNCHANGED <<status, object, queue, workers, seen, shared, lost>>

ReadToConfirm(r, a) == pc[r] = "idle" /\ status[a] = "pending" /\ Begin(r, a)

Inspect(r) ==
    /\ pc[r] = "inspect"
    /\ IF Fits(about[r])
       THEN /\ Goto(r, "bytes")
            /\ Notice(about[r], "fits")
            /\ UNCHANGED about
       ELSE Forget(r) /\ UNCHANGED seen
    /\ UNCHANGED <<status, object, queue, workers, overlap, shared, lost>>

ReadBytes(r) ==
    /\ pc[r] = "bytes"
    /\ IF Matches(about[r])
       THEN /\ Goto(r, "save")
            /\ Notice(about[r], "matches")
            /\ UNCHANGED about
       ELSE Forget(r) /\ UNCHANGED seen
    /\ UNCHANGED <<status, object, queue, workers, overlap, shared, lost>>

\* Faulty variant: the call is over with the save, and a worker is left to
\* find the row.
SaveProcessingOnly(r) ==
    /\ pc[r] = "save"
    /\ SetStatus(about[r], "processing")
    /\ Forget(r)
    /\ UNCHANGED <<object, queue, workers, seen, overlap, shared, lost>>

SaveProcessing(r) ==
    /\ pc[r] = "save"
    /\ SetStatus(about[r], "processing")
    /\ Goto(r, "enqueue")
    /\ UNCHANGED <<object, queue, about, workers, history>>

EnqueueAttachment(r) ==
    /\ pc[r] = "enqueue"
    /\ Enqueue([on |-> about[r], attempt |-> 0, from |-> r])
    /\ Forget(r)
    /\ UNCHANGED <<status, object, workers, seen, overlap, shared, lost>>

\* Any call of a request fails, or its process dies.  Between the save and the
\* job nobody is left to process the attachment: a confirmation that is
\* repeated finds it in processing and returns.
Fail(r) ==
    /\ pc[r] # "idle"
    /\ lost' = IF pc[r] = "enqueue" THEN lost \cup {about[r]} ELSE lost
    /\ Forget(r)
    /\ UNCHANGED <<status, object, queue, workers, seen, overlap, shared>>

-----------------------------------------------------------------------------
(* buildMessageContent and getAttachmentAccess                                *)

Share(a) ==
    /\ shared' = shared \cup {a}
    /\ UNCHANGED <<status, object, queue, requests, workers, seen, overlap, lost>>

\* Faulty variant: only a failed attachment is refused.
SendUnlessFailed(a) == status[a] \notin {"none", "failed"} /\ Share(a)

\* A message may carry an attachment that is still processed.
Send(a) == status[a] \in {"processing", "ready"} /\ Share(a)

Access(a) == status[a] = "ready" /\ Share(a)

-----------------------------------------------------------------------------
(* The worker                                                                 *)

\* Goes on with the jobs J, or ends the poll.
Next1(w, J) ==
    /\ batch' = [batch EXCEPT ![w] = J]
    /\ IF J = {}
       THEN /\ job' = [job EXCEPT ![w] = NoJob]
            /\ wpc' = [wpc EXCEPT ![w] = "idle"]
       ELSE /\ \E j \in J : job' = [job EXCEPT ![w] = j]
            /\ wpc' = [wpc EXCEPT ![w] = "get"]
Done(w) == Next1(w, batch[w] \ {job[w]})

\* pollOnce, in a process that is not polling yet: the script takes jobs that
\* are due, whichever these are, and removes them in one step.
Dequeue(w) ==
    /\ wpc[w] = "idle"
    /\ \E J \in SUBSET queue :
         /\ J # {} /\ Cardinality(J) <= BatchSize
         /\ queue' = queue \ J
         /\ Next1(w, J)
    /\ UNCHANGED <<status, object, requests, history, doubted>>

\* Faulty variant: an attachment that is ready is processed once more.
GetDecided(w) ==
    /\ wpc[w] = "get"
    /\ IF status[job[w].on] # "failed"
       THEN wpc' = [wpc EXCEPT ![w] = "inspect"] /\ UNCHANGED <<batch, job>>
       ELSE Done(w)
    /\ UNCHANGED <<status, object, queue, requests, history, doubted>>

\* processAttachment: only an attachment in processing has work to do.
Get(w) ==
    /\ wpc[w] = "get"
    /\ IF status[job[w].on] = "processing"
       THEN wpc' = [wpc EXCEPT ![w] = "inspect"] /\ UNCHANGED <<batch, job>>
       ELSE Done(w)
    /\ UNCHANGED <<status, object, queue, requests, history, doubted>>

\* A check passes, and the worker makes the call after it, or it throws.
Check(w, from, to, ok) ==
    /\ wpc[w] = from
    /\ wpc' = [wpc EXCEPT ![w] = IF ok THEN to ELSE "catch"]
    /\ UNCHANGED <<status, object, queue, requests, batch, job, history, doubted>>
WorkerInspect(w) == Check(w, "inspect", "bytes", Fits(job[w].on))
WorkerRead(w) == Check(w, "bytes", "save", Matches(job[w].on))

SaveReady(w) ==
    /\ wpc[w] = "save"
    /\ SetStatus(job[w].on, "ready")
    /\ Done(w)
    /\ UNCHANGED <<object, queue, requests, history, doubted>>

LastAttempt(w) == job[w].attempt + 1 >= MaxAttempts
\* The database fails the worker; if it is its last attempt, what the row says
\* is in doubt.
Doubt(w) == doubted' = IF LastAttempt(w) THEN doubted \cup {job[w].on} ELSE doubted

\* The row is saved, and the answer is lost: the job has failed all the same.
SaveReadyUnanswered(w) ==
    /\ wpc[w] = "save"
    /\ SetStatus(job[w].on, "ready")
    /\ wpc' = [wpc EXCEPT ![w] = "catch"]
    /\ Doubt(w)
    /\ UNCHANGED <<object, queue, requests, batch, job, history>>

\* A call of processAttachment throws, and has had no effect.
Throw(w) ==
    /\ wpc[w] \in {"get", "inspect", "bytes", "save"}
    /\ wpc' = [wpc EXCEPT ![w] = "catch"]
    /\ IF wpc[w] = "get" THEN Doubt(w) ELSE UNCHANGED doubted
    /\ UNCHANGED <<status, object, queue, requests, batch, job, history>>

\* Faulty variant: a job that failed is tried again without counting.
CatchForEver(w) ==
    /\ wpc[w] = "catch"
    /\ Enqueue(job[w])
    /\ Done(w)
    /\ UNCHANGED <<status, object, requests, history, doubted>>

\* The job is tried again after its backoff, which the choice of Dequeue stands
\* for, or given up.
Catch(w) ==
    /\ wpc[w] = "catch"
    /\ IF LastAttempt(w)
       THEN wpc' = [wpc EXCEPT ![w] = "find"] /\ UNCHANGED <<queue, batch, job>>
       ELSE /\ Enqueue([job[w] EXCEPT !.attempt = @ + 1])
            /\ Done(w)
    /\ UNCHANGED <<status, object, requests, history, doubted>>

\* markFailed reads the row, whatever its status, and saves it.
FindToFail(w) ==
    /\ wpc[w] = "find"
    /\ wpc' = [wpc EXCEPT ![w] = "fail"]
    /\ UNCHANGED <<status, object, queue, requests, batch, job, history, doubted>>

SaveFailed(w) ==
    /\ wpc[w] = "fail"
    /\ SetStatus(job[w].on, "failed")
    /\ Done(w)
    /\ UNCHANGED <<object, queue, requests, history, doubted>>

\* The process dies, or a call in the catch block throws: pollOnce rejects, and
\* the rest of the batch goes with it.  After Dequeue it stands for the reply
\* of the script that never arrives.
Crash(w) ==
    /\ wpc[w] # "idle"
    /\ lost' = lost \cup {j.on : j \in batch[w]}
    /\ Next1(w, {})
    /\ UNCHANGED <<status, object, queue, requests, seen, overlap, shared, doubted>>

-----------------------------------------------------------------------------
Handle(r) ==
    Inspect(r) \/ ReadBytes(r) \/ SaveProcessing(r) \/ EnqueueAttachment(r)
Work(w) ==
    \/ Dequeue(w) \/ Get(w) \/ WorkerInspect(w) \/ WorkerRead(w) \/ SaveReady(w)
    \/ Catch(w) \/ FindToFail(w) \/ SaveFailed(w)

Next ==
    \/ \E a \in Attachments :
         \/ RequestUploadToken(a)
         \/ \E o \in Object : Upload(a, o)
         \/ \E r \in Requests : ReadToConfirm(r, a)
         \/ Send(a)
         \/ Access(a)
    \/ \E r \in Requests : Handle(r) \/ Fail(r)
    \/ \E w \in Workers : Work(w) \/ SaveReadyUnanswered(w) \/ Throw(w) \/ Crash(w)

Spec == Init /\ [][Next]_vars

\* A handler that runs goes on, and the timer of every process polls for ever.
Fairness ==
    /\ \A r \in Requests : WF_vars(Handle(r))
    /\ \A w \in Workers : WF_vars(Work(w))
LiveSpec == Spec /\ Fairness

-----------------------------------------------------------------------------
(* Properties                                                                 *)

TypeOK ==
    /\ status \in [Attachments -> Status]
    /\ object \in [Attachments -> Object]
    /\ queue \subseteq Job
    /\ pc \in [Requests -> {"idle", "inspect", "bytes", "save", "enqueue"}]
    /\ about \in [Requests -> Attachments \cup {NoAttachment}]
    /\ wpc \in [Workers -> {"idle", "get", "inspect", "bytes", "save", "catch", "find", "fail"}]
    /\ batch \in [Workers -> SUBSET Job]
    /\ job \in [Workers -> Job \cup {NoJob}]
    /\ seen \in [Attachments -> SUBSET {"fits", "matches"}]
    /\ overlap \subseteq Attachments
    /\ shared \subseteq Attachments
    /\ lost \subseteq Attachments
    /\ doubted \subseteq Attachments

\* The jobs of an attachment, in the queue or in the hands of a worker, and the
\* requests that are about to enqueue one.
Held == UNION {batch[w] : w \in Workers}
JobsOf(a) == {j \in queue \cup Held : j.on = a}
Enqueuing(a) == {r \in Requests : pc[r] = "enqueue" /\ about[r] = a}

\* An attachment in processing is never forgotten: a job of it is queued or in
\* the hands of a worker, or its confirmation is about to enqueue one, unless
\* its job died with a process or a call (lines 201-202 of media.service.ts and
\* the batch of pollOnce, which the queue does not hold any more).
SomebodyProcesses ==
    \A a \in Attachments :
        status[a] = "processing" =>
            JobsOf(a) # {} \/ Enqueuing(a) # {} \/ a \in lost

\* Once an attachment is ready or failed it stays so: a download that was granted
\* stays right, and a failure that was reported stays a failure.  A save whose
\* answer was lost is tried again, and the attempt finds the row decided.  Left
\* out are the attachments whose confirmations have overlapped and given them
\* two jobs, and those in whose last attempt the database failed: markFailed
\* saves "failed" over a row that may be ready (section 5 of the README).
FinalIsFinal ==
    [][\A a \in Attachments \ (overlap' \cup doubted') :
          status[a] \in Final => status'[a] = status[a]]_vars

\* Nothing is sent or given for download whose object was never seen to fit the
\* row and to have its format.
SharedWasChecked == \A a \in shared : seen[a] = {"fits", "matches"}

\* An attachment in processing becomes ready or failed, unless its job is lost.
ProcessingEnds ==
    \A a \in Attachments :
        status[a] = "processing" ~> (status[a] \in Final \/ a \in lost)
=============================================================================
