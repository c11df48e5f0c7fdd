----------------------------- MODULE MediaProofs -----------------------------
(* Machine-checked proofs about Media, for any number of attachments,         *)
(* overlapping confirmations and workers, and any limits.                     *)
EXTENDS Media, TLAPS

-----------------------------------------------------------------------------
(* The inductive invariant.                                                   *)

\* A request has an attachment exactly while it runs, and a worker works on a
\* job of its batch.
WorkInv ==
    /\ \A r \in Requests : pc[r] = "idle" <=> about[r] = NoAttachment
    /\ \A w \in Workers :
         IF wpc[w] = "idle" THEN batch[w] = {} ELSE job[w] \in batch[w]

\* A job is in the queue or in the hands of a worker.
Placed(j) == j \in queue \/ \E w \in Workers : j \in batch[w]

\* What a request or a job stands for was seen in its object.
SeenInv ==
    /\ \A a \in Attachments : status[a] \in {"processing", "ready"} => seen[a] = {"fits", "matches"}
    /\ \A r \in Requests :
         /\ pc[r] \in {"bytes", "save", "enqueue"} => "fits" \in seen[about[r]]
         /\ pc[r] \in {"save", "enqueue"} => "matches" \in seen[about[r]]
    /\ \A j \in Job : Placed(j) => seen[j.on] = {"fits", "matches"}
    /\ SharedWasChecked

\* An attachment has one job, in one place.
OneJob(a) ==
    /\ \A j, k \in Job : Placed(j) /\ Placed(k) /\ j.on = a /\ k.on = a => j = k
    /\ \A j \in queue : j.on = a => \A w \in Workers : j \notin batch[w]
    /\ \A v, w \in Workers : \A j \in batch[v] : j.on = a /\ j \in batch[w] => v = w

\* Without overlap an attachment has one confirmation or one job, and its status
\* says which.
Single(a) ==
    /\ \A q, r \in Requests : about[q] = a /\ about[r] = a => q = r
    /\ \A r \in Requests : about[r] = a =>
         /\ \A j \in Job : Placed(j) => j.on # a
         /\ status[a] = IF pc[r] = "enqueue" THEN "processing" ELSE "pending"
    /\ \A j \in Job : Placed(j) /\ j.on = a => status[a] \in {"processing", "ready"}
    /\ OneJob(a)
SingleInv == \A a \in Attachments \ overlap : Single(a)

\* A job whose attachment is ready, because the answer of its save was lost, is
\* on its way to an attempt that finds the row decided.
Spared(a) ==
    status[a] = "ready" =>
        \A w \in Workers : wpc[w] # "idle" /\ job[w].on = a =>
            wpc[w] = "get" \/ (wpc[w] = "catch" /\ ~LastAttempt(w))
SparedInv == \A a \in Attachments \ (overlap \cup doubted) : Spared(a)

Inductive == TypeOK /\ WorkInv /\ SomebodyProcesses /\ SeenInv /\ SingleInv /\ SparedInv

LEMMA InitInductive == Init => Inductive
<1> SUFFICES ASSUME Init PROVE Inductive
  OBVIOUS
<1>1. TypeOK
  BY DEF Init, TypeOK, Status, Object, Job
<1>2. WorkInv /\ SomebodyProcesses
  BY DEF Init, WorkInv, SomebodyProcesses
<1>3. \A j \in Job : ~Placed(j)
  BY DEF Init, Placed
<1>4. SeenInv
  BY <1>3, AttachmentAssumption DEF Init, SeenInv, SharedWasChecked
<1>5. SingleInv
  BY <1>3, AttachmentAssumption DEF Init, SingleInv, Single, OneJob
<1>6. SparedInv
  BY DEF Init, SparedInv, Spared
<1>7. QED
  BY <1>1, <1>2, <1>4, <1>5, <1>6 DEF Inductive

-----------------------------------------------------------------------------
(* What the steps of a worker do.                                             *)

WorkerSteps == {"idle", "get", "inspect", "bytes", "save", "catch", "find", "fail"}

LEMMA Working ==
  ASSUME TypeOK, WorkInv, NEW w \in Workers, wpc[w] # "idle"
  PROVE  job[w] \in Job /\ job[w] \in batch[w] /\ job[w].on \in Attachments
BY DEF TypeOK, WorkInv, Job

LEMMA Running ==
  ASSUME TypeOK, WorkInv, NEW r \in Requests, pc[r] # "idle"
  PROVE  about[r] \in Attachments
BY DEF TypeOK, WorkInv

\* The worker goes on with a batch that it has chosen.
LEMMA Chosen ==
  ASSUME TypeOK, WorkInv, NEW w \in Workers, NEW J \in SUBSET Job, Next1(w, J)
  PROVE  /\ batch' = [batch EXCEPT ![w] = J]
         /\ batch' \in [Workers -> SUBSET Job]
         /\ wpc' \in [Workers -> WorkerSteps]
         /\ job' \in [Workers -> Job \cup {NoJob}]
         /\ \A v \in Workers : IF wpc'[v] = "idle" THEN batch'[v] = {} ELSE job'[v] \in batch'[v]
<1>1. batch' = [batch EXCEPT ![w] = J] /\ batch' \in [Workers -> SUBSET Job]
  BY DEF Next1, TypeOK
<1>2. CASE J = {}
  BY <1>1, <1>2 DEF Next1, TypeOK, WorkInv, WorkerSteps
<1>3. CASE J # {}
  <2>1. PICK j \in J : job' = [job EXCEPT ![w] = j]
    BY <1>3 DEF Next1
  <2>2. wpc' = [wpc EXCEPT ![w] = "get"]
    BY <1>3 DEF Next1
  <2>3. QED
    BY <1>1, <2>1, <2>2 DEF TypeOK, WorkInv, WorkerSteps
<1>4. QED
  BY <1>1, <1>2, <1>3

\* A job that is done leaves the batch, and nothing else moves.
LEMMA Leaves ==
  ASSUME TypeOK, WorkInv, NEW w \in Workers, wpc[w] # "idle", Done(w)
  PROVE  /\ batch' = [batch EXCEPT ![w] = @ \ {job[w]}]
         /\ batch' \in [Workers -> SUBSET Job]
         /\ wpc' \in [Workers -> WorkerSteps]
         /\ job' \in [Workers -> Job \cup {NoJob}]
         /\ \A v \in Workers : IF wpc'[v] = "idle" THEN batch'[v] = {} ELSE job'[v] \in batch'[v]
<1>1. batch[w] \ {job[w]} \in SUBSET Job
  BY DEF TypeOK
<1>2. QED
  BY <1>1, Chosen DEF Done

\* The worker goes from one call of a job to the next.
Advance(w) ==
    /\ wpc[w] # "idle"
    /\ \E l \in WorkerSteps \ {"idle"} : wpc' = [wpc EXCEPT ![w] = l]
    /\ UNCHANGED <<status, object, queue, requests, batch, job, history>>
    /\ doubted' \subseteq doubted \cup {job[w].on}
\* It is not told that its attachment is saved.
Miss(w) ==
    /\ wpc[w] # "idle"
    /\ wpc' = [wpc EXCEPT ![w] = "catch"]
    /\ SetStatus(job[w].on, "ready")
    /\ UNCHANGED <<object, queue, requests, batch, job, history>>
    /\ doubted' \subseteq doubted \cup {job[w].on}
\* It drops a job whose attachment is not in processing.
Skip(w) ==
    /\ wpc[w] # "idle" /\ status[job[w].on] # "processing" /\ Done(w)
    /\ UNCHANGED <<status, object, queue, requests, history, doubted>>
\* It puts the next attempt of a job into the queue.
Retry(w) ==
    /\ wpc[w] # "idle" /\ job[w].attempt + 1 < MaxAttempts
    /\ Enqueue([job[w] EXCEPT !.attempt = @ + 1]) /\ Done(w)
    /\ UNCHANGED <<status, object, requests, history, doubted>>
\* It decides the attachment.
Decide(w) ==
    /\ wpc[w] # "idle" /\ Done(w)
    /\ \E s \in Final : SetStatus(job[w].on, s)
    /\ UNCHANGED <<object, queue, requests, history, doubted>>

WorkOrFail(w) == Work(w) \/ SaveReadyUnanswered(w) \/ Throw(w)

LEMMA WorkerCases ==
  ASSUME TypeOK, WorkInv, NEW w \in Workers, WorkOrFail(w)
  PROVE  Dequeue(w) \/ Advance(w) \/ Miss(w) \/ Skip(w) \/ Retry(w) \/ Decide(w)
<1>1. CASE WorkerInspect(w) \/ WorkerRead(w) \/ Throw(w) \/ FindToFail(w)
  BY <1>1 DEF WorkerInspect, WorkerRead, Check, Throw, Doubt, FindToFail, Advance, WorkerSteps
<1>2. CASE Get(w)
  BY <1>2 DEF Get, Advance, Skip, WorkerSteps
<1>3. CASE SaveReady(w) \/ SaveFailed(w)
  BY <1>3 DEF SaveReady, SaveFailed, Decide, Final
<1>4. CASE Catch(w)
  <2>1. CASE LastAttempt(w)
    BY <1>4, <2>1 DEF Catch, Advance, WorkerSteps
  <2>2. CASE ~LastAttempt(w)
    <3>1. job[w].attempt + 1 < MaxAttempts
      BY <1>4, <2>2, Working, LimitAssumption DEF Catch, LastAttempt, Job
    <3>2. QED
      BY <1>4, <2>2, <3>1 DEF Catch, Retry
  <2>3. QED
    BY <2>1, <2>2
<1>5. CASE SaveReadyUnanswered(w)
  BY <1>5 DEF SaveReadyUnanswered, Doubt, Miss
<1>6. QED
  BY <1>1, <1>2, <1>3, <1>4, <1>5 DEF WorkOrFail, Work

-----------------------------------------------------------------------------
(* Every step preserves the types.                                            *)

LEMMA TypePreserved ==
  ASSUME TypeOK, WorkInv, [Next]_vars
  PROVE  TypeOK' /\ WorkInv'
<1> DEFINE Kept == TypeOK' /\ WorkInv'
<1>1. ASSUME NEW a \in Attachments, RequestUploadToken(a) \/ Send(a) \/ Access(a) PROVE Kept
  BY <1>1 DEF RequestUploadToken, Send, Access, Share, SetStatus, TypeOK, WorkInv, Status,
              requests, workers, history
<1>2. ASSUME NEW a \in Attachments, NEW o \in Object, Upload(a, o) PROVE Kept
  BY <1>2 DEF Upload, TypeOK, WorkInv, requests, workers, history
<1>3. ASSUME NEW a \in Attachments, NEW r \in Requests, ReadToConfirm(r, a) PROVE Kept
  BY <1>3, AttachmentAssumption
  DEF ReadToConfirm, Begin, Goto, TypeOK, WorkInv, workers
<1>4. ASSUME NEW r \in Requests, Inspect(r) \/ ReadBytes(r) PROVE Kept
  <2>1. about[r] \in Attachments
    BY <1>4, Running DEF Inspect, ReadBytes
  <2>2. seen' \in [Attachments -> SUBSET {"fits", "matches"}]
    BY <1>4, <2>1 DEF Inspect, ReadBytes, Notice, TypeOK
  <2>3. QED
    BY <1>4, <2>1, <2>2, AttachmentAssumption
    DEF Inspect, ReadBytes, Goto, Forget, TypeOK, WorkInv, workers
<1>5. ASSUME NEW r \in Requests, SaveProcessing(r) PROVE Kept
  BY <1>5, Running DEF SaveProcessing, SetStatus, Goto, TypeOK, WorkInv, Status, workers, history
<1>6. ASSUME NEW r \in Requests, EnqueueAttachment(r) PROVE Kept
  <2>1. [on |-> about[r], attempt |-> 0, from |-> r] \in Job
    BY <1>6, Running, LimitAssumption DEF EnqueueAttachment, Job
  <2>2. QED
    BY <1>6, <2>1, AttachmentAssumption
    DEF EnqueueAttachment, Enqueue, Forget, Goto, TypeOK, WorkInv, workers
<1>7. ASSUME NEW r \in Requests, Fail(r) PROVE Kept
  BY <1>7, Running, AttachmentAssumption DEF Fail, Forget, Goto, TypeOK, WorkInv, workers
<1>8. ASSUME NEW w \in Workers, Dequeue(w) PROVE Kept
  <2>1. PICK J \in SUBSET queue : queue' = queue \ J /\ Next1(w, J)
    BY <1>8 DEF Dequeue
  <2>2. J \in SUBSET Job
    BY <2>1 DEF TypeOK
  <2>3. QED
    BY <1>8, <2>1, <2>2, Chosen DEF Dequeue, TypeOK, WorkInv, WorkerSteps, requests, history
<1>9. ASSUME NEW w \in Workers, Advance(w) PROVE Kept
  BY <1>9, Working DEF Advance, TypeOK, WorkInv, WorkerSteps, requests, history
<1>10. ASSUME NEW w \in Workers, Miss(w) PROVE Kept
  BY <1>10, Working DEF Miss, SetStatus, Status, TypeOK, WorkInv, WorkerSteps, requests, history
<1>11. ASSUME NEW w \in Workers, Skip(w) PROVE Kept
  BY <1>11, Leaves DEF Skip, TypeOK, WorkInv, WorkerSteps, requests, history
<1>12. ASSUME NEW w \in Workers, Retry(w) PROVE Kept
  <2>1. [job[w] EXCEPT !.attempt = @ + 1] \in Job
    BY <1>12, Working, LimitAssumption DEF Retry, Job
  <2>2. QED
    BY <1>12, <2>1, Leaves DEF Retry, Enqueue, TypeOK, WorkInv, WorkerSteps, requests, history
<1>13. ASSUME NEW w \in Workers, Decide(w) PROVE Kept
  BY <1>13, Working, Leaves
  DEF Decide, SetStatus, Final, Status, TypeOK, WorkInv, WorkerSteps, requests, history
<1>14. ASSUME NEW w \in Workers, Crash(w) PROVE Kept
  <2>1. lost' \subseteq Attachments
    BY <1>14 DEF Crash, TypeOK, Job
  <2>2. QED
    BY <1>14, <2>1, Chosen DEF Crash, TypeOK, WorkInv, WorkerSteps, requests
<1>15. CASE UNCHANGED vars
  BY <1>15 DEF vars, requests, workers, history, TypeOK, WorkInv
<1>16. QED
  BY <1>1, <1>2, <1>3, <1>4, <1>5, <1>6, <1>7, <1>8, <1>9, <1>11, <1>12, <1>13, <1>14, <1>15,
     <1>10, WorkerCases DEF Next, WorkOrFail, Handle
-----------------------------------------------------------------------------
(* Every step leaves somebody who processes what is in processing.            *)

\* The jobs of an attachment are where its definition looks for them.
LEMMA JobsMeaning ==
  ASSUME NEW a
  PROVE  /\ \A j : j \in JobsOf(a) <=> Placed(j) /\ j.on = a
         /\ \A j : j \in JobsOf(a)' <=> Placed(j)' /\ j.on = a
BY DEF JobsOf, Held, Placed

\* One of the three that the property names.
Minded(a) == (\E j : Placed(j) /\ j.on = a) \/ (\E r \in Requests : pc[r] = "enqueue" /\ about[r] = a)
             \/ a \in lost

LEMMA MindedMeaning ==
  /\ SomebodyProcesses <=> \A a \in Attachments : status[a] = "processing" => Minded(a)
  /\ SomebodyProcesses' <=> \A a \in Attachments : status'[a] = "processing" => Minded(a)'
BY JobsMeaning DEF SomebodyProcesses, Minded, Enqueuing

LEMMA MindedPreserved ==
  ASSUME TypeOK, WorkInv, SomebodyProcesses, [Next]_vars
  PROVE  SomebodyProcesses'
<1> DEFINE Kept == \A a \in Attachments : status'[a] = "processing" => Minded(a)'
<1>0. \A a \in Attachments : status[a] = "processing" => Minded(a)
  BY MindedMeaning
<1>1. ASSUME NEW a \in Attachments, RequestUploadToken(a) \/ Send(a) \/ Access(a) PROVE Kept
  BY <1>0, <1>1 DEF RequestUploadToken, Send, Access, Share, SetStatus, TypeOK, Minded, Placed,
                   requests, workers, history
<1>2. ASSUME NEW a \in Attachments, NEW o \in Object, Upload(a, o) PROVE Kept
  BY <1>0, <1>2 DEF Upload, Minded, Placed, requests, workers, history
<1>3. ASSUME NEW a \in Attachments, NEW r \in Requests, ReadToConfirm(r, a) PROVE Kept
  BY <1>0, <1>3 DEF ReadToConfirm, Begin, Goto, TypeOK, Minded, Placed, workers
<1>4. ASSUME NEW r \in Requests, Inspect(r) \/ ReadBytes(r) PROVE Kept
  BY <1>0, <1>4 DEF Inspect, ReadBytes, Goto, Forget, TypeOK, Minded, Placed, workers
<1>5. ASSUME NEW r \in Requests, SaveProcessing(r) PROVE Kept
  BY <1>0, <1>5, Running DEF SaveProcessing, SetStatus, Goto, TypeOK, Minded, Placed, workers, history
<1>6. ASSUME NEW r \in Requests, EnqueueAttachment(r) PROVE Kept
  <2>1. \E j : Placed(j)' /\ j.on = about[r]
    <3>1. PICK j : j = [on |-> about[r], attempt |-> 0, from |-> r]
      OBVIOUS
    <3>2. j \in queue' /\ j.on = about[r]
      BY <1>6, <3>1 DEF EnqueueAttachment, Enqueue
    <3>3. QED
      BY <3>2 DEF Placed
  <2>2. \A j : Placed(j) => Placed(j)'
    BY <1>6 DEF EnqueueAttachment, Enqueue, Placed, workers
  <2>3. \A q \in Requests \ {r} : pc'[q] = pc[q] /\ about'[q] = about[q]
    BY <1>6 DEF EnqueueAttachment, Forget, Goto, TypeOK
  <2>4. status' = status /\ lost' = lost
    BY <1>6 DEF EnqueueAttachment
  <2>5. QED
    BY <1>0, <2>1, <2>2, <2>3, <2>4 DEF Minded
<1>7. ASSUME NEW r \in Requests, Fail(r) PROVE Kept
  BY <1>0, <1>7 DEF Fail, Forget, Goto, TypeOK, Minded, Placed, workers
<1>8. ASSUME NEW w \in Workers, Dequeue(w) PROVE Kept
  <2>1. PICK J \in SUBSET queue : queue' = queue \ J /\ Next1(w, J)
    BY <1>8 DEF Dequeue
  <2>2. batch' = [batch EXCEPT ![w] = J] /\ batch[w] = {}
    BY <1>8, <2>1, Chosen DEF Dequeue, TypeOK, WorkInv
  <2>3. \A j : Placed(j) => Placed(j)'
    BY <2>1, <2>2 DEF Placed, TypeOK
  <2>4. QED
    BY <1>0, <1>8, <2>3 DEF Dequeue, Minded, requests, history
<1>9. ASSUME NEW w \in Workers, Advance(w) PROVE Kept
  BY <1>0, <1>9 DEF Advance, Minded, Placed, requests, history
<1>10. ASSUME NEW w \in Workers, Miss(w) PROVE Kept
  <2>1. \A a \in Attachments : status'[a] = "processing" => status[a] = "processing"
    BY <1>10, Working DEF Miss, SetStatus, TypeOK
  <2>2. QED
    BY <1>0, <1>10, <2>1 DEF Miss, Minded, Placed, requests, history
\* Of the jobs of other attachments none is lost with the job that is done.
<1>11. ASSUME NEW w \in Workers, wpc[w] # "idle", Done(w), queue \subseteq queue',
              NEW j, Placed(j), j.on # job[w].on
       PROVE  Placed(j)'
  BY <1>11, Leaves DEF Placed, TypeOK
<1>12. ASSUME NEW w \in Workers, Skip(w) PROVE Kept
  BY <1>0, <1>11, <1>12 DEF Skip, Minded, requests, history
<1>13. ASSUME NEW w \in Workers, Retry(w) PROVE Kept
  <2>1. PICK again : again = [job[w] EXCEPT !.attempt = @ + 1]
    OBVIOUS
  <2>2. again \in queue' /\ queue \subseteq queue' /\ again.on = job[w].on
    BY <1>13, <2>1, Working DEF Retry, Enqueue, Job
  <2>3. Placed(again)'
    BY <2>2 DEF Placed
  <2>4. \A j : Placed(j) /\ j.on # job[w].on => Placed(j)'
    BY <1>11, <1>13, <2>2 DEF Retry
  <2>5. \A a : Minded(a) => Minded(a)'
    BY <1>13, <2>2, <2>3, <2>4 DEF Retry, Minded, requests, history
  <2>6. QED
    BY <1>0, <1>13, <2>5 DEF Retry
<1>14. ASSUME NEW w \in Workers, Decide(w) PROVE Kept
  <2>1. \A a \in Attachments : status'[a] = "processing" => status[a] = "processing" /\ a # job[w].on
    BY <1>14, Working DEF Decide, SetStatus, Final, TypeOK
  <2>2. QED
    BY <1>0, <1>11, <1>14, <2>1 DEF Decide, Minded, requests, history
<1>15. ASSUME NEW w \in Workers, Crash(w) PROVE Kept
  <2>1. batch' = [batch EXCEPT ![w] = {}]
    BY <1>15, Chosen DEF Crash
  <2>2. \A j : Placed(j) => Placed(j)' \/ j.on \in lost'
    BY <1>15, <2>1 DEF Crash, Placed, TypeOK
  <2>3. QED
    BY <1>0, <1>15, <2>2 DEF Crash, Minded, requests
<1>16. ASSUME UNCHANGED vars PROVE Kept
  <2>1. \A j : Placed(j) => Placed(j)'
    BY <1>16 DEF vars, workers, Placed
  <2>2. UNCHANGED <<status, pc, about, lost>>
    BY <1>16 DEF vars, requests, history
  <2>3. QED
    BY <1>0, <2>1, <2>2 DEF Minded
<1>17. ASSUME NEW w \in Workers, WorkOrFail(w) PROVE Kept
  BY <1>8, <1>9, <1>12, <1>13, <1>14, <1>17, <1>10, WorkerCases, Zenon
<1>18. Kept
  BY <1>1, <1>2, <1>3, <1>4, <1>5, <1>6, <1>7, <1>15, <1>16, <1>17 DEF Next, WorkOrFail, Handle
<1>19. QED
  BY <1>18, MindedMeaning

-----------------------------------------------------------------------------
(* Every step keeps what was seen.                                            *)

LEMMA SeenPreserved ==
  ASSUME TypeOK, WorkInv, SeenInv, [Next]_vars
  PROVE  SeenInv'
<1> DEFINE Both == {"fits", "matches"}
<1>0. \A j \in Job : j.on \in Attachments
  BY DEF Job
<1>1. ASSUME NEW a \in Attachments, RequestUploadToken(a) PROVE SeenInv'
  BY <1>1 DEF RequestUploadToken, SetStatus, TypeOK, SeenInv, SharedWasChecked, Placed,
             requests, workers, history
<1>2. ASSUME NEW a \in Attachments, Send(a) \/ Access(a) PROVE SeenInv'
  BY <1>2 DEF Send, Access, Share, SeenInv, SharedWasChecked, Placed, requests, workers
<1>3. ASSUME NEW a \in Attachments, NEW o \in Object, Upload(a, o) PROVE SeenInv'
  BY <1>3 DEF Upload, SeenInv, SharedWasChecked, Placed, requests, workers, history
<1>4. ASSUME NEW a \in Attachments, NEW r \in Requests, ReadToConfirm(r, a) PROVE SeenInv'
  BY <1>4 DEF ReadToConfirm, Begin, Goto, TypeOK, SeenInv, SharedWasChecked, Placed, workers
<1>5. ASSUME NEW r \in Requests, Inspect(r) \/ ReadBytes(r) PROVE SeenInv'
  <2>1. about[r] \in Attachments
    BY <1>5, Running DEF Inspect, ReadBytes
  <2>2. /\ \A a \in Attachments : seen[a] \subseteq seen'[a] /\ seen'[a] \subseteq Both
        /\ pc'[r] = "bytes" => "fits" \in seen'[about[r]] /\ about'[r] = about[r]
        /\ pc'[r] = "save" => {"fits", "matches"} \subseteq seen'[about[r]] /\ about'[r] = about[r]
        /\ pc'[r] # "enqueue"
        /\ \A q \in Requests \ {r} : pc'[q] = pc[q] /\ about'[q] = about[q]
    BY <1>5, <2>1 DEF Inspect, ReadBytes, Notice, Goto, Forget, TypeOK, SeenInv
  <2>3. \A q \in Requests : pc[q] # "idle" => about[q] \in Attachments
    BY Running
  <2>4. UNCHANGED <<status, queue, batch, shared>>
    BY <1>5 DEF Inspect, ReadBytes, workers
  <2>5. shared \subseteq Attachments
    BY DEF TypeOK
  <2>6. QED
    BY <1>0, <2>2, <2>3, <2>4, <2>5 DEF SeenInv, SharedWasChecked, Placed
<1>6. ASSUME NEW r \in Requests, SaveProcessing(r) PROVE SeenInv'
  <2>1. seen[about[r]] = Both
    BY <1>6, Running DEF SaveProcessing, SeenInv, TypeOK
  <2>2. QED
    BY <1>6, <2>1, Running
    DEF SaveProcessing, SetStatus, Goto, TypeOK, SeenInv, SharedWasChecked, Placed, workers, history
<1>7. ASSUME NEW r \in Requests, EnqueueAttachment(r) PROVE SeenInv'
  <2> DEFINE first == [on |-> about[r], attempt |-> 0, from |-> r]
  <2>1. seen[about[r]] = Both
    BY <1>7, Running DEF EnqueueAttachment, SeenInv, TypeOK
  <2>2. \A j \in Job : Placed(j)' => Placed(j) \/ j = first
    BY <1>7 DEF EnqueueAttachment, Enqueue, Placed, workers
  <2>3. \A j \in Job : Placed(j)' => seen[j.on] = Both
    BY <2>1, <2>2 DEF SeenInv
  <2>4. QED
    BY <1>7, <2>3
    DEF EnqueueAttachment, Forget, Goto, TypeOK, SeenInv, SharedWasChecked, workers
<1>8. ASSUME NEW r \in Requests, Fail(r) PROVE SeenInv'
  BY <1>8 DEF Fail, Forget, Goto, TypeOK, SeenInv, SharedWasChecked, Placed, workers
<1>9. ASSUME NEW w \in Workers, Dequeue(w) PROVE SeenInv'
  <2>1. PICK J \in SUBSET queue : queue' = queue \ J /\ Next1(w, J)
    BY <1>9 DEF Dequeue
  <2>2. batch' = [batch EXCEPT ![w] = J]
    BY <2>1, Chosen DEF TypeOK
  <2>3. \A j \in Job : Placed(j)' => Placed(j)
    BY <2>1, <2>2 DEF Placed, TypeOK
  <2>4. QED
    BY <1>9, <2>3 DEF Dequeue, SeenInv, SharedWasChecked, requests, history
<1>10. ASSUME NEW w \in Workers, Advance(w) PROVE SeenInv'
  BY <1>10 DEF Advance, SeenInv, SharedWasChecked, Placed, requests, history
<1>11. ASSUME NEW w \in Workers, Miss(w) PROVE SeenInv'
  <2>1. seen[job[w].on] = Both
    BY <1>11, Working DEF Miss, SeenInv, Placed
  <2>2. \A a \in Attachments : status'[a] = status[a] \/ a = job[w].on
    BY <1>11 DEF Miss, SetStatus, TypeOK
  <2>3. QED
    BY <1>11, <2>1, <2>2 DEF Miss, SeenInv, SharedWasChecked, Placed, requests, history
<1>12. ASSUME NEW w \in Workers, wpc[w] # "idle", Done(w), UNCHANGED queue, NEW j, Placed(j)'
       PROVE  Placed(j)
  BY <1>12, Leaves DEF Placed, TypeOK
<1>13. ASSUME NEW w \in Workers, Skip(w) PROVE SeenInv'
  BY <1>12, <1>13 DEF Skip, SeenInv, SharedWasChecked, requests, history
<1>14. ASSUME NEW w \in Workers, Retry(w) PROVE SeenInv'
  <2> DEFINE again == [job[w] EXCEPT !.attempt = @ + 1]
  <2>1. again.on = job[w].on /\ seen[job[w].on] = Both
    BY <1>14, Working DEF Retry, SeenInv, Placed, Job
  <2>2. \A j \in Job : Placed(j)' => Placed(j) \/ j = again
    BY <1>14, Leaves DEF Retry, Enqueue, Placed, TypeOK
  <2>3. \A j \in Job : Placed(j)' => seen[j.on] = Both
    BY <2>1, <2>2 DEF SeenInv
  <2>4. QED
    BY <1>14, <2>3 DEF Retry, SeenInv, SharedWasChecked, requests, history
<1>15. ASSUME NEW w \in Workers, Decide(w) PROVE SeenInv'
  <2>1. seen[job[w].on] = Both
    BY <1>15, Working DEF Decide, SeenInv, Placed
  <2>2. \A a \in Attachments : status'[a] = status[a] \/ a = job[w].on
    BY <1>15 DEF Decide, SetStatus, TypeOK
  <2>3. \A j \in Job : Placed(j)' => Placed(j)
    BY <1>12, <1>15 DEF Decide
  <2>4. QED
    BY <1>15, <2>1, <2>2, <2>3 DEF Decide, SeenInv, SharedWasChecked, requests, history
<1>16. ASSUME NEW w \in Workers, Crash(w) PROVE SeenInv'
  <2>1. batch' = [batch EXCEPT ![w] = {}]
    BY <1>16, Chosen DEF Crash
  <2>2. \A j \in Job : Placed(j)' => Placed(j)
    BY <1>16, <2>1 DEF Crash, Placed, TypeOK
  <2>3. QED
    BY <1>16, <2>2 DEF Crash, SeenInv, SharedWasChecked, requests
<1>17. CASE UNCHANGED vars
  BY <1>17 DEF vars, requests, workers, history, SeenInv, SharedWasChecked, Placed
<1>18. QED
  BY <1>1, <1>2, <1>3, <1>4, <1>5, <1>6, <1>7, <1>8, <1>9, <1>10, <1>13, <1>14, <1>15, <1>16,
     <1>17, <1>11, WorkerCases DEF Next, WorkOrFail, Handle
-----------------------------------------------------------------------------
(* Every step keeps an attachment in one pair of hands.                       *)

\* What is in one place stays so if nothing comes and nothing is moved.
LEMMA FewerJobs ==
  ASSUME TypeOK, NEW a, Single(a), queue' \subseteq queue,
         \A v \in Workers : batch'[v] \subseteq batch[v]
  PROVE  OneJob(a)' /\ \A j \in Job : Placed(j)' => Placed(j)
BY DEF Single, OneJob, Placed

\* A job that is done was the last one of its attachment.
LEMMA LastJob ==
  ASSUME TypeOK, WorkInv, NEW w \in Workers, wpc[w] # "idle", Done(w), Single(job[w].on)
  PROVE  /\ \A j \in queue : j.on # job[w].on
         /\ \A v \in Workers : \A j \in batch'[v] : j.on # job[w].on
         /\ status[job[w].on] \in {"processing", "ready"}
         /\ \A r \in Requests : about[r] # job[w].on
<1>1. job[w] \in Job /\ job[w] \in batch[w] /\ Placed(job[w])
  BY Working DEF Placed
<1>2. \A j \in queue : j.on # job[w].on
  <2>1. SUFFICES ASSUME NEW j \in queue, j.on = job[w].on PROVE FALSE
    OBVIOUS
  <2>2. j \in Job /\ Placed(j)
    BY DEF TypeOK, Placed
  <2>3. j = job[w]
    BY <1>1, <2>1, <2>2 DEF Single, OneJob
  <2>4. QED
    BY <1>1, <2>1, <2>3 DEF Single, OneJob
<1>3. ASSUME NEW v \in Workers, NEW j \in batch'[v], j.on = job[w].on PROVE FALSE
  <2>1. j \in batch[v] /\ j \in Job /\ (v = w => j # job[w])
    BY <1>3, Leaves DEF TypeOK
  <2>2. j = job[w]
    BY <1>1, <1>3, <2>1 DEF Single, OneJob, Placed
  <2>3. QED
    BY <1>1, <1>3, <2>1, <2>2 DEF Single, OneJob
<1>4. QED
  BY <1>1, <1>2, <1>3 DEF Single

LEMMA OverlapGrows ==
  ASSUME TypeOK, WorkInv, [Next]_vars
  PROVE  overlap \subseteq overlap'
<1>1. ASSUME NEW w \in Workers, WorkOrFail(w) PROVE UNCHANGED overlap
  BY <1>1, WorkerCases DEF Dequeue, Advance, Miss, Skip, Retry, Decide, history
<1>2. QED
  BY <1>1 DEF Next, WorkOrFail, vars, history, RequestUploadToken, Upload, ReadToConfirm, Begin, Send, Access,
              Share, Handle, Inspect, ReadBytes, SaveProcessing, EnqueueAttachment, Fail, Crash

LEMMA SinglePreserved ==
  ASSUME TypeOK, WorkInv, SingleInv, [Next]_vars
  PROVE  SingleInv'
<1>0. SUFFICES ASSUME NEW a \in Attachments, a \notin overlap' PROVE Single(a)'
  BY DEF SingleInv
<1>1. a \notin overlap /\ Single(a)
  BY <1>0, OverlapGrows DEF SingleInv
<1>2. ASSUME NEW b \in Attachments, RequestUploadToken(b) PROVE Single(a)'
  BY <1>1, <1>2
  DEF RequestUploadToken, SetStatus, TypeOK, Single, OneJob, Placed, requests, workers
<1>3. ASSUME NEW b \in Attachments,
             Send(b) \/ Access(b) \/ \E o \in Object : Upload(b, o)
      PROVE  Single(a)'
  BY <1>1, <1>3 DEF Send, Access, Share, Upload, Single, OneJob, Placed, requests, workers
<1>4. ASSUME NEW b \in Attachments, NEW r \in Requests, ReadToConfirm(r, b) PROVE Single(a)'
  <2>1. /\ UNCHANGED <<status, queue, batch>>
        /\ pc' = [pc EXCEPT ![r] = "inspect"] /\ about' = [about EXCEPT ![r] = b]
        /\ status[b] = "pending"
        /\ b = a => \A q \in Requests : about[q] # a
    BY <1>0, <1>4 DEF ReadToConfirm, Begin, Goto, workers
  <2>2. OneJob(a)' /\ \A j \in Job : Placed(j)' => Placed(j)
    BY <1>1, <2>1, FewerJobs
  <2>3. QED
    BY <1>1, <2>1, <2>2 DEF TypeOK, Single
<1>5. ASSUME NEW r \in Requests, Inspect(r) \/ ReadBytes(r) PROVE Single(a)'
  <2>1. /\ UNCHANGED <<status, queue, batch>>
        /\ pc[r] # "enqueue" /\ pc'[r] # "enqueue"
        /\ about'[r] \in {about[r], NoAttachment}
        /\ \A q \in Requests \ {r} : pc'[q] = pc[q] /\ about'[q] = about[q]
    BY <1>5 DEF Inspect, ReadBytes, Goto, Forget, TypeOK, workers
  <2>2. OneJob(a)' /\ \A j \in Job : Placed(j)' => Placed(j)
    BY <1>1, <2>1, FewerJobs
  <2>3. QED
    BY <1>1, <2>1, <2>2, AttachmentAssumption DEF Single
<1>6. ASSUME NEW r \in Requests, SaveProcessing(r) PROVE Single(a)'
  <2>1. /\ UNCHANGED <<queue, batch, about>> /\ about[r] \in Attachments
        /\ pc' = [pc EXCEPT ![r] = "enqueue"] /\ status' = [status EXCEPT ![about[r]] = "processing"]
    BY <1>6, Running DEF SaveProcessing, SetStatus, Goto, workers
  <2>2. OneJob(a)' /\ \A j \in Job : Placed(j)' => Placed(j)
    BY <1>1, <2>1, FewerJobs
  <2>3. QED
    BY <1>1, <2>1, <2>2 DEF TypeOK, Single
<1>7. ASSUME NEW r \in Requests, EnqueueAttachment(r) PROVE Single(a)'
  <2>1. PICK first : first = [on |-> about[r], attempt |-> 0, from |-> r]
    OBVIOUS
  <2>2. /\ UNCHANGED <<status, batch>> /\ queue' = queue \cup {first} /\ first.on = about[r]
        /\ pc[r] = "enqueue" /\ about'[r] = NoAttachment
        /\ \A q \in Requests \ {r} : pc'[q] = pc[q] /\ about'[q] = about[q]
    BY <1>7, <2>1 DEF EnqueueAttachment, Enqueue, Forget, Goto, TypeOK, workers
  <2>3. \A j \in Job : Placed(j)' => Placed(j) \/ j = first
    BY <2>2 DEF Placed
  <2>4. OneJob(a)'
    <3>1. CASE about[r] # a
      BY <1>1, <2>2, <2>3, <3>1 DEF Single, OneJob
    <3>2. CASE about[r] = a
      <4>1. \A j \in Job : Placed(j) => j.on # a
        BY <1>1, <3>2 DEF Single
      <4>2. \A w \in Workers : \A j \in batch[w] : j.on # a
        BY <4>1 DEF Placed, TypeOK
      <4>3. QED
        BY <2>2, <2>3, <4>1, <4>2 DEF OneJob
    <3>3. QED
      BY <3>1, <3>2
  <2>5. QED
    BY <1>1, <2>2, <2>3, <2>4, AttachmentAssumption DEF Single
<1>8. ASSUME NEW r \in Requests, Fail(r) PROVE Single(a)'
  <2>1. /\ UNCHANGED <<status, queue, batch>> /\ about'[r] = NoAttachment
        /\ \A q \in Requests \ {r} : pc'[q] = pc[q] /\ about'[q] = about[q]
    BY <1>8 DEF Fail, Forget, Goto, TypeOK, workers
  <2>2. OneJob(a)' /\ \A j \in Job : Placed(j)' => Placed(j)
    BY <1>1, <2>1, FewerJobs
  <2>3. QED
    BY <1>1, <2>1, <2>2, AttachmentAssumption DEF Single
<1>9. ASSUME NEW w \in Workers, Dequeue(w) PROVE Single(a)'
  <2>1. PICK J \in SUBSET queue : queue' = queue \ J /\ Next1(w, J)
    BY <1>9 DEF Dequeue
  <2>2. batch' = [batch EXCEPT ![w] = J] /\ J \subseteq Job
    BY <2>1, Chosen DEF TypeOK
  <2>3. \A j \in Job : Placed(j)' => Placed(j)
    BY <2>1, <2>2 DEF Placed, TypeOK
  <2>4. \A v \in Workers : batch'[v] = IF v = w THEN J ELSE batch[v]
    BY <2>2 DEF TypeOK
  <2>5. \A j \in queue : j.on = a => \A v \in Workers : j \notin batch[v]
    BY <1>1 DEF Single, OneJob
  <2>6. OneJob(a)'
    BY <1>1, <2>1, <2>3, <2>4, <2>5 DEF Single, OneJob
  <2>7. QED
    BY <1>1, <1>9, <2>3, <2>6 DEF Dequeue, Single, requests
<1>10. ASSUME NEW w \in Workers, Advance(w) \/ Crash(w) PROVE Single(a)'
  <2>1. \A v \in Workers : batch'[v] \subseteq batch[v]
    <3>1. CASE Advance(w)
      BY <3>1 DEF Advance
    <3>2. CASE Crash(w)
      BY <3>2, Chosen DEF Crash, TypeOK
    <3>3. QED
      BY <1>10, <3>1, <3>2
  <2>2. UNCHANGED <<status, queue, pc, about>>
    BY <1>10 DEF Advance, Crash, requests
  <2>3. OneJob(a)' /\ \A j \in Job : Placed(j)' => Placed(j)
    BY <1>1, <2>1, <2>2, FewerJobs
  <2>4. QED
    BY <1>1, <2>2, <2>3 DEF Single
<1>11. ASSUME NEW w \in Workers, Miss(w) PROVE Single(a)'
  <2>1. UNCHANGED <<queue, batch, pc, about>>
    BY <1>11 DEF Miss, requests
  <2>2. OneJob(a)' /\ \A j \in Job : Placed(j)' => Placed(j)
    BY <1>1, <2>1, FewerJobs
  <2>3. CASE a # job[w].on
    BY <1>1, <1>11, <2>1, <2>2, <2>3 DEF Miss, SetStatus, TypeOK, Single
  <2>4. CASE a = job[w].on
    <3>1. Placed(job[w]) /\ job[w] \in Job
      BY <1>11, Working DEF Miss, Placed
    <3>2. (\A r \in Requests : about[r] # a) /\ status'[a] = "ready"
      BY <1>1, <1>11, <2>4, <3>1 DEF Miss, SetStatus, TypeOK, Single
    <3>3. QED
      BY <2>1, <2>2, <3>2 DEF Single
  <2>5. QED
    BY <2>3, <2>4
<1>12. ASSUME NEW w \in Workers, Skip(w) \/ Decide(w) PROVE Single(a)'
  <2>1. /\ wpc[w] # "idle" /\ Done(w) /\ UNCHANGED <<queue, pc, about>>
        /\ a # job[w].on => status'[a] = status[a]
    BY <1>12 DEF Skip, Decide, SetStatus, TypeOK, requests
  <2>2. OneJob(a)' /\ \A j \in Job : Placed(j)' => Placed(j)
    BY <1>1, <2>1, Leaves, FewerJobs DEF TypeOK
  <2>3. CASE a # job[w].on
    BY <1>1, <2>1, <2>2, <2>3 DEF Single
  <2>4. CASE a = job[w].on
    BY <1>1, <2>1, <2>2, <2>4, LastJob DEF Single, Placed
  <2>5. QED
    BY <2>3, <2>4
<1>13. ASSUME NEW w \in Workers, Retry(w) PROVE Single(a)'
  <2>1. PICK again : again = [job[w] EXCEPT !.attempt = @ + 1]
    OBVIOUS
  <2>2. /\ wpc[w] # "idle" /\ Done(w) /\ UNCHANGED <<status, pc, about>>
        /\ queue' = queue \cup {again} /\ again.on = job[w].on
    BY <1>13, <2>1, Working DEF Retry, Enqueue, Job, requests
  <2>3. \A v \in Workers : batch'[v] \subseteq batch[v]
    BY <2>2, Leaves DEF TypeOK
  <2>4. \A j \in Job : Placed(j)' => Placed(j) \/ j = again
    BY <2>2, <2>3 DEF Placed
  <2>5. CASE a # job[w].on
    <3>1. OneJob(a)'
      BY <1>1, <2>2, <2>3, <2>4, <2>5 DEF Single, OneJob
    <3>2. QED
      BY <1>1, <2>2, <2>4, <2>5, <3>1 DEF Single
  <2>6. CASE a = job[w].on
    <3>1. /\ \A j \in queue : j.on # a
          /\ \A v \in Workers : \A j \in batch'[v] : j.on # a
          /\ status[a] \in {"processing", "ready"}
          /\ \A r \in Requests : about[r] # a
      BY <1>1, <2>2, <2>6, LastJob
    <3>2. \A j \in Job : Placed(j)' /\ j.on = a => j = again
      BY <2>2, <3>1 DEF Placed
    <3>3. QED
      BY <2>2, <3>1, <3>2 DEF Single, OneJob
  <2>7. QED
    BY <2>5, <2>6
<1>14. CASE UNCHANGED vars
  BY <1>1, <1>14 DEF vars, requests, workers, Single, OneJob, Placed
<1>15. QED
  BY <1>2, <1>3, <1>4, <1>5, <1>6, <1>7, <1>8, <1>9, <1>10, <1>12, <1>13, <1>14, <1>11,
     WorkerCases
  DEF Next, WorkOrFail, Handle

-----------------------------------------------------------------------------
(* Every step spares what is ready from a last attempt.                       *)

LEMMA DoubtedGrows ==
  ASSUME TypeOK, WorkInv, [Next]_vars
  PROVE  doubted \subseteq doubted'
BY DEF Next, vars, workers, RequestUploadToken, Upload, ReadToConfirm, Begin, Send, Access, Share,
       Handle, Inspect, ReadBytes, SaveProcessing, EnqueueAttachment, Fail, Work, Dequeue, Get,
       WorkerInspect, WorkerRead, Check, SaveReady, SaveReadyUnanswered, Doubt, Throw, Catch,
       FindToFail, SaveFailed, Crash

\* Two workers do not work on one attachment.
LEMMA OneWorker ==
  ASSUME TypeOK, WorkInv, NEW v \in Workers, NEW w \in Workers, wpc[v] # "idle", wpc[w] # "idle",
         job[v].on = job[w].on, Single(job[w].on)
  PROVE  v = w
<1>1. /\ job[v] \in Job /\ job[v] \in batch[v] /\ Placed(job[v])
      /\ job[w] \in Job /\ job[w] \in batch[w] /\ Placed(job[w])
  BY Working DEF Placed
<1>2. job[v] = job[w]
  BY <1>1 DEF Single, OneJob
<1>3. QED
  BY <1>1, <1>2 DEF Single, OneJob

LEMMA SparedPreserved ==
  ASSUME TypeOK, WorkInv, SingleInv, SparedInv, [Next]_vars
  PROVE  SparedInv'
<1>0. SUFFICES ASSUME NEW a \in Attachments, a \notin overlap', a \notin doubted', status'[a] = "ready",
                      NEW v \in Workers, wpc'[v] # "idle", job'[v].on = a
               PROVE  wpc'[v] = "get" \/ (wpc'[v] = "catch" /\ ~LastAttempt(v)')
  BY DEF SparedInv, Spared
<1> DEFINE Fine == wpc'[v] = "get" \/ (wpc'[v] = "catch" /\ ~LastAttempt(v)')
<1>1. Single(a) /\ Spared(a)
  BY <1>0, OverlapGrows, DoubtedGrows DEF SingleInv, SparedInv
<1>2. ASSUME status[a] = "ready", wpc'[v] = wpc[v], job'[v] = job[v] PROVE Fine
  BY <1>0, <1>1, <1>2 DEF Spared, LastAttempt
<1>3. CASE /\ UNCHANGED <<wpc, job>>
           /\ \A b \in Attachments : status'[b] = "ready" => status[b] = "ready"
  BY <1>0, <1>2, <1>3
<1>4. ASSUME NEW w \in Workers, UNCHANGED status, w # v,
             wpc'[v] = wpc[v], job'[v] = job[v]
      PROVE  Fine
  BY <1>0, <1>2, <1>4
\* What a worker goes on with, it has still to read.
<1>5. ASSUME NEW w \in Workers, NEW J \in SUBSET Job, Next1(w, J) PROVE v = w => Fine
  <2>1. wpc' = [wpc EXCEPT ![w] = "idle"] \/ wpc' = [wpc EXCEPT ![w] = "get"]
    BY <1>5 DEF Next1
  <2>2. QED
    BY <1>0, <2>1 DEF TypeOK
<1>6. ASSUME NEW w \in Workers, NEW J \in SUBSET Job, Next1(w, J), v # w
      PROVE  wpc'[v] = wpc[v] /\ job'[v] = job[v]
  BY <1>6 DEF Next1, TypeOK
<1>7. ASSUME NEW w \in Workers, NEW J \in SUBSET Job, Next1(w, J), UNCHANGED status PROVE Fine
  BY <1>0, <1>2, <1>5, <1>6, <1>7
<1>8. \A w \in Workers : batch[w] \ {job[w]} \in SUBSET Job
  BY DEF TypeOK
<1>9. ASSUME NEW w \in Workers, Dequeue(w) \/ Crash(w) PROVE Fine
  <2>1. \E J \in SUBSET Job : Next1(w, J)
    BY <1>9 DEF Dequeue, Crash, TypeOK
  <2>2. UNCHANGED status
    BY <1>9 DEF Dequeue, Crash
  <2>3. QED
    BY <1>7, <2>1, <2>2
<1>10. ASSUME NEW w \in Workers, UNCHANGED <<status, job>>, w # v => wpc'[v] = wpc[v],
              v = w => wpc[w] \notin {"get", "catch", "idle"}
       PROVE  Fine
  BY <1>0, <1>1, <1>2, <1>10 DEF Spared
<1>11. ASSUME NEW w \in Workers, Get(w) PROVE Fine
  <2>1. CASE status[job[w].on] = "processing"
    <3>1. UNCHANGED <<status, job>> /\ wpc' = [wpc EXCEPT ![w] = "inspect"]
      BY <1>11, <2>1 DEF Get
    <3>2. v # w
      BY <1>0, <2>1, <3>1
    <3>3. QED
      BY <1>4, <3>1, <3>2 DEF TypeOK
  <2>2. CASE status[job[w].on] # "processing"
    BY <1>7, <1>8, <1>11, <2>2 DEF Get, Done
  <2>3. QED
    BY <2>1, <2>2
<1>12. ASSUME NEW w \in Workers, WorkerInspect(w) \/ WorkerRead(w) \/ FindToFail(w) PROVE Fine
  <2>1. /\ UNCHANGED <<status, job>> /\ wpc[w] \notin {"get", "catch", "idle"}
        /\ \A u \in Workers \ {w} : wpc'[u] = wpc[u]
    BY <1>12 DEF WorkerInspect, WorkerRead, Check, FindToFail, TypeOK
  <2>2. QED
    BY <1>10, <2>1
<1>13. ASSUME NEW w \in Workers, SaveReady(w) \/ SaveFailed(w) PROVE Fine
  <2>1. /\ Next1(w, batch[w] \ {job[w]}) /\ wpc[w] # "idle"
        /\ \A b \in Attachments \ {job[w].on} : status'[b] = status[b]
    BY <1>13 DEF SaveReady, SaveFailed, Done, SetStatus, TypeOK
  <2>2. CASE v = w
    BY <1>5, <1>8, <2>1, <2>2
  <2>3. CASE v # w
    <3>1. wpc'[v] = wpc[v] /\ job'[v] = job[v]
      BY <1>6, <1>8, <2>1, <2>3
    <3>2. job[w].on # a
      BY <1>0, <1>1, <2>1, <2>3, <3>1, OneWorker
    <3>3. QED
      BY <1>0, <1>2, <2>1, <3>1, <3>2
  <2>4. QED
    BY <2>2, <2>3
<1>14. ASSUME NEW w \in Workers, SaveReadyUnanswered(w) PROVE Fine
  <2>1. /\ UNCHANGED job /\ wpc' = [wpc EXCEPT ![w] = "catch"] /\ wpc[w] # "idle"
        /\ \A b \in Attachments \ {job[w].on} : status'[b] = status[b]
    BY <1>14 DEF SaveReadyUnanswered, SetStatus, TypeOK
  <2>2. CASE v = w
    BY <1>0, <1>14, <2>1, <2>2 DEF SaveReadyUnanswered, Doubt, LastAttempt, TypeOK
  <2>3. CASE v # w
    <3>1. wpc'[v] = wpc[v]
      BY <2>1, <2>3 DEF TypeOK
    <3>2. job[w].on # a
      BY <1>0, <1>1, <2>1, <2>3, <3>1, OneWorker
    <3>3. QED
      BY <1>0, <1>2, <2>1, <3>1, <3>2
  <2>4. QED
    BY <2>2, <2>3
<1>15. ASSUME NEW w \in Workers, Throw(w) PROVE Fine
  <2>1. UNCHANGED <<status, job>> /\ wpc' = [wpc EXCEPT ![w] = "catch"]
    BY <1>15 DEF Throw
  <2>2. CASE v = w /\ wpc[w] = "get"
    BY <1>0, <1>15, <2>1, <2>2 DEF Throw, Doubt, LastAttempt, TypeOK
  <2>3. CASE v # w \/ wpc[w] # "get"
    BY <1>10, <1>15, <2>1, <2>3 DEF Throw, TypeOK
  <2>4. QED
    BY <2>2, <2>3
<1>16. ASSUME NEW w \in Workers, Catch(w) PROVE Fine
  <2>1. CASE LastAttempt(w)
    <3>1. UNCHANGED <<status, job>> /\ wpc' = [wpc EXCEPT ![w] = "find"] /\ wpc[w] = "catch"
      BY <1>16, <2>1 DEF Catch
    <3>2. v # w
      BY <1>0, <1>1, <2>1, <3>1 DEF Spared
    <3>3. QED
      BY <1>4, <3>1, <3>2 DEF TypeOK
  <2>2. CASE ~LastAttempt(w)
    BY <1>7, <1>8, <1>16, <2>2 DEF Catch, Done
  <2>3. QED
    BY <2>1, <2>2
<1>17. ASSUME NEW w \in Workers, WorkOrFail(w) PROVE Fine
  BY <1>9, <1>11, <1>12, <1>13, <1>14, <1>15, <1>16, <1>17 DEF WorkOrFail, Work
<1>18. ASSUME NEW b \in Attachments, \/ RequestUploadToken(b) \/ Send(b) \/ Access(b)
                                     \/ \E o \in Object : Upload(b, o)
                                     \/ \E r \in Requests : ReadToConfirm(r, b)
       PROVE  Fine
  BY <1>3, <1>18 DEF RequestUploadToken, SetStatus, TypeOK, Send, Access, Share, Upload,
                     ReadToConfirm, Begin, workers
<1>19. ASSUME NEW r \in Requests, Handle(r) \/ Fail(r) PROVE Fine
  BY <1>3, <1>19 DEF Handle, Inspect, ReadBytes, SaveProcessing, SetStatus, EnqueueAttachment,
                     Fail, TypeOK, workers
<1>20. CASE UNCHANGED vars
  BY <1>3, <1>20 DEF vars, workers
<1>21. QED
  BY <1>9, <1>17, <1>18, <1>19, <1>20 DEF Next, WorkOrFail

-----------------------------------------------------------------------------
(* The theorems.                                                              *)

LEMMA Invariance == Spec => []Inductive
<1>1. Inductive /\ [Next]_vars => Inductive'
  BY TypePreserved, MindedPreserved, SeenPreserved, SinglePreserved, SparedPreserved DEF Inductive
<1>2. QED
  BY <1>1, InitInductive, PTL DEF Spec

\* The rows, the queue, the requests and the workers keep their types.
THEOREM TypeCorrect == Spec => []TypeOK
BY Invariance, PTL DEF Inductive

\* Whatever overlaps or fails, an attachment in processing is in the queue, in
\* the hands of a worker or of its confirmation, unless its job died with a
\* process or a call (lines 201-202 of media.service.ts, pollOnce).
THEOREM ProcessingIsMinded == Spec => []SomebodyProcesses
BY Invariance, PTL DEF Inductive

\* Whatever overlaps or fails, what is sent or given for download was seen to fit
\* its row and to have its format (lines 163-195 of media.service.ts).
THEOREM SharedAreChecked == Spec => []SharedWasChecked
<1>1. Inductive => SharedWasChecked
  BY DEF Inductive, SeenInv
<1>2. QED
  BY <1>1, Invariance, PTL

\* A status that is final stays, although the answer of a save may be lost and
\* the job tried again, unless two confirmations of the attachment have overlapped
\* or the database failed its last attempt (lines 20-25 and 75-87 of
\* media-processing-pipeline.service.ts, 98-125 of media-processing-worker.service.ts).
THEOREM FinalStays == Spec => FinalIsFinal
<1> DEFINE Stay == \A a \in Attachments \ (overlap' \cup doubted') :
                     status[a] \in Final => status'[a] = status[a]
<1>1. ASSUME Inductive, Next PROVE Stay
  <2>1. SUFFICES ASSUME NEW a \in Attachments, a \notin overlap', a \notin doubted', status[a] \in Final
                 PROVE  status'[a] = status[a]
    OBVIOUS
  <2>2. TypeOK /\ WorkInv /\ Single(a) /\ Spared(a)
    BY <1>1, <2>1, OverlapGrows, DoubtedGrows DEF Inductive, SingleInv, SparedInv
  <2>3. ASSUME NEW b \in Attachments, RequestUploadToken(b) PROVE status'[a] = status[a]
    BY <2>1, <2>2, <2>3 DEF RequestUploadToken, SetStatus, TypeOK, Final
  <2>4. ASSUME NEW r \in Requests, SaveProcessing(r) PROVE status'[a] = status[a]
    <3>1. about[r] # a
      BY <2>1, <2>2, <2>4 DEF SaveProcessing, Single, Final
    <3>2. QED
      BY <2>2, <2>4, <3>1 DEF SaveProcessing, SetStatus, TypeOK
  <2>5. ASSUME NEW w \in Workers, SaveReady(w) \/ SaveReadyUnanswered(w) \/ SaveFailed(w)
        PROVE  status'[a] = status[a]
    <3>1. job[w] \in Job /\ Placed(job[w]) /\ wpc[w] \in {"save", "fail"}
      BY <2>2, <2>5, Working DEF SaveReady, SaveReadyUnanswered, SaveFailed, Placed
    <3>2. job[w].on # a
      BY <2>1, <2>2, <3>1 DEF Single, Spared, Final
    <3>3. QED
      BY <2>2, <2>5, <3>2 DEF SaveReady, SaveReadyUnanswered, SaveFailed, SetStatus, TypeOK
  <2>6. QED
    BY <1>1, <2>3, <2>4, <2>5
    DEF Next, Upload, ReadToConfirm, Begin, Send, Access, Share, Handle, Inspect, ReadBytes,
        EnqueueAttachment, Fail, Work, Dequeue, Get, WorkerInspect, WorkerRead, Check, Throw,
        Catch, FindToFail, Crash
<1>2. Inductive /\ [Next]_vars => [Stay]_vars
  BY <1>1
<1>3. QED
  BY <1>2, Invariance, PTL DEF Spec, FinalIsFinal
=============================================================================
