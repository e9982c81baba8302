-------------------------------- MODULE Media --------------------------------
(***************************************************************************)
(* Media and their objects in S3 (modules/media).  A file comes in through *)
(* a direct upload or through a multipart session that is initiated,       *)
(* completed, aborted or expires; a media row is inserted once its objects *)
(* are stored.  Objects that nobody needs are deleted at once or, when the *)
(* storage fails, by a queue of cleanup tasks that every API process works *)
(* on under leases.                                                        *)
(*                                                                         *)
(* PostgreSQL and S3 share no transaction: each await of a query or of a   *)
(* storage call is a step of its own, and a storage call that throws may   *)
(* have taken effect.  Times are abstracted to the comparisons made with   *)
(* them: expired, due, leased.  Membership checks, sizes and names are     *)
(* left out except as reasons to refuse.                                   *)
(***************************************************************************)
EXTENDS Naturals, Sequences

CONSTANTS
  Uploads,     \* ids of uploads; session, media row and object keys carry it
  Calls,       \* HTTP requests
  Workers,     \* MaintenanceWorker loops, one per API process
  MaxFaults,   \* bound: crashes, replies lost at a point the code cannot mend, overrun leases
  NoUpload     \* a process that is on no upload

ASSUME MediaAssumption ==
  /\ NoUpload \notin Uploads
  /\ Calls \intersect Workers = {}
  /\ MaxFaults \in Nat

VARIABLES
  kind,      \* "none" before the upload begins, then "image" (has a preview) or "other"
  told,      \* sessions whose id the client received
  session,   \* MediaUploadSession.status; "none" without a row, "purged" by retention
  expired,   \* sessions whose expiresAt has passed
  rows,      \* media rows
  stored,    \* what S3 holds
  task,      \* cleanup task of each thing in S3
  pc,        \* where each process is
  on,        \* the upload it is on
  todo,      \* the clean-up steps it still has to do
  faults,    \* faults so far
  faulted,   \* history: uploads a crash or a lost reply left behind
  blurred,   \* history: uploads whose commit succeeded and was reported as failed
  contested  \* history: tasks whose lease ended under a live worker

database == <<session, expired, rows, task>>
process  == <<pc, on, todo>>
history  == <<faults, faulted, blurred, contested>>
vars     == <<kind, told, database, stored, process, history>>

Processes == Calls \union Workers
Parts     == {"main", "preview", "parts"}   \* object, preview, open multipart upload
Things    == Uploads \X Parts
Sessions  == {"none", "INITIATED", "COMPLETED", "FAILED", "ABORTED", "purged"}
Tasks     == {"none", "due", "leased", "waiting"}
Storing   == {"putMain", "head", "preview", "commit"}
Labels    == {"idle", "register", "sign", "unregister", "assemble", "markAborted",
              "deleteRow", "sweep", "enqueue", "clean", "settle", "retry"} \union Storing

Objects(u) == IF kind[u] = "image" THEN {"main", "preview"} ELSE {"main"}

\* Worker w is processing the task of thing x.
Cleaning    == {"clean", "settle", "retry"}
Target(p)   == <<on[p], Head(todo[p])>>
Cleaners(x) == {w \in Workers : pc[w] \in Cleaning /\ Target(w) = x}

Init ==
  /\ kind    = [u \in Uploads |-> "none"]
  /\ told    = {}
  /\ session = [u \in Uploads |-> "none"]
  /\ expired = {}
  /\ rows    = {}
  /\ stored  = {}
  /\ task    = [x \in Things |-> "none"]
  /\ pc      = [p \in Processes |-> "idle"]
  /\ on      = [p \in Processes |-> NoUpload]
  /\ todo    = [p \in Processes |-> <<>>]
  /\ faults  = 0
  /\ faulted   = {}
  /\ blurred   = {}
  /\ contested = {}

Begin(p, u, label) == /\ pc[p] = "idle"
                      /\ pc' = [pc EXCEPT ![p] = label]
                      /\ on' = [on EXCEPT ![p] = u]
                      /\ UNCHANGED todo

Goto(p, label) == pc' = [pc EXCEPT ![p] = label] /\ UNCHANGED <<on, todo>>

Sweep(p, steps) == /\ pc' = [pc EXCEPT ![p] = "sweep"]
                   /\ todo' = [todo EXCEPT ![p] = steps]
                   /\ UNCHANGED on

Release(p) == /\ pc'   = [pc EXCEPT ![p] = "idle"]
              /\ on'   = [on EXCEPT ![p] = NoUpload]
              /\ todo' = [todo EXCEPT ![p] = <<>>]

\* The head of the list is done.
Advance(p) == IF Len(todo[p]) = 1 THEN Release(p) ELSE Sweep(p, Tail(todo[p]))

\* A fault that leaves upload u to nobody's care.
Fault(u) == /\ faults < MaxFaults
            /\ faults' = faults + 1
            /\ faulted' = faulted \union {u}

\* S3 as the callers see it: a failed call may have taken effect.
Disposes(x)    == stored' = stored \ {x}
MayPut(x)      == stored' \in {stored, stored \union {x}}
MayDispose(x)  == stored' \in {stored, stored \ {x}}
\* Deleting an absent object succeeds; aborting an absent upload throws.
Disposable(x)  == x[2] = "parts" => x \in stored

AfterMain(u) == IF kind[u] = "image" THEN "preview" ELSE "commit"

\* The catch blocks: create() deletes the object and then the preview,
\* completeUpload() the preview, the object, and then fails the session.
IsDirect(u) == session[u] = "none"

Undo(u) ==
  IF IsDirect(u)
  THEN IF kind[u] = "image" THEN <<"main", "preview">> ELSE <<"main">>
  ELSE IF kind[u] = "image" THEN <<"preview", "main", "session">>
                            ELSE <<"main", "session">>

(***************************************************************************)
(* create: the file comes with the request.                                *)
(***************************************************************************)

BeginDirect(c, u) ==
  /\ kind[u] = "none"
  /\ \E k \in {"image", "other"} : kind' = [kind EXCEPT ![u] = k]
  /\ Begin(c, u, "putMain")
  /\ UNCHANGED <<told, database, stored, history>>

PutMain(c) ==
  /\ pc[c] = "putMain"
  /\ stored' = stored \union {<<on[c], "main">>}
  /\ Goto(c, AfterMain(on[c]))
  /\ UNCHANGED <<kind, told, database, history>>

\* previewObjectKey is not assigned yet: only the object is deleted.
PutMainFails(c) ==
  /\ pc[c] = "putMain"
  /\ MayPut(<<on[c], "main">>)
  /\ Sweep(c, <<"main">>)
  /\ UNCHANGED <<kind, told, database, history>>

PutPreview(c) ==
  /\ pc[c] = "preview"
  /\ stored' = stored \union {<<on[c], "preview">>}
  /\ Goto(c, "commit")
  /\ UNCHANGED <<kind, told, database, history>>

\* The download, sharp, or the put of the preview throws.
PutPreviewFails(c) ==
  /\ pc[c] = "preview"
  /\ MayPut(<<on[c], "preview">>)
  /\ Sweep(c, Undo(on[c]))
  /\ UNCHANGED <<kind, told, database, history>>

(***************************************************************************)
(* The media row; with a session, in one transaction with its status.      *)
(***************************************************************************)

Publish(u) ==
  /\ u \notin rows
  /\ rows' = rows \union {u}
  /\ session' = IF IsDirect(u) THEN session
                               ELSE [session EXCEPT ![u] = "COMPLETED"]
  /\ UNCHANGED <<expired, task>>

Commit(c) ==
  /\ pc[c] = "commit"
  /\ Publish(on[c])
  /\ Release(c)
  /\ UNCHANGED <<kind, told, stored, history>>

CommitFails(c) ==
  /\ pc[c] = "commit"
  /\ Sweep(c, Undo(on[c]))
  /\ UNCHANGED <<kind, told, database, stored, history>>

\* The transaction commits and its reply is lost: the catch block runs.
CommitLost(c) ==
  /\ pc[c] = "commit"
  /\ Publish(on[c])
  /\ faults < MaxFaults
  /\ faults' = faults + 1
  /\ blurred' = blurred \union {on[c]}
  /\ Sweep(c, Undo(on[c]))
  /\ UNCHANGED <<kind, told, stored, faulted, contested>>

(***************************************************************************)
(* initiateUpload.                                                         *)
(***************************************************************************)

BeginInitiate(c, u) ==
  /\ kind[u] = "none"
  /\ \E k \in {"image", "other"} : kind' = [kind EXCEPT ![u] = k]
  /\ stored' = stored \union {<<u, "parts">>}
  /\ Begin(c, u, "register")
  /\ UNCHANGED <<told, database, history>>

Register(c) ==
  /\ pc[c] = "register"
  /\ session' = [session EXCEPT ![on[c]] = "INITIATED"]
  /\ Goto(c, "sign")
  /\ UNCHANGED <<kind, told, expired, rows, task, stored, history>>

RegisterFails(c) ==
  /\ pc[c] = "register"
  /\ session' \in {session, [session EXCEPT ![on[c]] = "INITIATED"]}
  /\ Goto(c, "unregister")
  /\ UNCHANGED <<kind, told, expired, rows, task, stored, history>>

\* The presigned URLs of the parts go to the client.
Sign(c) ==
  /\ pc[c] = "sign"
  /\ told' = told \union {on[c]}
  /\ Release(c)
  /\ UNCHANGED <<kind, database, stored, history>>

SignFails(c) ==
  /\ pc[c] = "sign"
  /\ Goto(c, "unregister")
  /\ UNCHANGED <<kind, told, database, stored, history>>

\* The error of this delete is swallowed.
Unregister(c) ==
  /\ pc[c] = "unregister"
  /\ session' \in {session, [session EXCEPT ![on[c]] = "none"]}
  /\ Sweep(c, <<"parts">>)
  /\ UNCHANGED <<kind, told, expired, rows, task, stored, history>>

(***************************************************************************)
(* completeUpload.                                                         *)
(***************************************************************************)

BeginComplete(c, u) ==
  /\ u \in told
  /\ session[u] = "INITIATED"
  /\ u \notin expired
  /\ Begin(c, u, "assemble")
  /\ UNCHANGED <<kind, told, database, stored, history>>

\* S3 turns the parts into the object, once.
Assembles(u) ==
  /\ <<u, "parts">> \in stored
  /\ stored' = (stored \ {<<u, "parts">>}) \union {<<u, "main">>}

Assemble(c) ==
  /\ pc[c] = "assemble"
  /\ Assembles(on[c])
  /\ Goto(c, "head")
  /\ UNCHANGED <<kind, told, database, history>>

\* Mutant: a failed completion deletes what it may have made.
AssembleFails_CleansUp(c) ==
  /\ pc[c] = "assemble"
  /\ Sweep(c, Undo(on[c]))
  /\ UNCHANGED <<kind, told, database, stored, history>>

\* Wrong parts, or an upload that was completed or aborted: nothing is undone.
AssembleFails(c) ==
  /\ pc[c] = "assemble"
  /\ Release(c)
  /\ UNCHANGED <<kind, told, database, stored, history>>

\* Completed, but the call throws: the session stays INITIATED.
AssembleLost(c) ==
  /\ pc[c] = "assemble"
  /\ Assembles(on[c])
  /\ Fault(on[c])
  /\ Release(c)
  /\ UNCHANGED <<kind, told, database, blurred, contested>>

HeadMatches(c) ==
  /\ pc[c] = "head"
  /\ Goto(c, AfterMain(on[c]))
  /\ UNCHANGED <<kind, told, database, stored, history>>

\* Promise.all: the deletion and the update of the session in either order.
HeadDiffers(c) ==
  /\ pc[c] = "head"
  /\ \/ Sweep(c, <<"main", "session">>)
     \/ Sweep(c, <<"session", "main">>)
  /\ UNCHANGED <<kind, told, database, stored, history>>

\* headObject throws outside the try block.
HeadFails(c) ==
  /\ pc[c] = "head"
  /\ Fault(on[c])
  /\ Release(c)
  /\ UNCHANGED <<kind, told, database, stored, blurred, contested>>

(***************************************************************************)
(* abortUpload and remove: a read, then a write by id.                     *)
(***************************************************************************)

BeginAbort(c, u) ==
  /\ u \in told
  /\ session[u] = "INITIATED"
  /\ Begin(c, u, "markAborted")
  /\ UNCHANGED <<kind, told, database, stored, history>>

MarkAborted(c) ==
  /\ pc[c] = "markAborted"
  /\ session' = [session EXCEPT ![on[c]] = "ABORTED"]
  /\ Sweep(c, <<"parts">>)
  /\ UNCHANGED <<kind, told, expired, rows, task, stored, history>>

BeginRemove(c, u) ==
  /\ u \in rows
  /\ Begin(c, u, "deleteRow")
  /\ UNCHANGED <<kind, told, database, stored, history>>

\* Mutant: only the main object is deleted.
DeleteRow_ForgetsPreview(c) ==
  /\ pc[c] = "deleteRow"
  /\ rows' = rows \ {on[c]}
  /\ IF on[c] \in rows THEN Sweep(c, <<"main">>) ELSE Release(c)
  /\ UNCHANGED <<kind, told, session, expired, task, stored, history>>

\* The delete by id throws when another request was faster.
DeleteRow(c) ==
  /\ pc[c] = "deleteRow"
  /\ rows' = rows \ {on[c]}
  /\ IF on[c] \notin rows THEN Release(c)
     ELSE Sweep(c, IF kind[on[c]] = "image" THEN <<"main", "preview">> ELSE <<"main">>)
  /\ UNCHANGED <<kind, told, session, expired, task, stored, history>>

(***************************************************************************)
(* deleteOrEnqueue and abortOrEnqueue, for each thing on the list.         *)
(***************************************************************************)

Sweeping(p) == pc[p] = "sweep" /\ Head(todo[p]) # "session"

SweepOne(p) ==
  /\ Sweeping(p)
  /\ Disposable(Target(p))
  /\ Disposes(Target(p))
  /\ Advance(p)
  /\ UNCHANGED <<kind, told, database, history>>

SweepFails(p) ==
  /\ Sweeping(p)
  /\ MayDispose(Target(p))
  /\ Goto(p, "enqueue")
  /\ UNCHANGED <<kind, told, database, history>>

\* The upsert makes the task due and takes the lease from whoever holds it.
Enqueue(p) ==
  /\ pc[p] = "enqueue"
  /\ task' = [task EXCEPT ![Target(p)] = "due"]
  /\ contested' = IF Cleaners(Target(p)) = {} THEN contested
                                              ELSE contested \union {Target(p)}
  /\ Advance(p)
  /\ UNCHANGED <<kind, told, session, expired, rows, stored, faults, faulted, blurred>>

\* The upsert throws, and the exception ends the list.
EnqueueFails(p) ==
  /\ pc[p] = "enqueue"
  /\ Fault(on[p])
  /\ Release(p)
  /\ UNCHANGED <<kind, told, database, stored, blurred, contested>>

\* The session's update; in the catch block its error is swallowed.
MarkFailed(p) ==
  /\ pc[p] = "sweep"
  /\ Head(todo[p]) = "session"
  /\ session' \in {session, [session EXCEPT ![on[p]] = "FAILED"]}
  /\ Advance(p)
  /\ UNCHANGED <<kind, told, expired, rows, task, stored, history>>

(***************************************************************************)
(* The maintenance worker: cleanupExpiredMultipartUploads and processDue.  *)
(* Both claim by an update that repeats the condition of the search.       *)
(***************************************************************************)

ExpireSession(w, u) ==
  /\ pc[w] = "idle"
  /\ session[u] = "INITIATED"
  /\ u \in expired
  /\ session' = [session EXCEPT ![u] = "ABORTED"]
  /\ pc'   = [pc EXCEPT ![w] = "sweep"]
  /\ on'   = [on EXCEPT ![w] = u]
  /\ todo' = [todo EXCEPT ![w] = <<"parts">>]
  /\ UNCHANGED <<kind, told, expired, rows, task, stored, history>>

\* Sessions live for days after they end, requests for seconds.
Purge(u) ==
  /\ session[u] \in {"COMPLETED", "FAILED", "ABORTED"}
  /\ \A p \in Processes : on[p] # u
  /\ session' = [session EXCEPT ![u] = "purged"]
  /\ UNCHANGED <<kind, told, expired, rows, task, stored, process, history>>

\* Mutant: a leased task can be claimed.
ClaimTask_IgnoresLease(w, x) ==
  /\ pc[w] = "idle"
  /\ task[x] \in {"due", "leased"}
  /\ task' = [task EXCEPT ![x] = "leased"]
  /\ pc'   = [pc EXCEPT ![w] = "clean"]
  /\ on'   = [on EXCEPT ![w] = x[1]]
  /\ todo' = [todo EXCEPT ![w] = <<x[2]>>]
  /\ UNCHANGED <<kind, told, session, expired, rows, stored, history>>

ClaimTask(w, x) ==
  /\ pc[w] = "idle"
  /\ task[x] = "due"
  /\ task' = [task EXCEPT ![x] = "leased"]
  /\ pc'   = [pc EXCEPT ![w] = "clean"]
  /\ on'   = [on EXCEPT ![w] = x[1]]
  /\ todo' = [todo EXCEPT ![w] = <<x[2]>>]
  /\ UNCHANGED <<kind, told, session, expired, rows, stored, history>>

Clean(w) ==
  /\ pc[w] = "clean"
  /\ Disposable(Target(w))
  /\ Disposes(Target(w))
  /\ Goto(w, "settle")
  /\ UNCHANGED <<kind, told, database, history>>

CleanFails(w) ==
  /\ pc[w] = "clean"
  /\ MayDispose(Target(w))
  /\ Goto(w, "retry")
  /\ UNCHANGED <<kind, told, database, history>>

Settle(w) ==
  /\ pc[w] = "settle"
  /\ task[Target(w)] # "none"
  /\ task' = [task EXCEPT ![Target(w)] = "none"]
  /\ Release(w)
  /\ UNCHANGED <<kind, told, session, expired, rows, stored, history>>

\* The row is gone (another owner deleted it), or the database fails.
SettleFails(w) ==
  /\ pc[w] = "settle"
  /\ Goto(w, "retry")
  /\ UNCHANGED <<kind, told, database, stored, history>>

\* The update throws when the row is gone, and that ends the batch.
Retry(w) ==
  /\ pc[w] = "retry"
  /\ task' = IF task[Target(w)] = "none" THEN task
                                         ELSE [task EXCEPT ![Target(w)] = "waiting"]
  /\ Release(w)
  /\ UNCHANGED <<kind, told, session, expired, rows, stored, history>>

(***************************************************************************)
(* Time and crashes.                                                       *)
(***************************************************************************)

SessionExpires(u) ==
  /\ session[u] = "INITIATED"
  /\ u \notin expired
  /\ expired' = expired \union {u}
  /\ UNCHANGED <<kind, told, session, rows, task, stored, process, history>>

BackoffEnds(x) ==
  /\ task[x] = "waiting"
  /\ task' = [task EXCEPT ![x] = "due"]
  /\ UNCHANGED <<kind, told, session, expired, rows, stored, process, history>>

\* Mutant: tasks whose lease ended are not searched for.
LeaseEnds_NotSearched(x) == task[x] = "leased" /\ UNCHANGED vars

LeaseEnds(x) ==
  /\ task[x] = "leased"
  /\ task' = [task EXCEPT ![x] = "due"]
  /\ IF Cleaners(x) = {} THEN UNCHANGED <<faults, contested>>
     ELSE /\ faults < MaxFaults
          /\ faults' = faults + 1
          /\ contested' = contested \union {x}
  /\ UNCHANGED <<kind, told, session, expired, rows, stored, process, faulted, blurred>>

\* Where a process can die and leave nothing behind that only it knew of.
Harmless == Cleaning \union {"sign", "assemble", "markAborted", "deleteRow"}

Crash(p) ==
  /\ pc[p] # "idle"
  /\ faults < MaxFaults
  /\ faults' = faults + 1
  /\ faulted' = IF pc[p] \in Harmless THEN faulted ELSE faulted \union {on[p]}
  /\ Release(p)
  /\ UNCHANGED <<kind, told, database, stored, blurred, contested>>

Request(c) ==
  \E u \in Uploads : \/ BeginDirect(c, u) \/ BeginInitiate(c, u) \/ BeginComplete(c, u)
                     \/ BeginAbort(c, u) \/ BeginRemove(c, u)

CallStep(c) ==
  \/ PutMain(c) \/ PutMainFails(c) \/ PutPreview(c) \/ PutPreviewFails(c)
  \/ Commit(c) \/ CommitFails(c) \/ CommitLost(c)
  \/ Register(c) \/ RegisterFails(c) \/ Sign(c) \/ SignFails(c) \/ Unregister(c)
  \/ Assemble(c) \/ AssembleFails(c) \/ AssembleLost(c)
  \/ HeadMatches(c) \/ HeadDiffers(c) \/ HeadFails(c)
  \/ MarkAborted(c) \/ DeleteRow(c)

SweepStep(p) ==
  SweepOne(p) \/ SweepFails(p) \/ Enqueue(p) \/ EnqueueFails(p) \/ MarkFailed(p)

TaskStep(w) == Clean(w) \/ CleanFails(w) \/ Settle(w) \/ SettleFails(w) \/ Retry(w)

Next ==
  \/ \E c \in Calls : Request(c) \/ CallStep(c)
  \/ \E w \in Workers : \/ TaskStep(w)
                        \/ \E u \in Uploads : ExpireSession(w, u)
                        \/ \E x \in Things : ClaimTask(w, x)
  \/ \E p \in Processes : SweepStep(p) \/ Crash(p)
  \/ \E u \in Uploads : SessionExpires(u) \/ Purge(u)
  \/ \E x \in Things : BackoffEnds(x) \/ LeaseEnds(x)

Spec == Init /\ [][Next]_vars

\* Requests and worker loops run on; time passes.  The storage does not fail
\* for ever on the same thing, and tasks and sessions are taken in the order in
\* which they fall due, so none is passed over for ever.
Fairness ==
  /\ \A c \in Calls : WF_vars(CallStep(c))
  /\ \A p \in Processes : WF_vars(SweepStep(p))
  /\ \A w \in Workers : WF_vars(TaskStep(w))
  /\ \A x \in Things :
       /\ SF_vars(\E w \in Workers : ClaimTask(w, x))
       /\ SF_vars(\E w \in Workers : Clean(w) /\ Target(w) = x)
       /\ WF_vars(BackoffEnds(x))
       /\ WF_vars(Cleaners(x) = {} /\ LeaseEnds(x))
  /\ \A u \in Uploads : /\ WF_vars(SessionExpires(u))
                        /\ SF_vars(\E w \in Workers : ExpireSession(w, u))

FairSpec == Spec /\ Fairness

-----------------------------------------------------------------------------
(***************************************************************************)
(* Properties.                                                             *)
(***************************************************************************)

DatabaseOK ==
  /\ kind    \in [Uploads -> {"none", "image", "other"}]
  /\ told    \subseteq Uploads
  /\ session \in [Uploads -> Sessions]
  /\ expired \subseteq Uploads
  /\ rows    \subseteq Uploads
  /\ stored  \subseteq Things
  /\ task    \in [Things -> Tasks]

ProcessOK ==
  /\ pc   \in [Processes -> Labels]
  /\ on   \in [Processes -> Uploads \union {NoUpload}]
  /\ todo \in [Processes -> Seq(Parts \union {"session"})]
  /\ \A p \in Processes :
       /\ pc[p] # "idle" => on[p] \in Uploads
       /\ pc[p] \in Cleaning \union {"sweep", "enqueue"} => todo[p] # <<>>
       /\ pc[p] \in Cleaning \union {"enqueue"} => Head(todo[p]) \in Parts

HistoryOK ==
  /\ faults    \in 0 .. MaxFaults
  /\ faulted   \subseteq Uploads
  /\ blurred   \subseteq Uploads
  /\ contested \subseteq Things

\* The shape of the state; whoever disposes of something knows of what.
TypeOK == DatabaseOK /\ ProcessOK /\ HistoryOK

\* What the API shows can be read: the objects of a media row are stored,
\* whatever other requests, retries of a completion and cleanup tasks do.  The
\* exception is a commit whose reply was lost: completeUpload and create then
\* delete the objects of a row that exists (media.service.ts:93-95, 249-251).
RowHasObjects ==
  \A u \in rows \ blurred : \A part \in Objects(u) : <<u, part>> \in stored

Owes(p, part) == \E i \in 1 .. Len(todo[p]) : todo[p][i] = part

\* Somebody will see to thing x: a request that is on it, its session, its row
\* or its task.
Tended(x) ==
  LET u == x[1] IN
  \/ task[x] # "none"
  \/ IF x[2] = "parts" THEN session[u] = "INITIATED" ELSE u \in rows
  \/ \E p \in Processes :
       /\ on[p] = u
       /\ \/ Owes(p, x[2])
          \/ pc[p] \in IF x[2] = "parts" THEN {"register", "sign", "unregister"}
                                         ELSE Storing

\* Nothing leaks: whatever S3 holds is tended, unless a crash or a lost reply
\* hit its upload at one of the points the code cannot mend.
NothingLeaks == \A x \in stored : x[1] \in faulted \/ Tended(x)

\* A leased task has one owner, unless its lease ended under that owner.
ExclusiveLease ==
  \A x \in Things \ contested :
    /\ \A v, w \in Cleaners(x) : v = w
    /\ Cleaners(x) # {} => task[x] = "leased"

\* Storage is given back: what is in S3 becomes part of a media row or is
\* deleted in the end - unfinished uploads, failed completions, removed media.
StorageSettles ==
  \A x \in Things : x \in stored ~> \/ x \notin stored
                                    \/ x[1] \in rows \union faulted
=============================================================================
