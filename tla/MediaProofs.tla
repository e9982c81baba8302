----------------------------- MODULE MediaProofs -----------------------------
(***************************************************************************)
(* What the media uploads guarantee for every set of uploads, requests and *)
(* workers and every number of faults: the type invariant, that the        *)
(* objects of a media row are stored, that tasks have one owner, and that  *)
(* nothing leaks.                                                          *)
(*                                                                         *)
(* The second rests on the phases of an upload: it has not begun, its      *)
(* parts wait to be assembled, one request is storing its objects, a row   *)
(* shows it, or its objects are to be deleted - and never two of these.    *)
(* Most steps are calm: they enter no phase and dispose only of what is to *)
(* be deleted.  The steps that move an upload from one phase to the next   *)
(* are proved one by one.                                                  *)
(***************************************************************************)
EXTENDS Media, SequenceTheorems, TLAPS

Steps == Parts \union {"session"}

-----------------------------------------------------------------------------
(***************************************************************************)
(* Type correctness.                                                       *)
(***************************************************************************)

THEOREM MediaInitType == Init => TypeOK
BY MediaAssumption
DEF Init, TypeOK, DatabaseOK, ProcessOK, HistoryOK, Things, Parts, Sessions, Tasks,
    Labels, Cleaning

LEMMA ReleaseType ==
  ASSUME ProcessOK, NEW p \in Processes, Release(p)
  PROVE  ProcessOK'
BY DEF ProcessOK, Release, Labels, Cleaning

LEMMA BeginType ==
  ASSUME ProcessOK, NEW p \in Processes, NEW u \in Uploads, NEW label \in Labels,
         Begin(p, u, label), label \notin Cleaning \union {"sweep", "enqueue"}
  PROVE  ProcessOK'
BY DEF ProcessOK, Begin

LEMMA GotoType ==
  ASSUME ProcessOK, NEW p \in Processes, NEW label \in Labels, Goto(p, label),
         pc[p] # "idle",
         label \in Cleaning \union {"sweep", "enqueue"} => todo[p] # <<>>,
         label \in Cleaning \union {"enqueue"} => Head(todo[p]) \in Parts
  PROVE  ProcessOK'
BY DEF ProcessOK, Goto

LEMMA SweepType ==
  ASSUME ProcessOK, NEW p \in Processes, NEW steps \in Seq(Steps), Sweep(p, steps),
         pc[p] # "idle", steps # <<>>
  PROVE  ProcessOK'
BY DEF ProcessOK, Sweep, Steps, Labels, Cleaning

LEMMA AdvanceType ==
  ASSUME ProcessOK, NEW p \in Processes, Advance(p), pc[p] \in {"sweep", "enqueue"}
  PROVE  ProcessOK'
<1>1. todo[p] \in Seq(Steps) /\ todo[p] # <<>> /\ pc[p] # "idle"
  BY DEF ProcessOK, Steps
<1>2. CASE Len(todo[p]) = 1
  BY <1>2, ReleaseType DEF Advance
<1>3. CASE Len(todo[p]) # 1
  <2>1. Tail(todo[p]) \in Seq(Steps) /\ Len(Tail(todo[p])) = Len(todo[p]) - 1
    BY <1>1, HeadTailProperties
  <2>2. Tail(todo[p]) # <<>>
    <3>1. Len(todo[p]) \in Nat /\ Len(Tail(todo[p])) # 0
      BY <1>1, <1>3, <2>1, LenProperties
    <3> QED BY <3>1, EmptySeq
  <2>3. Sweep(p, Tail(todo[p]))
    BY <1>3 DEF Advance
  <2> QED BY <1>1, <2>1, <2>2, <2>3, SweepType
<1> QED BY <1>2, <1>3

\* Every list of clean-up steps that the code starts with.
LEMMA UndoType ==
  ASSUME NEW u \in Uploads
  PROVE  /\ Undo(u) \in Seq(Steps) /\ Undo(u) # <<>>
         /\ <<"main">> \in Seq(Steps) /\ <<"parts">> \in Seq(Steps)
         /\ <<"main", "preview">> \in Seq(Steps)
         /\ <<"main", "session">> \in Seq(Steps) /\ <<"session", "main">> \in Seq(Steps)
<1>1. /\ <<"main">> \in Seq(Steps) /\ <<"parts">> \in Seq(Steps)
      /\ <<"main", "preview">> \in Seq(Steps)
      /\ <<"main", "session">> \in Seq(Steps) /\ <<"session", "main">> \in Seq(Steps)
      /\ <<"preview", "main", "session">> \in Seq(Steps)
  BY DEF Steps, Parts
<1>2. <<"main">> # <<>> /\ <<"main", "preview">> # <<>> /\ <<"main", "session">> # <<>>
      /\ <<"preview", "main", "session">> # <<>>
  OBVIOUS
<1> QED BY <1>1, <1>2 DEF Undo

LEMMA TargetType ==
  ASSUME ProcessOK, NEW p \in Processes,
         pc[p] \in Cleaning \union {"enqueue"} \/ Sweeping(p)
  PROVE  /\ Target(p) \in Things
         /\ pc[p] # "idle" /\ todo[p] # <<>> /\ Head(todo[p]) \in Parts
<1>1. on[p] \in Uploads /\ todo[p] \in Seq(Steps) /\ todo[p] # <<>> /\ pc[p] # "idle"
  BY DEF ProcessOK, Sweeping, Cleaning, Steps
<1>2. Head(todo[p]) \in Parts
  <2>1. Head(todo[p]) \in Steps
    BY <1>1, HeadTailProperties
  <2> QED BY <2>1 DEF ProcessOK, Sweeping, Steps
<1> QED BY <1>1, <1>2 DEF Target, Things

\* The type invariant of the media uploads holds in every reachable state.
THEOREM MediaTypeCorrect == Spec => []TypeOK
<1>1. TypeOK /\ [Next]_vars => TypeOK'
  <2> SUFFICES ASSUME TypeOK, [Next]_vars PROVE DatabaseOK' /\ ProcessOK' /\ HistoryOK'
    BY DEF TypeOK
  <2> USE DEF database, process, history, TypeOK
  <2>p. UNCHANGED process => ProcessOK'
    BY DEF ProcessOK
  <2>h. UNCHANGED history => HistoryOK'
    BY DEF HistoryOK
  <2>l. /\ Labels = {"idle", "register", "sign", "unregister", "assemble", "markAborted",
                     "deleteRow", "sweep", "enqueue", "clean", "settle", "retry",
                     "putMain", "head", "preview", "commit"}
        /\ Cleaning = {"clean", "settle", "retry"}
        /\ Calls \subseteq Processes /\ Workers \subseteq Processes
    BY DEF Labels, Storing, Cleaning, Processes
  <2>1. ASSUME NEW c \in Calls, NEW u \in Uploads,
               \/ BeginDirect(c, u) \/ BeginInitiate(c, u) \/ BeginComplete(c, u)
               \/ BeginAbort(c, u) \/ BeginRemove(c, u)
        PROVE  DatabaseOK' /\ ProcessOK' /\ HistoryOK'
    <3>1. DatabaseOK'
      BY <2>1 DEF BeginDirect, BeginInitiate, BeginComplete, BeginAbort, BeginRemove,
                  DatabaseOK, Things, Parts
    <3>2. \E label \in {"putMain", "register", "assemble", "markAborted", "deleteRow"} :
            Begin(c, u, label)
      BY <2>1 DEF BeginDirect, BeginInitiate, BeginComplete, BeginAbort, BeginRemove
    <3>3. ProcessOK'
      BY <2>l, <3>2, BeginType
    <3> QED
      BY <2>1, <2>h, <3>1, <3>3
         DEF BeginDirect, BeginInitiate, BeginComplete, BeginAbort, BeginRemove
  <2>2. ASSUME NEW c \in Calls,
               \/ PutMain(c) \/ PutPreview(c) \/ Register(c) \/ RegisterFails(c)
               \/ SignFails(c) \/ Assemble(c) \/ HeadMatches(c)
        PROVE  DatabaseOK' /\ ProcessOK' /\ HistoryOK'
    <3>1. c \in Processes /\ pc[c] # "idle" /\ on[c] \in Uploads
      BY <2>2, <2>l
         DEF PutMain, PutPreview, Register, RegisterFails, SignFails, Assemble, HeadMatches,
             ProcessOK
    <3>2. DatabaseOK'
      BY <2>2, <3>1
         DEF PutMain, PutPreview, Register, RegisterFails, SignFails, Assemble, Assembles,
             HeadMatches, DatabaseOK, Things, Parts, Sessions
    <3>3. \E label \in {"preview", "commit", "sign", "unregister", "head"} : Goto(c, label)
      BY <2>2
         DEF PutMain, PutPreview, Register, RegisterFails, SignFails, Assemble, HeadMatches,
             AfterMain
    <3>4. ProcessOK'
      BY <2>l, <3>1, <3>3, GotoType
    <3> QED
      BY <2>2, <2>h, <3>2, <3>4
         DEF PutMain, PutPreview, Register, RegisterFails, SignFails, Assemble, HeadMatches
  <2>3. ASSUME NEW c \in Calls,
               \/ Commit(c) \/ Sign(c) \/ AssembleFails(c) \/ AssembleLost(c) \/ HeadFails(c)
        PROVE  DatabaseOK' /\ ProcessOK' /\ HistoryOK'
    <3>1. c \in Processes /\ on[c] \in Uploads /\ Release(c)
      BY <2>3, <2>l DEF Commit, Sign, AssembleFails, AssembleLost, HeadFails, ProcessOK
    <3>2. DatabaseOK'
      BY <2>3, <3>1
         DEF Commit, Publish, Sign, AssembleFails, AssembleLost, Assembles, HeadFails,
             DatabaseOK, Things, Parts, Sessions
    <3>3. HistoryOK'
      BY <2>3, <3>1, MediaAssumption
         DEF Commit, Sign, AssembleFails, AssembleLost, HeadFails, Fault, HistoryOK
    <3> QED BY <3>1, <3>2, <3>3, ReleaseType
  <2>4. ASSUME NEW c \in Calls,
               \/ PutMainFails(c) \/ PutPreviewFails(c) \/ CommitFails(c) \/ CommitLost(c)
               \/ Unregister(c) \/ HeadDiffers(c) \/ MarkAborted(c)
        PROVE  DatabaseOK' /\ ProcessOK' /\ HistoryOK'
    <3>1. c \in Processes /\ pc[c] # "idle" /\ on[c] \in Uploads
      BY <2>4, <2>l
         DEF PutMainFails, PutPreviewFails, CommitFails, CommitLost, Unregister, HeadDiffers,
             MarkAborted, ProcessOK
    <3>2. DatabaseOK'
      BY <2>4, <3>1
         DEF PutMainFails, PutPreviewFails, MayPut, CommitFails, CommitLost, Publish,
             Unregister, HeadDiffers, MarkAborted, DatabaseOK, Things, Parts, Sessions
    <3>3. HistoryOK'
      BY <2>4, <3>1, MediaAssumption
         DEF PutMainFails, PutPreviewFails, CommitFails, CommitLost, Unregister, HeadDiffers,
             MarkAborted, HistoryOK
    <3>4. \E steps \in Seq(Steps) : steps # <<>> /\ Sweep(c, steps)
      BY <2>4, <3>1, UndoType
         DEF PutMainFails, PutPreviewFails, CommitFails, CommitLost, Unregister, HeadDiffers,
             MarkAborted
    <3> QED BY <3>1, <3>2, <3>3, <3>4, SweepType
  <2>5. ASSUME NEW c \in Calls, DeleteRow(c)
        PROVE  DatabaseOK' /\ ProcessOK' /\ HistoryOK'
    <3>1. c \in Processes /\ pc[c] # "idle" /\ on[c] \in Uploads
      BY <2>5, <2>l DEF DeleteRow, ProcessOK
    <3>2. Release(c) \/ \E steps \in Seq(Steps) : steps # <<>> /\ Sweep(c, steps)
      BY <2>5, <3>1, UndoType DEF DeleteRow
    <3>3. ProcessOK'
      BY <3>1, <3>2, SweepType, ReleaseType
    <3> QED BY <2>5, <2>h, <3>3 DEF DeleteRow, DatabaseOK
  <2>6. ASSUME NEW p \in Processes, SweepStep(p)
        PROVE  DatabaseOK' /\ ProcessOK' /\ HistoryOK'
    <3>1. CASE SweepOne(p)
      BY <3>1, <2>h, AdvanceType DEF SweepOne, Sweeping, Disposes, DatabaseOK
    <3>2. CASE SweepFails(p)
      <4>1. pc[p] # "idle" /\ todo[p] # <<>> /\ Head(todo[p]) \in Parts
        BY <3>2, TargetType DEF SweepFails
      <4> QED
        BY <3>2, <4>1, <2>l, <2>h, GotoType DEF SweepFails, MayDispose, DatabaseOK
    <3>3. CASE Enqueue(p)
      <4>1. Target(p) \in Things
        BY <3>3, TargetType DEF Enqueue
      <4>2. ProcessOK'
        BY <3>3, AdvanceType DEF Enqueue
      <4> QED BY <3>3, <4>1, <4>2 DEF Enqueue, DatabaseOK, HistoryOK, Tasks
    <3>4. CASE EnqueueFails(p)
      <4>1. on[p] \in Uploads
        BY <3>4 DEF EnqueueFails, ProcessOK
      <4>2. ProcessOK'
        BY <3>4, ReleaseType DEF EnqueueFails
      <4> QED
        BY <3>4, <4>1, <4>2, MediaAssumption DEF EnqueueFails, Fault, DatabaseOK, HistoryOK
    <3>5. CASE MarkFailed(p)
      BY <3>5, <2>h, AdvanceType DEF MarkFailed, DatabaseOK, Sessions
    <3> QED BY <2>6, <3>1, <3>2, <3>3, <3>4, <3>5 DEF SweepStep
  <2>7. ASSUME NEW w \in Workers, TaskStep(w)
        PROVE  DatabaseOK' /\ ProcessOK' /\ HistoryOK'
    <3>1. /\ w \in Processes /\ Target(w) \in Things
          /\ pc[w] # "idle" /\ todo[w] # <<>> /\ Head(todo[w]) \in Parts
      BY <2>7, <2>l, TargetType DEF TaskStep, Clean, CleanFails, Settle, SettleFails, Retry
    <3>2. DatabaseOK'
      BY <2>7, <3>1
         DEF TaskStep, Clean, Disposes, CleanFails, MayDispose, Settle, SettleFails, Retry,
             DatabaseOK, Tasks
    <3>3. Release(w) \/ \E label \in {"settle", "retry"} : Goto(w, label)
      BY <2>7 DEF TaskStep, Clean, CleanFails, Settle, SettleFails, Retry
    <3>4. ProcessOK'
      BY <2>l, <3>1, <3>3, ReleaseType, GotoType
    <3> QED
      BY <2>7, <2>h, <3>2, <3>4
         DEF TaskStep, Clean, CleanFails, Settle, SettleFails, Retry
  <2>8. ASSUME NEW w \in Workers, NEW u \in Uploads, ExpireSession(w, u)
        PROVE  DatabaseOK' /\ ProcessOK' /\ HistoryOK'
    <3>1. DatabaseOK'
      BY <2>8 DEF ExpireSession, DatabaseOK, Sessions
    <3>2. ProcessOK'
      BY <2>8, <2>l, UndoType DEF ExpireSession, ProcessOK, Steps
    <3> QED BY <2>8, <2>h, <3>1, <3>2 DEF ExpireSession
  <2>9. ASSUME NEW w \in Workers, NEW x \in Things, ClaimTask(w, x)
        PROVE  DatabaseOK' /\ ProcessOK' /\ HistoryOK'
    <3>1. DatabaseOK'
      BY <2>9 DEF ClaimTask, DatabaseOK, Tasks
    <3>2. x[1] \in Uploads /\ x[2] \in Parts
      BY DEF Things
    <3>3. <<x[2]>> \in Seq(Steps) /\ <<x[2]>> # <<>> /\ Head(<<x[2]>>) = x[2]
      BY <3>2 DEF Steps
    <3>4. ProcessOK'
      BY <2>9, <2>l, <3>2, <3>3 DEF ClaimTask, ProcessOK, Steps
    <3> QED BY <2>9, <2>h, <3>1, <3>4 DEF ClaimTask
  <2>10. ASSUME NEW p \in Processes, Crash(p)
         PROVE  DatabaseOK' /\ ProcessOK' /\ HistoryOK'
    <3>1. ProcessOK'
      BY <2>10, ReleaseType DEF Crash
    <3>2. HistoryOK'
      BY <2>10, MediaAssumption DEF Crash, HistoryOK, ProcessOK
    <3> QED BY <2>10, <3>1, <3>2 DEF Crash, DatabaseOK
  <2>11. ASSUME NEW u \in Uploads, SessionExpires(u) \/ Purge(u)
         PROVE  DatabaseOK' /\ ProcessOK' /\ HistoryOK'
    BY <2>11, <2>p, <2>h DEF SessionExpires, Purge, DatabaseOK, Sessions
  <2>12. ASSUME NEW x \in Things, BackoffEnds(x) \/ LeaseEnds(x)
         PROVE  DatabaseOK' /\ ProcessOK' /\ HistoryOK'
    BY <2>12, <2>p, MediaAssumption DEF BackoffEnds, LeaseEnds, DatabaseOK, HistoryOK, Tasks
  <2>13. CASE UNCHANGED vars
    BY <2>13, <2>p, <2>h DEF vars, DatabaseOK
  <2> QED
    BY <2>1, <2>2, <2>3, <2>4, <2>5, <2>6, <2>7, <2>8, <2>9, <2>10, <2>11, <2>12, <2>13
       DEF Next, Request, CallStep
<1> QED BY <1>1, MediaInitType, PTL DEF Spec

-----------------------------------------------------------------------------
(***************************************************************************)
(* The phases of an upload.                                                *)
(***************************************************************************)

TidyList ==
  \A p \in Processes :
    pc[p] \notin Cleaning \union {"sweep", "enqueue"} => todo[p] = <<>>

Fresh(u)    == kind[u] = "none"
Apart(u)    == <<u, "parts">> \in stored
Makes(p, u) == on[p] = u /\ pc[p] \in Storing
Shown(u)    == u \in rows
Dooms(p, u) == on[p] = u /\ (Owes(p, "main") \/ Owes(p, "preview"))
Condemned(u) == \E part \in {"main", "preview"} : task[<<u, part>>] # "none"

Doomed(u) == Condemned(u) \/ \E p \in Processes : Dooms(p, u)
Made(u)   == \E p \in Processes : Makes(p, u)

\* A row whose commit was reported as failed is shown while its objects are deleted.
OnePhase(u) ==
  /\ Fresh(u) => ~Apart(u) /\ ~Made(u) /\ ~Shown(u) /\ ~Doomed(u)
  /\ Apart(u) => ~Made(u) /\ ~Shown(u) /\ ~Doomed(u)
  /\ Made(u)  => ~Shown(u) /\ ~Doomed(u)
  /\ Shown(u) /\ u \notin blurred => ~Doomed(u)
  /\ \A p, q \in Processes : Makes(p, u) /\ Makes(q, u) => p = q

\* What a request on its way to the row has stored, and what the row shows.
Has(u, part) == <<u, part>> \in stored
HasAll(u)    == \A part \in Objects(u) : Has(u, part)
Enough(p, u) == /\ pc[p] # "putMain" => Has(u, "main")
                /\ pc[p] = "commit" => HasAll(u)

StoredSoFar(u) == /\ \A p \in Processes : Makes(p, u) => Enough(p, u)
                  /\ Shown(u) /\ u \notin blurred => HasAll(u)

InOrder(u) == OnePhase(u) /\ StoredSoFar(u)

MediaInv == TypeOK /\ TidyList /\ \A u \in Uploads : InOrder(u)

\* A step enters no phase of u and takes nothing that is not to be deleted.
Calm(u) ==
  /\ Fresh(u)' => Fresh(u)
  /\ kind'[u] = kind[u] \/ Fresh(u)
  /\ Apart(u)' => Apart(u)
  /\ Shown(u)' => Shown(u)
  /\ Doomed(u)' => Doomed(u)
  /\ \A p \in Processes :
       Makes(p, u)' => Makes(p, u) /\ (pc'[p] = pc[p] \/ Enough(p, u)')
  /\ \A part \in {"main", "preview"} : Has(u, part) => Has(u, part)' \/ Doomed(u)

LEMMA CalmKeeps ==
  ASSUME NEW u \in Uploads, InOrder(u), Calm(u), blurred \subseteq blurred'
  PROVE  InOrder(u)'
<1>1. OnePhase(u)'
  <2>1. Made(u)' => Made(u)
    BY DEF Calm, Made
  <2>2. \A p, q \in Processes : Makes(p, u)' /\ Makes(q, u)' => p = q
    BY DEF Calm, InOrder, OnePhase
  <2> QED BY <2>1, <2>2 DEF Calm, InOrder, OnePhase
<1>2. \A part \in {"main", "preview"} :
        Has(u, part) /\ (Made(u) \/ (Shown(u) /\ u \notin blurred)) => Has(u, part)'
  BY DEF Calm, InOrder, OnePhase
<1>3. ASSUME Made(u)' \/ Shown(u)'
      PROVE  Objects(u)' = Objects(u) /\ Objects(u) \subseteq {"main", "preview"}
  BY <1>3 DEF Calm, InOrder, OnePhase, Objects, Fresh, Made
<1>4. ASSUME HasAll(u), Made(u)' \/ Shown(u)', Made(u) \/ (Shown(u) /\ u \notin blurred)
      PROVE  HasAll(u)'
  BY <1>2, <1>3, <1>4 DEF HasAll
<1>5. ASSUME NEW p \in Processes, Makes(p, u)'
      PROVE  Enough(p, u)'
  <2>1. Makes(p, u) /\ Made(u) /\ Made(u)'
    BY <1>5 DEF Calm, Made
  <2>2. CASE pc'[p] = pc[p]
    BY <1>2, <1>4, <2>1, <2>2 DEF InOrder, StoredSoFar, Enough
  <2> QED BY <1>5, <2>2 DEF Calm
<1>6. Shown(u)' /\ u \notin blurred' => HasAll(u)'
  BY <1>4 DEF Calm, InOrder, StoredSoFar
<1> QED BY <1>1, <1>5, <1>6 DEF InOrder, StoredSoFar

-----------------------------------------------------------------------------
(***************************************************************************)
(* What moving a process does to the phases: Still says that process p     *)
(* enters no phase and the others stay where they are.                     *)
(***************************************************************************)

Others(p) == \A q \in Processes \ {p} : pc'[q] = pc[q] /\ on'[q] = on[q] /\ todo'[q] = todo[q]

LEMMA OthersStay ==
  ASSUME NEW p \in Processes, Others(p), NEW q \in Processes \ {p}, NEW u
  PROVE  /\ Makes(q, u)' <=> Makes(q, u)
         /\ pc'[q] = pc[q]
         /\ Dooms(q, u)' <=> Dooms(q, u)
BY DEF Others, Makes, Dooms, Owes

LEMMA ReleaseMoves ==
  ASSUME ProcessOK, NEW p \in Processes, Release(p), NEW u \in Uploads
  PROVE  Others(p) /\ ~Makes(p, u)' /\ ~Dooms(p, u)'
BY MediaAssumption DEF ProcessOK, Release, Others, Makes, Dooms

LEMMA BeginMoves ==
  ASSUME ProcessOK, TidyList, NEW p \in Processes, NEW u \in Uploads, NEW label,
         Begin(p, u, label), NEW v \in Uploads
  PROVE  /\ Others(p) /\ ~Dooms(p, v)'
         /\ Makes(p, v)' <=> v = u /\ label \in Storing
         /\ pc'[p] = label
<1>1. todo'[p] = <<>> /\ on'[p] = u /\ pc'[p] = label
  BY DEF ProcessOK, TidyList, Begin, Cleaning
<1>2. ~Owes(p, "main")' /\ ~Owes(p, "preview")'
  BY <1>1 DEF Owes
<1> QED BY <1>1, <1>2 DEF ProcessOK, Begin, Others, Makes, Dooms

LEMMA GotoMoves ==
  ASSUME ProcessOK, NEW p \in Processes, NEW label, Goto(p, label), NEW u \in Uploads
  PROVE  /\ Others(p) /\ pc'[p] = label
         /\ Dooms(p, u)' <=> Dooms(p, u)
         /\ Makes(p, u)' <=> u = on[p] /\ label \in Storing
BY DEF ProcessOK, Goto, Others, Makes, Dooms, Owes

LEMMA SweepMoves ==
  ASSUME ProcessOK, NEW p \in Processes, NEW steps, Sweep(p, steps), NEW u \in Uploads
  PROVE  /\ Others(p) /\ ~Makes(p, u)'
         /\ Dooms(p, u)' => u = on[p] /\ \E i \in 1 .. Len(steps) : steps[i] \in {"main", "preview"}
<1>1. todo'[p] = steps /\ on'[p] = on[p] /\ pc'[p] = "sweep"
  BY DEF ProcessOK, Sweep
<1> QED BY <1>1 DEF ProcessOK, Sweep, Others, Makes, Dooms, Owes, Storing

LEMMA AdvanceMoves ==
  ASSUME ProcessOK, NEW p \in Processes, pc[p] \in {"sweep", "enqueue"}, Advance(p),
         NEW u \in Uploads
  PROVE  /\ Others(p) /\ ~Makes(p, u)'
         /\ Dooms(p, u)' => Dooms(p, u)
<1>1. CASE Len(todo[p]) = 1
  BY <1>1, ReleaseMoves DEF Advance
<1>2. CASE Len(todo[p]) # 1
  <2>1. Sweep(p, Tail(todo[p]))
    BY <1>2 DEF Advance
  <2>2. todo[p] \in Seq(Steps) /\ todo[p] # <<>>
    BY DEF ProcessOK, Steps
  <2>3. /\ Len(todo[p]) \in Nat /\ Len(Tail(todo[p])) = Len(todo[p]) - 1
        /\ \A i \in 1 .. Len(Tail(todo[p])) : Tail(todo[p])[i] = todo[p][i + 1]
    BY <2>2, HeadTailProperties, LenProperties
  <2>4. \A i \in 1 .. Len(Tail(todo[p])) :
          i + 1 \in 1 .. Len(todo[p]) /\ Tail(todo[p])[i] = todo[p][i + 1]
    BY <2>3
  <2>5. Others(p) /\ ~Makes(p, u)'
    BY <2>1, SweepMoves
  <2>6. Dooms(p, u)' =>
          /\ u = on[p]
          /\ \E i \in 1 .. Len(Tail(todo[p])) : Tail(todo[p])[i] \in {"main", "preview"}
    BY <2>1, SweepMoves
  <2> QED BY <2>4, <2>5, <2>6 DEF Dooms, Owes
<1> QED BY <1>1, <1>2

\* A step of one process is calm if that process enters no phase.
LEMMA QuietStep ==
  ASSUME NEW p \in Processes, NEW u \in Uploads, Others(p),
         Makes(p, u)' => Makes(p, u) /\ (pc'[p] = pc[p] \/ Enough(p, u)'),
         Dooms(p, u)' => Doomed(u),
         kind'[u] = kind[u],
         Apart(u)' => Apart(u),
         Shown(u)' => Shown(u),
         Condemned(u)' => Doomed(u),
         \A part \in {"main", "preview"} : Has(u, part) => Has(u, part)' \/ Doomed(u)
  PROVE  Calm(u)
<1>1. Doomed(u)' => Doomed(u)
  BY OthersStay DEF Doomed
<1>2. \A q \in Processes :
        Makes(q, u)' => Makes(q, u) /\ (pc'[q] = pc[q] \/ Enough(q, u)')
  BY OthersStay
<1> QED BY <1>1, <1>2 DEF Calm, Fresh

\* The last phase asks nothing of the objects.
LEMMA Falls ==
  ASSUME NEW u \in Uploads, ~Fresh(u)', ~Apart(u)', Shown(u)' => u \in blurred', ~Made(u)'
  PROVE  InOrder(u)'
BY DEF InOrder, OnePhase, StoredSoFar, Made

\* One request has reached the phase in which it stores the objects.
LEMMA Starts ==
  ASSUME NEW p \in Processes, NEW u \in Uploads, Others(p),
         ~Made(u), ~Doomed(u), ~Dooms(p, u)', ~Condemned(u)',
         ~Fresh(u)', ~Apart(u)', ~Shown(u)', Makes(p, u)', Enough(p, u)'
  PROVE  InOrder(u)'
<1>1. \A q \in Processes : Makes(q, u)' => q = p
  BY OthersStay DEF Made
<1>2. ~Doomed(u)'
  BY OthersStay DEF Doomed
<1> QED BY <1>1, <1>2 DEF InOrder, OnePhase, StoredSoFar, Made

\* Whoever disposes of an object is one of those who doom its upload.
LEMMA HeadDooms ==
  ASSUME ProcessOK, NEW p \in Processes, NEW u \in Uploads,
         pc[p] \in Cleaning \union {"enqueue"} \/ Sweeping(p),
         NEW part \in {"main", "preview"}, Target(p) = <<u, part>>
  PROVE  Doomed(u)
<1>1. todo[p] \in Seq(Steps) /\ todo[p] # <<>>
  BY TargetType DEF ProcessOK, Steps
<1>2. Len(todo[p]) \in Nat \ {0} /\ Head(todo[p]) = todo[p][1]
  BY <1>1, EmptySeq
<1>3. on[p] = u /\ Owes(p, part)
  BY <1>2 DEF Target, Owes
<1> QED BY <1>3 DEF Doomed, Dooms

LEMMA TidyMoves ==
  ASSUME ProcessOK, TidyList, NEW p \in Processes,
         \/ Release(p)
         \/ \E u, label : Begin(p, u, label)
         \/ \E label : Goto(p, label) /\ pc[p] \notin Cleaning \union {"sweep", "enqueue"}
         \/ \E label \in Cleaning \union {"sweep", "enqueue"} : Goto(p, label)
         \/ \E steps : Sweep(p, steps)
         \/ Advance(p)
  PROVE  TidyList'
BY DEF ProcessOK, TidyList, Release, Begin, Goto, Sweep, Advance, Cleaning

LEMMA BlurredGrows ==
  ASSUME [Next]_vars
  PROVE  blurred \subseteq blurred'
<1> USE DEF history, vars
<1>1. ASSUME NEW c \in Calls, Request(c) \/ CallStep(c)  PROVE blurred \subseteq blurred'
  BY <1>1
     DEF Request, BeginDirect, BeginInitiate, BeginComplete, BeginAbort, BeginRemove,
         CallStep, PutMain, PutMainFails, PutPreview, PutPreviewFails, Commit, CommitFails,
         CommitLost, Register, RegisterFails, Sign, SignFails, Unregister, Assemble,
         AssembleFails, AssembleLost, HeadMatches, HeadDiffers, HeadFails, MarkAborted,
         DeleteRow
<1>2. ASSUME NEW p \in Processes, SweepStep(p) \/ Crash(p)  PROVE blurred \subseteq blurred'
  BY <1>2 DEF SweepStep, SweepOne, SweepFails, Enqueue, EnqueueFails, MarkFailed, Crash
<1>3. ASSUME NEW w \in Workers,
             \/ TaskStep(w)
             \/ \E u \in Uploads : ExpireSession(w, u)
             \/ \E x \in Things : ClaimTask(w, x)
      PROVE  blurred \subseteq blurred'
  BY <1>3 DEF TaskStep, Clean, CleanFails, Settle, SettleFails, Retry, ExpireSession, ClaimTask
<1>4. ASSUME \/ \E u \in Uploads : SessionExpires(u) \/ Purge(u)
             \/ \E x \in Things : BackoffEnds(x) \/ LeaseEnds(x)
      PROVE  blurred \subseteq blurred'
  BY <1>4 DEF SessionExpires, Purge, BackoffEnds, LeaseEnds
<1> QED BY <1>1, <1>2, <1>3, <1>4 DEF Next

-----------------------------------------------------------------------------
(***************************************************************************)
(* The steps.                                                              *)
(***************************************************************************)

THEOREM MediaInitInv == Init => MediaInv
<1> SUFFICES ASSUME Init PROVE MediaInv
  OBVIOUS
<1>1. TypeOK
  BY MediaInitType
<1>2. TidyList
  BY DEF Init, TidyList
<1>3. ASSUME NEW u \in Uploads  PROVE InOrder(u)
  <2>1. ~Made(u) /\ ~Shown(u) /\ ~Apart(u)
    BY DEF Init, Made, Makes, Storing, Shown, Apart
  <2>2. ~Doomed(u)
    BY DEF Init, Doomed, Dooms, Owes, Condemned, Things, Parts
  <2> QED BY <2>1, <2>2 DEF InOrder, OnePhase, StoredSoFar, Made
<1> QED BY <1>1, <1>2, <1>3 DEF MediaInv

\* Whatever a step does, it leaves no list behind.
LEMMA TidyKeeps ==
  ASSUME TypeOK, TidyList, [Next]_vars
  PROVE  TidyList'
<1> USE DEF process, vars
<1>0. ProcessOK /\ Calls \subseteq Processes /\ Workers \subseteq Processes
  BY DEF TypeOK, Processes
<1>1. ASSUME NEW c \in Calls, Request(c) \/ CallStep(c)  PROVE TidyList'
  BY <1>0, <1>1, TidyMoves
     DEF Cleaning, Request, BeginDirect, BeginInitiate, BeginComplete, BeginAbort, BeginRemove,
         CallStep, PutMain, PutMainFails, PutPreview, PutPreviewFails, Commit, CommitFails,
         CommitLost, Register, RegisterFails, Sign, SignFails, Unregister, Assemble,
         AssembleFails, AssembleLost, HeadMatches, HeadDiffers, HeadFails, MarkAborted,
         DeleteRow
<1>2. ASSUME NEW p \in Processes, SweepStep(p) \/ Crash(p)  PROVE TidyList'
  BY <1>0, <1>2, TidyMoves
     DEF SweepStep, SweepOne, SweepFails, Enqueue, EnqueueFails, MarkFailed, Crash
<1>3. ASSUME NEW w \in Workers, TaskStep(w)  PROVE TidyList'
  BY <1>0, <1>3, TidyMoves
     DEF TaskStep, Clean, CleanFails, Settle, SettleFails, Retry, Cleaning
<1>4. ASSUME NEW w \in Workers,
             \/ \E u \in Uploads : ExpireSession(w, u)
             \/ \E x \in Things : ClaimTask(w, x)
      PROVE  TidyList'
  BY <1>0, <1>4 DEF ExpireSession, ClaimTask, ProcessOK, TidyList, Cleaning
<1>5. ASSUME \/ \E u \in Uploads : SessionExpires(u) \/ Purge(u)
             \/ \E x \in Things : BackoffEnds(x) \/ LeaseEnds(x)
             \/ UNCHANGED vars
      PROVE  TidyList'
  BY <1>5 DEF SessionExpires, Purge, BackoffEnds, LeaseEnds, TidyList
<1> QED BY <1>1, <1>2, <1>3, <1>4, <1>5 DEF Next

\* The requests that start: two of them begin an upload.
LEMMA RequestKeeps ==
  ASSUME MediaInv, NEW c \in Calls, Request(c), NEW u \in Uploads, blurred \subseteq blurred'
  PROVE  InOrder(u)'
<1> USE DEF database, process, history
<1>0. c \in Processes /\ ProcessOK /\ DatabaseOK /\ TidyList /\ InOrder(u)
  BY DEF MediaInv, TypeOK, Processes
<1>1. PICK v \in Uploads : \/ BeginDirect(c, v) \/ BeginInitiate(c, v) \/ BeginComplete(c, v)
                           \/ BeginAbort(c, v) \/ BeginRemove(c, v)
  BY DEF Request
<1>2. CASE BeginDirect(c, v)
  <2>1. /\ Others(c) /\ ~Dooms(c, u)' /\ pc'[c] = "putMain"
        /\ Makes(c, u)' <=> u = v
    BY <1>0, <1>2, BeginMoves DEF BeginDirect, Storing
  <2>2. CASE u # v
    <3>1. Calm(u)
      BY <1>0, <1>2, <2>1, <2>2, QuietStep
         DEF BeginDirect, DatabaseOK, Apart, Shown, Condemned, Doomed, Has
    <3> QED BY <1>0, <3>1, CalmKeeps
  <2>3. CASE u = v
    <3>1. Fresh(u) /\ ~Made(u) /\ ~Doomed(u) /\ ~Apart(u) /\ ~Shown(u)
      BY <1>0, <1>2, <2>3 DEF BeginDirect, InOrder, OnePhase, Fresh
    <3>2. ~Fresh(u)' /\ ~Apart(u)' /\ ~Shown(u)' /\ ~Condemned(u)'
      BY <1>0, <1>2, <2>3, <3>1
         DEF BeginDirect, DatabaseOK, Fresh, Apart, Shown, Doomed, Condemned
    <3>3. Enough(c, u)'
      BY <2>1 DEF Enough
    <3> QED BY <1>0, <2>1, <2>3, <3>1, <3>2, <3>3, Starts
  <2> QED BY <2>2, <2>3
<1>3. CASE BeginInitiate(c, v)
  <2>1. Others(c) /\ ~Dooms(c, u)' /\ ~Makes(c, u)'
    BY <1>0, <1>3, BeginMoves DEF BeginInitiate, Storing
  <2>2. CASE u # v
    <3>1. Calm(u)
      BY <1>0, <1>3, <2>1, <2>2, QuietStep
         DEF BeginInitiate, DatabaseOK, Apart, Shown, Condemned, Doomed, Has
    <3> QED BY <1>0, <3>1, CalmKeeps
  <2>3. CASE u = v
    <3>1. Fresh(u) /\ ~Made(u) /\ ~Doomed(u) /\ ~Shown(u)
      BY <1>0, <1>3, <2>3 DEF BeginInitiate, InOrder, OnePhase, Fresh
    <3>2. ~Fresh(u)' /\ ~Shown(u)' /\ ~Condemned(u)'
      BY <1>0, <1>3, <2>3, <3>1
         DEF BeginInitiate, DatabaseOK, Fresh, Shown, Doomed, Condemned
    <3>3. ~Made(u)' /\ ~Doomed(u)'
      BY <1>0, <2>1, <3>1, <3>2, OthersStay DEF Made, Doomed
    <3> QED BY <3>2, <3>3 DEF InOrder, OnePhase, StoredSoFar, Made
  <2> QED BY <2>2, <2>3
<1>4. CASE BeginComplete(c, v) \/ BeginAbort(c, v) \/ BeginRemove(c, v)
  <2>1. Others(c) /\ ~Dooms(c, u)' /\ ~Makes(c, u)'
    BY <1>0, <1>4, BeginMoves DEF BeginComplete, BeginAbort, BeginRemove, Storing
  <2>2. Calm(u)
    BY <1>0, <1>4, <2>1, QuietStep
       DEF BeginComplete, BeginAbort, BeginRemove, Apart, Shown, Condemned, Doomed, Has
  <2> QED BY <1>0, <2>2, CalmKeeps
<1> QED BY <1>1, <1>2, <1>3, <1>4

\* The requests under way: they store, publish, fail and remove.
LEMMA CallKeeps ==
  ASSUME MediaInv, NEW c \in Calls, CallStep(c), NEW u \in Uploads, blurred \subseteq blurred'
  PROVE  InOrder(u)'
<1> USE DEF database, process, history
<1>0. c \in Processes /\ ProcessOK /\ DatabaseOK /\ TidyList /\ InOrder(u)
  BY DEF MediaInv, TypeOK, Processes
<1>1. CASE PutMain(c) \/ PutPreview(c) \/ HeadMatches(c)
  <2>1. PICK label \in {"preview", "commit"} :
          Goto(c, label) /\ (pc[c] # "preview" => label = AfterMain(on[c]))
    BY <1>1 DEF PutMain, PutPreview, HeadMatches, AfterMain
  <2>2. /\ Others(c) /\ pc'[c] = label /\ (Dooms(c, u)' <=> Dooms(c, u))
        /\ Makes(c, u)' <=> u = on[c]
    BY <1>0, <2>1, GotoMoves DEF Storing
  <2>3. ASSUME u = on[c]  PROVE Makes(c, u) /\ Enough(c, u)'
    <3>1. Makes(c, u) /\ kind' = kind
      BY <1>1, <2>3 DEF PutMain, PutPreview, HeadMatches, Makes, Storing
    <3>2. Has(u, "main")'
      BY <1>0, <1>1, <2>3, <3>1
         DEF PutMain, PutPreview, HeadMatches, Has, InOrder, StoredSoFar, Enough
    <3>3. label = "commit" => (kind[u] = "image" => Has(u, "preview")')
      BY <1>1, <2>1, <2>3 DEF PutMain, PutPreview, HeadMatches, AfterMain, Has
    <3> QED BY <2>2, <3>1, <3>2, <3>3 DEF Enough, HasAll, Objects
  <2>4. Calm(u)
    BY <1>0, <1>1, <2>2, <2>3, QuietStep
       DEF PutMain, PutPreview, HeadMatches, Apart, Shown, Condemned, Doomed, Has
  <2> QED BY <1>0, <2>4, CalmKeeps
<1>2. CASE \/ PutMainFails(c) \/ PutPreviewFails(c) \/ CommitFails(c) \/ CommitLost(c)
           \/ HeadDiffers(c)
  <2>1. PICK steps : Sweep(c, steps)
    BY <1>2 DEF PutMainFails, PutPreviewFails, CommitFails, CommitLost, HeadDiffers
  <2>2. Others(c) /\ ~Makes(c, u)' /\ (Dooms(c, u)' => u = on[c])
    BY <1>0, <2>1, SweepMoves
  <2>3. CASE u # on[c]
    <3>1. Calm(u)
      BY <1>0, <1>2, <2>2, <2>3, QuietStep
         DEF PutMainFails, PutPreviewFails, MayPut, CommitFails, CommitLost, Publish,
             HeadDiffers, Apart, Shown, Condemned, Doomed, Has
    <3> QED BY <1>0, <3>1, CalmKeeps
  <2>4. CASE u = on[c]
    <3>1. Makes(c, u) /\ Made(u)
      BY <1>0, <1>2, <2>4
         DEF PutMainFails, PutPreviewFails, CommitFails, CommitLost, HeadDiffers, Makes, Made,
             Storing
    <3>2. CommitLost(c) => u \in blurred'
      BY <1>0, <2>4 DEF CommitLost
    <3>3. ~Fresh(u)' /\ ~Apart(u)' /\ (Shown(u)' => u \in blurred')
      BY <1>0, <1>2, <3>1, <3>2
         DEF PutMainFails, PutPreviewFails, MayPut, CommitFails, CommitLost, Publish,
             HeadDiffers, InOrder, OnePhase, Fresh, Apart, Shown
    <3>4. ~Made(u)'
      BY <1>0, <2>2, <3>1, OthersStay DEF Made, InOrder, OnePhase
    <3> QED BY <3>3, <3>4, Falls
  <2> QED BY <2>3, <2>4
<1>3. CASE Commit(c)
  <2>1. Others(c) /\ ~Makes(c, u)' /\ ~Dooms(c, u)'
    BY <1>0, <1>3, ReleaseMoves DEF Commit
  <2>2. CASE u # on[c]
    <3>1. Calm(u)
      BY <1>0, <1>3, <2>1, <2>2, QuietStep
         DEF Commit, Publish, Apart, Shown, Condemned, Doomed, Has
    <3> QED BY <1>0, <3>1, CalmKeeps
  <2>3. CASE u = on[c]
    <3>1. Makes(c, u) /\ Made(u)
      BY <1>0, <1>3, <2>3 DEF Commit, Makes, Made, Storing
    <3>2. /\ ~Fresh(u)' /\ ~Apart(u)' /\ ~Doomed(u) /\ ~Condemned(u)'
      BY <1>0, <1>3, <3>1
         DEF Commit, Publish, InOrder, OnePhase, Fresh, Apart, Doomed, Condemned
    <3>3. ~Made(u)'
      BY <1>0, <2>1, <3>1, OthersStay DEF Made, InOrder, OnePhase
    <3>4. ~Doomed(u)'
      BY <1>0, <2>1, <3>2, OthersStay DEF Doomed
    <3>5. HasAll(u)'
      BY <1>0, <1>3, <3>1
         DEF Commit, InOrder, StoredSoFar, Enough, HasAll, Has, Objects
    <3> QED BY <3>2, <3>3, <3>4, <3>5 DEF InOrder, OnePhase, StoredSoFar, Made
  <2> QED BY <2>2, <2>3
<1>4. CASE Register(c) \/ RegisterFails(c) \/ SignFails(c)
  <2>1. PICK label \in {"sign", "unregister"} : Goto(c, label)
    BY <1>4 DEF Register, RegisterFails, SignFails
  <2>2. Others(c) /\ ~Makes(c, u)' /\ (Dooms(c, u)' <=> Dooms(c, u))
    BY <1>0, <2>1, GotoMoves DEF Storing
  <2>3. Calm(u)
    BY <1>0, <1>4, <2>2, QuietStep
       DEF Register, RegisterFails, SignFails, Apart, Shown, Condemned, Doomed, Has
  <2> QED BY <1>0, <2>3, CalmKeeps
<1>5. CASE Unregister(c) \/ MarkAborted(c)
  <2>1. Sweep(c, <<"parts">>)
    BY <1>5 DEF Unregister, MarkAborted
  <2>2. Others(c) /\ ~Makes(c, u)' /\ ~Dooms(c, u)'
    BY <1>0, <2>1, SweepMoves
  <2>3. Calm(u)
    BY <1>0, <1>5, <2>2, QuietStep
       DEF Unregister, MarkAborted, Apart, Shown, Condemned, Doomed, Has
  <2> QED BY <1>0, <2>3, CalmKeeps
<1>6. CASE Assemble(c)
  <2>1. /\ Others(c) /\ pc'[c] = "head" /\ (Dooms(c, u)' <=> Dooms(c, u))
        /\ Makes(c, u)' <=> u = on[c]
    BY <1>0, <1>6, GotoMoves DEF Assemble, Storing
  <2>2. CASE u # on[c]
    <3>1. Calm(u)
      BY <1>0, <1>6, <2>1, <2>2, QuietStep
         DEF Assemble, Assembles, Apart, Shown, Condemned, Doomed, Has
    <3> QED BY <1>0, <3>1, CalmKeeps
  <2>3. CASE u = on[c]
    <3>1. Apart(u) /\ ~Fresh(u) /\ ~Made(u) /\ ~Shown(u) /\ ~Doomed(u)
      BY <1>0, <1>6, <2>3 DEF Assemble, Assembles, Apart, InOrder, OnePhase
    <3>2. ~Fresh(u)' /\ ~Apart(u)' /\ ~Shown(u)' /\ ~Condemned(u)' /\ Has(u, "main")'
      BY <1>6, <2>3, <3>1
         DEF Assemble, Assembles, Fresh, Apart, Shown, Doomed, Condemned, Has
    <3>3. ~Dooms(c, u)' /\ Enough(c, u)' /\ Makes(c, u)'
      BY <1>0, <2>1, <2>3, <3>1, <3>2 DEF Doomed, Enough
    <3> QED BY <1>0, <2>1, <3>1, <3>2, <3>3, Starts
  <2> QED BY <2>2, <2>3
<1>7. CASE Sign(c) \/ AssembleFails(c) \/ AssembleLost(c) \/ HeadFails(c)
  <2>1. Release(c)
    BY <1>7 DEF Sign, AssembleFails, AssembleLost, HeadFails
  <2>2. Others(c) /\ ~Makes(c, u)' /\ ~Dooms(c, u)'
    BY <1>0, <2>1, ReleaseMoves
  <2>3. Calm(u)
    BY <1>0, <1>7, <2>2, QuietStep
       DEF Sign, AssembleFails, AssembleLost, Assembles, HeadFails, Apart, Shown, Condemned,
           Doomed, Has
  <2> QED BY <1>0, <2>3, CalmKeeps
<1>8. CASE DeleteRow(c)
  <2>1. Release(c) \/ \E steps : Sweep(c, steps)
    BY <1>8 DEF DeleteRow
  <2>2. Others(c) /\ ~Makes(c, u)'
    BY <1>0, <2>1, ReleaseMoves, SweepMoves
  <2>3. CASE u # on[c] \/ u \notin rows
    <3>1. ~Dooms(c, u)'
      BY <1>0, <1>8, <2>3, ReleaseMoves, SweepMoves DEF DeleteRow
    <3>2. Calm(u)
      BY <1>0, <1>8, <2>2, <3>1, QuietStep
         DEF DeleteRow, Apart, Shown, Condemned, Doomed, Has
    <3> QED BY <1>0, <3>2, CalmKeeps
  <2>4. CASE u = on[c] /\ u \in rows
    <3>1. ~Fresh(u) /\ ~Apart(u) /\ ~Made(u)
      BY <1>0, <2>4 DEF InOrder, OnePhase, Shown
    <3>2. ~Fresh(u)' /\ ~Apart(u)' /\ ~Shown(u)'
      BY <1>8, <2>4, <3>1 DEF DeleteRow, Fresh, Apart, Shown
    <3>3. ~Made(u)'
      BY <1>0, <2>2, <3>1, OthersStay DEF Made
    <3> QED BY <3>2, <3>3, Falls
  <2> QED BY <2>3, <2>4
<1> QED BY <1>1, <1>2, <1>3, <1>4, <1>5, <1>6, <1>7, <1>8 DEF CallStep

\* The clean-up lists: they delete only what their owner dooms.
LEMMA SweepKeeps ==
  ASSUME MediaInv, NEW p \in Processes, SweepStep(p), NEW u \in Uploads, blurred \subseteq blurred'
  PROVE  InOrder(u)'
<1> USE DEF database, process, history
<1>0. ProcessOK /\ DatabaseOK /\ TidyList /\ InOrder(u)
  BY DEF MediaInv, TypeOK
<1>1. Others(p) /\ ~Makes(p, u)' /\ (Dooms(p, u)' => Dooms(p, u))
  <2>1. CASE SweepFails(p)
    BY <1>0, <2>1, GotoMoves DEF SweepFails, Storing
  <2>2. CASE EnqueueFails(p)
    BY <1>0, <2>2, ReleaseMoves DEF EnqueueFails
  <2>3. CASE SweepOne(p) \/ Enqueue(p) \/ MarkFailed(p)
    BY <1>0, <2>3, AdvanceMoves DEF SweepOne, Sweeping, Enqueue, MarkFailed
  <2> QED BY <2>1, <2>2, <2>3 DEF SweepStep
<1>2. \A part \in {"main", "preview"} : Has(u, part) => Has(u, part)' \/ Doomed(u)
  <2>1. CASE SweepOne(p) \/ SweepFails(p)
    BY <1>0, <2>1, HeadDooms DEF SweepOne, SweepFails, Disposes, MayDispose, Has
  <2> QED BY <2>1 DEF SweepStep, Enqueue, EnqueueFails, MarkFailed, Has
<1>3. Condemned(u)' => Doomed(u)
  <2>1. CASE Enqueue(p)
    BY <1>0, <2>1, HeadDooms DEF Enqueue, Condemned, Doomed, DatabaseOK, Things, Parts
  <2> QED
    BY <2>1
       DEF SweepStep, SweepOne, SweepFails, EnqueueFails, MarkFailed, Condemned, Doomed
<1>4. kind' = kind /\ rows' = rows /\ (Apart(u)' => Apart(u))
  BY DEF SweepStep, SweepOne, Disposes, SweepFails, MayDispose, Enqueue, EnqueueFails,
         MarkFailed, Apart
<1>5. Calm(u)
  BY <1>1, <1>2, <1>3, <1>4, QuietStep DEF Shown, Doomed
<1> QED BY <1>0, <1>5, CalmKeeps

\* The maintenance worker and its tasks: likewise.
LEMMA WorkerKeeps ==
  ASSUME MediaInv, NEW w \in Workers,
         \/ TaskStep(w)
         \/ \E v \in Uploads : ExpireSession(w, v)
         \/ \E x \in Things : ClaimTask(w, x),
         NEW u \in Uploads, blurred \subseteq blurred'
  PROVE  InOrder(u)'
<1> USE DEF database, process, history
<1>0. w \in Processes /\ ProcessOK /\ DatabaseOK /\ TidyList /\ InOrder(u)
  BY DEF MediaInv, TypeOK, Processes
<1>1. CASE TaskStep(w)
  <2>1. Others(w) /\ ~Makes(w, u)' /\ (Dooms(w, u)' => Dooms(w, u))
    <3>1. Release(w) \/ \E label \in {"settle", "retry"} : Goto(w, label)
      BY <1>1 DEF TaskStep, Clean, CleanFails, Settle, SettleFails, Retry
    <3> QED BY <1>0, <3>1, ReleaseMoves, GotoMoves DEF Storing
  <2>2. \A part \in {"main", "preview"} : Has(u, part) => Has(u, part)' \/ Doomed(u)
    <3>1. CASE Clean(w) \/ CleanFails(w)
      BY <1>0, <3>1, HeadDooms DEF Clean, CleanFails, Disposes, MayDispose, Has, Cleaning
    <3> QED BY <1>1, <3>1 DEF TaskStep, Settle, SettleFails, Retry, Has
  <2>3. Condemned(u)' => Doomed(u)
    BY <1>0, <1>1
       DEF TaskStep, Clean, CleanFails, Settle, SettleFails, Retry, Condemned, Doomed,
           DatabaseOK, Things, Parts
  <2>4. kind' = kind /\ rows' = rows /\ (Apart(u)' => Apart(u))
    BY <1>1
       DEF TaskStep, Clean, Disposes, CleanFails, MayDispose, Settle, SettleFails, Retry, Apart
  <2>5. Calm(u)
    BY <1>0, <2>1, <2>2, <2>3, <2>4, QuietStep DEF Shown, Doomed
  <2> QED BY <1>0, <2>5, CalmKeeps
<1>2. ASSUME NEW v \in Uploads, ExpireSession(w, v)
      PROVE  InOrder(u)'
  <2>1. todo'[w] = <<"parts">> /\ pc'[w] = "sweep" /\ Others(w)
    BY <1>0, <1>2 DEF ExpireSession, ProcessOK, Others
  <2>2. ~Makes(w, u)' /\ ~Dooms(w, u)'
    BY <2>1 DEF Makes, Storing, Dooms, Owes
  <2>3. Calm(u)
    BY <1>0, <1>2, <2>1, <2>2, QuietStep
       DEF ExpireSession, Apart, Shown, Condemned, Doomed, Has
  <2> QED BY <1>0, <2>3, CalmKeeps
<1>3. ASSUME NEW x \in Things, ClaimTask(w, x)
      PROVE  InOrder(u)'
  <2>1. /\ todo'[w] = <<x[2]>> /\ on'[w] = x[1] /\ pc'[w] = "clean" /\ Others(w)
        /\ x = <<x[1], x[2]>> /\ task[x] # "none"
    BY <1>0, <1>3 DEF ClaimTask, ProcessOK, Others, Things
  <2>2. ~Makes(w, u)'
    BY <2>1 DEF Makes, Storing
  <2>3. Dooms(w, u)' => Condemned(u)
    BY <2>1 DEF Dooms, Owes, Condemned
  <2>4. Condemned(u)' => Condemned(u)
    BY <1>0, <1>3, <2>1 DEF ClaimTask, Condemned, DatabaseOK
  <2>5. Calm(u)
    BY <1>0, <1>3, <2>1, <2>2, <2>3, <2>4, QuietStep
       DEF ClaimTask, Apart, Shown, Doomed, Has
  <2> QED BY <1>0, <2>5, CalmKeeps
<1> QED BY <1>1, <1>2, <1>3

\* Crashes and the passing of time.
LEMMA TimeKeeps ==
  ASSUME MediaInv, NEW u \in Uploads, blurred \subseteq blurred',
         \/ \E p \in Processes : Crash(p)
         \/ \E v \in Uploads : SessionExpires(v) \/ Purge(v)
         \/ \E x \in Things : BackoffEnds(x) \/ LeaseEnds(x)
         \/ UNCHANGED vars
  PROVE  InOrder(u)'
<1> USE DEF database, process, history, vars
<1>0. ProcessOK /\ DatabaseOK /\ TidyList /\ InOrder(u)
  BY DEF MediaInv, TypeOK
<1>1. ASSUME NEW p \in Processes, Crash(p)
      PROVE  InOrder(u)'
  <2>1. Others(p) /\ ~Makes(p, u)' /\ ~Dooms(p, u)'
    BY <1>0, <1>1, ReleaseMoves DEF Crash
  <2>2. Calm(u)
    BY <1>0, <1>1, <2>1, QuietStep DEF Crash, Apart, Shown, Condemned, Doomed, Has
  <2> QED BY <1>0, <2>2, CalmKeeps
<1>2. ASSUME \/ \E v \in Uploads : SessionExpires(v) \/ Purge(v)
             \/ \E x \in Things : BackoffEnds(x) \/ LeaseEnds(x)
             \/ UNCHANGED vars
      PROVE  InOrder(u)'
  <2>1. UNCHANGED <<kind, rows, stored, process>>
    BY <1>2 DEF SessionExpires, Purge, BackoffEnds, LeaseEnds
  <2>2. Condemned(u)' => Condemned(u)
    BY <1>0, <1>2
       DEF SessionExpires, Purge, BackoffEnds, LeaseEnds, Condemned, DatabaseOK, Things, Parts
  <2>3. Calm(u)
    BY <2>1, <2>2 DEF Calm, Fresh, Apart, Shown, Doomed, Dooms, Owes, Makes, Has
  <2> QED BY <1>0, <2>3, CalmKeeps
<1> QED BY <1>1, <1>2

\* Every upload is in one phase, and has the objects of that phase; a row whose
\* commit was reported as failed may miss them.
THEOREM MediaInvariant == Spec => []MediaInv
<1>1. MediaInv /\ TypeOK' /\ [Next]_vars => MediaInv'
  <2> SUFFICES ASSUME MediaInv, TypeOK', [Next]_vars  PROVE MediaInv'
    OBVIOUS
  <2>1. TidyList'
    BY TidyKeeps DEF MediaInv
  <2>2. ASSUME NEW u \in Uploads  PROVE InOrder(u)'
    <3>1. blurred \subseteq blurred'
      BY BlurredGrows
    <3>2. ASSUME NEW c \in Calls, Request(c) \/ CallStep(c)  PROVE InOrder(u)'
      BY <3>1, <3>2, RequestKeeps, CallKeeps
    <3>3. ASSUME NEW p \in Processes, SweepStep(p)  PROVE InOrder(u)'
      BY <3>1, <3>3, SweepKeeps
    <3>4. ASSUME NEW w \in Workers,
                 \/ TaskStep(w)
                 \/ \E v \in Uploads : ExpireSession(w, v)
                 \/ \E x \in Things : ClaimTask(w, x)
          PROVE  InOrder(u)'
      BY <3>1, <3>4, WorkerKeeps
    <3>5. ASSUME \/ \E p \in Processes : Crash(p)
                 \/ \E v \in Uploads : SessionExpires(v) \/ Purge(v)
                 \/ \E x \in Things : BackoffEnds(x) \/ LeaseEnds(x)
                 \/ UNCHANGED vars
          PROVE  InOrder(u)'
      BY <3>1, <3>5, TimeKeeps
    <3> QED BY <3>2, <3>3, <3>4, <3>5 DEF Next
  <2> QED BY <2>1, <2>2 DEF MediaInv
<1> QED BY <1>1, MediaInitInv, MediaTypeCorrect, PTL DEF Spec

\* The objects of a media row are stored, whatever requests, retries and
\* cleanup tasks do, unless the reply of its commit was lost.
THEOREM MediaRowsHaveObjects == Spec => []RowHasObjects
<1>1. MediaInv => RowHasObjects
  BY DEF MediaInv, TypeOK, DatabaseOK, InOrder, StoredSoFar, RowHasObjects, Shown, HasAll,
         Has
<1> QED BY <1>1, MediaInvariant, PTL

-----------------------------------------------------------------------------
(***************************************************************************)
(* The leases of the cleanup tasks.                                        *)
(***************************************************************************)

\* No worker takes a task up, and a task that is being worked on stays as it is.
NoClaim ==
  /\ contested \subseteq contested'
  /\ \A x \in Things \ contested' :
       /\ Cleaners(x)' \subseteq Cleaners(x)
       /\ Cleaners(x)' # {} => task'[x] = task[x]

LEMMA NoClaimKeeps ==
  ASSUME ExclusiveLease, NoClaim
  PROVE  ExclusiveLease'
BY DEF ExclusiveLease, NoClaim

LEMMA CleanersShrink ==
  ASSUME NEW p \in Processes, Others(p), pc'[p] \notin Cleaning, NEW x
  PROVE  Cleaners(x)' = Cleaners(x) \ {p}
BY DEF Others, Cleaners, Target, Processes

LEMMA IdleMoves ==
  ASSUME ProcessOK, NEW p \in Processes,
         \/ Release(p)
         \/ \E steps : Sweep(p, steps)
         \/ Advance(p)
         \/ \E label \in Labels \ Cleaning : Goto(p, label)
         \/ \E u, label : Begin(p, u, label) /\ label \in Labels \ Cleaning
  PROVE  Others(p) /\ pc'[p] \notin Cleaning
BY DEF ProcessOK, Release, Sweep, Advance, Goto, Begin, Others, Cleaning

\* Without a lease that ended under its owner, a cleanup task has one owner at
\* most, and while it has one it is leased.
THEOREM MediaLeases == Spec => []ExclusiveLease
<1>1. Init => ExclusiveLease
  BY DEF Init, ExclusiveLease, Cleaners, Cleaning, Processes
<1>2. TypeOK /\ ExclusiveLease /\ [Next]_vars => ExclusiveLease'
  <2> SUFFICES ASSUME TypeOK, ExclusiveLease, [Next]_vars PROVE ExclusiveLease'
    OBVIOUS
  <2> USE DEF database, process, history
  <2>0. /\ ProcessOK /\ DatabaseOK
        /\ Calls \subseteq Processes /\ Workers \subseteq Processes
        /\ Calls \intersect Workers = {}
    BY MediaAssumption DEF TypeOK, Processes
  <2>1. ASSUME NEW c \in Calls, Request(c) \/ CallStep(c)  PROVE ExclusiveLease'
    <3>1. CASE Request(c)
      <4>1. \E u, label : Begin(c, u, label) /\ label \in Labels \ Cleaning
        BY <3>1
           DEF Request, BeginDirect, BeginInitiate, BeginComplete, BeginAbort, BeginRemove,
               Labels, Storing, Cleaning
      <4>2. task' = task /\ contested' = contested
        BY <3>1 DEF Request, BeginDirect, BeginInitiate, BeginComplete, BeginAbort, BeginRemove
      <4>3. Others(c) /\ pc'[c] \notin Cleaning
        BY <2>0, <4>1, IdleMoves
      <4> QED BY <2>0, <4>2, <4>3, CleanersShrink, NoClaimKeeps DEF NoClaim
    <3>2. CASE CallStep(c)
      <4>1. \/ Release(c)
            \/ \E steps : Sweep(c, steps)
            \/ \E label \in Labels \ Cleaning : Goto(c, label)
        BY <3>2
           DEF CallStep, PutMain, PutMainFails, PutPreview, PutPreviewFails, Commit,
               CommitFails, CommitLost, Register, RegisterFails, Sign, SignFails, Unregister,
               Assemble, AssembleFails, AssembleLost, HeadMatches, HeadDiffers, HeadFails,
               MarkAborted, DeleteRow, AfterMain, Labels, Storing, Cleaning
      <4>2. task' = task /\ contested' = contested
        BY <3>2
           DEF CallStep, PutMain, PutMainFails, PutPreview, PutPreviewFails, Commit, Publish,
               CommitFails, CommitLost, Register, RegisterFails, Sign, SignFails, Unregister,
               Assemble, AssembleFails, AssembleLost, HeadMatches, HeadDiffers, HeadFails,
               MarkAborted, DeleteRow
      <4>3. Others(c) /\ pc'[c] \notin Cleaning
        BY <2>0, <4>1, IdleMoves
      <4> QED BY <2>0, <4>2, <4>3, CleanersShrink, NoClaimKeeps DEF NoClaim
    <3> QED BY <2>1, <3>1, <3>2
  <2>2. ASSUME NEW p \in Processes, SweepStep(p) \/ Crash(p)  PROVE ExclusiveLease'
    <3>1. Others(p) /\ pc'[p] \notin Cleaning
      <4>1. \/ Release(p) \/ Advance(p)
            \/ \E label \in Labels \ Cleaning : Goto(p, label)
        BY <2>2
           DEF SweepStep, SweepOne, SweepFails, Enqueue, EnqueueFails, MarkFailed, Crash,
               Labels, Cleaning
      <4> QED BY <2>0, <4>1, IdleMoves
    <3>2. CASE Enqueue(p)
      <4>1. \A x \in Things : Cleaners(x)' \subseteq Cleaners(x)
        BY <3>1, CleanersShrink
      <4>2. ASSUME NEW x \in Things \ contested', Cleaners(x)' # {}
            PROVE  task'[x] = task[x]
        BY <2>0, <3>2, <4>1, <4>2 DEF Enqueue, DatabaseOK
      <4> QED BY <3>2, <4>1, <4>2, NoClaimKeeps DEF Enqueue, NoClaim
    <3>3. CASE ~Enqueue(p)
      <4>1. task' = task /\ contested' = contested
        BY <2>2, <3>3
           DEF SweepStep, SweepOne, SweepFails, EnqueueFails, MarkFailed, Crash
      <4> QED BY <3>1, <4>1, CleanersShrink, NoClaimKeeps DEF NoClaim
    <3> QED BY <3>2, <3>3
  <2>3. ASSUME NEW w \in Workers, TaskStep(w)  PROVE ExclusiveLease'
    <3>1. CASE Clean(w) \/ CleanFails(w) \/ SettleFails(w)
      <4>1. /\ task' = task /\ contested' = contested
            /\ \A x \in Things : Cleaners(x)' = Cleaners(x)
        BY <2>0, <3>1
           DEF Clean, CleanFails, SettleFails, Goto, ProcessOK, Cleaners, Target, Cleaning
      <4> QED BY <4>1, NoClaimKeeps DEF NoClaim
    <3>2. CASE Settle(w) \/ Retry(w)
      <4>1. Others(w) /\ pc'[w] \notin Cleaning
        BY <2>0, <3>2, IdleMoves DEF Settle, Retry
      <4>2. \A x \in Things : Cleaners(x)' = Cleaners(x) \ {w}
        BY <2>0, <4>1, CleanersShrink
      <4>3. contested' = contested /\ w \in Cleaners(Target(w))
        BY <3>2 DEF Settle, Retry, Cleaners, Cleaning
      <4>4. ASSUME NEW x \in Things \ contested', Cleaners(x)' # {}
            PROVE  task'[x] = task[x]
        <5>1. x # Target(w)
          BY <4>2, <4>3, <4>4 DEF ExclusiveLease
        <5> QED BY <2>0, <3>2, <5>1 DEF Settle, Retry, DatabaseOK
      <4> QED BY <4>2, <4>3, <4>4, NoClaimKeeps DEF NoClaim
    <3> QED BY <2>3, <3>1, <3>2 DEF TaskStep
  <2>4. ASSUME NEW w \in Workers, NEW u \in Uploads, ExpireSession(w, u)  PROVE ExclusiveLease'
    <3>1. Others(w) /\ pc'[w] \notin Cleaning /\ task' = task /\ contested' = contested
      BY <2>0, <2>4 DEF ExpireSession, ProcessOK, Others, Cleaning
    <3> QED BY <2>0, <3>1, CleanersShrink, NoClaimKeeps DEF NoClaim
  <2>5. ASSUME NEW w \in Workers, NEW x \in Things, ClaimTask(w, x)  PROVE ExclusiveLease'
    <3>1. /\ Others(w) /\ pc[w] \notin Cleaning /\ contested' = contested
          /\ pc'[w] = "clean" /\ Target(w)' = x
      <4>1. x = <<x[1], x[2]>> /\ Head(<<x[2]>>) = x[2]
        BY DEF Things
      <4> QED BY <2>0, <2>5, <4>1 DEF ClaimTask, ProcessOK, Others, Cleaning, Target
    <3>2. \A y \in Things : Cleaners(y)' = IF y = x THEN Cleaners(y) \union {w} ELSE Cleaners(y)
      BY <2>0, <3>1 DEF Cleaners, Target, Others, Cleaning
    <3>3. x \notin contested => Cleaners(x) = {}
      BY <2>5 DEF ClaimTask, ExclusiveLease
    <3>4. \A y \in Things : task'[y] = IF y = x THEN "leased" ELSE task[y]
      BY <2>0, <2>5 DEF ClaimTask, DatabaseOK
    <3> QED BY <3>1, <3>2, <3>3, <3>4 DEF ExclusiveLease
  <2>6. ASSUME NEW u \in Uploads, SessionExpires(u) \/ Purge(u)  PROVE ExclusiveLease'
    BY <2>6, NoClaimKeeps DEF SessionExpires, Purge, NoClaim, Cleaners, Target
  <2>7. ASSUME NEW x \in Things, BackoffEnds(x) \/ LeaseEnds(x)  PROVE ExclusiveLease'
    <3>1. contested \subseteq contested' /\ \A y \in Things : Cleaners(y)' = Cleaners(y)
      BY <2>7 DEF BackoffEnds, LeaseEnds, Cleaners, Target
    <3>2. ASSUME NEW y \in Things \ contested', Cleaners(y) # {}  PROVE task'[y] = task[y]
      BY <2>0, <2>7, <3>1, <3>2 DEF BackoffEnds, LeaseEnds, DatabaseOK, ExclusiveLease
    <3> QED BY <3>1, <3>2, NoClaimKeeps DEF NoClaim
  <2>8. CASE UNCHANGED vars
    BY <2>8, NoClaimKeeps DEF vars, NoClaim, Cleaners, Target
  <2> QED BY <2>1, <2>2, <2>3, <2>4, <2>5, <2>6, <2>7, <2>8 DEF Next
<1> QED BY <1>1, <1>2, MediaTypeCorrect, PTL DEF Spec

-----------------------------------------------------------------------------
(***************************************************************************)
(* Nothing leaks.  A thing in S3 is held by what is in the database, or    *)
(* somebody answers for it who leaves a trace if he dies: the clean-up of  *)
(* a task does not count, because its crash leaves none, and need not,     *)
(* because the task is there until the thing is gone.                      *)
(***************************************************************************)

Untouched(u) == /\ session[u] = "none"
                /\ \A part \in Parts : <<u, part>> \notin stored /\ task[<<u, part>>] = "none"
                /\ \A p \in Processes : on[p] # u

Begun(u) == Fresh(u) => Untouched(u)

\* Only an image gets a preview, and last.
Previews(u) ==
  /\ Has(u, "preview") => kind[u] = "image" /\ ~Apart(u)
  /\ \A p \in Processes : on[p] = u =>
       /\ pc[p] = "preview" => kind[u] = "image"
       /\ pc[p] \in {"putMain", "head"} => ~Has(u, "preview")

\* Whoever has the object, or fails the session for it, has used up the parts;
\* and what is settled is gone.
Spent(p) ==
  /\ pc[p] \in Storing \/ Owes(p, "session") => <<on[p], "parts">> \notin stored
  /\ pc[p] = "settle" => Target(p) \notin stored

Held(u, part) ==
  \/ u \in faulted
  \/ task[<<u, part>>] # "none"
  \/ part = "parts" /\ session[u] = "INITIATED"
  \/ part # "parts" /\ u \in rows

Answers(p, u, part) ==
  /\ on[p] = u
  /\ \/ pc[p] \in {"sweep", "enqueue"} /\ Owes(p, part)
     \/ part = "parts" /\ pc[p] \in {"register", "unregister"}
     \/ part # "parts" /\ pc[p] \in Storing

Kept(u, part) ==
  Has(u, part) => Held(u, part) \/ \E p \in Processes : Answers(p, u, part)

LeakInv == /\ \A u \in Uploads : /\ Begun(u) /\ Previews(u)
                                 /\ \A part \in Parts : Kept(u, part)
           /\ \A p \in Processes : Spent(p)

\* What a step of process p must not lose.
LEMMA KeepsOn ==
  ASSUME NEW p \in Processes, Others(p), NEW u \in Uploads, NEW part \in Parts, Kept(u, part),
         Has(u, part)' => Has(u, part) \/ Held(u, part)' \/ Answers(p, u, part)',
         Held(u, part) => Held(u, part)' \/ Answers(p, u, part)' \/ ~Has(u, part)',
         Answers(p, u, part) => Held(u, part)' \/ Answers(p, u, part)' \/ ~Has(u, part)'
  PROVE  Kept(u, part)'
<1>1. \A q \in Processes \ {p} : Answers(q, u, part)' <=> Answers(q, u, part)
  BY DEF Others, Answers, Owes
<1> QED BY <1>1 DEF Kept

\* A list of clean-up steps names a part.
Names(steps, part) == \E i \in 1 .. Len(steps) : steps[i] = part

LEMMA Lists ==
  ASSUME NEW u \in Uploads
  PROVE  /\ Names(Undo(u), "main") /\ (kind[u] = "image" => Names(Undo(u), "preview"))
         /\ \A part \in Steps : Names(<<part>>, part)
         /\ \A part \in Parts : ~Names(<<part>>, "session")
         /\ Names(<<"main", "preview">>, "main") /\ Names(<<"main", "preview">>, "preview")
         /\ Names(<<"main", "session">>, "main") /\ Names(<<"session", "main">>, "main")
         /\ ~Names(<<>>, "session")
<1>1. \A a, b : /\ Len(<<a, b>>) = 2 /\ <<a, b>>[1] = a /\ <<a, b>>[2] = b
                /\ Names(<<a, b>>, a) /\ Names(<<a, b>>, b)
  BY DEF Names
<1>2. \A a : /\ Len(<<a>>) = 1 /\ <<a>>[1] = a
             /\ Names(<<a>>, a) /\ \A b : Names(<<a>>, b) => b = a
  BY DEF Names
<1>3. \A a, b, c : Names(<<a, b, c>>, a) /\ Names(<<a, b, c>>, b)
  BY DEF Names
<1>4. "session" \notin Parts /\ ~Names(<<>>, "session")
  BY DEF Parts, Names
<1>5. Names(Undo(u), "main") /\ (kind[u] = "image" => Names(Undo(u), "preview"))
  BY <1>1, <1>2, <1>3 DEF Undo
<1> QED BY <1>1, <1>2, <1>4, <1>5

LEMMA SweepAnswers ==
  ASSUME ProcessOK, NEW p \in Processes, NEW steps, Sweep(p, steps)
  PROVE  /\ Others(p) /\ on'[p] = on[p] /\ pc'[p] = "sweep"
         /\ \A u, part : Answers(p, u, part)' <=> u = on[p] /\ Names(steps, part)
         /\ Owes(p, "session")' <=> Names(steps, "session")
<1>1. todo'[p] = steps /\ on'[p] = on[p] /\ pc'[p] = "sweep" /\ Others(p)
  BY DEF ProcessOK, Sweep, Others
<1>2. \A part : Owes(p, part)' <=> Names(steps, part)
  BY <1>1 DEF Owes, Names
<1> QED BY <1>1, <1>2 DEF Answers, Storing

LEMMA ReleaseAnswers ==
  ASSUME ProcessOK, NEW p \in Processes, Release(p)
  PROVE  /\ Others(p) /\ on'[p] = NoUpload /\ pc'[p] = "idle"
         /\ \A u, part : ~Answers(p, u, part)'
         /\ ~Owes(p, "session")'
<1>1. todo'[p] = <<>> /\ on'[p] = NoUpload /\ pc'[p] = "idle" /\ Others(p)
  BY DEF ProcessOK, Release, Others
<1>2. \A part : ~Owes(p, part)'
  BY <1>1 DEF Owes
<1> QED BY <1>1, <1>2 DEF Answers, Storing

\* Every step but the first of the list remains.
LEMMA AdvanceAnswers ==
  ASSUME ProcessOK, NEW p \in Processes, pc[p] \in {"sweep", "enqueue"}, Advance(p)
  PROVE  /\ Others(p) /\ on'[p] \in {on[p], NoUpload} /\ pc'[p] \in {"idle", "sweep"}
         /\ \A u \in Uploads : \A part : Answers(p, u, part) /\ part # Head(todo[p])
                                     => Answers(p, u, part)'
         /\ Owes(p, "session")' => Owes(p, "session") /\ on'[p] = on[p]
<1>1. todo[p] \in Seq(Steps) /\ todo[p] # <<>>
  BY DEF ProcessOK, Steps
<1>2. Len(todo[p]) \in Nat \ {0} /\ Head(todo[p]) = todo[p][1]
  BY <1>1, EmptySeq
<1>3. CASE Len(todo[p]) = 1
  <2>1. \A part : Owes(p, part) => part = Head(todo[p])
    BY <1>2, <1>3 DEF Owes
  <2>2. Release(p)
    BY <1>3 DEF Advance
  <2> QED BY <2>1, <2>2, ReleaseAnswers DEF Answers, Storing
<1>4. CASE Len(todo[p]) # 1
  <2>1. Sweep(p, Tail(todo[p]))
    BY <1>4 DEF Advance
  <2>2. /\ Len(Tail(todo[p])) = Len(todo[p]) - 1
        /\ \A i \in 1 .. Len(Tail(todo[p])) : Tail(todo[p])[i] = todo[p][i + 1]
    BY <1>1, HeadTailProperties
  <2>3. \A i \in 1 .. Len(todo[p]) :
          i = 1 \/ (i - 1 \in 1 .. Len(Tail(todo[p])) /\ Tail(todo[p])[i - 1] = todo[p][i])
    BY <1>2, <2>2
  <2>4. \A part : Owes(p, part) /\ part # Head(todo[p]) => Names(Tail(todo[p]), part)
    BY <1>2, <2>3 DEF Owes, Names
  <2>5. Names(Tail(todo[p]), "session") => Owes(p, "session")
    <3>1. \A i \in 1 .. Len(Tail(todo[p])) :
            i + 1 \in 1 .. Len(todo[p]) /\ Tail(todo[p])[i] = todo[p][i + 1]
      BY <1>2, <2>2
    <3> QED BY <3>1 DEF Owes, Names
  <2> QED BY <2>1, <2>4, <2>5, SweepAnswers DEF Answers, Storing
<1> QED BY <1>3, <1>4

\* Nobody touches an upload that has not begun, except to begin it.
LEMMA BegunKeeps ==
  ASSUME MediaInv, LeakInv, [Next]_vars, NEW u \in Uploads
  PROVE  Begun(u)'
<1> SUFFICES ASSUME Fresh(u)' PROVE Untouched(u)'
  BY DEF Begun
<1> USE DEF database, process, history, vars
<1>0. /\ ProcessOK /\ DatabaseOK
      /\ Calls \subseteq Processes /\ Workers \subseteq Processes
      /\ \A part \in Parts : <<u, part>> \in Things
  BY DEF MediaInv, TypeOK, Processes, Things
<1>1. Begun(u) /\ InOrder(u)
  BY DEF LeakInv, MediaInv
<1>2. ASSUME NEW p \in Processes, Fresh(u), pc[p] # "idle",
             \/ Release(p) \/ Advance(p)
             \/ \E label : Goto(p, label)
             \/ \E steps : Sweep(p, steps)
      PROVE  \A q \in Processes : on'[q] # u
  BY <1>0, <1>1, <1>2, MediaAssumption
     DEF Begun, Untouched, ProcessOK, Release, Advance, Goto, Sweep
<1>3. ASSUME NEW c \in Calls, Request(c)  PROVE Untouched(u)'
  <2>1. PICK v \in Uploads : \/ BeginDirect(c, v) \/ BeginInitiate(c, v) \/ BeginComplete(c, v)
                             \/ BeginAbort(c, v) \/ BeginRemove(c, v)
    BY <1>3 DEF Request
  <2>2. Fresh(u) /\ u # v
    <3>1. CASE BeginDirect(c, v) \/ BeginInitiate(c, v)
      BY <1>0, <3>1 DEF BeginDirect, BeginInitiate, Fresh, DatabaseOK
    <3>2. CASE BeginComplete(c, v) \/ BeginAbort(c, v) \/ BeginRemove(c, v)
      BY <1>1, <3>2
         DEF BeginComplete, BeginAbort, BeginRemove, Fresh, Begun, Untouched, InOrder, OnePhase,
             Shown
    <3> QED BY <2>1, <3>1, <3>2
  <2>3. /\ session' = session /\ task' = task
        /\ \A part \in Parts : <<u, part>> \in stored' => <<u, part>> \in stored
        /\ \A q \in Processes : on'[q] = on[q] \/ on'[q] = v
    BY <1>0, <2>1, <2>2
       DEF BeginDirect, BeginInitiate, BeginComplete, BeginAbort, BeginRemove, Begin, ProcessOK
  <2> QED BY <1>1, <2>2, <2>3 DEF Begun, Untouched
<1>4. ASSUME NEW c \in Calls, CallStep(c)  PROVE Untouched(u)'
  <2>1. Fresh(u)
    BY <1>4
       DEF Fresh, CallStep, PutMain, PutMainFails, PutPreview, PutPreviewFails, Commit,
           CommitFails, CommitLost, Register, RegisterFails, Sign, SignFails, Unregister,
           Assemble, AssembleFails, AssembleLost, HeadMatches, HeadDiffers, HeadFails,
           MarkAborted, DeleteRow
  <2>2. on[c] # u
    BY <1>0, <1>1, <2>1 DEF Begun, Untouched
  <2>3. /\ session'[u] = session[u] /\ task' = task
        /\ \A part \in Parts : <<u, part>> \in stored' => <<u, part>> \in stored
    BY <1>0, <1>4, <2>2
       DEF CallStep, PutMain, PutMainFails, MayPut, PutPreview, PutPreviewFails, Commit, Publish,
           CommitFails, CommitLost, Register, RegisterFails, Sign, SignFails, Unregister,
           Assemble, Assembles, AssembleFails, AssembleLost, HeadMatches, HeadDiffers, HeadFails,
           MarkAborted, DeleteRow, DatabaseOK
  <2>4. /\ pc[c] # "idle"
        /\ \/ Release(c) \/ \E label : Goto(c, label)
           \/ \E steps : Sweep(c, steps)
    BY <1>4
       DEF CallStep, PutMain, PutMainFails, PutPreview, PutPreviewFails, Commit,
           CommitFails, CommitLost, Register, RegisterFails, Sign, SignFails, Unregister,
           Assemble, AssembleFails, AssembleLost, HeadMatches, HeadDiffers, HeadFails,
           MarkAborted, DeleteRow
  <2> QED BY <1>0, <1>1, <1>2, <2>1, <2>3, <2>4 DEF Begun, Untouched
<1>5. ASSUME NEW p \in Processes, SweepStep(p) \/ Crash(p)  PROVE Untouched(u)'
  <2>1. Fresh(u)
    BY <1>5
       DEF Fresh, SweepStep, SweepOne, SweepFails, Enqueue, EnqueueFails, MarkFailed, Crash
  <2>2. on[p] # u
    BY <1>1, <2>1 DEF Begun, Untouched
  <2>3. /\ session'[u] = session[u] /\ \A part \in Parts : task'[<<u, part>>] = task[<<u, part>>]
        /\ stored' \subseteq stored
    BY <1>0, <1>5, <2>2
       DEF SweepStep, SweepOne, Disposes, SweepFails, MayDispose, Enqueue, EnqueueFails,
           MarkFailed, Crash, DatabaseOK, Target
  <2>4. /\ pc[p] # "idle"
        /\ Release(p) \/ Advance(p) \/ \E label : Goto(p, label)
    BY <1>5
       DEF SweepStep, SweepOne, Sweeping, SweepFails, Enqueue, EnqueueFails, MarkFailed, Crash
  <2> QED BY <1>1, <1>2, <2>1, <2>3, <2>4 DEF Begun, Untouched
<1>6. ASSUME NEW w \in Workers, TaskStep(w)  PROVE Untouched(u)'
  <2>1. Fresh(u)
    BY <1>6 DEF Fresh, TaskStep, Clean, CleanFails, Settle, SettleFails, Retry
  <2>2. on[w] # u
    BY <1>0, <1>1, <2>1 DEF Begun, Untouched
  <2>3. /\ session' = session /\ \A part \in Parts : task'[<<u, part>>] = task[<<u, part>>]
        /\ stored' \subseteq stored
    BY <1>0, <1>6, <2>2
       DEF TaskStep, Clean, Disposes, CleanFails, MayDispose, Settle, SettleFails, Retry,
           DatabaseOK, Target
  <2>4. pc[w] # "idle" /\ (Release(w) \/ \E label : Goto(w, label))
    BY <1>6 DEF TaskStep, Clean, CleanFails, Settle, SettleFails, Retry
  <2> QED BY <1>0, <1>1, <1>2, <2>1, <2>3, <2>4 DEF Begun, Untouched
<1>7. ASSUME NEW w \in Workers,
             \/ \E v \in Uploads : ExpireSession(w, v)
             \/ \E x \in Things : ClaimTask(w, x)
      PROVE  Untouched(u)'
  <2>1. Fresh(u)
    BY <1>7 DEF ExpireSession, ClaimTask, Fresh
  <2>2. CASE \E v \in Uploads : ExpireSession(w, v)
    BY <1>0, <1>1, <2>1, <2>2 DEF ExpireSession, Begun, Untouched, DatabaseOK, ProcessOK
  <2>3. CASE \E x \in Things : ClaimTask(w, x)
    <3>1. PICK x \in Things : ClaimTask(w, x)
      BY <2>3
    <3>2. x[1] # u
      BY <1>1, <2>1, <3>1 DEF ClaimTask, Begun, Untouched, Things
    <3>3. \A part \in Parts : <<u, part>> # x
      BY <3>2
    <3> QED
      BY <1>0, <1>1, <2>1, <3>1, <3>2, <3>3 DEF ClaimTask, Begun, Untouched, DatabaseOK, ProcessOK
  <2> QED BY <1>7, <2>2, <2>3
<1>8. ASSUME \/ \E v \in Uploads : SessionExpires(v) \/ Purge(v)
             \/ \E x \in Things : BackoffEnds(x) \/ LeaseEnds(x)
             \/ UNCHANGED vars
      PROVE  Untouched(u)'
  <2>1. Fresh(u)
    BY <1>8 DEF SessionExpires, Purge, BackoffEnds, LeaseEnds, Fresh
  <2> QED
    BY <1>0, <1>1, <1>8, <2>1
       DEF SessionExpires, Purge, BackoffEnds, LeaseEnds, Begun, Untouched, DatabaseOK
<1> QED BY <1>3, <1>4, <1>5, <1>6, <1>7, <1>8 DEF Next

\* Only the preview step stores a preview, and before it there is none.
LEMMA PreviewsKeeps ==
  ASSUME MediaInv, LeakInv, [Next]_vars, NEW u \in Uploads
  PROVE  Previews(u)'
<1> USE DEF database, process, history, vars
<1>0. /\ ProcessOK /\ DatabaseOK
      /\ Calls \subseteq Processes /\ Workers \subseteq Processes
  BY DEF MediaInv, TypeOK, Processes
<1>1. Begun(u) /\ InOrder(u) /\ Previews(u)
  BY DEF LeakInv, MediaInv
<1>q. ASSUME UNCHANGED kind, Has(u, "preview")' => Has(u, "preview"), Apart(u)' => Apart(u),
             \A p \in Processes : pc'[p] \in {"preview", "putMain", "head"} => pc'[p] = pc[p] /\ on'[p] = on[p]
      PROVE  Previews(u)'
  BY <1>1, <1>q DEF Previews
<1>3. ASSUME NEW c \in Calls, Request(c)  PROVE Previews(u)'
  <2>1. PICK v \in Uploads : \/ BeginDirect(c, v) \/ BeginInitiate(c, v) \/ BeginComplete(c, v)
                             \/ BeginAbort(c, v) \/ BeginRemove(c, v)
    BY <1>3 DEF Request
  <2>2. CASE BeginDirect(c, v) \/ BeginInitiate(c, v)
    <3>1. u = v => Fresh(u) /\ Untouched(u)
      BY <1>1, <2>2 DEF BeginDirect, BeginInitiate, Fresh, Begun
    <3>2. /\ u # v => kind'[u] = kind[u] /\ (Apart(u)' => Apart(u))
          /\ Has(u, "preview")' => Has(u, "preview")
          /\ \A p \in Processes : on'[p] = u /\ p # c => pc'[p] = pc[p] /\ on[p] = u
          /\ on'[c] = v /\ pc'[c] \in {"putMain", "register"}
      BY <1>0, <2>2
         DEF BeginDirect, BeginInitiate, Begin, Has, Apart, ProcessOK, DatabaseOK
    <3> QED BY <1>0, <1>1, <3>1, <3>2 DEF Previews, Untouched, Has, Parts
  <2>3. CASE BeginComplete(c, v) \/ BeginAbort(c, v) \/ BeginRemove(c, v)
    <3>1. \A p \in Processes : pc'[p] \in {"preview", "putMain", "head"}
                               => pc'[p] = pc[p] /\ on'[p] = on[p]
      BY <1>0, <2>3 DEF BeginComplete, BeginAbort, BeginRemove, Begin, ProcessOK
    <3> QED BY <1>q, <2>3, <3>1 DEF BeginComplete, BeginAbort, BeginRemove, Has, Apart
  <2> QED BY <2>1, <2>2, <2>3
<1>4. ASSUME NEW c \in Calls, CallStep(c)  PROVE Previews(u)'
  <2>0. on[c] # NoUpload => on[c] \in Uploads
    BY <1>0, <1>4 DEF ProcessOK
  <2>1. CASE PutMain(c) \/ HeadMatches(c)
    <3>1. Others(c) /\ on'[c] = on[c] /\ pc'[c] = AfterMain(on[c])
      BY <1>0, <2>1 DEF PutMain, HeadMatches, Goto, Others, ProcessOK
    <3>2. kind' = kind /\ (Has(u, "preview")' <=> Has(u, "preview")) /\ (Apart(u)' <=> Apart(u))
      BY <2>1 DEF PutMain, HeadMatches, Has, Apart
    <3> QED BY <1>1, <3>1, <3>2 DEF Previews, AfterMain, Others
  <2>2. CASE PutPreview(c) \/ PutPreviewFails(c)
    <3>1. Others(c) /\ on'[c] = on[c] /\ pc'[c] \in {"commit", "sweep"}
      BY <1>0, <2>2 DEF PutPreview, PutPreviewFails, Goto, Sweep, Others, ProcessOK
    <3>2. kind' = kind /\ (Apart(u)' <=> Apart(u))
      BY <2>2 DEF PutPreview, PutPreviewFails, MayPut, Apart
    <3>3. CASE on[c] # u
      <4>1. Has(u, "preview")' <=> Has(u, "preview")
        BY <2>2, <3>3 DEF PutPreview, PutPreviewFails, MayPut, Has
      <4> QED BY <1>1, <3>1, <3>2, <4>1 DEF Previews, Others
    <3>4. CASE on[c] = u
      <4>1. Makes(c, u) /\ pc[c] = "preview"
        BY <2>2, <3>4 DEF PutPreview, PutPreviewFails, Makes, Storing
      <4>2. kind[u] = "image" /\ ~Apart(u)
        BY <1>0, <1>1, <3>4, <4>1 DEF Previews, InOrder, OnePhase, Made
      <4>3. \A q \in Processes \ {c} : ~Makes(q, u)
        BY <1>0, <1>1, <4>1 DEF InOrder, OnePhase
      <4> QED BY <3>1, <3>2, <4>2, <4>3 DEF Previews, Others, Makes, Storing
    <3> QED BY <3>3, <3>4
  <2>3. CASE Assemble(c)
    <3>1. Others(c) /\ on'[c] = on[c] /\ pc'[c] = "head"
      BY <1>0, <2>3 DEF Assemble, Goto, Others, ProcessOK
    <3>2. /\ kind' = kind /\ (Has(u, "preview")' <=> Has(u, "preview"))
          /\ Apart(u)' => Apart(u)
          /\ on[c] = u => Apart(u)
      BY <2>3 DEF Assemble, Assembles, Has, Apart
    <3> QED BY <1>1, <3>1, <3>2 DEF Previews, Others
  <2>4. CASE ~(PutMain(c) \/ HeadMatches(c) \/ PutPreview(c) \/ PutPreviewFails(c) \/ Assemble(c))
    <3>1. \A p \in Processes : pc'[p] \in {"preview", "putMain", "head"}
                               => pc'[p] = pc[p] /\ on'[p] = on[p]
      BY <1>0, <1>4, <2>4
         DEF CallStep, PutMainFails, Commit,
             CommitFails, CommitLost, Register, RegisterFails, Sign, SignFails, Unregister,
             AssembleFails, AssembleLost, HeadDiffers, HeadFails, MarkAborted, DeleteRow,
             Release, Goto, Sweep, ProcessOK
    <3>2. kind' = kind /\ (Has(u, "preview")' => Has(u, "preview")) /\ (Apart(u)' => Apart(u))
      BY <1>4, <2>4
         DEF CallStep, PutMainFails, MayPut, Commit,
             CommitFails, CommitLost, Register, RegisterFails, Sign, SignFails, Unregister,
             AssembleFails, AssembleLost, Assembles, HeadDiffers, HeadFails, MarkAborted,
             DeleteRow, Has, Apart
    <3> QED BY <1>q, <3>1, <3>2
  <2> QED BY <2>1, <2>2, <2>3, <2>4
<1>5. ASSUME NEW p \in Processes, SweepStep(p) \/ Crash(p)  PROVE Previews(u)'
  <2>1. \A q \in Processes : pc'[q] \in {"preview", "putMain", "head"}
                             => pc'[q] = pc[q] /\ on'[q] = on[q]
    BY <1>0, <1>5
       DEF SweepStep, SweepOne, SweepFails, Enqueue, EnqueueFails, MarkFailed, Crash,
           Release, Goto, Sweep, Advance, ProcessOK
  <2>2. kind' = kind /\ stored' \subseteq stored
    BY <1>5
       DEF SweepStep, SweepOne, Disposes, SweepFails, MayDispose, Enqueue, EnqueueFails,
           MarkFailed, Crash
  <2> QED BY <1>q, <2>1, <2>2 DEF Has, Apart
<1>6. ASSUME NEW w \in Workers,
             \/ TaskStep(w)
             \/ \E v \in Uploads : ExpireSession(w, v)
             \/ \E x \in Things : ClaimTask(w, x)
      PROVE  Previews(u)'
  <2>1. \A q \in Processes : pc'[q] \in {"preview", "putMain", "head"}
                             => pc'[q] = pc[q] /\ on'[q] = on[q]
    BY <1>0, <1>6
       DEF TaskStep, Clean, CleanFails, Settle, SettleFails, Retry, ExpireSession, ClaimTask,
           Release, Goto, ProcessOK
  <2>2. kind' = kind /\ stored' \subseteq stored
    BY <1>6
       DEF TaskStep, Clean, Disposes, CleanFails, MayDispose, Settle, SettleFails, Retry,
           ExpireSession, ClaimTask
  <2> QED BY <1>q, <2>1, <2>2 DEF Has, Apart
<1>7. ASSUME \/ \E v \in Uploads : SessionExpires(v) \/ Purge(v)
             \/ \E x \in Things : BackoffEnds(x) \/ LeaseEnds(x)
             \/ UNCHANGED vars
      PROVE  Previews(u)'
  BY <1>q, <1>7 DEF SessionExpires, Purge, BackoffEnds, LeaseEnds, Has, Apart
<1> QED BY <1>3, <1>4, <1>5, <1>6, <1>7 DEF Next

\* Parts are stored only when an upload begins, and objects only while nobody
\* is to delete them.
LEMMA SpentKeeps ==
  ASSUME MediaInv, LeakInv, TypeOK', [Next]_vars, NEW p \in Processes
  PROVE  Spent(p)'
<1> USE DEF database, process, history, vars
<1>0. /\ ProcessOK /\ DatabaseOK /\ ProcessOK' /\ DatabaseOK' /\ TidyList
      /\ Calls \subseteq Processes /\ Workers \subseteq Processes
  BY DEF MediaInv, TypeOK, Processes
<1>1. Spent(p) /\ \A u \in Uploads : Begun(u) /\ InOrder(u)
  BY DEF LeakInv, MediaInv
<1>t. /\ ~Owes(p, "session") \/ on[p] \in Uploads
      /\ pc[p] = "settle" => on[p] \in Uploads /\ Head(todo[p]) \in Parts
  <2>1. pc[p] = "idle" => ~Owes(p, "session")
    BY <1>0 DEF TidyList, Owes, Cleaning
  <2> QED BY <1>0, <2>1 DEF ProcessOK, Cleaning
<1>o. ASSUME NEW q \in Processes \ {p}, Others(q),
             pc[p] \in Storing \/ Owes(p, "session") =>
               (<<on[p], "parts">> \in stored' => <<on[p], "parts">> \in stored),
             pc[p] = "settle" => (Target(p) \in stored' => Target(p) \in stored)
      PROVE  Spent(p)'
  BY <1>1, <1>o DEF Spent, Others, Owes, Target
<1>s. ASSUME pc'[p] = pc[p], on'[p] = on[p], todo'[p] = todo[p], stored' \subseteq stored
      PROVE  Spent(p)'
  BY <1>1, <1>s DEF Spent, Owes, Target
<1>d. ASSUME NEW u \in Uploads, Made(u) \/ Apart(u), pc[p] = "settle",
             NEW part \in {"main", "preview"}
      PROVE  Target(p) # <<u, part>>
  BY <1>0, <1>1, <1>d, HeadDooms DEF InOrder, OnePhase, Cleaning
<1>3. ASSUME NEW c \in Calls, Request(c)  PROVE Spent(p)'
  <2>1. PICK v \in Uploads : \/ BeginDirect(c, v) \/ BeginInitiate(c, v) \/ BeginComplete(c, v)
                             \/ BeginAbort(c, v) \/ BeginRemove(c, v)
    BY <1>3 DEF Request
  <2>2. PICK label \in {"putMain", "register", "assemble", "markAborted", "deleteRow"} :
          /\ Begin(c, v, label)
          /\ label = "putMain" => Fresh(v) /\ stored' = stored
    BY <2>1 DEF BeginDirect, BeginInitiate, BeginComplete, BeginAbort, BeginRemove, Fresh
  <2>3. /\ Others(c) /\ on'[c] = v /\ pc'[c] = label /\ todo'[c] = <<>>
    BY <1>0, <2>2 DEF Begin, Others, ProcessOK, TidyList, Cleaning
  <2>4. CASE p = c
    <3>1. ~Owes(c, "session")'
      BY <2>3 DEF Owes
    <3>2. label = "putMain" => <<v, "parts">> \notin stored'
      BY <1>0, <1>1, <2>2 DEF InOrder, OnePhase, Apart
    <3> QED BY <2>3, <2>4, <3>1, <3>2 DEF Spent, Storing
  <2>5. CASE p # c
    <3>1. \A part \in Parts, u \in Uploads :
            on[p] = u => (<<u, part>> \in stored' => <<u, part>> \in stored)
      <4>1. CASE BeginInitiate(c, v)
        <5>1. on[p] # v
          BY <1>1, <4>1 DEF BeginInitiate, Begun, Untouched, Fresh
        <5> QED BY <4>1, <5>1 DEF BeginInitiate
      <4> QED BY <2>1, <4>1 DEF BeginDirect, BeginComplete, BeginAbort, BeginRemove
    <3>2. pc[p] \in Storing => on[p] \in Uploads
      BY <1>0 DEF ProcessOK, Storing
    <3>3. "parts" \in Parts
      BY DEF Parts
    <3> QED BY <1>0, <1>o, <1>t, <2>3, <2>5, <3>1, <3>2, <3>3 DEF Target
  <2> QED BY <2>4, <2>5
<1>4. ASSUME NEW c \in Calls, CallStep(c)  PROVE Spent(p)'
  <2>0. c \in Processes /\ on[c] \in Uploads /\ pc[c] \notin Cleaning \union {"sweep", "enqueue", "idle"}
    BY <1>0, <1>4
       DEF ProcessOK, Cleaning, CallStep, PutMain, PutMainFails, PutPreview, PutPreviewFails,
           Commit, CommitFails, CommitLost, Register, RegisterFails, Sign, SignFails, Unregister,
           Assemble, AssembleFails, AssembleLost, HeadMatches, HeadDiffers, HeadFails,
           MarkAborted, DeleteRow
  <2>1. \A u \in Uploads : <<u, "parts">> \in stored' => <<u, "parts">> \in stored
    BY <1>4
       DEF CallStep, PutMain, PutMainFails, MayPut, PutPreview, PutPreviewFails, Commit,
           CommitFails, CommitLost, Register, RegisterFails, Sign, SignFails, Unregister,
           Assemble, Assembles, AssembleFails, AssembleLost, HeadMatches, HeadDiffers, HeadFails,
           MarkAborted, DeleteRow
  <2>2. \/ Release(c)
        \/ \E label \in Labels \ Cleaning : Goto(c, label)
        \/ \E steps : Sweep(c, steps)
    BY <1>4
       DEF CallStep, PutMain, PutMainFails, PutPreview, PutPreviewFails, Commit,
           CommitFails, CommitLost, Register, RegisterFails, Sign, SignFails, Unregister,
           Assemble, AssembleFails, AssembleLost, HeadMatches, HeadDiffers, HeadFails,
           MarkAborted, DeleteRow, AfterMain, Labels, Storing, Cleaning
  <2>3. Others(c) /\ pc'[c] \notin Cleaning
    BY <1>0, <2>0, <2>2, IdleMoves
  <2>4. CASE p # c
    <3>1. ASSUME pc[p] = "settle"  PROVE Target(p) \in stored' => Target(p) \in stored
      <4>1. Target(p) = <<on[p], Head(todo[p])>> /\ on[p] \in Uploads /\ Head(todo[p]) \in Parts
        BY <1>t, <3>1 DEF Target
      <4>2. Target(p) \in stored' =>
              \/ Target(p) \in stored
              \/ /\ Made(on[c]) \/ Apart(on[c])
                 /\ \E part \in {"main", "preview"} : Target(p) = <<on[c], part>>
        BY <1>4, <2>0
           DEF CallStep, PutMain, PutMainFails, MayPut, PutPreview, PutPreviewFails, Commit,
               CommitFails, CommitLost, Register, RegisterFails, Sign, SignFails, Unregister,
               Assemble, Assembles, AssembleFails, AssembleLost, HeadMatches, HeadDiffers,
               HeadFails, MarkAborted, DeleteRow, Made, Makes, Storing, Apart
      <4> QED BY <1>d, <2>0, <3>1, <4>2
    <3>2. pc[p] \in Storing => on[p] \in Uploads
      BY <1>0 DEF ProcessOK, Storing
    <3> QED BY <1>o, <1>t, <2>0, <2>1, <2>3, <2>4, <3>1, <3>2
  <2>5. CASE p = c
    <3>0. ~Owes(c, "session")
      BY <1>0, <2>0 DEF TidyList, Owes
    <3>1. CASE pc[c] \in Storing
      <4>1. <<on[c], "parts">> \notin stored'
        BY <1>1, <2>0, <2>1, <2>5, <3>1 DEF Spent
      <4>2. CASE Release(c)
        BY <1>0, <2>0, <2>3, <2>5, <4>2, ReleaseAnswers DEF Spent, Storing, Cleaning
      <4>3. CASE ~Release(c)
        <5>1. on'[c] = on[c]
          BY <2>2, <4>3 DEF Goto, Sweep
        <5> QED BY <2>3, <2>5, <4>1, <5>1 DEF Spent, Cleaning
      <4> QED BY <4>2, <4>3
    <3>2. CASE pc[c] \notin Storing
      <4>1. \/ Register(c) \/ RegisterFails(c) \/ Sign(c) \/ SignFails(c) \/ Unregister(c)
            \/ Assemble(c) \/ AssembleFails(c) \/ AssembleLost(c) \/ MarkAborted(c)
            \/ DeleteRow(c)
        BY <1>4, <3>2
           DEF CallStep, PutMain, PutMainFails, PutPreview, PutPreviewFails, Commit,
               CommitFails, CommitLost, HeadMatches, HeadDiffers, HeadFails, Storing
      <4>2. CASE \/ Register(c) \/ RegisterFails(c) \/ SignFails(c) \/ Assemble(c)
        <5>1. todo' = todo /\ on' = on
          BY <4>2 DEF Register, RegisterFails, SignFails, Assemble, Goto
        <5>2. ~Owes(c, "session")'
          BY <3>0, <5>1 DEF Owes
        <5>3. pc'[c] \in Storing => Assemble(c)
          BY <1>0, <2>0, <4>2
             DEF Register, RegisterFails, SignFails, Goto, ProcessOK, Storing
        <5>4. Assemble(c) => <<on[c], "parts">> \notin stored'
          BY DEF Assemble, Assembles
        <5> QED BY <2>3, <2>5, <5>1, <5>2, <5>3, <5>4 DEF Spent, Cleaning
      <4>3. CASE Release(c)
        BY <1>0, <2>0, <2>3, <2>5, <4>3, ReleaseAnswers DEF Spent, Storing, Cleaning
      <4>4. CASE Sweep(c, <<"parts">>)
        <5>1. ~Names(<<"parts">>, "session")
          BY <2>0, Lists DEF Parts
        <5> QED BY <1>0, <2>0, <2>5, <4>4, <5>1, SweepAnswers DEF Spent, Storing
      <4>5. CASE DeleteRow(c) /\ ~Release(c)
        <5>1. on'[c] = on[c] /\ on[c] \in rows /\ stored' = stored
          BY <4>5 DEF DeleteRow, Sweep
        <5>2. <<on[c], "parts">> \notin stored'
          BY <1>1, <2>0, <5>1 DEF InOrder, OnePhase, Apart, Shown
        <5> QED BY <2>3, <2>5, <5>1, <5>2 DEF Spent, Cleaning
      <4> QED
        BY <4>1, <4>2, <4>3, <4>4, <4>5
           DEF Sign, Unregister, AssembleFails, AssembleLost, MarkAborted
    <3> QED BY <3>1, <3>2
  <2> QED BY <2>4, <2>5
<1>5. ASSUME NEW q \in Processes, SweepStep(q) \/ Crash(q)  PROVE Spent(p)'
  <2>1. stored' \subseteq stored
    BY <1>5
       DEF SweepStep, SweepOne, Disposes, SweepFails, MayDispose, Enqueue, EnqueueFails,
           MarkFailed, Crash
  <2>2. Others(q) /\ pc'[q] \notin Cleaning
    <3>1. \/ Release(q) \/ Advance(q)
          \/ \E label \in Labels \ Cleaning : Goto(q, label)
      BY <1>5
         DEF SweepStep, SweepOne, SweepFails, Enqueue, EnqueueFails, MarkFailed, Crash,
             Labels, Cleaning
    <3> QED BY <1>0, <3>1, IdleMoves
  <2>3. CASE p # q
    BY <1>s, <2>1, <2>2, <2>3 DEF Others
  <2>4. CASE p = q
    <3>1. CASE Release(p)
      BY <1>0, <2>2, <2>4, <3>1, ReleaseAnswers DEF Spent, Storing, Cleaning
    <3>2. CASE SweepFails(p)
      <4>1. on' = on /\ todo' = todo /\ pc'[p] = "enqueue"
        BY <1>0, <3>2 DEF SweepFails, Goto, ProcessOK
      <4> QED BY <1>1, <2>1, <4>1 DEF Spent, Owes, Storing
    <3>3. CASE Advance(p) /\ pc[p] \in {"sweep", "enqueue"}
      <4>1. /\ pc'[p] \in {"idle", "sweep"}
            /\ Owes(p, "session")' => Owes(p, "session") /\ on'[p] = on[p]
        BY <1>0, <3>3, AdvanceAnswers
      <4> QED BY <1>1, <2>1, <4>1 DEF Spent, Storing
    <3> QED
      BY <1>5, <2>4, <3>1, <3>2, <3>3
         DEF SweepStep, SweepOne, Sweeping, Enqueue, EnqueueFails, MarkFailed, Crash
  <2> QED BY <2>3, <2>4
<1>6. ASSUME NEW w \in Workers, TaskStep(w)  PROVE Spent(p)'
  <2>1. stored' \subseteq stored /\ w \in Processes
    BY <1>0, <1>6
       DEF TaskStep, Clean, Disposes, CleanFails, MayDispose, Settle, SettleFails, Retry
  <2>2. Release(w) \/ \E label \in {"settle", "retry"} : Goto(w, label)
    BY <1>6 DEF TaskStep, Clean, CleanFails, Settle, SettleFails, Retry
  <2>3. Others(w)
    BY <1>0, <2>1, <2>2 DEF Release, Goto, Others, ProcessOK
  <2>4. CASE p # w
    BY <1>s, <2>1, <2>3, <2>4 DEF Others
  <2>5. CASE p = w
    <3>1. CASE Release(w)
      BY <1>0, <2>1, <2>5, <3>1, ReleaseAnswers DEF Spent, Storing
    <3>2. CASE ~Release(w)
      <4>1. on' = on /\ todo' = todo /\ pc'[w] \in {"settle", "retry"}
        BY <1>0, <2>1, <2>2, <3>2 DEF Goto, ProcessOK
      <4>2. pc'[w] = "settle" => Target(w)' \notin stored'
        BY <1>0, <1>6, <2>1, <3>2, <4>1
           DEF TaskStep, Clean, Disposes, CleanFails, Settle, SettleFails, Retry, Goto,
               ProcessOK, Target
      <4> QED BY <1>1, <2>1, <2>5, <4>1, <4>2 DEF Spent, Owes, Storing
    <3> QED BY <3>1, <3>2
  <2> QED BY <2>4, <2>5
<1>7. ASSUME NEW w \in Workers,
             \/ \E v \in Uploads : ExpireSession(w, v)
             \/ \E x \in Things : ClaimTask(w, x)
      PROVE  Spent(p)'
  <2>1. PICK part \in Parts :
          todo' = [todo EXCEPT ![w] = <<part>>] /\ pc'[w] \in {"sweep", "clean"}
    BY <1>0, <1>7 DEF ExpireSession, ClaimTask, ProcessOK, Things, Parts
  <2>2. stored' = stored /\ Others(w) /\ todo'[w] = <<part>>
    BY <1>0, <1>7, <2>1 DEF ExpireSession, ClaimTask, ProcessOK, Others
  <2>3. CASE p # w
    BY <1>s, <2>2, <2>3 DEF Others
  <2>4. CASE p = w
    <3>1. ~Owes(w, "session")'
      BY <2>2 DEF Owes, Parts
    <3> QED BY <2>1, <2>4, <3>1 DEF Spent, Storing
  <2> QED BY <2>3, <2>4
<1>8. ASSUME \/ \E v \in Uploads : SessionExpires(v) \/ Purge(v)
             \/ \E x \in Things : BackoffEnds(x) \/ LeaseEnds(x)
             \/ UNCHANGED vars
      PROVE  Spent(p)'
  BY <1>s, <1>8 DEF SessionExpires, Purge, BackoffEnds, LeaseEnds
<1> QED BY <1>3, <1>4, <1>5, <1>6, <1>7, <1>8 DEF Next

\* Whoever gives up what holds a thing answers for it, or the thing is gone.
LEMMA KeptKeeps ==
  ASSUME MediaInv, LeakInv, [Next]_vars, NEW u \in Uploads, NEW part \in Parts
  PROVE  Kept(u, part)'
<1> USE DEF database, process, history, vars
<1>0. /\ ProcessOK /\ DatabaseOK /\ <<u, part>> \in Things
      /\ Calls \subseteq Processes /\ Workers \subseteq Processes
  BY DEF MediaInv, TypeOK, Processes, Things
<1>1. /\ Kept(u, part) /\ Previews(u) /\ Begun(u) /\ InOrder(u)
      /\ \A p \in Processes : Spent(p)
  BY DEF LeakInv, MediaInv
<1>2. part \in {"main", "preview", "parts"}
  BY DEF Parts
<1>q. ASSUME UNCHANGED process, Has(u, part)' => Has(u, part), Held(u, part) => Held(u, part)'
      PROVE  Kept(u, part)'
  BY <1>1, <1>q DEF Kept, Answers, Owes
<1>3. ASSUME NEW c \in Calls, Request(c)  PROVE Kept(u, part)'
  <2>1. PICK v \in Uploads : \/ BeginDirect(c, v) \/ BeginInitiate(c, v) \/ BeginComplete(c, v)
                             \/ BeginAbort(c, v) \/ BeginRemove(c, v)
    BY <1>3 DEF Request
  <2>2. Others(c) /\ pc[c] = "idle" /\ on'[c] = v
    BY <1>0, <2>1
       DEF BeginDirect, BeginInitiate, BeginComplete, BeginAbort, BeginRemove, Begin, Others,
           ProcessOK
  <2>3. ~Answers(c, u, part)
    BY <2>2 DEF Answers, Storing
  <2>4. Held(u, part) => Held(u, part)'
    BY <2>1 DEF BeginDirect, BeginInitiate, BeginComplete, BeginAbort, BeginRemove, Held
  <2>5. Has(u, part)' => Has(u, part) \/ Answers(c, u, part)'
    <3>1. CASE BeginInitiate(c, v)
      <4>1. pc'[c] = "register"
        BY <1>0, <3>1 DEF BeginInitiate, Begin, ProcessOK
      <4> QED BY <2>2, <3>1, <4>1 DEF BeginInitiate, Has, Answers
    <3> QED BY <2>1, <3>1 DEF BeginDirect, BeginComplete, BeginAbort, BeginRemove, Has
  <2> QED BY <1>0, <1>1, <2>2, <2>3, <2>4, <2>5, KeepsOn
<1>4. ASSUME NEW c \in Calls, CallStep(c)  PROVE Kept(u, part)'
  <2>0. c \in Processes /\ on[c] \in Uploads /\ Spent(c) /\ on[c] # NoUpload
    BY <1>0, <1>1, <1>4, MediaAssumption
       DEF ProcessOK, CallStep, PutMain, PutMainFails, PutPreview, PutPreviewFails,
           Commit, CommitFails, CommitLost, Register, RegisterFails, Sign, SignFails, Unregister,
           Assemble, AssembleFails, AssembleLost, HeadMatches, HeadDiffers, HeadFails,
           MarkAborted, DeleteRow
  \* The row and its objects: the request that stores them holds them until then.
  <2>1. CASE PutMain(c) \/ PutPreview(c) \/ HeadMatches(c)
    <3>1. Others(c) /\ on'[c] = on[c] /\ pc'[c] \in Storing /\ pc[c] \in Storing
      BY <1>0, <2>0, <2>1
         DEF PutMain, PutPreview, HeadMatches, AfterMain, Goto, Others, ProcessOK, Storing
    <3>2. Held(u, part) => Held(u, part)'
      BY <2>1 DEF PutMain, PutPreview, HeadMatches, Held
    <3>3. Has(u, part)' => Has(u, part) \/ Answers(c, u, part)'
      BY <2>1, <3>1 DEF PutMain, PutPreview, HeadMatches, Has, Answers
    <3>4. Answers(c, u, part) => Answers(c, u, part)'
      BY <3>1 DEF Answers, Storing
    <3> QED BY <1>1, <2>0, <3>1, <3>2, <3>3, <3>4, KeepsOn
  <2>2. CASE \/ PutMainFails(c) \/ PutPreviewFails(c) \/ CommitFails(c) \/ CommitLost(c)
             \/ HeadDiffers(c)
    <3>1. PICK steps :
            /\ Sweep(c, steps) /\ Names(steps, "main")
            /\ \/ Names(steps, "preview")
               \/ pc[c] \in {"putMain", "head"}
               \/ kind[on[c]] # "image" /\ pc[c] = "commit"
      <4>1. /\ Names(Undo(on[c]), "main")
            /\ kind[on[c]] = "image" => Names(Undo(on[c]), "preview")
            /\ Names(<<"main">>, "main")
            /\ Names(<<"main", "session">>, "main") /\ Names(<<"session", "main">>, "main")
        BY <2>0, Lists DEF Steps, Parts
      <4>2. PutPreviewFails(c) => kind[on[c]] = "image"
        BY <2>0 DEF PutPreviewFails, LeakInv, Previews
      <4> QED
        BY <2>2, <4>1, <4>2
           DEF PutMainFails, PutPreviewFails, CommitFails, CommitLost, HeadDiffers
    <3>2. /\ Others(c)
          /\ Answers(c, u, part)' <=> u = on[c] /\ Names(steps, part)
      BY <1>0, <2>0, <3>1, SweepAnswers
    <3>3. pc[c] \in Storing
      BY <2>2
         DEF PutMainFails, PutPreviewFails, CommitFails, CommitLost, HeadDiffers, Storing
    <3>4. u = on[c] => <<u, "parts">> \notin stored
      BY <2>0, <3>3 DEF Spent
    <3>5. Held(u, part) => Held(u, part)' \/ (u = on[c] /\ part = "parts")
      BY <1>0, <2>0, <2>2
         DEF PutMainFails, PutPreviewFails, CommitFails, CommitLost, Publish, HeadDiffers, Held,
             DatabaseOK
    <3>6. u = on[c] /\ part = "parts" => ~Has(u, part)'
      BY <2>2, <3>4
         DEF PutMainFails, PutPreviewFails, MayPut, CommitFails, CommitLost, HeadDiffers, Has
    <3>7. u = on[c] /\ part = "preview" /\ ~Names(steps, "preview") => ~Has(u, part)'
      <4>1. u = on[c] /\ ~Names(steps, "preview") => ~Has(u, "preview")
        BY <1>1, <2>0, <3>1 DEF Previews
      <4>2. pc[c] \in {"putMain", "head", "commit"} => (Has(u, "preview")' => Has(u, "preview"))
        BY <2>2
           DEF PutMainFails, PutPreviewFails, MayPut, CommitFails, CommitLost, HeadDiffers, Has
      <4> QED BY <3>1, <4>1, <4>2
    <3>8. Has(u, part)' => Has(u, part) \/ Answers(c, u, part)'
      <4>1. Has(u, part)' => Has(u, part) \/ (u = on[c] /\ part \in {"main", "preview"})
        BY <2>2
           DEF PutMainFails, PutPreviewFails, MayPut, CommitFails, CommitLost, HeadDiffers, Has
      <4> QED BY <3>1, <3>2, <3>7, <4>1
    <3>9. Answers(c, u, part) => Answers(c, u, part)' \/ ~Has(u, part)'
      <4>1. Answers(c, u, part) => u = on[c] /\ part # "parts"
        BY <3>3 DEF Answers, Storing
      <4> QED BY <1>2, <3>1, <3>2, <3>7, <4>1
    <3> QED BY <1>1, <2>0, <3>2, <3>5, <3>6, <3>8, <3>9, KeepsOn
  <2>3. CASE Commit(c)
    <3>1. Others(c)
      BY <1>0, <2>0, <2>3, ReleaseAnswers DEF Commit
    <3>2. u = on[c] => <<u, "parts">> \notin stored'
      BY <2>0, <2>3 DEF Commit, Spent, Storing
    <3>3. Held(u, part) => Held(u, part)' \/ ~Has(u, part)'
      BY <1>0, <2>0, <2>3, <3>2 DEF Commit, Publish, Held, Has, DatabaseOK
    <3>4. Answers(c, u, part) => Held(u, part)'
      BY <2>3 DEF Commit, Publish, Answers, Storing, Held
    <3>5. Has(u, part)' => Has(u, part)
      BY <2>3 DEF Commit, Has
    <3> QED BY <1>1, <2>0, <3>1, <3>3, <3>4, <3>5, KeepsOn
  \* The session and the parts.
  <2>4. CASE Register(c) \/ RegisterFails(c) \/ SignFails(c)
    <3>1. /\ Others(c) /\ on'[c] = on[c]
          /\ pc'[c] = IF Register(c) THEN "sign" ELSE "unregister"
          /\ pc[c] \in {"register", "sign"}
      BY <1>0, <2>0, <2>4
         DEF Register, RegisterFails, SignFails, Goto, Others, ProcessOK
    <3>2. Held(u, part) => Held(u, part)'
      BY <1>0, <2>0, <2>4 DEF Register, RegisterFails, SignFails, Held, DatabaseOK
    <3>3. Has(u, part)' => Has(u, part)
      BY <2>4 DEF Register, RegisterFails, SignFails, Has
    <3>4. Answers(c, u, part) => u = on[c] /\ part = "parts"
      BY <3>1 DEF Answers, Storing
    <3>5. Register(c) => session'[on[c]] = "INITIATED"
      BY <1>0, <2>0 DEF Register, DatabaseOK
    <3>6. Answers(c, u, part) => Answers(c, u, part)' \/ Held(u, part)'
      BY <3>1, <3>4, <3>5 DEF Answers, Held
    <3> QED BY <1>1, <2>0, <3>1, <3>2, <3>3, <3>6, KeepsOn
  <2>5. CASE Unregister(c) \/ MarkAborted(c)
    <3>1. Sweep(c, <<"parts">>) /\ Names(<<"parts">>, "parts")
      BY <2>0, <2>5, Lists DEF Unregister, MarkAborted, Steps, Parts
    <3>2. Others(c) /\ (Answers(c, u, part)' <=> u = on[c] /\ Names(<<"parts">>, part))
      BY <1>0, <2>0, <3>1, SweepAnswers
    <3>3. Held(u, part) => Held(u, part)' \/ (u = on[c] /\ part = "parts")
      BY <1>0, <2>0, <2>5 DEF Unregister, MarkAborted, Held, DatabaseOK
    <3>4. Answers(c, u, part) => u = on[c] /\ part = "parts"
      BY <2>5 DEF Unregister, MarkAborted, Answers, Storing
    <3>5. Has(u, part)' => Has(u, part)
      BY <2>5 DEF Unregister, MarkAborted, Has
    <3> QED BY <1>1, <2>0, <3>1, <3>2, <3>3, <3>4, <3>5, KeepsOn
  <2>6. CASE Assemble(c)
    <3>1. Others(c) /\ on'[c] = on[c] /\ pc'[c] = "head"
      BY <1>0, <2>0, <2>6 DEF Assemble, Goto, Others, ProcessOK
    <3>2. ~Answers(c, u, part)
      BY <2>6 DEF Assemble, Answers, Storing
    <3>3. Held(u, part) => Held(u, part)'
      BY <2>6 DEF Assemble, Held
    <3>4. Has(u, part)' => Has(u, part) \/ Answers(c, u, part)'
      BY <2>6, <3>1 DEF Assemble, Assembles, Has, Answers, Storing
    <3> QED BY <1>1, <2>0, <3>1, <3>2, <3>3, <3>4, KeepsOn
  <2>7. CASE Sign(c) \/ AssembleFails(c) \/ AssembleLost(c) \/ HeadFails(c)
    <3>1. Others(c)
      BY <1>0, <2>0, <2>7, ReleaseAnswers DEF Sign, AssembleFails, AssembleLost, HeadFails
    <3>2. Held(u, part) => Held(u, part)'
      BY <2>7 DEF Sign, AssembleFails, AssembleLost, HeadFails, Fault, Held
    <3>3. Answers(c, u, part) => Held(u, part)'
      BY <2>7 DEF Sign, AssembleFails, AssembleLost, HeadFails, Fault, Held, Answers, Storing
    <3>4. Has(u, part)' => Has(u, part) \/ Held(u, part)'
      BY <2>7
         DEF Sign, AssembleFails, AssembleLost, Assembles, HeadFails, Fault, Held, Has
    <3> QED BY <1>1, <2>0, <3>1, <3>2, <3>3, <3>4, KeepsOn
  <2>8. CASE DeleteRow(c)
    <3>1. ~Answers(c, u, part)
      BY <2>8 DEF DeleteRow, Answers, Storing
    <3>2. Has(u, part)' => Has(u, part)
      BY <2>8 DEF DeleteRow, Has
    <3>3. CASE on[c] \notin rows
      <4>1. Others(c)
        BY <1>0, <2>0, <2>8, <3>3, ReleaseAnswers DEF DeleteRow
      <4>2. Held(u, part) => Held(u, part)'
        BY <2>8, <3>3 DEF DeleteRow, Held
      <4> QED BY <1>1, <2>0, <3>1, <3>2, <4>1, <4>2, KeepsOn
    <3>4. CASE on[c] \in rows
      <4>1. PICK steps : /\ Sweep(c, steps) /\ Names(steps, "main")
                         /\ kind[on[c]] = "image" => Names(steps, "preview")
        <5>1. /\ Names(<<"main">>, "main")
              /\ Names(<<"main", "preview">>, "main") /\ Names(<<"main", "preview">>, "preview")
          BY <2>0, Lists DEF Steps, Parts
        <5>2. CASE kind[on[c]] = "image"
          BY <2>8, <3>4, <5>1, <5>2 DEF DeleteRow
        <5>3. CASE kind[on[c]] # "image"
          BY <2>8, <3>4, <5>1, <5>3 DEF DeleteRow
        <5> QED BY <5>2, <5>3
      <4>2. Others(c) /\ (Answers(c, u, part)' <=> u = on[c] /\ Names(steps, part))
        BY <1>0, <2>0, <4>1, SweepAnswers
      <4>3. Held(u, part) => Held(u, part)' \/ (u = on[c] /\ part # "parts")
        BY <2>8 DEF DeleteRow, Held
      <4>4. u = on[c] /\ part # "parts" => Names(steps, part) \/ ~Has(u, part)
        BY <1>1, <1>2, <4>1 DEF Previews
      <4> QED BY <1>1, <2>0, <3>1, <3>2, <4>2, <4>3, <4>4, KeepsOn
    <3> QED BY <3>3, <3>4
  <2> QED
    BY <1>4, <2>1, <2>2, <2>3, <2>4, <2>5, <2>6, <2>7, <2>8 DEF CallStep
<1>5. ASSUME NEW p \in Processes, SweepStep(p)  PROVE Kept(u, part)'
  <2>0. /\ pc[p] \in {"sweep", "enqueue"} /\ on[p] \in Uploads /\ Spent(p)
        /\ todo[p] \in Seq(Steps) /\ todo[p] # <<>>
    BY <1>0, <1>1, <1>5
       DEF SweepStep, SweepOne, Sweeping, SweepFails, Enqueue, EnqueueFails, MarkFailed,
           ProcessOK, Steps
  <2>1. CASE SweepOne(p) \/ Enqueue(p) \/ MarkFailed(p)
    <3>1. /\ Others(p)
          /\ Answers(p, u, part) /\ part # Head(todo[p]) => Answers(p, u, part)'
      BY <1>0, <2>0, <2>1, AdvanceAnswers DEF SweepOne, Enqueue, MarkFailed
    <3>2. Answers(p, u, part) => u = on[p]
      BY DEF Answers
    <3>3. Has(u, part)' => Has(u, part)
      BY <2>1 DEF SweepOne, Disposes, Enqueue, MarkFailed, Has
    <3>4. u = on[p] /\ part = Head(todo[p]) => Held(u, part)' \/ ~Has(u, part)'
      BY <1>0, <1>2, <2>1
         DEF SweepOne, Disposes, Enqueue, MarkFailed, Target, Held, Has, DatabaseOK
    <3>5. Held(u, part) => Held(u, part)' \/ ~Has(u, part)'
      <4>1. CASE MarkFailed(p)
        <5>1. Owes(p, "session")
          <6>1. Len(todo[p]) \in Nat \ {0} /\ Head(todo[p]) = todo[p][1]
            BY <2>0, EmptySeq
          <6> QED BY <4>1, <6>1 DEF MarkFailed, Owes
        <5>2. u = on[p] => ~Has(u, "parts")
          BY <2>0, <5>1 DEF Spent, Has
        <5> QED BY <1>0, <2>0, <4>1, <5>2 DEF MarkFailed, Held, Has, DatabaseOK
      <4>2. CASE SweepOne(p) \/ Enqueue(p)
        <5>1. task[<<u, part>>] # "none" => task'[<<u, part>>] # "none"
          BY <1>0, <4>2 DEF SweepOne, Enqueue, DatabaseOK
        <5> QED BY <4>2, <5>1 DEF SweepOne, Enqueue, Held
      <4> QED BY <2>1, <4>1, <4>2
    <3> QED BY <1>1, <3>1, <3>2, <3>3, <3>4, <3>5, KeepsOn
  <2>2. CASE SweepFails(p)
    <3>1. Others(p) /\ on' = on /\ todo' = todo /\ pc'[p] = "enqueue"
      BY <1>0, <2>2 DEF SweepFails, Goto, Others, ProcessOK
    <3>2. Answers(p, u, part) => Answers(p, u, part)'
      BY <2>0, <3>1 DEF Answers, Owes, Storing
    <3>3. (Held(u, part) => Held(u, part)') /\ (Has(u, part)' => Has(u, part))
      BY <2>2 DEF SweepFails, MayDispose, Held, Has
    <3> QED BY <1>1, <3>1, <3>2, <3>3, KeepsOn
  <2>3. CASE EnqueueFails(p)
    <3>1. Others(p)
      BY <1>0, <2>3, ReleaseAnswers DEF EnqueueFails
    <3>2. /\ Answers(p, u, part) \/ Held(u, part) => Held(u, part)'
          /\ Has(u, part)' => Has(u, part)
      BY <2>3 DEF EnqueueFails, Fault, Held, Has, Answers
    <3> QED BY <1>1, <3>1, <3>2, KeepsOn
  <2> QED BY <1>5, <2>1, <2>2, <2>3 DEF SweepStep
<1>6. ASSUME NEW p \in Processes, Crash(p)  PROVE Kept(u, part)'
  <2>1. Others(p)
    BY <1>0, <1>6, ReleaseAnswers DEF Crash
  <2>2. Answers(p, u, part) => u \in faulted'
    BY <1>6 DEF Crash, Answers, Harmless, Cleaning, Storing
  <2>3. (Held(u, part) => Held(u, part)') /\ (Has(u, part)' => Has(u, part))
    BY <1>6 DEF Crash, Held, Has
  <2> QED BY <1>1, <2>1, <2>2, <2>3, KeepsOn DEF Held
<1>7. ASSUME NEW w \in Workers, TaskStep(w)  PROVE Kept(u, part)'
  <2>0. w \in Processes /\ Spent(w)
    BY <1>0, <1>1
  <2>1. ~Answers(w, u, part) /\ Others(w)
    BY <1>0, <1>7, <2>0
       DEF TaskStep, Clean, CleanFails, Settle, SettleFails, Retry, Answers, Storing, Release,
           Goto, Others, ProcessOK
  <2>2. Has(u, part)' => Has(u, part)
    BY <1>7
       DEF TaskStep, Clean, Disposes, CleanFails, MayDispose, Settle, SettleFails, Retry, Has
  <2>3. Held(u, part) => Held(u, part)' \/ ~Has(u, part)'
    <3>1. CASE Settle(w)
      <4>1. Target(w) \notin stored
        BY <2>0, <3>1 DEF Settle, Spent
      <4> QED BY <1>0, <3>1, <4>1 DEF Settle, Held, Has, DatabaseOK
    <3>2. CASE ~Settle(w)
      <4>1. task[<<u, part>>] # "none" => task'[<<u, part>>] # "none"
        BY <1>0, <1>7, <3>2 DEF TaskStep, Clean, CleanFails, SettleFails, Retry, DatabaseOK
      <4> QED
        BY <1>7, <3>2, <4>1 DEF TaskStep, Clean, CleanFails, SettleFails, Retry, Held
    <3> QED BY <3>1, <3>2
  <2> QED BY <1>1, <2>0, <2>1, <2>2, <2>3, KeepsOn
<1>8. ASSUME NEW w \in Workers, NEW v \in Uploads, ExpireSession(w, v)  PROVE Kept(u, part)'
  <2>1. w \in Processes /\ todo'[w] = <<"parts">> /\ pc'[w] = "sweep" /\ on'[w] = v /\ Others(w)
    BY <1>0, <1>8 DEF ExpireSession, ProcessOK, Others
  <2>2. ~Answers(w, u, part)
    BY <1>8 DEF ExpireSession, Answers, Storing
  <2>3. Has(u, part)' => Has(u, part)
    BY <1>8 DEF ExpireSession, Has
  <2>4. u = v /\ part = "parts" => Answers(w, u, part)'
    BY <2>1 DEF Answers, Owes
  <2>5. Held(u, part) => Held(u, part)' \/ (u = v /\ part = "parts")
    BY <1>0, <1>8 DEF ExpireSession, Held, DatabaseOK
  <2> QED BY <1>1, <2>1, <2>2, <2>3, <2>4, <2>5, KeepsOn
<1>9. ASSUME NEW w \in Workers, NEW x \in Things, ClaimTask(w, x)  PROVE Kept(u, part)'
  <2>1. w \in Processes /\ Others(w)
    BY <1>0, <1>9 DEF ClaimTask, ProcessOK, Others
  <2>2. ~Answers(w, u, part)
    BY <1>9 DEF ClaimTask, Answers, Storing
  <2>3. (Has(u, part)' => Has(u, part)) /\ (Held(u, part) => Held(u, part)')
    BY <1>0, <1>9 DEF ClaimTask, Has, Held, DatabaseOK
  <2> QED BY <1>1, <2>1, <2>2, <2>3, KeepsOn
<1>10. ASSUME \/ \E v \in Uploads : SessionExpires(v) \/ Purge(v)
              \/ \E x \in Things : BackoffEnds(x) \/ LeaseEnds(x)
              \/ UNCHANGED vars
       PROVE  Kept(u, part)'
  <2>1. UNCHANGED process /\ (Has(u, part)' => Has(u, part))
    BY <1>10 DEF SessionExpires, Purge, BackoffEnds, LeaseEnds, Has
  <2>2. Held(u, part) => Held(u, part)'
    BY <1>0, <1>10 DEF SessionExpires, Purge, BackoffEnds, LeaseEnds, Held, DatabaseOK
  <2> QED BY <1>q, <2>1, <2>2
<1> QED BY <1>3, <1>4, <1>5, <1>6, <1>7, <1>8, <1>9, <1>10 DEF Next

\* Nothing leaks (NothingLeaks): whatever S3 holds is tended, however requests,
\* expiry, retries and clean-up interleave and fail, unless its upload was hit
\* by a fault that the code cannot mend.
THEOREM MediaLeaksNothing == Spec => []NothingLeaks
<1>1. Init => LeakInv
  <2> SUFFICES ASSUME Init PROVE LeakInv
    OBVIOUS
  <2>1. ASSUME NEW u \in Uploads
        PROVE  Begun(u) /\ Previews(u) /\ \A part \in Parts : Kept(u, part)
    BY <2>1, MediaAssumption
       DEF Init, Begun, Untouched, Previews, Kept, Has, Things
  <2>2. ASSUME NEW p \in Processes  PROVE Spent(p)
    BY <2>2 DEF Init, Spent, Storing
  <2> QED BY <2>1, <2>2 DEF LeakInv
<1>2. MediaInv /\ LeakInv /\ TypeOK' /\ [Next]_vars => LeakInv'
  BY BegunKeeps, PreviewsKeeps, SpentKeeps, KeptKeeps DEF LeakInv
<1>3. TypeOK /\ LeakInv => NothingLeaks
  <2> SUFFICES ASSUME TypeOK, LeakInv, NEW x \in stored, x[1] \notin faulted
               PROVE  Tended(x)
    BY DEF NothingLeaks
  <2>1. x = <<x[1], x[2]>> /\ x[1] \in Uploads /\ x[2] \in Parts
    BY DEF TypeOK, DatabaseOK, Things
  <2>2. Held(x[1], x[2]) \/ \E p \in Processes : Answers(p, x[1], x[2])
    BY <2>1 DEF LeakInv, Kept, Has
  <2> QED BY <2>1, <2>2 DEF Tended, Held, Answers
<1> QED BY <1>1, <1>2, <1>3, MediaTypeCorrect, MediaInvariant, PTL DEF Spec
=============================================================================
