----------------------- MODULE LibraryLifecycleProofs -----------------------
(***************************************************************************)
(* First the scan slot: it is exclusive, loses no waiter and never cancels *)
(* its newest token, for any set of requests.  Then the library lifecycle  *)
(* around it: it implements the slot, so that two scans are never at work  *)
(* together; its variables keep their types; a client that polls the       *)
(* revision shows the visible catalog; nobody is left with an "indexing"   *)
(* that nothing ends; and a finished catalog is not undone by a batch.     *)
(* All for any number of requests of any kinds and any number of progress  *)
(* batches.  What clients are told at rest, and what a failure keeps, is   *)
(* proved of the requests that hold their lease to the end.                *)
(***************************************************************************)
EXTENDS LibraryLifecycle, TLAPS

-----------------------------------------------------------------------------
InQueue(s) == \E i \in DOMAIN queue : queue[i] = s

(* Everybody in the queue waits, once, and does not have the mutex yet.    *)
QueueInv ==
    /\ \A i \in DOMAIN queue : phase[queue[i]] = "queued" /\ queue[i] # holder
    /\ \A i, j \in DOMAIN queue : queue[i] = queue[j] => i = j
    /\ holder = NoScan => queue = <<>>

(* The mutex is granted to exactly the scan that has it or may take it.    *)
HolderInv ==
    /\ holder # NoScan => phase[holder] \in {"install", "queued", "leased"}
    /\ \A s \in Scans : phase[s] \in {"install", "leased"} => holder = s
    /\ \A s \in Scans : phase[s] = "queued" => holder = s \/ InQueue(s)

(* A token that has been installed belongs to a request that has come      *)
(* further than its own installation.                                      *)
TokenInv ==
    /\ \A s \in cancelled \cup {active} : phase[s] \notin {"out", "install"}
    /\ NewestTokenLives

SlotInv == SlotTypeOK /\ QueueInv /\ HolderInv /\ TokenInv

-----------------------------------------------------------------------------
(* Handing the mutex over keeps the queue in order: its head becomes the   *)
(* holder and everybody else moves up by one.                              *)
LEMMA HandOverQueue ==
    ASSUME SlotTypeOK, QueueInv, HolderInv, HandOver, holder # NoScan
    PROVE  /\ holder' \in Scans \cup {NoScan}
           /\ queue' \in Seq(Scans)
           /\ holder' # holder
           /\ holder' # NoScan => phase[holder'] = "queued"
           /\ \A i \in DOMAIN queue' :
                 queue'[i] # holder' /\ queue'[i] # holder /\ phase[queue'[i]] = "queued"
           /\ \A i, j \in DOMAIN queue' : queue'[i] = queue'[j] => i = j
           /\ holder' = NoScan => queue' = <<>>
           /\ \A s \in Scans : InQueue(s) => holder' = s \/ \E i \in DOMAIN queue' : queue'[i] = s
<1>1. CASE queue = <<>>
  BY <1>1, ScansAssumption DEF SlotTypeOK, QueueInv, HolderInv, HandOver, InQueue
<1>2. CASE queue # <<>>
  <2>1. /\ holder' = queue[1]
        /\ queue' = Tail(queue)
        /\ queue' \in Seq(Scans)
        /\ 1 \in DOMAIN queue
    BY <1>2 DEF SlotTypeOK, HandOver
  <2>2. /\ Len(queue') = Len(queue) - 1
        /\ \A i \in DOMAIN queue' : queue'[i] = queue[i + 1] /\ i + 1 \in DOMAIN queue /\ i \in Nat
    BY <1>2, <2>1 DEF SlotTypeOK
  <2>3. \A i \in DOMAIN queue : i = 1 \/ (i - 1 \in DOMAIN queue' /\ queue'[i - 1] = queue[i])
    BY <1>2, <2>1, <2>2 DEF SlotTypeOK
  <2>4. holder' \in Scans /\ holder' # NoScan /\ holder' # holder /\ phase[holder'] = "queued"
    BY <1>2, <2>1, ScansAssumption DEF SlotTypeOK, QueueInv
  <2>5. \A i \in DOMAIN queue' :
           queue'[i] # holder' /\ queue'[i] # holder /\ phase[queue'[i]] = "queued"
    <3> SUFFICES ASSUME NEW i \in DOMAIN queue'
                 PROVE  queue'[i] # holder' /\ queue'[i] # holder /\ phase[queue'[i]] = "queued"
      OBVIOUS
    <3>1. queue'[i] = queue[i + 1] /\ i + 1 \in DOMAIN queue /\ i \in Nat /\ i + 1 # 1
      BY <2>1, <2>2 DEF SlotTypeOK
    <3> QED
      BY <3>1, <2>1 DEF QueueInv
  <2>6. \A i, j \in DOMAIN queue' : queue'[i] = queue'[j] => i = j
    BY <2>2 DEF QueueInv
  <2>7. \A s \in Scans : InQueue(s) => holder' = s \/ \E i \in DOMAIN queue' : queue'[i] = s
    BY <2>1, <2>3 DEF InQueue
  <2> QED
    BY <2>1, <2>4, <2>5, <2>6, <2>7
<1> QED
  BY <1>1, <1>2

(* Whoever gives the mutex away leaves the queue and the holder in order.  *)
LEMMA HandOverInv ==
    ASSUME SlotTypeOK, QueueInv, HolderInv, HandOver,
           NEW s \in Scans, holder = s, phase' = [phase EXCEPT ![s] = "left"]
    PROVE  QueueInv' /\ HolderInv'
<1>1. holder # NoScan
  BY ScansAssumption
<1>2. \A t \in Scans : phase'[t] = IF t = s THEN "left" ELSE phase[t]
  BY DEF SlotTypeOK
<1>3. \A i \in DOMAIN queue' : queue'[i] \in Scans
  BY <1>1, HandOverQueue
<1>4. QueueInv'
  BY <1>1, <1>2, <1>3, HandOverQueue DEF QueueInv
<1>5. HolderInv'
  <2>1. holder' # NoScan => phase'[holder'] \in {"install", "queued", "leased"}
    BY <1>1, <1>2, HandOverQueue
  <2>2. \A t \in Scans : phase'[t] \in {"install", "leased"} => holder' = t
    BY <1>2 DEF HolderInv
  <2>3. \A t \in Scans : phase'[t] = "queued" => holder' = t \/ InQueue(t)'
    BY <1>1, <1>2, HandOverQueue DEF HolderInv, InQueue
  <2> QED
    BY <2>1, <2>2, <2>3 DEF HolderInv
<1> QED
  BY <1>4, <1>5

LEMMA SlotInvInit == SlotInit => SlotInv
<1> SUFFICES ASSUME SlotInit PROVE SlotInv
  OBVIOUS
<1>1. SlotTypeOK
  BY ScansAssumption DEF SlotInit, SlotTypeOK, Phases
<1>2. QueueInv
  BY ScansAssumption DEF SlotInit, QueueInv
<1>3. HolderInv
  BY ScansAssumption DEF SlotInit, HolderInv
<1>4. TokenInv
  BY ScansAssumption DEF SlotInit, TokenInv, NewestTokenLives
<1> QED
  BY <1>1, <1>2, <1>3, <1>4 DEF SlotInv

LEMMA SlotInvStep == SlotInv /\ [SlotNext]_slotVars => SlotInv'
<1> SUFFICES ASSUME SlotInv, [SlotNext]_slotVars
             PROVE  SlotInv'
  OBVIOUS
<1> USE DEF SlotInv
<1>1. ASSUME NEW s \in Scans, TryBegin(s)
      PROVE  SlotInv'
  <2>1. SlotTypeOK'
    BY <1>1 DEF TryBegin, Advance, SlotTypeOK, Phases
  <2>2. QueueInv'
    BY <1>1, ScansAssumption DEF TryBegin, Advance, SlotTypeOK, QueueInv
  <2>3. HolderInv'
    BY <1>1, ScansAssumption DEF TryBegin, Advance, SlotTypeOK, QueueInv, HolderInv, InQueue
  <2>4. TokenInv'
    BY <1>1 DEF TryBegin, Advance, SlotTypeOK, TokenInv, NewestTokenLives
  <2> QED
    BY <2>1, <2>2, <2>3, <2>4
<1>2. ASSUME NEW s \in Scans, Refuse(s)
      PROVE  SlotInv'
  <2>1. SlotTypeOK'
    BY <1>2 DEF Refuse, Advance, SlotTypeOK, Phases
  <2>2. QueueInv'
    BY <1>2 DEF Refuse, Advance, SlotTypeOK, QueueInv
  <2>3. HolderInv'
    BY <1>2 DEF Refuse, Advance, SlotTypeOK, HolderInv, InQueue
  <2>4. TokenInv'
    BY <1>2 DEF Refuse, Advance, SlotTypeOK, TokenInv, NewestTokenLives
  <2> QED
    BY <2>1, <2>2, <2>3, <2>4
<1>3. ASSUME NEW s \in Scans, Install(s)
      PROVE  SlotInv'
  <2>1. SlotTypeOK'
    BY <1>3 DEF Install, Advance, SlotTypeOK, Phases
  <2>2. QueueInv'
    BY <1>3 DEF Install, Advance, SlotTypeOK, QueueInv
  <2>3. HolderInv'
    BY <1>3 DEF Install, Advance, SlotTypeOK, HolderInv, InQueue
  <2>4. TokenInv'
    BY <1>3 DEF Install, Advance, SlotTypeOK, TokenInv, NewestTokenLives
  <2> QED
    BY <2>1, <2>2, <2>3, <2>4
<1>4. ASSUME NEW s \in Scans, Select(s)
      PROVE  SlotInv'
  <2>1. SlotTypeOK'
    BY <1>4 DEF Select, Advance, SlotTypeOK, Phases
  <2>2. QueueInv'
    BY <1>4 DEF Select, Advance, SlotTypeOK, QueueInv
  <2>3. HolderInv'
    BY <1>4 DEF Select, Advance, SlotTypeOK, HolderInv, InQueue
  <2>4. TokenInv'
    BY <1>4 DEF Select, Advance, SlotTypeOK, TokenInv, NewestTokenLives
  <2> QED
    BY <2>1, <2>2, <2>3, <2>4
<1>5. ASSUME NEW s \in Scans, Enqueue(s), holder = NoScan
      PROVE  SlotInv'
  <2>1. SlotTypeOK'
    BY <1>5 DEF Enqueue, Advance, SlotTypeOK, Phases
  <2>2. QueueInv'
    BY <1>5, ScansAssumption DEF Enqueue, Advance, SlotTypeOK, QueueInv
  <2>3. HolderInv'
    BY <1>5, ScansAssumption DEF Enqueue, Advance, SlotTypeOK, QueueInv, HolderInv, InQueue
  <2>4. TokenInv'
    BY <1>5 DEF Enqueue, Advance, SlotTypeOK, TokenInv, NewestTokenLives
  <2> QED
    BY <2>1, <2>2, <2>3, <2>4
<1>6. ASSUME NEW s \in Scans, Enqueue(s), holder # NoScan
      PROVE  SlotInv'
  <2>1. SlotTypeOK'
    BY <1>6 DEF Enqueue, Advance, SlotTypeOK, Phases
  <2>2. /\ queue' = Append(queue, s)
        /\ holder' = holder
        /\ phase[s] = "enqueue"
        /\ \A t \in Scans : phase'[t] = IF t = s THEN "queued" ELSE phase[t]
    BY <1>6 DEF Enqueue, Advance, SlotTypeOK
  <2>3. /\ \A i \in DOMAIN queue : i \in DOMAIN queue' /\ queue'[i] = queue[i] /\ queue[i] \in Scans
        /\ \A i \in DOMAIN queue' : i \in DOMAIN queue \/ (i = Len(queue) + 1 /\ queue'[i] = s)
        /\ Len(queue) + 1 \in DOMAIN queue' /\ queue'[Len(queue) + 1] = s
    BY <2>2 DEF SlotTypeOK
  <2>4. \A i \in DOMAIN queue : queue[i] # s
    BY <2>2 DEF QueueInv
  <2>5. holder # s
    BY <2>2, ScansAssumption DEF HolderInv
  <2>6. QueueInv'
    <3>1. \A i \in DOMAIN queue' : phase'[queue'[i]] = "queued" /\ queue'[i] # holder'
      BY <2>2, <2>3, <2>5 DEF QueueInv
    <3>2. \A i, j \in DOMAIN queue' : queue'[i] = queue'[j] => i = j
      BY <2>3, <2>4 DEF QueueInv
    <3> QED
      BY <3>1, <3>2, <1>6, <2>2 DEF QueueInv
  <2>7. HolderInv'
    BY <1>6, <2>2, <2>3, <2>5 DEF SlotTypeOK, HolderInv, InQueue
  <2>8. TokenInv'
    BY <1>6 DEF Enqueue, Advance, SlotTypeOK, TokenInv, NewestTokenLives
  <2> QED
    BY <2>1, <2>6, <2>7, <2>8
<1>7. ASSUME NEW s \in Scans, Admit(s)
      PROVE  SlotInv'
  <2>1. SlotTypeOK'
    BY <1>7 DEF Admit, Advance, SlotTypeOK, Phases
  <2>2. QueueInv'
    BY <1>7 DEF Admit, Advance, SlotTypeOK, QueueInv
  <2>3. HolderInv'
    BY <1>7 DEF Admit, Advance, SlotTypeOK, HolderInv, InQueue
  <2>4. TokenInv'
    BY <1>7 DEF Admit, Advance, SlotTypeOK, TokenInv, NewestTokenLives
  <2> QED
    BY <2>1, <2>2, <2>3, <2>4
<1>8. ASSUME NEW s \in Scans, StandDown(s) \/ Leave(s)
      PROVE  SlotInv'
  <2>1. /\ HandOver
        /\ holder = s
        /\ phase' = [phase EXCEPT ![s] = "left"]
        /\ UNCHANGED <<active, cancelled, selected>>
    BY <1>8 DEF StandDown, Leave, Advance, HolderInv
  <2>2. SlotTypeOK'
    BY <2>1, HandOverQueue, ScansAssumption DEF SlotTypeOK, Phases
  <2>3. QueueInv' /\ HolderInv'
    BY <2>1, HandOverInv
  <2>4. TokenInv'
    BY <2>1 DEF SlotTypeOK, TokenInv, NewestTokenLives
  <2> QED
    BY <2>2, <2>3, <2>4
<1>9. CASE UNCHANGED slotVars
  BY <1>9 DEF slotVars, SlotTypeOK, QueueInv, HolderInv, TokenInv, NewestTokenLives, InQueue
<1> QED
  BY <1>1, <1>2, <1>3, <1>4, <1>5, <1>6, <1>7, <1>8, <1>9 DEF SlotNext, SlotStep

(* SlotInv holds in every reachable state of the slot.                     *)
THEOREM SlotInvariant == SlotSpec => []SlotInv
<1> QED
  BY SlotInvInit, SlotInvStep, PTL DEF SlotSpec

-----------------------------------------------------------------------------
(* The variables of the slot keep their types.                             *)
THEOREM SlotTyping == SlotSpec => []SlotTypeOK
<1>1. SlotInv => SlotTypeOK
  BY DEF SlotInv
<1> QED
  BY <1>1, SlotInvariant, PTL

LEMMA SlotInvExclusion == SlotInv => LeaseExclusion
<1> QED
  BY DEF SlotInv, HolderInv, LeaseExclusion

(* At most one scan has the slot, however requests interleave: the code's  *)
(* single-flight promise, for any number of requests.                      *)
THEOREM SlotExclusive == SlotSpec => []LeaseExclusion
<1> QED
  BY SlotInvExclusion, SlotInvariant, PTL

(* The mutex is never free while a scan waits for it.                      *)
THEOREM WaitersNotLost == SlotSpec => []NoLostWaiter
<1>1. SlotInv => NoLostWaiter
  BY ScansAssumption DEF SlotInv, SlotTypeOK, QueueInv, HolderInv, NoLostWaiter, InQueue
<1> QED
  BY <1>1, SlotInvariant, PTL

(* The newest token has not been cancelled: the selection made last is     *)
(* never stopped by an older one.                                          *)
THEOREM NewestSelectionLives == SlotSpec => []NewestTokenLives
<1>1. SlotInv => NewestTokenLives
  BY DEF SlotInv, TokenInv
<1> QED
  BY <1>1, SlotInvariant, PTL


-----------------------------------------------------------------------------
(* Every step of the lifecycle is a step of the slot, or leaves it alone.  *)

LEMMA WorkImplementsSlot ==
    ASSUME NEW s \in Scans, Work(s)
    PROVE  [SlotNext]_slotVars
<1>1. Leave(s) => SlotNext
  BY DEF SlotNext, SlotStep
<1>2. CASE Begin(s) \/ Load(s) \/ AutomaticRefresh(s) \/ RemoveRoot(s) \/ LocalIndex(s)
           \/ LocalEnrich(s) \/ EditMetadata(s) \/ FindSong(s) \/ RebuildForSong(s)
  BY <1>2 DEF Begin, Load, AutomaticRefresh, RemoveRoot, LocalIndex, LocalEnrich, EditMetadata, FindSong, RebuildForSong
<1>3. CASE IndexScan(s)
  BY <1>1, <1>3 DEF IndexScan, Preview, Drain, Enrich, FailWithoutLease, Replaced
<1>4. CASE RefreshScan(s) \/ RefreshAgain(s)
  BY <1>1, <1>4 DEF RefreshScan, RefreshAgain, FailWithoutLease, Replaced
<1>5. CASE Return(s)
  BY <1>1, <1>5 DEF Return
<1> QED
  BY <1>2, <1>3, <1>4, <1>5 DEF Work

LEMMA StepImplementsSlot == [Next]_vars => [SlotNext]_slotVars
<1> SUFFICES ASSUME [Next]_vars
             PROVE  [SlotNext]_slotVars
  OBVIOUS
<1>1. CASE UNCHANGED vars
  BY <1>1 DEF vars, slotVars
<1>2. CASE ClientStep
  BY <1>2 DEF ClientStep, Poll, Answer, Show
<1>3. ASSUME NEW s \in Scans, NEW k \in Kinds, Request(s, k)
      PROVE  [SlotNext]_slotVars
  BY <1>3 DEF Request, SlotNext, SlotStep
<1>4. ASSUME NEW s \in Scans, Acquire(s)
      PROVE  [SlotNext]_slotVars
  BY <1>4 DEF Acquire, SlotNext, SlotStep
<1>5. ASSUME NEW s \in Scans, Spawn(s) \/ EndPhase(s) \/ Send(s)
      PROVE  [SlotNext]_slotVars
  BY <1>5 DEF Spawn, EndPhase, Send
<1>6. ASSUME NEW s \in Scans, PublisherStep(s)
      PROVE  [SlotNext]_slotVars
  BY <1>6 DEF PublisherStep
<1>7. ASSUME NEW t, JobStep(t)
      PROVE  [SlotNext]_slotVars
  BY <1>7 DEF JobStep
<1> QED
  BY <1>1, <1>2, <1>3, <1>4, <1>5, <1>6, <1>7, WorkImplementsSlot
  DEF Next, TaskStep, ScanStep

(* The lifecycle, with all its handlers, implements the scan slot.         *)
THEOREM ImplementsSlot == Spec => SlotSpec
<1>1. Init => SlotInit
  BY DEF Init
<1> QED
  BY <1>1, StepImplementsSlot, PTL DEF Spec, SlotSpec

-----------------------------------------------------------------------------
(* A task is at work exactly while the slot knows its lease.               *)

LeaseInv ==
    /\ pc \in [Scans -> Labels]
    /\ phase \in [Scans -> Phases]
    /\ kind \in [Scans -> AllKinds \cup {"none", "startup"}]
    /\ \A s \in Scans :
        /\ pc[s] \in {"waiting", "begin"} => kind[s] \in Replacing \cup Trying
        /\ HoldsLease(s) => phase[s] = "leased"
        /\ pc[s] = "new" => phase[s] = "out"

LEMMA LeaseInvInit == Init => LeaseInv
<1> QED
  BY ScansAssumption DEF Init, SlotInit, LeaseInv, HoldsLease, Labels, Phases, AllKinds

LEMMA LeaseInvWork ==
    ASSUME LeaseInv, NEW s \in Scans, Work(s)
    PROVE  LeaseInv'
<1> USE DEF LeaseInv, HoldsLease, Labels, Phases, Replacing, Trying, At, Start, Goto, Leave, Advance, slotVars
<1>0. kind' = kind
  BY DEF Work
<1>1. CASE Begin(s)
  BY <1>0, <1>1 DEF Begin, FirstWork
<1>2. CASE Load(s) \/ AutomaticRefresh(s) \/ RemoveRoot(s)
  BY <1>0, <1>2 DEF Load, AutomaticRefresh, RemoveRoot
<1>3. CASE LocalIndex(s) \/ LocalEnrich(s) \/ EditMetadata(s) \/ FindSong(s) \/ RebuildForSong(s)
  BY <1>0, <1>3 DEF LocalIndex, LocalEnrich, EditMetadata, FindSong, RebuildForSong
<1>4. CASE IndexScan(s)
  BY <1>0, <1>4 DEF IndexScan, Preview, Drain, Enrich, FailWithoutLease, Replaced
<1>5. CASE RefreshScan(s) \/ RefreshAgain(s)
  BY <1>0, <1>5 DEF RefreshScan, RefreshAgain, FailWithoutLease, Replaced
<1>6. CASE Return(s)
  BY <1>0, <1>6 DEF Return
<1> QED
  BY <1>1, <1>2, <1>3, <1>4, <1>5, <1>6 DEF Work

LEMMA LeaseInvStep == LeaseInv /\ [Next]_vars => LeaseInv'
<1> SUFFICES ASSUME LeaseInv, [Next]_vars
             PROVE  LeaseInv'
  OBVIOUS
<1> USE DEF LeaseInv, HoldsLease, Labels, Phases, Replacing, Trying, Goto, Start
<1>1. CASE UNCHANGED vars
  BY <1>1 DEF vars, slotVars, taskVars
<1>2. CASE ClientStep
  BY <1>2 DEF ClientStep, Poll, Answer, Show, slotVars, taskVars
<1>3. ASSUME NEW s \in Scans, NEW k \in Kinds, Request(s, k)
      PROVE  LeaseInv'
  BY <1>3, KindsAssumption DEF Request, AllKinds, Unleased, Select, TryBegin, Refuse, Advance, slotVars
<1>4. ASSUME NEW s \in Scans, Acquire(s)
      PROVE  LeaseInv'
  BY <1>4 DEF Acquire, Enqueue, Install, Admit, StandDown, Advance
<1>5. ASSUME NEW s \in Scans, Spawn(s) \/ EndPhase(s) \/ Send(s)
      PROVE  LeaseInv'
  BY <1>5 DEF Spawn, EndPhase, Send, At, slotVars
<1>6. ASSUME NEW s \in Scans, PublisherStep(s)
      PROVE  LeaseInv'
  BY <1>6 DEF PublisherStep, slotVars
<1>7. ASSUME NEW t, JobStep(t)
      PROVE  LeaseInv'
  BY <1>7 DEF JobStep, slotVars
<1> QED
  BY <1>1, <1>2, <1>3, <1>4, <1>5, <1>6, <1>7, LeaseInvWork DEF Next, TaskStep, ScanStep

(* Every task at work has its lease, so no two scans are at work together. *)
THEOREM OneScanAtATime == Spec => []OneScanAtWork
<1>1. Spec => []LeaseInv
  BY LeaseInvInit, LeaseInvStep, PTL DEF Spec
<1>2. Spec => []LeaseExclusion
  BY ImplementsSlot, SlotExclusive, PTL
<1>3. LeaseInv /\ LeaseExclusion => OneScanAtWork
  BY DEF LeaseInv, LeaseExclusion, OneScanAtWork
<1> QED
  BY <1>1, <1>2, <1>3, PTL

(* The newest token lives in the whole system as well.                     *)
THEOREM NewestTokenLivesInService == Spec => []NewestTokenLives
<1> QED
  BY ImplementsSlot, NewestSelectionLives, PTL

-----------------------------------------------------------------------------
(* A client that polls the revision shows the visible catalog.             *)

Unannounced == \E t \in Tasks : JobAt(t, "revision")

ClientInv ==
    /\ job \in [Tasks -> Jobs]
    /\ revision \in Nat
    /\ client \in [seen : Nat \cup {NoRevision}, fetch : {"none", "asked", "answered"},
                   answer : Catalogs, shown : Catalogs]
    /\ cache \in Catalogs
    /\ readiness \in Readiness
    /\ client.seen <= revision
    /\ client.seen = revision /\ ~Unannounced =>
         /\ client.fetch = "none" => client.shown = cache
         /\ client.fetch = "answered" => client.answer = cache

LEMMA MainIsTask == \A s \in Scans : Main(s) \in Tasks /\ Progress(s) \in Tasks
<1> QED
  BY DEF Main, Progress, Tasks

(* What the tasks write are jobs, and none of them begins at the revision. *)
LEMMA WritesAreJobs ==
    /\ {NoJob, Indexing, NoLibrary, Failed, ScanFailed, EnrichmentFailed} \subseteq Jobs
    /\ \A j \in {NoJob, Indexing, NoLibrary, Failed, ScanFailed, EnrichmentFailed} :
          j.step # "revision"
    /\ \A s \in Scans, stage \in Stages :
          /\ Available(Built(s, stage)) \in Jobs /\ Complete(Built(s, stage)) \in Jobs
          /\ Available(Built(s, stage)).step # "revision"
          /\ Complete(Built(s, stage)).step # "revision"
<1> QED
  BY DEF NoJob, Indexing, NoLibrary, Failed, ScanFailed, EnrichmentFailed, Available, Complete,
         Built, Job, Jobs, JobSteps, Catalogs, NoCatalog, States, Enrichments

JobsKept ==
    /\ job' \in [Tasks -> Jobs]
    /\ \A t \in Tasks : JobAt(t, "revision") => job'[t].step = "revision"

(* A step that touches no cell and no client, and ends no setter between   *)
(* its catalog and its revision, keeps the invariant.                      *)
LEMMA ClientInvKept ==
    ASSUME ClientInv, JobsKept, UNCHANGED <<cells, client>>
    PROVE  ClientInv'
<1>1. Unannounced => Unannounced'
  BY DEF JobsKept, Unannounced, JobAt
<1> QED
  BY <1>1 DEF ClientInv, JobsKept, cells

(* Starting a setter in an idle task is such a step.                       *)
LEMMA StartKeepsJobs ==
    ASSUME ClientInv, NEW s \in Scans, Idle(s), NEW j \in Jobs, Continue(Main(s), j)
    PROVE  JobsKept
<1>1. Main(s) \in Tasks /\ job[Main(s)].step = "none"
  BY MainIsTask DEF Idle, JobAt
<1> QED
  BY <1>1 DEF ClientInv, JobsKept, Continue, JobAt

LEMMA SameJobs == ClientInv /\ UNCHANGED job => JobsKept
<1> QED
  BY DEF ClientInv, JobsKept, JobAt

LEMMA WorkKeepsJobs ==
    ASSUME ClientInv, NEW s \in Scans, Work(s)
    PROVE  JobsKept
<1> USE DEF At, Start
<1> DEFINE Steps == {NoJob, Indexing, NoLibrary, Failed, ScanFailed, EnrichmentFailed}
                      \cup {Available(Built(s, stage)) : stage \in Stages}
                      \cup {Complete(Built(s, stage)) : stage \in Stages}
<1>1. Steps \subseteq Jobs
  BY WritesAreJobs
<1>2. (\E j \in Steps : Idle(s) /\ Continue(Main(s), j)) => JobsKept
  BY <1>1, StartKeepsJobs
<1>3. /\ Indexing \in Steps /\ NoLibrary \in Steps /\ Failed \in Steps
      /\ ScanFailed \in Steps /\ EnrichmentFailed \in Steps
      /\ Available(Built(s, "preview")) \in Steps /\ Available(Built(s, "available")) \in Steps
      /\ Complete(Built(s, "final")) \in Steps
  BY DEF Stages
<1> HIDE DEF Steps
<1>4. CASE Begin(s) \/ Load(s)
  BY <1>2, <1>3, <1>4, SameJobs DEF Begin, Load
<1>5. CASE IndexScan(s)
  BY <1>2, <1>3, <1>5, SameJobs DEF IndexScan, Preview, Drain, Enrich, FailWithoutLease, Replaced
<1>6. CASE RefreshScan(s) \/ RefreshAgain(s) \/ AutomaticRefresh(s)
  BY <1>2, <1>3, <1>6, SameJobs
  DEF RefreshScan, RefreshAgain, AutomaticRefresh, FailWithoutLease, Replaced
<1>7. CASE RemoveRoot(s)
  BY <1>2, <1>3, <1>7, SameJobs DEF RemoveRoot
<1>8. CASE LocalIndex(s) \/ LocalEnrich(s) \/ EditMetadata(s) \/ FindSong(s) \/ RebuildForSong(s)
  BY <1>2, <1>3, <1>8, SameJobs DEF LocalIndex, LocalEnrich, EditMetadata, FindSong, RebuildForSong
<1>9. CASE Return(s)
  BY <1>9, SameJobs DEF Return
<1> QED
  BY <1>4, <1>5, <1>6, <1>7, <1>8, <1>9 DEF Work

(* A publisher only starts a setter when it is idle, and is not killed     *)
(* between a catalog and its revision.                                     *)
LEMMA PublisherKeepsJobs ==
    ASSUME ClientInv, NEW s \in Scans, PublisherStep(s)
    PROVE  JobsKept
<1>1. Progress(s) \in Tasks
  BY MainIsTask
<1>2. NoJob \in Jobs /\ Available(Built(s, "batch")) \in Jobs
  BY WritesAreJobs DEF Stages
<1>3. CASE Receive(s) \/ ChannelClosed(s)
  BY <1>3, SameJobs DEF Receive, ChannelClosed
<1>4. CASE Prepare(s)
  BY <1>1, <1>2, <1>4, SameJobs
  DEF Prepare, PublisherAt, ClientInv, JobsKept, Continue, JobAt
<1>5. CASE Killed(s)
  BY <1>1, <1>2, <1>5 DEF Killed, ClientInv, JobsKept, Continue, JobAt
<1> QED
  BY <1>3, <1>4, <1>5 DEF PublisherStep

(* The steps of a setter: only writing the catalog leaves it unannounced,  *)
(* and the revision that announces it is one no client has seen.           *)
LEMMA JobStepClientInv ==
    ASSUME ClientInv, NEW t \in Tasks, JobStep(t)
    PROVE  ClientInv'
<1> USE DEF NextStep, Continue, JobAt
<1>1. job[t] \in Jobs /\ client' = client
  BY DEF ClientInv, JobStep
<1>2. NoJob \in Jobs /\ Failed \in Jobs
  BY WritesAreJobs
<1>3. CASE CheckCache(t)
  <2>1. [job[t] EXCEPT !.step = "copy"] \in Jobs
    BY <1>1 DEF Jobs, JobSteps
  <2>2. JobsKept
    BY <1>2, <1>3, <2>1 DEF CheckCache, ClientInv, JobsKept
  <2> QED
    BY <1>1, <1>3, <2>2, ClientInvKept DEF CheckCache
<1>4. CASE CopyEnrichment(t)
  <2>1. [job[t] EXCEPT !.step = "readiness", !.enrichment = readiness.enrichment] \in Jobs
    BY <1>1 DEF ClientInv, Readiness, Jobs, JobSteps
  <2>2. JobsKept
    BY <1>4, <2>1 DEF CopyEnrichment, ClientInv, JobsKept
  <2> QED
    BY <1>1, <1>4, <2>2, ClientInvKept DEF CopyEnrichment
<1>5. CASE WriteCache(t)
  <2>1. /\ [job[t] EXCEPT !.step = "revision"] \in Jobs
        /\ [job[t] EXCEPT !.step = "revision"].step = "revision"
        /\ job[t].catalog \in Catalogs
    BY <1>1 DEF Jobs, JobSteps
  <2>2. job' \in [Tasks -> Jobs] /\ job'[t].step = "revision"
    BY <1>5, <2>1 DEF WriteCache, ClientInv
  <2> QED
    BY <1>1, <1>5, <2>1, <2>2 DEF WriteCache, ClientInv, Unannounced
<1>6. CASE BumpRevision(t)
  <2>1. [job[t] EXCEPT !.step = "readiness"] \in Jobs
    BY <1>1 DEF Jobs, JobSteps
  <2>2. job' \in [Tasks -> Jobs]
    BY <1>6, <2>1 DEF BumpRevision, ClientInv
  <2>3. client.seen \in Int /\ client.seen <= revision /\ revision' = revision + 1
    BY <1>6 DEF BumpRevision, ClientInv, NoRevision
  <2>4. client'.seen <= revision' /\ client'.seen # revision' /\ revision' \in Nat
    BY <1>1, <2>3 DEF ClientInv
  <2> QED
    BY <1>1, <1>6, <2>2, <2>4 DEF BumpRevision, ClientInv
<1>7. CASE WriteReadiness(t) \/ WriteEnrichment(t)
  <2>1. JobsKept
    BY <1>2, <1>7 DEF WriteReadiness, WriteEnrichment, ClientInv, JobsKept
  <2>2. cache' = cache /\ revision' = revision /\ readiness' \in Readiness
    BY <1>1, <1>7 DEF WriteReadiness, WriteEnrichment, Readiness, States, Enrichments, Jobs
  <2>3. Unannounced => Unannounced'
    BY <2>1 DEF JobsKept, Unannounced
  <2> QED
    BY <1>1, <2>1, <2>2, <2>3 DEF ClientInv, JobsKept
<1> QED
  BY <1>3, <1>4, <1>5, <1>6, <1>7 DEF JobStep

LEMMA ClientInvInit == Init => ClientInv
<1> SUFFICES ASSUME Init PROVE ClientInv
  OBVIOUS
<1>1. NoJob \in Jobs
  BY WritesAreJobs
<1> QED
  BY <1>1 DEF Init, ClientInv, NoRevision, Catalogs, NoCatalog, Readiness, States, Enrichments

LEMMA ClientInvStep == ClientInv /\ [Next]_vars => ClientInv'
<1> SUFFICES ASSUME ClientInv, [Next]_vars
             PROVE  ClientInv'
  OBVIOUS
<1>1. CASE UNCHANGED vars
  BY <1>1, ClientInvKept, SameJobs DEF vars, taskVars
<1>2. CASE Poll
  <2>1. /\ client'.seen = revision /\ client'.answer = client.answer /\ client'.shown = client.shown
        /\ client'.fetch = IF client.seen = revision THEN client.fetch ELSE "asked"
        /\ UNCHANGED <<job, cells>>
        /\ Unannounced' = Unannounced
    BY <1>2 DEF Poll, ClientInv, Unannounced, JobAt, taskVars
  <2>2. client' \in [seen : Nat \cup {NoRevision}, fetch : {"none", "asked", "answered"},
                    answer : Catalogs, shown : Catalogs]
    BY <1>2 DEF Poll, ClientInv
  <2> QED
    BY <2>1, <2>2 DEF ClientInv, cells
<1>3. CASE Answer
  BY <1>3 DEF Answer, ClientInv, Unannounced, JobAt, cells, taskVars
<1>4. CASE Show
  BY <1>4 DEF Show, ClientInv, Unannounced, JobAt, cells, taskVars
<1>5. ASSUME NEW s \in Scans, NEW k \in Kinds, Request(s, k)
      PROVE  ClientInv'
  BY <1>5, ClientInvKept, SameJobs DEF Request
<1>6. ASSUME NEW s \in Scans, Acquire(s) \/ Spawn(s) \/ Send(s)
      PROVE  ClientInv'
  BY <1>6, ClientInvKept, SameJobs DEF Acquire, Spawn, Send
<1>7. ASSUME NEW s \in Scans, EndPhase(s)
      PROVE  ClientInv'
  <2>1. EnrichmentFailed \in Jobs
    BY WritesAreJobs
  <2>2. JobsKept
    BY <1>7, <2>1, SameJobs, StartKeepsJobs DEF EndPhase, At, Start
  <2> QED
    BY <1>7, <2>2, ClientInvKept DEF EndPhase
<1>8. ASSUME NEW s \in Scans, Work(s)
      PROVE  ClientInv'
  BY <1>8, WorkKeepsJobs, ClientInvKept DEF Work
<1>9. ASSUME NEW s \in Scans, PublisherStep(s)
      PROVE  ClientInv'
  BY <1>9, PublisherKeepsJobs, ClientInvKept DEF PublisherStep
<1>10. ASSUME NEW s \in Scans, JobStep(Main(s)) \/ JobStep(Progress(s))
       PROVE  ClientInv'
  BY <1>10, MainIsTask, JobStepClientInv
<1> QED
  BY <1>1, <1>2, <1>3, <1>4, <1>5, <1>6, <1>7, <1>8, <1>9, <1>10
  DEF Next, TaskStep, ScanStep, ClientStep

(* A client at rest that has seen the current revision shows the visible   *)
(* catalog: no publication of any task goes unnoticed.                     *)
THEOREM ClientIsCurrent == Spec => []ClientShowsCurrentCatalog
<1>1. ClientInv => ClientShowsCurrentCatalog
  BY DEF ClientInv, ClientShowsCurrentCatalog, Unannounced
<1> QED
  BY <1>1, ClientInvInit, ClientInvStep, PTL DEF Spec

-----------------------------------------------------------------------------
(* Type correctness: what the other invariants leave open are the types of *)
(* the publisher's variables.                                              *)

PublisherTypes ==
    /\ publisher \in [Scans -> PublisherLabels]
    /\ sent \in [Scans -> 0 .. MaxBatches]
    /\ buffered \subseteq Scans
    /\ aborted \subseteq Scans
    /\ indexed \in BOOLEAN

LEMMA PublisherTypesStep == PublisherTypes /\ [Next]_vars => PublisherTypes'
<1> SUFFICES ASSUME PublisherTypes, [Next]_vars
             PROVE  PublisherTypes'
  OBVIOUS
<1> USE DEF PublisherTypes, PublisherLabels
<1>1. CASE UNCHANGED vars
  BY <1>1 DEF vars, taskVars
<1>2. CASE ClientStep
  BY <1>2 DEF ClientStep, Poll, Answer, Show, taskVars
<1>3. ASSUME NEW s \in Scans, NEW k \in Kinds, Request(s, k)
      PROVE  PublisherTypes'
  BY <1>3 DEF Request
<1>4. ASSUME NEW s \in Scans, Acquire(s) \/ Spawn(s) \/ EndPhase(s)
      PROVE  PublisherTypes'
  BY <1>4 DEF Acquire, Spawn, EndPhase, Committed, CommittedOrNot
<1>5. ASSUME NEW s \in Scans, Send(s)
      PROVE  PublisherTypes'
  BY <1>5, MaxBatchesAssumption DEF Send
<1>6. ASSUME NEW s \in Scans, PublisherStep(s)
      PROVE  PublisherTypes'
  BY <1>6 DEF PublisherStep, Receive, Prepare, ChannelClosed, Killed, PublisherGoto
<1>7. ASSUME NEW s \in Scans, Work(s)
      PROVE  PublisherTypes'
  <2>1. UNCHANGED <<publisher, sent, buffered, aborted>>
    BY <1>7 DEF Work
  <2>2. indexed' \in BOOLEAN
    BY <1>7 DEF Work, Begin, Load, IndexScan, Preview, Drain, Enrich, RefreshScan, RefreshAgain,
       AutomaticRefresh, RemoveRoot, LocalIndex, LocalEnrich, EditMetadata, FindSong, RebuildForSong, Return,
       Committed, CommittedOrNot
  <2> QED
    BY <2>1, <2>2
<1>8. ASSUME NEW t, JobStep(t)
      PROVE  PublisherTypes'
  BY <1>8 DEF JobStep
<1> QED
  BY <1>1, <1>2, <1>3, <1>4, <1>5, <1>6, <1>7, <1>8 DEF Next, TaskStep, ScanStep

(* Every variable of the lifecycle keeps its type.                         *)
THEOREM LifecycleTyping == Spec => []TypeOK
<1>1. Spec => []LeaseInv
  BY LeaseInvInit, LeaseInvStep, PTL DEF Spec
<1>2. Spec => []ClientInv
  BY ClientInvInit, ClientInvStep, PTL DEF Spec
<1>3. Init => PublisherTypes
  BY MaxBatchesAssumption DEF Init, PublisherTypes, PublisherLabels
<1>4. Spec => []PublisherTypes
  BY <1>3, PublisherTypesStep, PTL DEF Spec
<1>5. Spec => []SlotTypeOK
  BY ImplementsSlot, SlotTyping, PTL
<1>6. LeaseInv /\ ClientInv /\ PublisherTypes /\ SlotTypeOK => TypeOK
  BY DEF LeaseInv, ClientInv, PublisherTypes, TypeOK
<1> QED
  BY <1>1, <1>2, <1>4, <1>5, <1>6, PTL

-----------------------------------------------------------------------------
(* At rest nobody is told that the library is being indexed.               *)

LEMMA TasksDiffer ==
    \A s, t \in Scans : /\ Main(s) # Progress(t)
                        /\ Main(s) = Main(t) => s = t
                        /\ Progress(s) = Progress(t) => s = t
<1> QED
  BY DEF Main, Progress

Announced == {"load", "preview", "spawn", "phase", "drain", "enrich", "scan", "rescan",
              "autoScan", "available", "localEnrich"}

(* Who will write the readiness again: a selection that will get its turn, *)
(* a scan that is going to announce itself or has, and any setter begun.   *)
WillBegin(s) == pc[s] = "waiting" /\ kind[s] \in Replacing /\ s \notin cancelled
Owes(s) ==
    \/ WillBegin(s)
    \/ pc[s] = "begin" /\ kind[s] # "remove"
    \/ pc[s] \in Announced
    \/ ~Idle(s)

(* The first two parts say that only a scan announces itself; the third,   *)
(* that whoever told a scan to stop is still there to take its place.      *)
IndexingInv ==
    /\ \A s \in Scans : job[Main(s)].state = "Indexing" => ~Idle(s) /\ pc[s] \in Announced
    /\ \A s \in Scans : job[Progress(s)].state # "Indexing"
    /\ \A s \in Scans : s \in cancelled /\ HoldsLease(s) => \E r \in Scans : WillBegin(r)
    /\ readiness.state = "Indexing" => \E s \in Scans : Owes(s)

LEMMA IndexingInvInit == Init => IndexingInv
<1> SUFFICES ASSUME Init PROVE IndexingInv
  OBVIOUS
<1>1. \A s \in Scans : job[Main(s)] = NoJob /\ job[Progress(s)] = NoJob
  BY MainIsTask DEF Init
<1>2. pc[Startup] = "load" /\ cancelled = {}
  BY ScansAssumption DEF Init, SlotInit
<1> QED
  BY <1>1, <1>2, ScansAssumption DEF IndexingInv, NoJob, Job, Owes, Announced

(* The setters with which a task ends a stretch of its work: each of them  *)
(* writes the readiness at its end, and none writes "Indexing".            *)
Answers(s) ==
    {NoLibrary, Failed, ScanFailed, EnrichmentFailed}
        \cup {Available(Built(s, stage)) : stage \in Stages}
        \cup {Complete(Built(s, stage)) : stage \in Stages}

LEMMA AnswersAreJobs ==
    ASSUME NEW s \in Scans
    PROVE  /\ Answers(s) \subseteq Jobs
           /\ \A j \in Answers(s) : j.state # "Indexing" /\ j.step # "none"
<1>1. Answers(s) \subseteq Jobs
  BY WritesAreJobs DEF Answers
<1>2. \A j \in Answers(s) : j.state # "Indexing" /\ j.step # "none"
  BY DEF Answers, NoLibrary, Failed, ScanFailed, EnrichmentFailed, Available, Complete, Job
<1> QED
  BY <1>1, <1>2

(* A task that was announced goes on announced, starts a setter, or stops  *)
(* because it was told to.                                                 *)
Outcome(s) ==
    \/ \E j \in Answers(s) : Continue(Main(s), j)
    \/ pc[s] = "begin" /\ Continue(Main(s), Indexing) /\ pc'[s] \in Announced
    \/ UNCHANGED job /\ s \in cancelled /\ HoldsLease(s)
    \/ UNCHANGED job /\ pc[s] \notin Announced /\ (pc[s] = "begin" => kind[s] = "remove")
    \/ UNCHANGED job /\ pc'[s] \in Announced

LEMMA WorkOutcome ==
    ASSUME LeaseInv, NEW s \in Scans, Work(s)
    PROVE  /\ Idle(s) /\ Outcome(s)
           /\ pc[s] # "waiting"
           /\ HoldsLease(s)' => HoldsLease(s)
           /\ \A t \in Scans : t # s => pc'[t] = pc[t]
           /\ UNCHANGED <<kind, cells, cancelled>>
           /\ pc' \in [Scans -> Labels]
<1>0. pc \in [Scans -> Labels]
  BY DEF LeaseInv
<1>1. UNCHANGED <<kind, cells>> /\ pc[s] \in Labels
  BY <1>0 DEF Work
<1>2. /\ NoLibrary \in Answers(s) /\ Failed \in Answers(s)
      /\ ScanFailed \in Answers(s) /\ EnrichmentFailed \in Answers(s)
      /\ Available(Built(s, "preview")) \in Answers(s) /\ Available(Built(s, "available")) \in Answers(s)
      /\ Complete(Built(s, "final")) \in Answers(s)
  BY DEF Answers, Stages
<1> USE <1>0, <1>1, <1>2 DEF Outcome, At, Start, Goto, Labels, HoldsLease, Announced
<1>3. CASE Begin(s)
  <2>1. FirstWork[kind[s]] \in Announced \/ kind[s] = "remove"
    BY <1>3 DEF Begin, LeaseInv, FirstWork, Replacing, Trying
  <2> QED
    BY <1>3, <2>1 DEF Begin, slotVars
<1>4. CASE Load(s)
  BY <1>4 DEF Load, slotVars
<1>5. CASE Preview(s)
  BY <1>5 DEF Preview, FailWithoutLease, Replaced, Leave, slotVars
<1>6. CASE Drain(s) \/ Enrich(s)
  BY <1>6 DEF Drain, Enrich, slotVars
<1>7. CASE RefreshScan(s)
  BY <1>7 DEF RefreshScan, FailWithoutLease, Replaced, Leave, slotVars
<1>8. CASE RefreshAgain(s)
  BY <1>8 DEF RefreshAgain, FailWithoutLease, Leave, slotVars
<1>9. CASE AutomaticRefresh(s)
  BY <1>9 DEF AutomaticRefresh, slotVars
<1>10. CASE RemoveRoot(s)
  BY <1>10 DEF RemoveRoot, slotVars
<1>11. CASE LocalIndex(s) \/ LocalEnrich(s)
  BY <1>11 DEF LocalIndex, LocalEnrich, slotVars
<1>12. CASE EditMetadata(s) \/ FindSong(s) \/ RebuildForSong(s)
  BY <1>12 DEF EditMetadata, FindSong, RebuildForSong, slotVars
<1>13. CASE Return(s)
  BY <1>13 DEF Return, Leave, slotVars
<1> QED
  BY <1>3, <1>4, <1>5, <1>6, <1>7, <1>8, <1>9, <1>10, <1>11, <1>12, <1>13 DEF Work, IndexScan

(* A selection that cancels a scan waits to take its place, and a scan     *)
(* that gets the slot has not been cancelled.                              *)
LEMMA ArrivalIndexingInv ==
    ASSUME SlotInv, SlotInv', LeaseInv, LeaseInv', IndexingInv, NEW s \in Scans,
           Acquire(s) \/ \E k \in Kinds : Request(s, k)
    PROVE  IndexingInv'
<1> USE DEF Goto
<1>1. UNCHANGED <<job, cells>> /\ pc[s] \in {"new", "waiting"} /\ s \in DOMAIN pc
  BY DEF Acquire, Request, LeaseInv
<1>2. /\ pc \in [Scans -> Labels] /\ pc' \in [Scans -> Labels]
      /\ kind \in [Scans -> AllKinds \cup {"none", "startup"}]
      /\ \A t \in Scans : t # s => pc'[t] = pc[t] /\ kind'[t] = kind[t]
  BY DEF LeaseInv, Acquire, Request
<1>3. \A t \in Scans : Idle(t)' = Idle(t) /\ job'[Main(t)] = job[Main(t)] /\ job'[Progress(t)] = job[Progress(t)]
  BY <1>1 DEF Idle, JobAt, Main, Progress
<1>4. \A t \in Scans : HoldsLease(t)' => holder' = t
  BY DEF LeaseInv, SlotInv, HolderInv
<1>5. \A t \in Scans : job'[Main(t)].state = "Indexing" => ~Idle(t)' /\ pc'[t] \in Announced
  BY <1>1, <1>2, <1>3 DEF IndexingInv, Announced
<1>6. SUFFICES /\ \A t \in Scans : t \in cancelled' /\ HoldsLease(t)' => \E r \in Scans : WillBegin(r)'
               /\ (\E t \in Scans : Owes(t)) => \E t \in Scans : Owes(t)'
  BY <1>1, <1>3, <1>5 DEF IndexingInv, cells
<1>7. ASSUME NEW k \in Kinds, Request(s, k), k \in Replacing, Select(s), pc' = [pc EXCEPT ![s] = "waiting"]
      PROVE  WillBegin(s)'
  <2>1. s # active /\ s \notin cancelled
    BY <1>7 DEF Select, Advance, SlotInv, TokenInv
  <2> QED
    BY <1>2, <1>7, <2>1 DEF WillBegin, Select, Request
<1>8. CASE UNCHANGED cancelled /\ ~HoldsLease(s)' /\ ~WillBegin(s) /\ \E k \in Kinds : Request(s, k)
  <2>1. \A t \in Scans : t # s => WillBegin(t)' = WillBegin(t) /\ HoldsLease(t)' = HoldsLease(t) /\ (Owes(t) => Owes(t)')
    BY <1>2, <1>3, <1>8 DEF WillBegin, HoldsLease, Owes
  <2>2. Owes(s) => Owes(s)'
    BY <1>3, <1>8, <1>1 DEF Owes, Announced, Request
  <2> QED
    BY <1>8, <2>1, <2>2 DEF IndexingInv
<1>9. CASE \E k \in Kinds : Request(s, k)
  <2>0. PICK k \in Kinds : Request(s, k)
    BY <1>9
  <2>1. pc[s] = "new" /\ ~WillBegin(s)
    BY <2>0 DEF Request, WillBegin
  <2>2. CASE k \in Replacing /\ Select(s) /\ pc' = [pc EXCEPT ![s] = "waiting"]
    BY <1>6, <1>7, <2>0, <2>2 DEF Owes
  <2>3. CASE k \in Trying /\ TryBegin(s) /\ pc' = [pc EXCEPT ![s] = "waiting"]
    BY <1>2, <1>8, <1>9, <2>1, <2>3 DEF TryBegin, HoldsLease
  <2>4. CASE k \in Trying /\ Refuse(s) /\ pc' = [pc EXCEPT ![s] = "done"]
    BY <1>2, <1>8, <1>9, <2>1, <2>4 DEF Refuse, HoldsLease
  <2>5. CASE k \in Unleased /\ pc' = [pc EXCEPT ![s] = k] /\ UNCHANGED slotVars
    BY <1>2, <1>8, <1>9, <2>1, <2>5 DEF Unleased, slotVars, HoldsLease
  <2> QED
    BY <2>0, <2>2, <2>3, <2>4, <2>5 DEF Request
<1>10. CASE Acquire(s)
  <2>1. UNCHANGED <<kind, cancelled>> /\ pc[s] = "waiting"
    BY <1>10 DEF Acquire, Enqueue, Install, Admit, StandDown
  <2>2. \A t \in Scans : t # s => WillBegin(t)' = WillBegin(t) /\ HoldsLease(t)' = HoldsLease(t) /\ (Owes(t) => Owes(t)')
    BY <1>2, <1>3, <2>1 DEF WillBegin, HoldsLease, Owes
  <2>3. CASE Enqueue(s) /\ UNCHANGED pc
    <3>1. \A t \in Scans : WillBegin(t)' = WillBegin(t) /\ HoldsLease(t)' = HoldsLease(t) /\ Owes(t)' = Owes(t)
      BY <1>3, <2>1, <2>3 DEF WillBegin, HoldsLease, Owes
    <3> QED
      BY <2>1, <3>1 DEF IndexingInv
  <2>4. CASE (Install(s) \/ Admit(s)) /\ pc' = [pc EXCEPT ![s] = "begin"]
    <3>1. s \notin cancelled
      BY <2>4 DEF Install, Admit, Advance, SlotInv, TokenInv
    <3>2. HoldsLease(s)' /\ pc'[s] = "begin"
      BY <1>2, <2>4 DEF HoldsLease
    <3>3. \A t \in Scans : HoldsLease(t)' => t = s
      BY <1>4, <3>2
    <3>4. Owes(s) => Owes(s)'
      BY <1>3, <2>1, <3>2 DEF Owes, WillBegin, Replacing, Announced
    <3> QED
      BY <2>1, <2>2, <3>1, <3>3, <3>4
  <2>5. CASE StandDown(s) /\ pc' = [pc EXCEPT ![s] = "done"]
    <3>1. ~WillBegin(s) /\ ~HoldsLease(s)'
      BY <1>2, <2>5 DEF StandDown, WillBegin, HoldsLease
    <3>2. Owes(s) => Owes(s)'
      BY <1>3, <2>1, <3>1 DEF Owes, Announced
    <3> QED
      BY <2>1, <2>2, <3>1, <3>2 DEF IndexingInv
  <2> QED
    BY <1>10, <2>3, <2>4, <2>5 DEF Acquire
<1> QED
  BY <1>9, <1>10

(* Whatever the outcome, somebody still owes the readiness, or it is not   *)
(* "Indexing": a scan that was told to stop leaves it to its successor.    *)
LEMMA OutcomeIndexingInv ==
    ASSUME ClientInv, LeaseInv, IndexingInv, NEW s \in Scans, Idle(s), Outcome(s),
           pc[s] # "waiting", HoldsLease(s)' => HoldsLease(s),
           \A t \in Scans : t # s => pc'[t] = pc[t],
           UNCHANGED <<kind, cells, cancelled>>
    PROVE  IndexingInv'
<1>1. \A t \in Scans : t # s => HoldsLease(t)' = HoldsLease(t)
  BY DEF HoldsLease
<1>2. \A r \in Scans : WillBegin(r) => WillBegin(r)'
  BY DEF WillBegin
<1>3. ASSUME NEW t \in Scans, t \in cancelled', HoldsLease(t)'
      PROVE  \E r \in Scans : WillBegin(r)'
  BY <1>1, <1>2, <1>3 DEF IndexingInv
<1>4. /\ \A t \in Scans : job'[Progress(t)] = job[Progress(t)]
      /\ \A t \in Scans : t # s => job'[Main(t)] = job[Main(t)]
  BY MainIsTask, TasksDiffer DEF Outcome, Continue, ClientInv
<1>5. \A t \in Scans : t # s => (Owes(t) => Owes(t)')
  BY <1>4 DEF Owes, WillBegin, Idle, JobAt
<1>6. SUFFICES /\ job'[Main(s)].state = "Indexing" => ~Idle(s)' /\ pc'[s] \in Announced
               /\ (\E t \in Scans : Owes(t)) => \E t \in Scans : Owes(t)'
  <2>1. \A t \in Scans : t # s => Idle(t)' = Idle(t)
    BY <1>4 DEF Idle, JobAt
  <2> QED
    BY <1>3, <1>4, <2>1 DEF IndexingInv, cells
<1>7. CASE \E j \in Answers(s) : Continue(Main(s), j)
  <2>1. job'[Main(s)].state # "Indexing" /\ job'[Main(s)].step # "none"
    BY <1>7, MainIsTask, AnswersAreJobs DEF Continue, ClientInv
  <2> QED
    BY <2>1 DEF Owes, Idle, JobAt
<1>8. CASE Continue(Main(s), Indexing) /\ pc'[s] \in Announced
  <2>1. job'[Main(s)].step # "none"
    BY <1>8, MainIsTask DEF Continue, ClientInv, Indexing, Job
  <2> QED
    BY <1>8, <2>1 DEF Owes, Idle, JobAt
<1>9. CASE UNCHANGED job
  <2>1. job'[Main(s)].state # "Indexing"
    BY <1>9 DEF IndexingInv
  <2>2. CASE s \in cancelled /\ HoldsLease(s)
    <3>1. PICK r \in Scans : WillBegin(r)
      BY <2>2 DEF IndexingInv
    <3> QED
      BY <1>2, <2>1, <3>1 DEF Owes
  <2>3. CASE pc[s] \notin Announced /\ (pc[s] = "begin" => kind[s] = "remove")
    <3>1. ~Owes(s)
      BY <2>3 DEF Owes, WillBegin
    <3> QED
      BY <1>5, <2>1, <3>1
  <2>4. CASE pc'[s] \in Announced
    BY <2>1, <2>4 DEF Owes
  <2> QED
    BY <1>9, <2>2, <2>3, <2>4, <1>7, <1>8 DEF Outcome
<1> QED
  BY <1>7, <1>8, <1>9 DEF Outcome

(* A publisher and a setter: only finishing a setter pays what is owed.    *)
LEMMA PublisherIndexingInv ==
    ASSUME ClientInv, IndexingInv, NEW s \in Scans, PublisherStep(s)
    PROVE  IndexingInv'
<1>1. UNCHANGED <<kind, pc, cells, cancelled>>
  BY DEF PublisherStep, slotVars
<1>2. /\ \A t \in Scans : job'[Main(t)] = job[Main(t)]
      /\ \A t \in Scans : job'[Progress(t)] \in {job[Progress(t)], NoJob, Available(Built(s, "batch"))}
  BY MainIsTask, TasksDiffer DEF ClientInv, PublisherStep, Receive, Prepare, ChannelClosed, Killed, Continue
<1>3. NoJob.state # "Indexing" /\ Available(Built(s, "batch")).state # "Indexing"
  BY DEF NoJob, Available, Job
<1>4. \A t \in Scans : /\ Idle(t)' = Idle(t) /\ Owes(t)' = Owes(t) /\ WillBegin(t)' = WillBegin(t)
                       /\ HoldsLease(t)' = HoldsLease(t)
  BY <1>1, <1>2 DEF Idle, JobAt, Owes, WillBegin, HoldsLease
<1> QED
  BY <1>1, <1>2, <1>3, <1>4 DEF IndexingInv, cells

LEMMA SetterIndexingInv ==
    ASSUME ClientInv, IndexingInv, NEW t \in Tasks, JobStep(t)
    PROVE  IndexingInv'
<1>1. UNCHANGED <<kind, pc, cancelled>> /\ job[t] \in Jobs
  BY DEF JobStep, slotVars, ClientInv
<1>2. /\ \A u \in Tasks : u # t => job'[u] = job[u]
      /\ job[t].step # "none"
      /\ job'[t].state \in {job[t].state, "Failed", "Ready"}
      /\ \/ job'[t].step # "none" /\ UNCHANGED readiness
         \/ job'[t] = NoJob /\ readiness'.state \in {job[t].state, "Ready"}
  <2> USE <1>1 DEF NextStep, Continue, JobAt, ClientInv, Jobs
  <2>1. CASE CheckCache(t)
    BY <2>1 DEF CheckCache, Failed, Job, cells
  <2>2. CASE CopyEnrichment(t)
    BY <2>2 DEF CopyEnrichment, cells
  <2>3. CASE WriteCache(t)
    BY <2>3 DEF WriteCache
  <2>4. CASE BumpRevision(t)
    BY <2>4 DEF BumpRevision
  <2>5. CASE WriteReadiness(t)
    BY <2>5 DEF WriteReadiness, NoJob, Job
  <2>6. CASE WriteEnrichment(t)
    BY <2>6 DEF WriteEnrichment, NoJob, Job
  <2> QED
    BY <2>1, <2>2, <2>3, <2>4, <2>5, <2>6 DEF JobStep
<1>4. \A s \in Scans : WillBegin(s)' = WillBegin(s) /\ HoldsLease(s)' = HoldsLease(s)
  BY <1>1 DEF WillBegin, HoldsLease
<1>5. NoJob.state = "Ready" /\ NoJob.step = "none"
  BY DEF NoJob, Job
<1>6. \A s \in Scans : job'[Progress(s)].state # "Indexing"
  BY <1>2, MainIsTask DEF IndexingInv
<1>7. \A s \in Scans : job'[Main(s)].state = "Indexing" => ~Idle(s)' /\ pc'[s] \in Announced
  BY <1>1, <1>2, <1>5, MainIsTask DEF IndexingInv, Idle, JobAt
<1>8. CASE job'[t].step # "none" /\ UNCHANGED readiness
  <2>1. \A s \in Scans : Owes(s) => Owes(s)'
    BY <1>1, <1>2, <1>4, <1>8, MainIsTask DEF Owes, Idle, JobAt
  <2> QED
    BY <1>1, <1>4, <1>6, <1>7, <1>8, <2>1 DEF IndexingInv
<1>9. CASE job'[t] = NoJob /\ readiness'.state \in {job[t].state, "Ready"}
  <2>1. ASSUME readiness'.state = "Indexing"
        PROVE  \E s \in Scans : Owes(s)'
    <3>1. job[t].state = "Indexing"
      BY <1>9, <2>1
    <3>2. PICK s \in Scans : t = Main(s)
      BY <3>1 DEF IndexingInv, Tasks, Main, Progress
    <3>3. pc'[s] \in Announced
      BY <1>1, <3>1, <3>2 DEF IndexingInv
    <3> QED
      BY <3>3 DEF Owes
  <2> QED
    BY <1>1, <1>4, <1>6, <1>7, <2>1 DEF IndexingInv
<1> QED
  BY <1>2, <1>8, <1>9

LEMMA IndexingInvStep ==
    SlotInv /\ SlotInv' /\ LeaseInv /\ LeaseInv' /\ ClientInv /\ IndexingInv /\ [Next]_vars
        => IndexingInv'
<1> SUFFICES ASSUME SlotInv, SlotInv', LeaseInv, LeaseInv', ClientInv, IndexingInv, [Next]_vars
             PROVE  IndexingInv'
  OBVIOUS
<1>1. CASE UNCHANGED <<kind, pc, job, cells, cancelled>>
  BY <1>1 DEF IndexingInv, HoldsLease, WillBegin, Owes, Idle, JobAt, cells
<1>2. ASSUME NEW s \in Scans, Acquire(s) \/ \E k \in Kinds : Request(s, k)
      PROVE  IndexingInv'
  BY <1>2, ArrivalIndexingInv
<1>3. ASSUME NEW s \in Scans, Work(s)
      PROVE  IndexingInv'
  BY <1>3, WorkOutcome, OutcomeIndexingInv
<1>4. ASSUME NEW s \in Scans, Spawn(s)
      PROVE  IndexingInv'
  BY <1>4, OutcomeIndexingInv
  DEF Spawn, At, Goto, Outcome, Announced, HoldsLease, LeaseInv, slotVars
<1>5. ASSUME NEW s \in Scans, EndPhase(s)
      PROVE  IndexingInv'
  <2>1. EnrichmentFailed \in Answers(s)
    BY DEF Answers
  <2>2. Outcome(s)
    BY <1>5, <2>1 DEF EndPhase, At, Goto, Start, Outcome, Announced, HoldsLease, LeaseInv
  <2> QED
    BY <1>5, <2>2, OutcomeIndexingInv DEF EndPhase, At, Goto, Start, HoldsLease, LeaseInv, slotVars
<1>6. ASSUME NEW s \in Scans, Send(s)
      PROVE  IndexingInv'
  BY <1>1, <1>6 DEF Send, slotVars
<1>7. CASE ClientStep \/ UNCHANGED vars
  BY <1>1, <1>7 DEF ClientStep, Poll, Answer, Show, vars, slotVars, taskVars
<1> QED
  BY <1>2, <1>3, <1>4, <1>5, <1>6, <1>7, PublisherIndexingInv, SetterIndexingInv, MainIsTask
  DEF Next, TaskStep, ScanStep

LEMMA SlotInvInService == Spec => []SlotInv
<1> QED
  BY ImplementsSlot, SlotInvariant, PTL

(* When nothing is running, clients are not told that the library is being *)
(* indexed, whatever was cancelled, replaced or failed on the way.         *)
THEOREM NeverLeftIndexing == Spec => []QuietNeverIndexing
<1>1. Spec => []LeaseInv
  BY LeaseInvInit, LeaseInvStep, PTL DEF Spec
<1>2. Spec => []ClientInv
  BY ClientInvInit, ClientInvStep, PTL DEF Spec
<1>3. Spec => []IndexingInv
  BY <1>1, <1>2, SlotInvInService, IndexingInvInit, IndexingInvStep, PTL DEF Spec
<1>4. IndexingInv => QuietNeverIndexing
  BY MainIsTask DEF IndexingInv, QuietNeverIndexing, Quiet, Owes, WillBegin, Announced, Idle
<1> QED
  BY <1>3, <1>4, PTL

-----------------------------------------------------------------------------
(* The finished catalog of a folder scan is not replaced by a batch of it. *)

WholeOf(s) == {Built(s, "available"), Built(s, "final")}
HasWhole(s) == cache \in WholeOf(s) \/ job[Main(s)].catalog \in WholeOf(s)

(* A batch is published only while the publisher receives, and a whole     *)
(* catalog is built only when the publisher has ended, or never began.     *)
PartialInv ==
    \A s \in Scans :
        /\ job[Main(s)].catalog \in {NoCatalog, Built(s, "preview")} \cup WholeOf(s)
        /\ ~JobAt(Progress(s), "none") =>
              /\ publisher[s] = "receive"
              /\ job[Progress(s)].step \in {"cache", "revision", "readiness"}
              /\ job[Progress(s)].catalog = Built(s, "batch")
        /\ publisher[s] # "off" => pc[s] \in {"phase", "drain", "enrich", "leaving", "done"}
        /\ pc[s] \in {"phase", "drain"} \/ s \in aborted => publisher[s] # "off"
        /\ pc[s] = "enrich" => publisher[s] = "ended"
        /\ HasWhole(s) =>
              /\ pc[s] \in {"enrich", "rescan", "localEnrich", "leaving", "ending", "done"}
              /\ publisher[s] \in {"off", "ended"}

LEMMA BuiltDiffer ==
    /\ \A s, t \in Scans : \A x, y \in Stages : Built(s, x) = Built(t, y) => s = t /\ x = y
    /\ \A s \in Scans : \A x \in Stages : Built(s, x) # NoCatalog
    /\ \A s \in Scans : WholeOf(s) = {Built(s, x) : x \in {"available", "final"}}
    /\ {"preview", "batch", "available", "final"} = Stages
<1> QED
  BY DEF Built, NoCatalog, Stages, WholeOf

LEMMA PartialInvInit == Init => PartialInv
<1> SUFFICES ASSUME Init PROVE PartialInv
  OBVIOUS
<1>1. \A s \in Scans : job[Main(s)] = NoJob /\ job[Progress(s)] = NoJob
  BY MainIsTask DEF Init
<1>2. NoJob.catalog = NoCatalog /\ NoJob.step = "none"
  BY DEF NoJob, Job
<1>3. \A s \in Scans : ~HasWhole(s)
  BY <1>1, <1>2, BuiltDiffer DEF Init, HasWhole, WholeOf
<1>4. \A s \in Scans : pc[s] \in {"load", "new"} /\ publisher[s] = "off" /\ s \notin aborted
  BY DEF Init
<1> QED
  BY <1>1, <1>2, <1>3, <1>4 DEF PartialInv, JobAt

(* A step of one task's that leaves the others, and every cell, alone.     *)
LEMMA OwnPartialInv ==
    ASSUME PartialInv, NEW s \in Scans, UNCHANGED cells,
           \A t \in Scans : t # s =>
              /\ pc'[t] = pc[t] /\ publisher'[t] = publisher[t] /\ (t \in aborted' <=> t \in aborted)
              /\ job'[Main(t)] = job[Main(t)] /\ job'[Progress(t)] = job[Progress(t)],
           /\ job'[Main(s)].catalog \in {NoCatalog, Built(s, "preview")} \cup WholeOf(s)
           /\ job'[Progress(s)].step # "none" =>
                 /\ publisher'[s] = "receive"
                 /\ job'[Progress(s)].step \in {"cache", "revision", "readiness"}
                 /\ job'[Progress(s)].catalog = Built(s, "batch")
           /\ publisher'[s] # "off" => pc'[s] \in {"phase", "drain", "enrich", "leaving", "done"}
           /\ pc'[s] \in {"phase", "drain"} \/ s \in aborted' => publisher'[s] # "off"
           /\ pc'[s] = "enrich" => publisher'[s] = "ended"
           /\ cache \in WholeOf(s) \/ job'[Main(s)].catalog \in WholeOf(s) =>
                 /\ pc'[s] \in {"enrich", "rescan", "localEnrich", "leaving", "ending", "done"}
                 /\ publisher'[s] \in {"off", "ended"}
    PROVE  PartialInv'
<1>1. cache' = cache
  BY DEF cells
<1>2. \A t \in Scans : WholeOf(t)' = WholeOf(t)
  BY DEF WholeOf
<1> QED
  BY <1>1, <1>2 DEF PartialInv, HasWhole, JobAt

LEMMA WorkPartialInv ==
    ASSUME LeaseInv, ClientInv, PublisherTypes, PartialInv, NEW s \in Scans, Work(s)
    PROVE  PartialInv'
<1>1. UNCHANGED <<cells, publisher, aborted>>
  BY DEF Work
<1>2. \A t \in Scans : t # s => pc'[t] = pc[t]
  BY WorkOutcome
<1>3. job' = job \/ \E j : job' = [job EXCEPT ![Main(s)] = j]
  BY DEF Work, Begin, Load, IndexScan, Preview, Drain, Enrich, RefreshScan, RefreshAgain, AutomaticRefresh,
         RemoveRoot, LocalIndex, LocalEnrich, EditMetadata, FindSong, RebuildForSong, Return,
         FailWithoutLease, Replaced, Start, Continue
<1>4. \A t \in Scans : /\ job'[Progress(t)] = job[Progress(t)]
                       /\ t # s => job'[Main(t)] = job[Main(t)]
  BY <1>3, MainIsTask, TasksDiffer DEF ClientInv
<1>5. \A j : Continue(Main(s), j) => job'[Main(s)] = j
  BY MainIsTask DEF ClientInv, Continue
<1>6. /\ Indexing.catalog = NoCatalog /\ NoLibrary.catalog = NoCatalog /\ Failed.catalog = NoCatalog
      /\ ScanFailed.catalog = NoCatalog /\ EnrichmentFailed.catalog = NoCatalog
      /\ Available(Built(s, "preview")).catalog = Built(s, "preview")
      /\ Available(Built(s, "available")).catalog = Built(s, "available")
      /\ Complete(Built(s, "final")).catalog = Built(s, "final")
  BY DEF Indexing, NoLibrary, Failed, ScanFailed, EnrichmentFailed, Available, Complete, Job
<1>7. NoCatalog \notin WholeOf(s) /\ Built(s, "preview") \notin WholeOf(s)
  BY BuiltDiffer DEF WholeOf
<1>8. pc \in [Scans -> Labels]
  BY DEF LeaseInv
<1> USE <1>1, <1>5, <1>6, <1>7, <1>8 DEF At, Start, Goto, Labels, HasWhole, WholeOf
<1>9. /\ job'[Main(s)].catalog \in {NoCatalog, Built(s, "preview")} \cup WholeOf(s)
      /\ pc'[s] \in {"phase", "drain"} => pc[s] = pc'[s]
      /\ publisher[s] # "off" => pc'[s] \in {"phase", "drain", "enrich", "leaving", "done"}
      /\ pc'[s] = "enrich" => publisher[s] = "ended"
      /\ cache \in WholeOf(s) \/ job'[Main(s)].catalog \in WholeOf(s) =>
            /\ pc'[s] \in {"enrich", "rescan", "localEnrich", "leaving", "ending", "done"}
            /\ publisher[s] \in {"off", "ended"}
  <2> USE DEF PartialInv
  <2>1. CASE Begin(s)
    <3>1. FirstWork[kind[s]] \in {"preview", "scan", "autoScan", "available"} \/ kind[s] = "remove"
      BY <2>1 DEF Begin, LeaseInv, FirstWork, Replacing, Trying
    <3> QED
      BY <2>1, <3>1 DEF Begin
  <2>2. CASE Load(s)
    BY <2>2 DEF Load
  <2>3. CASE Preview(s)
    BY <2>3 DEF Preview, FailWithoutLease, Replaced
  <2>4. CASE Drain(s)
    BY <2>4 DEF Drain
  <2>5. CASE Enrich(s)
    BY <2>5 DEF Enrich
  <2>6. CASE RefreshScan(s)
    BY <2>6 DEF RefreshScan, FailWithoutLease, Replaced
  <2>7. CASE RefreshAgain(s)
    BY <2>7 DEF RefreshAgain, FailWithoutLease
  <2>8. CASE AutomaticRefresh(s)
    BY <2>8 DEF AutomaticRefresh
  <2>9. CASE RemoveRoot(s)
    BY <2>9 DEF RemoveRoot
  <2>10. CASE LocalIndex(s)
    BY <2>10 DEF LocalIndex
  <2>11. CASE LocalEnrich(s)
    BY <2>11 DEF LocalEnrich
  <2>12. CASE EditMetadata(s)
    BY <2>12 DEF EditMetadata
  <2>13. CASE FindSong(s) \/ RebuildForSong(s)
    BY <2>13 DEF FindSong, RebuildForSong
  <2>14. CASE Return(s)
    BY <2>14 DEF Return
  <2> QED
    BY <2>1, <2>2, <2>3, <2>4, <2>5, <2>6, <2>7, <2>8, <2>9, <2>10, <2>11, <2>12, <2>13, <2>14 DEF Work, IndexScan
<1>10. /\ job'[Progress(s)].step # "none" =>
             /\ publisher'[s] = "receive"
             /\ job'[Progress(s)].step \in {"cache", "revision", "readiness"}
             /\ job'[Progress(s)].catalog = Built(s, "batch")
       /\ pc'[s] \in {"phase", "drain"} \/ s \in aborted' => publisher'[s] # "off"
  BY <1>4, <1>9 DEF PartialInv, JobAt
<1> QED
  BY <1>1, <1>2, <1>4, <1>9, <1>10, OwnPartialInv

LEMMA SpawnPartialInv ==
    ASSUME LeaseInv, ClientInv, PublisherTypes, PartialInv, NEW s \in Scans,
           Spawn(s) \/ EndPhase(s) \/ PublisherStep(s)
    PROVE  PartialInv'
<1>1. UNCHANGED cells /\ pc \in [Scans -> Labels] /\ publisher \in [Scans -> PublisherLabels]
  BY DEF Spawn, EndPhase, PublisherStep, LeaseInv, PublisherTypes
<1>2. \A t \in Scans : t # s => pc'[t] = pc[t] /\ publisher'[t] = publisher[t] /\ (t \in aborted' <=> t \in aborted)
  BY <1>1 DEF Spawn, EndPhase, PublisherStep, Receive, Prepare, ChannelClosed, Killed, PublisherGoto, Goto, Start
<1> USE DEF PartialInv, HasWhole
<1>3. CASE Spawn(s)
  <2>1. UNCHANGED <<job, aborted>> /\ pc[s] = "spawn" /\ pc'[s] = "phase" /\ publisher'[s] = "receive"
    BY <1>1, <1>3 DEF Spawn, At, Goto
  <2> QED
    BY <1>1, <1>2, <2>1, OwnPartialInv DEF JobAt
<1>4. CASE EndPhase(s)
  <2>1. /\ UNCHANGED publisher /\ pc[s] = "phase" /\ pc'[s] \in {"drain", "leaving"}
        /\ job' = job \/ Continue(Main(s), EnrichmentFailed)
    BY <1>1, <1>4 DEF EndPhase, At, Goto, Start
  <2>2. /\ job'[Main(s)].catalog \in {NoCatalog, job[Main(s)].catalog}
        /\ \A t \in Scans : /\ job'[Progress(t)] = job[Progress(t)]
                            /\ t # s => job'[Main(t)] = job[Main(t)]
    BY <2>1, MainIsTask, TasksDiffer DEF ClientInv, Continue, EnrichmentFailed, Job
  <2>3. NoCatalog \notin WholeOf(s) /\ ~HasWhole(s)
    BY <2>1, BuiltDiffer DEF WholeOf
  <2>4. publisher'[s] # "off" /\ cache \notin WholeOf(s) /\ job'[Main(s)].catalog \notin WholeOf(s)
    BY <2>1, <2>2, <2>3
  <2>5. job'[Main(s)].catalog \in {NoCatalog, Built(s, "preview")} \cup WholeOf(s)
    BY <2>2
  <2>6. job'[Progress(s)] = job[Progress(s)] /\ publisher'[s] = publisher[s]
    BY <2>1, <2>2
  <2>7. job'[Progress(s)].step # "none" =>
            /\ publisher'[s] = "receive"
            /\ job'[Progress(s)].step \in {"cache", "revision", "readiness"}
            /\ job'[Progress(s)].catalog = Built(s, "batch")
    BY <2>6 DEF JobAt
  <2>8. \A t \in Scans : t # s =>
            /\ pc'[t] = pc[t] /\ publisher'[t] = publisher[t] /\ (t \in aborted' <=> t \in aborted)
            /\ job'[Main(t)] = job[Main(t)] /\ job'[Progress(t)] = job[Progress(t)]
    BY <1>2, <2>2
  <2> HIDE DEF PartialInv, HasWhole
  <2> QED
    BY <1>1, <2>1, <2>4, <2>5, <2>7, <2>8, OwnPartialInv
<1>5. CASE PublisherStep(s)
  <2>1. /\ UNCHANGED <<pc, aborted>> /\ publisher'[s] # "off"
        /\ publisher[s] # "off" /\ publisher[s] # "ended"
    BY <1>1, <1>5 DEF PublisherStep, Receive, Prepare, ChannelClosed, Killed, PublisherGoto, PublisherAt, PublisherLabels
  <2>2. job' = job \/ \E j : Continue(Progress(s), j)
    BY <1>5 DEF PublisherStep, Receive, Prepare, ChannelClosed, Killed
  <2>3. \A t \in Scans : /\ job'[Main(t)] = job[Main(t)]
                         /\ t # s => job'[Progress(t)] = job[Progress(t)]
    BY <2>2, MainIsTask, TasksDiffer DEF ClientInv, Continue
  <2>4. job'[Progress(s)].step # "none" =>
            /\ publisher'[s] = "receive"
            /\ job'[Progress(s)].step \in {"cache", "revision", "readiness"}
            /\ job'[Progress(s)].catalog = Built(s, "batch")
    BY <1>1, <1>5, MainIsTask
    DEF PublisherStep, Receive, Prepare, ChannelClosed, Killed, PublisherGoto, PublisherAt, JobAt, Continue,
        ClientInv, Available, NoJob, Job
  <2> QED
    BY <1>1, <1>2, <2>1, <2>3, <2>4, OwnPartialInv
<1> QED
  BY <1>3, <1>4, <1>5

(* A setter writes its own catalog; nobody else's becomes the visible one. *)
LEMMA SetterPartialInv ==
    ASSUME ClientInv, PartialInv, NEW t \in Tasks, JobStep(t)
    PROVE  PartialInv'
<1>1. UNCHANGED <<pc, publisher, aborted>> /\ job[t] \in Jobs
  BY DEF JobStep, ClientInv
<1>2. /\ \A u \in Tasks : u # t => job'[u] = job[u]
      /\ job[t].step # "none"
      /\ job'[t].catalog \in {job[t].catalog, NoCatalog}
      /\ cache' \in {cache, job[t].catalog}
  <2> USE <1>1 DEF NextStep, Continue, JobAt, ClientInv, Jobs
  <2>1. CASE CheckCache(t)
    BY <2>1 DEF CheckCache, Failed, Job, cells
  <2>2. CASE CopyEnrichment(t)
    BY <2>2 DEF CopyEnrichment, cells
  <2>3. CASE WriteCache(t)
    BY <2>3 DEF WriteCache
  <2>4. CASE BumpRevision(t)
    BY <2>4 DEF BumpRevision
  <2>5. CASE WriteReadiness(t)
    BY <2>5 DEF WriteReadiness, NoJob, Job
  <2>6. CASE WriteEnrichment(t)
    BY <2>6 DEF WriteEnrichment, NoJob, Job
  <2> QED
    BY <2>1, <2>2, <2>3, <2>4, <2>5, <2>6 DEF JobStep
<1>3. \A s \in Scans : NoCatalog \notin WholeOf(s) /\ Built(s, "batch") \notin WholeOf(s)
  BY BuiltDiffer DEF WholeOf
<1>4. \A s, r \in Scans : s # r => \A c \in {NoCatalog, Built(s, "preview")} \cup WholeOf(s) : c \notin WholeOf(r)
  BY BuiltDiffer DEF WholeOf
<1>5. \A s \in Scans : HasWhole(s)' => HasWhole(s)
  <2> SUFFICES ASSUME NEW s \in Scans, HasWhole(s)'
               PROVE  HasWhole(s)
    OBVIOUS
  <2>1. job'[Main(s)].catalog \in {job[Main(s)].catalog, NoCatalog}
    BY <1>2, MainIsTask
  <2>2. WholeOf(s)' = WholeOf(s)
    BY DEF WholeOf
  <2>3. CASE job'[Main(s)].catalog \in WholeOf(s)
    BY <1>3, <2>1, <2>3 DEF HasWhole
  <2>4. CASE cache' \in WholeOf(s)
    <3>1. PICK r \in Scans : t \in {Main(r), Progress(r)}
      BY DEF Tasks, Main, Progress
    <3>2. CASE t = Main(r)
      BY <1>2, <1>4, <2>4, <3>2 DEF PartialInv, HasWhole
    <3>3. CASE t = Progress(r)
      <4>1. job[t].catalog = Built(r, "batch") /\ Built(r, "batch") \notin WholeOf(s)
        BY <1>2, <3>3, BuiltDiffer DEF PartialInv, JobAt, WholeOf
      <4> QED
        BY <1>2, <2>4, <4>1 DEF HasWhole
    <3> QED
      BY <3>1, <3>2, <3>3
  <2> QED
    BY <2>2, <2>3, <2>4 DEF HasWhole
<1>6. \A s \in Scans : /\ job'[Main(s)].catalog \in {NoCatalog, job[Main(s)].catalog}
                       /\ WholeOf(s)' = WholeOf(s)
  BY <1>2, MainIsTask DEF WholeOf
<1>7. job[t].step \in {"cache", "revision", "readiness"} =>
          \/ job'[t].step = "none"
          \/ job'[t].step \in {"cache", "revision", "readiness"} /\ job'[t].catalog = job[t].catalog
  <2> USE <1>1 DEF NextStep, Continue, JobAt, ClientInv, Jobs
  <2>1. CASE WriteCache(t)
    BY <2>1 DEF WriteCache
  <2>2. CASE BumpRevision(t)
    BY <2>2 DEF BumpRevision
  <2>3. CASE WriteReadiness(t)
    BY <2>3 DEF WriteReadiness, NoJob, Job
  <2> QED
    BY <2>1, <2>2, <2>3 DEF JobStep, CheckCache, CopyEnrichment, WriteEnrichment
<1>8. \A s \in Scans : ~JobAt(Progress(s), "none")' =>
          /\ publisher[s] = "receive"
          /\ job'[Progress(s)].step \in {"cache", "revision", "readiness"}
          /\ job'[Progress(s)].catalog = Built(s, "batch")
  BY <1>2, <1>7, MainIsTask DEF PartialInv, JobAt
<1> QED
  BY <1>1, <1>5, <1>6, <1>8 DEF PartialInv

LEMMA PartialInvStep ==
    LeaseInv /\ ClientInv /\ PublisherTypes /\ PartialInv /\ [Next]_vars => PartialInv'
<1> SUFFICES ASSUME LeaseInv, ClientInv, PublisherTypes, PartialInv, [Next]_vars
             PROVE  PartialInv'
  OBVIOUS
<1>1. CASE UNCHANGED <<pc, job, publisher, aborted, cells>>
  BY <1>1 DEF PartialInv, HasWhole, WholeOf, JobAt, cells
<1>2. ASSUME NEW s \in Scans, Acquire(s) \/ \E k \in Kinds : Request(s, k)
      PROVE  PartialInv'
  <2>1. /\ UNCHANGED <<job, publisher, aborted, cells>>
        /\ pc[s] \in {"new", "waiting"} /\ pc'[s] \notin {"phase", "drain", "enrich"}
        /\ \A t \in Scans : t # s => pc'[t] = pc[t]
    BY <1>2, KindsAssumption DEF Acquire, Request, Goto, LeaseInv, Unleased
  <2>2. publisher[s] = "off" /\ ~HasWhole(s)
    BY <2>1 DEF PartialInv
  <2> QED
    BY <2>1, <2>2, OwnPartialInv DEF PartialInv, HasWhole, JobAt
<1>3. ASSUME NEW s \in Scans, Send(s)
      PROVE  PartialInv'
  BY <1>1, <1>3 DEF Send
<1>4. CASE ClientStep \/ UNCHANGED vars
  BY <1>1, <1>4 DEF ClientStep, Poll, Answer, Show, vars, taskVars
<1> QED
  BY <1>2, <1>3, <1>4, WorkPartialInv, SpawnPartialInv, SetterPartialInv, MainIsTask
  DEF Next, TaskStep, ScanStep

(* The visible catalog changes in one way: by a setter that writes it.     *)
LEMMA CacheIsWritten ==
    ASSUME [Next]_vars, cache' # cache
    PROVE  \E t \in Tasks : WriteCache(t) /\ UNCHANGED <<pc, kind>>
<1>1. ~UNCHANGED vars /\ ~ClientStep
  BY DEF vars, cells, ClientStep, Poll, Answer, Show
<1>2. PICK s \in Scans : \/ \E k \in Kinds : Request(s, k)
                        \/ ScanStep(s) \/ Send(s) \/ PublisherStep(s)
                        \/ JobStep(Main(s)) \/ JobStep(Progress(s))
  BY <1>1 DEF Next, TaskStep
<1>3. JobStep(Main(s)) \/ JobStep(Progress(s))
  BY <1>2 DEF Request, ScanStep, Acquire, Work, Spawn, EndPhase, Send, PublisherStep, cells
<1>4. PICK t \in Tasks : JobStep(t)
  BY <1>3, MainIsTask
<1> QED
  BY <1>4 DEF JobStep, CheckCache, CopyEnrichment, BumpRevision, WriteReadiness, WriteEnrichment, cells

(* A folder scan's finished catalog is never replaced by a batch of it.    *)
THEOREM WholeIsNotUndone == Spec => NoPartialAfterWhole
<1>1. Spec => []LeaseInv
  BY LeaseInvInit, LeaseInvStep, PTL DEF Spec
<1>2. Spec => []ClientInv
  BY ClientInvInit, ClientInvStep, PTL DEF Spec
<1>3. Init => PublisherTypes
  BY MaxBatchesAssumption DEF Init, PublisherTypes, PublisherLabels
<1>4. Spec => []PublisherTypes
  BY <1>3, PublisherTypesStep, PTL DEF Spec
<1>5. Spec => []PartialInv
  BY <1>1, <1>2, <1>4, PartialInvInit, PartialInvStep, PTL DEF Spec
<1>6. PartialInv /\ [Next]_vars =>
        [\A s \in Scans, whole \in {"available", "final"} :
            cache = Built(s, whole) => cache' # Built(s, "batch")]_vars
  <2> SUFFICES ASSUME PartialInv, [Next]_vars,
                      NEW s \in Scans, NEW whole \in {"available", "final"},
                      cache = Built(s, whole), cache' = Built(s, "batch")
               PROVE  FALSE
    OBVIOUS
  <2>1. cache \in WholeOf(s) /\ cache' # cache
    BY BuiltDiffer DEF WholeOf
  <2>2. PICK t \in Tasks : WriteCache(t)
    BY <2>1, CacheIsWritten
  <2>3. job[t].catalog = Built(s, "batch") /\ job[t].step = "cache"
    BY <2>2 DEF WriteCache, JobAt
  <2>4. PICK r \in Scans : t \in {Main(r), Progress(r)}
    BY DEF Tasks, Main, Progress
  <2>5. \A x \in {NoCatalog, Built(r, "preview")} \cup WholeOf(r) : x # Built(s, "batch")
    BY BuiltDiffer DEF WholeOf
  <2>6. t = Progress(r)
    BY <2>3, <2>4, <2>5 DEF PartialInv
  <2>7. publisher[r] = "receive" /\ Built(r, "batch") = Built(s, "batch")
    BY <2>3, <2>6 DEF PartialInv, JobAt
  <2>8. r = s
    BY <2>7, BuiltDiffer
  <2> QED
    BY <2>1, <2>7, <2>8 DEF PartialInv, HasWhole
<1> QED
  BY <1>5, <1>6, PTL DEF Spec, NoPartialAfterWhole

-----------------------------------------------------------------------------
(* Requests that hold their lease to the end of their last setter: what    *)
(* clients are told at rest is settled, and a failure keeps the catalog.   *)

HeldToTheEnd == {"local", "auto", "remove"}
HeldLabels == {"new", "waiting", "begin", "load", "removing", "autoScan", "available",
               "localEnrich", "leaving", "done"}

(* What is told at rest: "ready" has a catalog, and nothing is "running".  *)
Settled ==
    /\ readiness.state = "Ready" => cache # NoCatalog
    /\ readiness.enrichment # "Running"

(* The last setter of a task, seen from each of its steps, settles it; it  *)
(* takes a catalog away only for a removal.                                *)
LastSetter(s) ==
    LET j == job[Main(s)]
    IN  \/ j.step \in {"none", "check"} /\ Settled
        \/ j.step = "copy" /\ cache # NoCatalog /\ readiness.enrichment # "Running"
        \/ /\ j.step = "cache"
           /\ j.state = "Ready" => j.catalog # NoCatalog
           /\ j.enrichment # "Running"
           /\ j.catalog = NoCatalog => cache = NoCatalog \/ kind[s] = "remove"
        \/ /\ j.step \in {"revision", "readiness"}
           /\ j.state = "Ready" => cache # NoCatalog
           /\ j.enrichment # "Running"
        \/ j.step = "enrichment" /\ cache # NoCatalog

(* A local index publishes before it enriches.                             *)
Published(s) ==
    LET j == job[Main(s)]
    IN  \/ j.step = "cache" /\ j.catalog # NoCatalog
        \/ j.step \in {"none", "revision", "readiness"} /\ cache # NoCatalog

LeasedAt(s) ==
    /\ kind[s] \in HeldToTheEnd \cup {"none", "startup"}
    /\ pc[s] \in HeldLabels
    /\ publisher[s] = "off" /\ JobAt(Progress(s), "none") /\ s \notin aborted
    /\ ~Idle(s) => pc[s] \in {"autoScan", "available", "localEnrich", "leaving"}
    /\ pc[s] \in {"autoScan", "available"} => job[Main(s)] \in {NoJob, Indexing}
    /\ pc[s] = "localEnrich" => Published(s)
    /\ pc[s] = "leaving" => LastSetter(s)
    /\ pc[s] = "load" => cache = NoCatalog
    /\ pc[s] = "removing" => kind[s] = "remove"

LeasedInv ==
    /\ \A s \in Scans : LeasedAt(s)
    /\ (\A s \in Scans : pc[s] \notin {"localEnrich", "leaving"}) => Settled

LEMMA LeasedInvInit == Init => LeasedInv
<1> SUFFICES ASSUME Init PROVE LeasedInv
  OBVIOUS
<1>1. \A s \in Scans : job[Main(s)] = NoJob /\ job[Progress(s)] = NoJob
  BY MainIsTask DEF Init
<1>2. NoJob.step = "none"
  BY DEF NoJob, Job
<1>3. \A s \in Scans : LeasedAt(s)
  BY <1>1, <1>2 DEF Init, LeasedAt, HeldToTheEnd, HeldLabels, Idle, JobAt
<1>4. Settled
  BY DEF Init, Settled
<1> QED
  BY <1>3, <1>4 DEF LeasedInv

(* Only the scan that has the slot has a place or a setter that speaks of  *)
(* the cells, so that its own step decides.                                *)
LEMMA HolderLeasedInv ==
    ASSUME SlotInv, LeaseInv, LeasedInv, NEW s \in Scans, HoldsLease(s),
           UNCHANGED <<kind, publisher, aborted>>,
           \A t \in Scans : /\ t # s => pc'[t] = pc[t] /\ job'[Main(t)] = job[Main(t)]
                            /\ job'[Progress(t)] = job[Progress(t)],
           LeasedAt(s)',
           pc'[s] \notin {"localEnrich", "leaving"} => Settled'
    PROVE  LeasedInv'
<1>1. \A t \in Scans : HoldsLease(t) => t = s
  BY DEF LeaseInv, SlotInv, HolderInv
<1>2. ASSUME NEW t \in Scans, t # s
      PROVE  LeasedAt(t)'
  <2>1. LeasedAt(t) /\ ~HoldsLease(t)
    BY <1>1, <1>2 DEF LeasedInv
  <2>2. pc[t] \in {"new", "waiting", "done"}
    BY <2>1 DEF LeasedAt, HoldsLease, HeldLabels
  <2>3. kind'[t] = kind[t] /\ publisher'[t] = publisher[t] /\ aborted' = aborted /\ pc'[t] = pc[t]
    BY <1>2
  <2>4. job'[Main(t)] = job[Main(t)] /\ job'[Progress(t)] = job[Progress(t)]
    BY <1>2
  <2> QED
    BY <2>1, <2>2, <2>3, <2>4 DEF LeasedAt, Idle, JobAt
<1> QED
  BY <1>2 DEF LeasedInv

LEMMA WorkLeasedInv ==
    ASSUME SlotInv, LeaseInv, ClientInv, LeasedInv, NEW s \in Scans, Work(s)
    PROVE  LeasedInv'
<1>1. UNCHANGED <<kind, publisher, aborted, cells>> /\ Idle(s) /\ \A t \in Scans : t # s => pc'[t] = pc[t]
  BY WorkOutcome DEF Work
<1>2. LeasedAt(s) /\ pc[s] \in HeldLabels
  BY DEF LeasedInv, LeasedAt
<1>3. pc[s] \notin {"new", "waiting", "done", "edit", "stream", "rebuild", "ending"}
  BY <1>2 DEF HeldLabels, Work, Begin, Load, IndexScan, Preview, Drain, Enrich, RefreshScan, RefreshAgain,
              AutomaticRefresh, RemoveRoot, LocalIndex, LocalEnrich, EditMetadata, FindSong, RebuildForSong,
              Return, At
<1>4. HoldsLease(s)
  BY <1>3 DEF HoldsLease
<1>5. \A t \in Scans : HoldsLease(t) => t = s
  BY <1>4 DEF LeaseInv, SlotInv, HolderInv
<1>6. pc[s] \notin {"localEnrich", "leaving"} => Settled
  BY <1>5 DEF LeasedInv, HoldsLease
<1>7. job' = job \/ \E j : job' = [job EXCEPT ![Main(s)] = j]
  BY DEF Work, Begin, Load, IndexScan, Preview, Drain, Enrich, RefreshScan, RefreshAgain, AutomaticRefresh,
         RemoveRoot, LocalIndex, LocalEnrich, EditMetadata, FindSong, RebuildForSong, Return,
         FailWithoutLease, Replaced, Start, Continue
<1>8. \A t \in Scans : /\ job'[Progress(t)] = job[Progress(t)]
                       /\ t # s => job'[Main(t)] = job[Main(t)]
  BY <1>7, MainIsTask, TasksDiffer DEF ClientInv
<1>9. \A j : Continue(Main(s), j) => job'[Main(s)] = j
  BY MainIsTask DEF ClientInv, Continue
<1>10. pc \in [Scans -> Labels]
  BY DEF LeaseInv
<1>11. job[Main(s)].step = "none"
  BY <1>1 DEF Idle, JobAt
<1>12. Built(s, "available") # NoCatalog /\ Built(s, "final") # NoCatalog
  BY BuiltDiffer
<1> USE <1>1, <1>2, <1>9, <1>10, <1>11, <1>12 DEF At, Start, Goto, HeldLabels, Job
<1>13. /\ pc'[s] \in HeldLabels
       /\ ~Idle(s)' => pc'[s] \in {"autoScan", "available", "localEnrich", "leaving"}
       /\ pc'[s] \in {"autoScan", "available"} => job'[Main(s)] \in {NoJob, Indexing}
       /\ pc'[s] = "localEnrich" => Published(s)'
       /\ pc'[s] = "leaving" => LastSetter(s)'
       /\ pc'[s] = "load" => cache' = NoCatalog
       /\ pc'[s] = "removing" => kind'[s] = "remove"
       /\ pc'[s] \notin {"localEnrich", "leaving"} => Settled'
  <2> USE DEF LeasedAt, Idle, JobAt, Settled, LastSetter, Published, cells
  <2>1. CASE Begin(s)
    <3>1. FirstWork[kind[s]] \in {"autoScan", "available"} \/ kind[s] = "remove"
      BY <2>1 DEF Begin, LeaseInv, FirstWork, Replacing, Trying, HeldToTheEnd
    <3> QED
      BY <1>6, <2>1, <3>1 DEF Begin
  <2>2. CASE Load(s)
    BY <1>6, <2>2 DEF Load, Complete, Failed, NoLibrary
  <2>3. CASE AutomaticRefresh(s)
    BY <1>6, <2>3 DEF AutomaticRefresh, Complete, ScanFailed
  <2>4. CASE RemoveRoot(s)
    BY <1>6, <2>4 DEF RemoveRoot, Complete, ScanFailed, NoLibrary
  <2>5. CASE LocalIndex(s)
    BY <1>6, <2>5 DEF LocalIndex, Available, ScanFailed
  <2>6. CASE LocalEnrich(s)
    BY <2>6 DEF LocalEnrich, Complete, EnrichmentFailed
  <2>7. CASE Return(s)
    BY <1>3, <2>7 DEF Return
  <2> QED
    BY <1>3, <2>1, <2>2, <2>3, <2>4, <2>5, <2>6, <2>7
    DEF Work, IndexScan, Preview, Drain, Enrich, RefreshScan, RefreshAgain, EditMetadata, FindSong, RebuildForSong
<1>14. LeasedAt(s)'
  BY <1>8, <1>13 DEF LeasedAt, JobAt
<1> QED
  BY <1>4, <1>8, <1>13, <1>14, HolderLeasedInv

LEMMA ArrivalLeasedInv ==
    ASSUME Kinds \subseteq HeldToTheEnd, LeaseInv, LeasedInv, NEW s \in Scans,
           Acquire(s) \/ \E k \in Kinds : Request(s, k)
    PROVE  LeasedInv'
<1>1. /\ UNCHANGED <<job, publisher, aborted, cells>>
      /\ pc[s] \in {"new", "waiting"} /\ pc'[s] \in {"waiting", "begin", "done"}
      /\ kind'[s] \in HeldToTheEnd \cup {"none", "startup"}
      /\ \A t \in Scans : t # s => pc'[t] = pc[t] /\ kind'[t] = kind[t]
  BY DEF Acquire, Request, Goto, LeaseInv, LeasedInv, LeasedAt, HeldToTheEnd, Unleased
<1>2. LeasedAt(s)'
  BY <1>1 DEF LeasedInv, LeasedAt, HeldLabels, Idle, JobAt
<1>3. \A t \in Scans : t # s => LeasedAt(t)'
  BY <1>1 DEF LeasedInv, LeasedAt, HeldLabels, Idle, JobAt, Published, LastSetter, Settled, cells
<1>4. (\A t \in Scans : pc'[t] \notin {"localEnrich", "leaving"}) => Settled'
  BY <1>1 DEF LeasedInv, Settled, cells
<1> QED
  BY <1>2, <1>3, <1>4 DEF LeasedInv

(* The setters: from the look at the cache to the readiness they write.    *)
LEMMA SetterLeasedInv ==
    ASSUME SlotInv, LeaseInv, ClientInv, LeasedInv, NEW t \in Tasks, JobStep(t)
    PROVE  LeasedInv'
<1>1. job[t].step # "none" /\ UNCHANGED <<pc, kind, publisher, aborted>>
  BY DEF JobStep, CheckCache, CopyEnrichment, WriteCache, BumpRevision, WriteReadiness, WriteEnrichment, JobAt
<1>2. PICK s \in Scans : t = Main(s)
  <2>1. PICK r \in Scans : t \in {Main(r), Progress(r)}
    BY DEF Tasks, Main, Progress
  <2> QED
    BY <1>1, <2>1 DEF LeasedInv, LeasedAt, JobAt
<1>3. LeasedAt(s) /\ pc[s] \in {"autoScan", "available", "localEnrich", "leaving"} /\ HoldsLease(s)
  BY <1>1, <1>2 DEF LeasedInv, LeasedAt, Idle, JobAt, HoldsLease
<1>4. \A u \in Tasks : u # t => job'[u] = job[u]
  BY DEF JobStep, CheckCache, CopyEnrichment, WriteCache, BumpRevision, WriteReadiness, WriteEnrichment,
         NextStep, Continue, ClientInv
<1>5. \A r \in Scans : /\ r # s => pc'[r] = pc[r] /\ job'[Main(r)] = job[Main(r)]
                       /\ job'[Progress(r)] = job[Progress(r)]
  BY <1>1, <1>2, <1>4, MainIsTask, TasksDiffer
<1>6. job[t] \in Jobs
  BY DEF ClientInv
<1>7. NoJob.step = "none" /\ Indexing.step = "readiness" /\ Indexing.state = "Indexing" /\ Indexing.enrichment = "Pending"
  BY DEF NoJob, Indexing, Job
<1>8. /\ pc[s] \in {"autoScan", "available"} => job'[Main(s)] \in {NoJob, Indexing} /\ Settled'
      /\ pc[s] = "localEnrich" => Published(s)'
      /\ pc[s] = "leaving" => LastSetter(s)'
  <2> USE <1>1, <1>2, <1>3, <1>6, <1>7
      DEF LeasedAt, Published, LastSetter, Settled, NextStep, Continue, JobAt, Jobs, ClientInv
  <2>1. CASE CheckCache(t)
    BY <2>1 DEF CheckCache, Failed, Job, cells
  <2>2. CASE CopyEnrichment(t)
    BY <2>2 DEF CopyEnrichment, cells
  <2>3. CASE WriteCache(t)
    BY <2>3 DEF WriteCache
  <2>4. CASE BumpRevision(t)
    BY <2>4 DEF BumpRevision
  <2>5. CASE WriteReadiness(t)
    BY <2>5 DEF WriteReadiness
  <2>6. CASE WriteEnrichment(t)
    BY <2>6 DEF WriteEnrichment
  <2> QED
    BY <2>1, <2>2, <2>3, <2>4, <2>5, <2>6 DEF JobStep
<1>9. LeasedAt(s)'
  BY <1>1, <1>3, <1>5, <1>8 DEF LeasedAt, JobAt
<1> QED
  BY <1>1, <1>3, <1>5, <1>8, <1>9, HolderLeasedInv

LEMMA LeasedInvStep ==
    ASSUME Kinds \subseteq HeldToTheEnd
    PROVE  SlotInv /\ LeaseInv /\ ClientInv /\ LeasedInv /\ [Next]_vars => LeasedInv'
<1> SUFFICES ASSUME SlotInv, LeaseInv, ClientInv, LeasedInv, [Next]_vars
             PROVE  LeasedInv'
  OBVIOUS
<1>1. CASE ClientStep \/ UNCHANGED vars
  <2>1. UNCHANGED <<kind, pc, job, publisher, aborted, cells>>
    BY <1>1 DEF ClientStep, Poll, Answer, Show, vars, taskVars
  <2> QED
    BY <2>1 DEF LeasedInv, LeasedAt, Idle, JobAt, Published, LastSetter, Settled, cells
<1>2. ASSUME NEW s \in Scans, Acquire(s) \/ \E k \in Kinds : Request(s, k)
      PROVE  LeasedInv'
  BY <1>2, ArrivalLeasedInv
<1>3. ASSUME NEW s \in Scans
      PROVE  ~Spawn(s) /\ ~EndPhase(s) /\ ~Send(s) /\ ~PublisherStep(s)
  <2>1. pc[s] \notin {"spawn", "phase"} /\ publisher[s] = "off" /\ s \notin aborted
    BY DEF LeasedInv, LeasedAt, HeldLabels
  <2> QED
    BY <2>1 DEF Spawn, EndPhase, At, Send, PublisherStep, Receive, Prepare, ChannelClosed, Killed, PublisherAt
<1> QED
  BY <1>1, <1>2, <1>3, WorkLeasedInv, SetterLeasedInv, MainIsTask DEF Next, TaskStep, ScanStep

LEMMA LeasedInvAlways == ASSUME Kinds \subseteq HeldToTheEnd PROVE Spec => []LeasedInv
<1>1. Spec => []LeaseInv
  BY LeaseInvInit, LeaseInvStep, PTL DEF Spec
<1>2. Spec => []ClientInv
  BY ClientInvInit, ClientInvStep, PTL DEF Spec
<1>3. SlotInv /\ LeaseInv /\ ClientInv /\ LeasedInv /\ [Next]_vars => LeasedInv'
  BY LeasedInvStep
<1> QED
  BY <1>1, <1>2, <1>3, SlotInvInService, LeasedInvInit, PTL DEF Spec

LEMMA LeasedQuietIsSettled == LeasedInv /\ Quiet => Settled
<1> QED
  BY DEF LeasedInv, Quiet

(* Among requests that hold their lease to the end of their last setter,   *)
(* "ready" at rest means that there is a catalog to serve.                 *)
THEOREM LeasedReadyIsServed ==
    ASSUME Kinds \subseteq HeldToTheEnd PROVE Spec => []QuietReadyIsServed
<1>1. LeasedInv => QuietReadyIsServed
  BY LeasedQuietIsSettled DEF QuietReadyIsServed, Settled
<1> QED
  BY <1>1, LeasedInvAlways, PTL

(* Among them, clients are not left with an enrichment that still "runs".  *)
THEOREM LeasedEnrichmentSettles ==
    ASSUME Kinds \subseteq HeldToTheEnd PROVE Spec => []QuietEnrichmentSettled
<1>1. LeasedInv => QuietEnrichmentSettled
  BY LeasedQuietIsSettled DEF QuietEnrichmentSettled, Settled
<1> QED
  BY <1>1, LeasedInvAlways, PTL

(* Among them, a failure keeps the catalog there is: only a removal takes  *)
(* it away (set_scan_failed).                                              *)
THEOREM LeasedFailureKeepsCatalog ==
    ASSUME Kinds \subseteq HeldToTheEnd PROVE Spec => FailedScanKeepsCatalog
<1>1. LeasedInv /\ [Next]_vars =>
        [cache # NoCatalog /\ cache' = NoCatalog =>
            \E s \in Scans : kind[s] = "remove" /\ pc[s] = "leaving"]_vars
  <2> SUFFICES ASSUME LeasedInv, [Next]_vars, cache # NoCatalog, cache' = NoCatalog
               PROVE  \E s \in Scans : kind[s] = "remove" /\ pc[s] = "leaving"
    OBVIOUS
  <2>1. PICK t \in Tasks : WriteCache(t)
    BY CacheIsWritten
  <2>2. job[t].catalog = NoCatalog /\ job[t].step = "cache"
    BY <2>1 DEF WriteCache, JobAt
  <2>3. PICK s \in Scans : t \in {Main(s), Progress(s)}
    BY DEF Tasks, Main, Progress
  <2>4. t = Main(s) /\ LeasedAt(s)
    BY <2>2, <2>3 DEF LeasedInv, LeasedAt, JobAt
  <2>5. pc[s] \in {"localEnrich", "leaving"}
    BY <2>2, <2>4 DEF LeasedAt, Idle, JobAt, NoJob, Indexing, Job
  <2> QED
    BY <2>2, <2>4, <2>5 DEF LeasedAt, Published, LastSetter
<1> QED
  BY <1>1, LeasedInvAlways, PTL DEF Spec, FailedScanKeepsCatalog

-----------------------------------------------------------------------------
(* What eventually happens.  The provers know nothing of ENABLED; that      *)
(* nothing is stuck, NothingIsStuck, is taken as a hypothesis.             *)
Live == FairSpec /\ []NothingIsStuck

LEMMA LiveInvariant == Live => [][Next]_vars /\ []LeaseInv /\ []ClientInv /\ []SlotInv
<1>1. Spec => []LeaseInv
  BY LeaseInvInit, LeaseInvStep, PTL DEF Spec
<1>2. Spec => []ClientInv
  BY ClientInvInit, ClientInvStep, PTL DEF Spec
<1> QED
  BY <1>1, <1>2, SlotInvInService, PTL DEF Live, FairSpec, Spec

(* With nothing in flight only the client moves.                           *)
LEMMA ClientGoes ==
    ASSUME Quiet, [Next]_vars
    PROVE  /\ UNCHANGED <<cache, revision>>
           /\ Poll \/ Answer \/ Show \/ UNCHANGED client
<1>1. CASE UNCHANGED vars \/ ClientStep
  BY <1>1 DEF vars, cells, ClientStep, Poll, Answer, Show
<1>2. ASSUME NEW t \in Tasks, JobStep(t) PROVE FALSE
  BY <1>2 DEF Quiet, JobStep, CheckCache, CopyEnrichment, WriteCache, BumpRevision, WriteReadiness,
         WriteEnrichment, JobAt
<1>3. ASSUME NEW s \in Scans, \/ \E k \in Kinds : Request(s, k)
                              \/ ScanStep(s) \/ Send(s) \/ PublisherStep(s)
      PROVE  UNCHANGED <<cells, client>>
  BY <1>3 DEF Request, ScanStep, Acquire, Work, Spawn, EndPhase, Send, PublisherStep
<1>4. ASSUME NEW s \in Scans, JobStep(Main(s)) \/ JobStep(Progress(s)) PROVE FALSE
  BY <1>2, <1>4, MainIsTask
<1> QED
  BY <1>1, <1>3, <1>4 DEF Next, TaskStep, cells

(* The client ends up showing the catalog the server ends up with: once    *)
(* nothing is in flight, it sees the last revision, its fetch is answered  *)
(* with that catalog, and no answer that is still under way takes its      *)
(* place (ClientSettles).                                                  *)
THEOREM ClientSettlesDown == FairSpec /\ []NothingIsStuck /\ <>[]Quiet => ClientSettles
<1> DEFINE Behind == client.seen # revision
           Seen(fetch) == client.seen = revision /\ client.fetch = fetch
           Inv == Quiet /\ ClientInv
           Shown == client.shown = cache
<1>1. /\ Inv /\ Behind /\ [Next]_vars => Behind' \/ Seen("asked")'
      /\ Inv /\ Behind /\ <<Poll>>_vars => Seen("asked")'
  BY ClientGoes DEF Poll, Answer, Show, ClientInv, cells
<1>2. /\ Inv /\ Seen("asked") /\ [Next]_vars => Seen("asked")' \/ Seen("answered")'
      /\ Inv /\ Seen("asked") /\ <<Answer>>_vars => Seen("answered")'
  BY ClientGoes DEF Poll, Answer, Show, ClientInv, taskVars, cells
<1>3. /\ Inv /\ Seen("answered") /\ [Next]_vars => Seen("answered")' \/ Seen("none")'
      /\ Inv /\ Seen("answered") /\ <<Show>>_vars => Seen("none")'
  BY ClientGoes DEF Poll, Answer, Show, ClientInv, taskVars, cells
<1>4. Inv /\ Seen("none") /\ [Next]_vars => Seen("none")'
  BY ClientGoes DEF Poll, Answer, Show, ClientInv
<1>5. Inv => Behind \/ Seen("asked") \/ Seen("answered") \/ Seen("none")
  BY DEF ClientInv
<1>6. Inv /\ Seen("none") => Shown
  BY DEF Quiet, ClientInv, Unannounced, JobAt
<1>7. /\ NothingIsStuck /\ Behind => ENABLED <<Poll>>_vars
      /\ NothingIsStuck /\ Seen("asked") => ENABLED <<Answer>>_vars
      /\ NothingIsStuck /\ Seen("answered") => ENABLED <<Show>>_vars
  BY DEF NothingIsStuck, ClientCanStep
<1>8. Live => WF_vars(Poll) /\ WF_vars(Answer) /\ WF_vars(Show)
  BY PTL DEF Live, FairSpec, Fairness, ClientIsFair
<1>9. [](Quiet /\ ClientInv) <=> []Quiet /\ []ClientInv
  BY PTL
<1>10. [][Next]_vars /\ []Inv /\ []NothingIsStuck /\ WF_vars(Poll) => (Behind ~> Seen("asked"))
  BY <1>1, <1>7, PTL
<1>11. [][Next]_vars /\ []Inv /\ []NothingIsStuck /\ WF_vars(Answer)
         => (Seen("asked") ~> Seen("answered"))
  BY <1>2, <1>7, PTL
<1>12. [][Next]_vars /\ []Inv /\ []NothingIsStuck /\ WF_vars(Show)
         => (Seen("answered") ~> Seen("none"))
  BY <1>3, <1>7, PTL
<1>13. [][Next]_vars /\ []Inv /\ []NothingIsStuck /\ WF_vars(Poll) /\ WF_vars(Answer) /\ WF_vars(Show)
         => <>[]Shown
  BY <1>4, <1>5, <1>6, <1>10, <1>11, <1>12, PTL
<1>14. Live /\ <>[]Quiet => <>[]Shown
  BY <1>8, <1>9, <1>13, LiveInvariant, PTL DEF Live
<1> QED
  BY <1>14 DEF Live, ClientSettles

-----------------------------------------------------------------------------
(* A scan that has begun comes to its end.  How far it still has to go:    *)
(* each step of its own takes it to a lower rank.                          *)
Rank == [label \in Labels |->
    CASE label = "done" -> 0
      [] label \in {"ending", "leaving"} -> 1
      [] label \in {"enrich", "localEnrich", "load", "autoScan", "removing", "rescan", "rebuild",
                    "edit"} -> 2
      [] label \in {"scan", "available", "stream"} -> 3
      [] label = "drain" -> 4
      [] label = "phase" -> 5
      [] label = "spawn" -> 6
      [] label = "preview" -> 7
      [] label = "begin" -> 8
      [] label = "waiting" -> 9
      [] OTHER -> 10]

RunInv == SlotInv /\ LeaseInv /\ ClientInv /\ PublisherTypes /\ PartialInv

LEMMA RunInvariant == Live => [][Next]_vars /\ []RunInv
<1>1. Init => PublisherTypes
  BY MaxBatchesAssumption DEF Init, PublisherTypes, PublisherLabels
<1>2. Spec => []PublisherTypes
  BY <1>1, PublisherTypesStep, PTL DEF Spec
<1>3. Live => Spec
  BY DEF Live, FairSpec
<1>4. Spec => []PartialInv
  BY LeaseInvInit, LeaseInvStep, ClientInvInit, ClientInvStep, PartialInvInit, PartialInvStep, <1>2,
     PTL DEF Spec
<1> QED
  BY <1>2, <1>3, <1>4, LiveInvariant, PTL DEF RunInv

LEMMA RankFalls ==
    ASSUME LeaseInv, NEW s \in Scans, ScanStep(s), pc[s] # "waiting"
    PROVE  /\ pc'[s] \in Labels /\ pc[s] \in Labels
           /\ Rank[pc'[s]] < Rank[pc[s]]
           /\ Idle(s)
<1>1. pc \in [Scans -> Labels] /\ pc[s] \in Labels
  BY DEF LeaseInv
<1> DEFINE Falls == pc'[s] \in Labels /\ Rank[pc'[s]] < Rank[pc[s]] /\ Idle(s)
<1> USE DEF At, Goto, Start, Labels, Rank
<1>2. CASE Begin(s)
  <2>1. /\ pc'[s] \in {"removing", "preview", "scan", "autoScan", "available"}
        /\ pc[s] = "begin" /\ Idle(s)
    BY <1>1, <1>2 DEF Begin, LeaseInv, FirstWork, Replacing, Trying
  <2> QED
    BY <2>1
<1>3. CASE Load(s)
  <2>1. pc'[s] = "leaving" /\ pc[s] = "load" /\ Idle(s)
    BY <1>1, <1>3 DEF Load
  <2> QED
    BY <2>1
<1>4. CASE IndexScan(s)
  <2>1. /\ Idle(s)
        /\ \/ pc[s] = "preview" /\ pc'[s] \in {"ending", "done", "spawn"}
           \/ pc[s] = "drain" /\ pc'[s] \in {"leaving", "enrich"}
           \/ pc[s] = "enrich" /\ pc'[s] = "leaving"
    BY <1>1, <1>4 DEF IndexScan, Preview, Drain, Enrich, FailWithoutLease, Replaced
  <2> QED
    BY <2>1
<1>5. CASE RefreshScan(s) \/ RefreshAgain(s) \/ AutomaticRefresh(s)
  <2>1. /\ Idle(s)
        /\ \/ pc[s] = "scan" /\ pc'[s] \in {"ending", "done", "rescan"}
           \/ pc[s] = "rescan" /\ pc'[s] \in {"ending", "leaving"}
           \/ pc[s] = "autoScan" /\ pc'[s] = "leaving"
    BY <1>1, <1>5 DEF RefreshScan, RefreshAgain, AutomaticRefresh, FailWithoutLease, Replaced
  <2> QED
    BY <2>1
<1>6. CASE RemoveRoot(s) \/ LocalIndex(s) \/ LocalEnrich(s)
  <2>1. /\ Idle(s)
        /\ \/ pc[s] = "removing" /\ pc'[s] = "leaving"
           \/ pc[s] = "available" /\ pc'[s] \in {"leaving", "localEnrich"}
           \/ pc[s] = "localEnrich" /\ pc'[s] = "leaving"
    BY <1>1, <1>6 DEF RemoveRoot, LocalIndex, LocalEnrich
  <2> QED
    BY <2>1
<1>7. CASE EditMetadata(s) \/ FindSong(s) \/ RebuildForSong(s)
  <2>1. /\ Idle(s)
        /\ \/ pc[s] = "edit" /\ pc'[s] \in {"done", "ending"}
           \/ pc[s] = "stream" /\ pc'[s] \in {"done", "rebuild"}
           \/ pc[s] = "rebuild" /\ pc'[s] \in {"done", "ending"}
    BY <1>1, <1>7 DEF EditMetadata, FindSong, RebuildForSong
  <2> QED
    BY <2>1
<1>8. CASE Return(s)
  <2>1. Idle(s) /\ pc[s] \in {"leaving", "ending"} /\ pc'[s] = "done"
    BY <1>1, <1>8 DEF Return
  <2> QED
    BY <2>1
<1>9. CASE Spawn(s) \/ EndPhase(s)
  <2>1. /\ Idle(s)
        /\ \/ pc[s] = "spawn" /\ pc'[s] = "phase"
           \/ pc[s] = "phase" /\ pc'[s] \in {"drain", "leaving"}
    BY <1>1, <1>9 DEF Spawn, EndPhase
  <2> QED
    BY <2>1
<1> QED
  BY <1>1, <1>2, <1>3, <1>4, <1>5, <1>6, <1>7, <1>8, <1>9 DEF ScanStep, Acquire, Work

(* Only a scan's own steps change where it is, and only its setter's what  *)
(* it is writing.                                                          *)
LEMMA OthersLeaveScan ==
    ASSUME LeaseInv, ClientInv, [Next]_vars, NEW s \in Scans, ~ScanStep(s)
    PROVE  /\ pc[s] # "new" => pc'[s] = pc[s]
           /\ job'[Main(s)] = job[Main(s)] \/ JobStep(Main(s))
<1> DEFINE Left == (pc[s] # "new" => pc'[s] = pc[s]) /\ job'[Main(s)] = job[Main(s)]
<1>0. pc \in [Scans -> Labels] /\ job \in [Tasks -> Jobs]
  BY DEF LeaseInv, ClientInv
<1>1. CASE UNCHANGED vars \/ ClientStep
  BY <1>1 DEF vars, taskVars, ClientStep, Poll, Answer, Show
<1>2. ASSUME NEW u \in Scans, NEW k \in Kinds, Request(u, k) PROVE Left
  BY <1>0, <1>2 DEF Request, Goto
<1>3. ASSUME NEW u \in Scans, u # s, ScanStep(u) PROVE Left
  <2>1. CASE Acquire(u)
    BY <1>0, <1>3, <2>1 DEF Acquire, Goto
  <2>2. CASE Work(u)
    <3>1. Outcome(u) /\ pc'[s] = pc[s]
      BY <1>3, <2>2, WorkOutcome
    <3>2. Main(u) # Main(s)
      BY <1>3, TasksDiffer
    <3> QED
      BY <1>0, <3>1, <3>2, MainIsTask DEF Outcome, Continue
  <2>3. CASE Spawn(u) \/ EndPhase(u)
    <3>1. Main(u) # Main(s)
      BY <1>3, TasksDiffer
    <3> QED
      BY <1>0, <1>3, <2>3, <3>1, MainIsTask DEF Spawn, EndPhase, Goto, Start, Continue
  <2> QED
    BY <1>3, <2>1, <2>2, <2>3 DEF ScanStep
<1>4. ASSUME NEW u \in Scans, Send(u) PROVE Left
  BY <1>4 DEF Send
<1>5. ASSUME NEW u \in Scans, PublisherStep(u) PROVE Left
  BY <1>0, <1>5, MainIsTask, TasksDiffer
  DEF PublisherStep, Receive, Prepare, ChannelClosed, Killed, Continue
<1>6. ASSUME NEW t \in Tasks, JobStep(t), t # Main(s) PROVE Left
  BY <1>0, <1>6, MainIsTask
  DEF JobStep, CheckCache, CopyEnrichment, WriteCache, BumpRevision, WriteReadiness, WriteEnrichment,
      NextStep, Continue
<1>7. ASSUME JobStep(Main(s)) PROVE pc'[s] = pc[s]
  BY <1>7 DEF JobStep
<1>8. ASSUME NEW u \in Scans, JobStep(Main(u)) \/ JobStep(Progress(u))
      PROVE  Left \/ (JobStep(Main(s)) /\ pc'[s] = pc[s])
  BY <1>6, <1>7, <1>8, MainIsTask
<1> QED
  BY <1>1, <1>2, <1>3, <1>4, <1>5, <1>8 DEF Next, TaskStep

(* A setter goes through its steps to its end.                             *)
SetterGoes(t) ==
    \/ JobAt(t, "check") /\ job'[t].step \in {"copy", "cache"}
    \/ JobAt(t, "copy") /\ job'[t].step = "readiness"
    \/ JobAt(t, "cache") /\ job'[t].step = "revision"
    \/ JobAt(t, "revision") /\ job'[t].step = "readiness"
    \/ JobAt(t, "readiness") /\ job'[t].step = "none"
    \/ JobAt(t, "enrichment") /\ job'[t].step = "none"

LEMMA SettersGo ==
    ASSUME ClientInv, NEW t \in Tasks, JobStep(t)
    PROVE  SetterGoes(t)
<1> USE DEF JobAt, NextStep, Continue, SetterGoes
<1>0. job \in [Tasks -> Jobs] /\ job[t] \in Jobs
  BY DEF ClientInv
<1>1. NoJob.step = "none" /\ Failed.step = "cache"
  BY DEF NoJob, Failed, Job
<1>2. ASSUME NEW step \in JobSteps, NextStep(t, step) PROVE job'[t].step = step
  BY <1>0, <1>2 DEF Jobs
<1>3. CASE CheckCache(t)
  BY <1>0, <1>1, <1>2, <1>3 DEF CheckCache, JobSteps
<1>4. CASE CopyEnrichment(t)
  BY <1>0, <1>4 DEF CopyEnrichment, Jobs
<1>5. CASE WriteCache(t) \/ BumpRevision(t)
  BY <1>0, <1>2, <1>5 DEF WriteCache, BumpRevision, JobSteps
<1>6. CASE WriteReadiness(t) \/ WriteEnrichment(t)
  BY <1>0, <1>1, <1>6 DEF WriteReadiness, WriteEnrichment
<1> QED
  BY <1>3, <1>4, <1>5, <1>6 DEF JobStep

(* The fairness and the hypothesis, scan by scan.                          *)
LEMMA ScanIsLive ==
    ASSUME NEW s \in Scans
    PROVE  Live => ScanIsFair(s) /\ PublisherIsFair(s) /\ []ScanCanStep(s)
<1>1. Fairness => ScanIsFair(s) /\ PublisherIsFair(s)
  BY DEF Fairness
<1>2. NothingIsStuck => ScanCanStep(s)
  BY DEF NothingIsStuck
<1> QED
  BY <1>1, <1>2, PTL DEF Live, FairSpec

(* While the setter of a scan is at work the scan itself stands still.     *)
LEMMA BusyScanWaits ==
    ASSUME RunInv, [Next]_vars, NEW s \in Scans, ~Idle(s)
    PROVE  job'[Main(s)] = job[Main(s)] \/ SetterGoes(Main(s))
<1>0. LeaseInv /\ ClientInv /\ Main(s) \in Tasks
  BY MainIsTask DEF RunInv
<1>1. CASE ScanStep(s)
  <2>1. pc[s] = "waiting"
    BY <1>0, <1>1, RankFalls
  <2>2. Acquire(s)
    BY <1>1, <2>1 DEF ScanStep, Work, Begin, Load, IndexScan, Preview, Drain, Enrich, RefreshScan,
           RefreshAgain, AutomaticRefresh, RemoveRoot, LocalIndex, LocalEnrich, EditMetadata, FindSong,
           RebuildForSong, Return, Spawn, EndPhase, At
  <2> QED
    BY <2>2 DEF Acquire
<1>2. CASE ~ScanStep(s)
  BY <1>0, <1>2, OthersLeaveScan, SettersGo
<1> QED
  BY <1>1, <1>2

LEMMA ScanSetterEnds ==
    ASSUME NEW s \in Scans
    PROVE  Live => [](~Idle(s) => <>Idle(s))
<1> DEFINE Busy(step) == job[Main(s)].step = step
           Free == Idle(s)
           Act == JobStep(Main(s))
<1>1. ASSUME RunInv, ~Idle(s), [Next]_vars
      PROVE  job'[Main(s)] = job[Main(s)] \/ SetterGoes(Main(s))
  BY <1>1, BusyScanWaits
<1>2. ASSUME RunInv, Act PROVE SetterGoes(Main(s))
  BY <1>2, SettersGo, MainIsTask DEF RunInv
<1> USE DEF SetterGoes, JobAt, Idle
<1>3. /\ RunInv /\ Busy("check") /\ [Next]_vars => Busy("check")' \/ Busy("copy")' \/ Busy("cache")'
      /\ RunInv /\ Busy("check") /\ <<Act>>_vars => Busy("copy")' \/ Busy("cache")'
  BY <1>1, <1>2
<1>4. /\ RunInv /\ Busy("copy") /\ [Next]_vars => Busy("copy")' \/ Busy("readiness")'
      /\ RunInv /\ Busy("copy") /\ <<Act>>_vars => Busy("readiness")'
  BY <1>1, <1>2
<1>5. /\ RunInv /\ Busy("cache") /\ [Next]_vars => Busy("cache")' \/ Busy("revision")'
      /\ RunInv /\ Busy("cache") /\ <<Act>>_vars => Busy("revision")'
  BY <1>1, <1>2
<1>6. /\ RunInv /\ Busy("revision") /\ [Next]_vars => Busy("revision")' \/ Busy("readiness")'
      /\ RunInv /\ Busy("revision") /\ <<Act>>_vars => Busy("readiness")'
  BY <1>1, <1>2
<1>7. /\ RunInv /\ Busy("readiness") /\ [Next]_vars => Busy("readiness")' \/ Free'
      /\ RunInv /\ Busy("readiness") /\ <<Act>>_vars => Free'
  BY <1>1, <1>2
<1>8. /\ RunInv /\ Busy("enrichment") /\ [Next]_vars => Busy("enrichment")' \/ Free'
      /\ RunInv /\ Busy("enrichment") /\ <<Act>>_vars => Free'
  BY <1>1, <1>2
<1>9. RunInv /\ ~Free => \/ Busy("check") \/ Busy("copy") \/ Busy("cache") \/ Busy("revision")
                         \/ Busy("readiness") \/ Busy("enrichment")
  BY MainIsTask DEF RunInv, ClientInv, Jobs, JobSteps
<1>10. (Busy("check") \/ Busy("copy") \/ Busy("cache") \/ Busy("revision") \/ Busy("readiness")
          \/ Busy("enrichment")) /\ ScanCanStep(s) => ENABLED <<Act>>_vars
  BY DEF ScanCanStep
<1> QED
  BY <1>3, <1>4, <1>5, <1>6, <1>7, <1>8, <1>9, <1>10, ScanIsLive, RunInvariant, PTL DEF ScanIsFair

-----------------------------------------------------------------------------
(* A scan that drains its publisher sees it end: nothing is sent any more,  *)
(* so the publisher takes what is still in the channel, publishes it, and  *)
(* finds the channel closed.                                               *)
ProgressOf(s) == job[Progress(s)].step

(* A step of the publisher ends it or takes it round its loop.             *)
PublisherTurns(s) ==
    \/ publisher'[s] = "ended"
    \/ /\ publisher[s] = "receive" /\ ProgressOf(s) = "none" /\ s \in buffered
       /\ publisher'[s] = "prepare" /\ ProgressOf(s)' = "none" /\ s \notin buffered'
    \/ /\ publisher[s] = "prepare"
       /\ publisher'[s] = "receive" /\ ProgressOf(s)' \in {"none", "cache"}
       /\ s \in buffered' <=> s \in buffered

LEMMA PublisherGoes ==
    ASSUME RunInv, NEW s \in Scans, PublisherStep(s)
    PROVE  PublisherTurns(s) /\ pc' = pc
<1>1. job \in [Tasks -> Jobs] /\ publisher \in [Scans -> PublisherLabels] /\ Progress(s) \in Tasks
  BY MainIsTask DEF RunInv, ClientInv, PublisherTypes
<1>2. Available(Built(s, "batch")).step = "cache"
  BY DEF Available, Job
<1> USE <1>1 DEF PublisherTurns, ProgressOf, PublisherAt, PublisherGoto, JobAt, Continue
<1>3. ASSUME Receive(s) PROVE PublisherTurns(s)
  BY <1>3 DEF Receive
<1>4. ASSUME Prepare(s) PROVE PublisherTurns(s)
  BY <1>2, <1>4 DEF Prepare
<1>5. ASSUME ChannelClosed(s) \/ Killed(s) PROVE PublisherTurns(s)
  BY <1>5 DEF ChannelClosed, Killed
<1>6. pc' = pc
  BY DEF PublisherStep
<1> QED
  BY <1>3, <1>4, <1>5, <1>6 DEF PublisherStep

(* The others leave it where it is; its setter goes on.                    *)
PublisherStays(s) ==
    /\ publisher'[s] = publisher[s] /\ (s \in buffered' <=> s \in buffered)
    /\ ProgressOf(s)' = ProgressOf(s) \/ SetterGoes(Progress(s))

LEMMA OthersLeavePublisher ==
    ASSUME RunInv, [Next]_vars, NEW s \in Scans, ~PublisherStep(s), pc[s] = "drain"
    PROVE  PublisherStays(s)
<1>0. /\ job \in [Tasks -> Jobs] /\ publisher \in [Scans -> PublisherLabels]
      /\ buffered \subseteq Scans /\ LeaseInv /\ ClientInv
  BY DEF RunInv, ClientInv, PublisherTypes
<1> USE DEF PublisherStays, ProgressOf
<1>1. CASE UNCHANGED vars \/ ClientStep
  BY <1>1 DEF vars, taskVars, ClientStep, Poll, Answer, Show
<1>2. ASSUME NEW u \in Scans, \/ \E k \in Kinds : Request(u, k)
                              \/ Acquire(u)
      PROVE  PublisherStays(s)
  BY <1>2 DEF Request, Acquire
<1>3. ASSUME NEW u \in Scans, Work(u) PROVE PublisherStays(s)
  <2>1. UNCHANGED <<publisher, buffered>> /\ Outcome(u)
    BY <1>0, <1>3, WorkOutcome DEF Work
  <2>2. Main(u) # Progress(s)
    BY TasksDiffer
  <2> QED
    BY <1>0, <2>1, <2>2, MainIsTask DEF Outcome, Continue
<1>4. ASSUME NEW u \in Scans, Spawn(u) \/ EndPhase(u) PROVE PublisherStays(s)
  <2>1. Main(u) # Progress(s)
    BY TasksDiffer
  <2> QED
    BY <1>0, <1>4, <2>1, MainIsTask DEF Spawn, EndPhase, At, Start, Continue
<1>5. ASSUME NEW u \in Scans, Send(u) PROVE PublisherStays(s)
  BY <1>0, <1>5 DEF Send
<1>6. ASSUME NEW u \in Scans, u # s, PublisherStep(u) PROVE PublisherStays(s)
  <2>1. Progress(u) # Progress(s)
    BY <1>6, TasksDiffer
  <2> QED
    BY <1>0, <1>6, <2>1, MainIsTask
    DEF PublisherStep, Receive, Prepare, ChannelClosed, Killed, PublisherGoto, Continue
<1>7. ASSUME NEW t \in Tasks, JobStep(t) PROVE PublisherStays(s)
  <2>1. UNCHANGED <<publisher, buffered>>
    BY <1>7 DEF JobStep
  <2>2. CASE t = Progress(s)
    BY <1>0, <1>7, <2>1, <2>2, SettersGo
  <2>3. CASE t # Progress(s)
    BY <1>0, <1>7, <2>1, <2>3, MainIsTask
    DEF JobStep, CheckCache, CopyEnrichment, WriteCache, BumpRevision, WriteReadiness, WriteEnrichment,
        NextStep, Continue
  <2> QED
    BY <2>2, <2>3
<1> QED
  BY <1>1, <1>2, <1>3, <1>4, <1>5, <1>6, <1>7, MainIsTask DEF Next, TaskStep, ScanStep

LEMMA DrainEnds ==
    ASSUME NEW s \in Scans
    PROVE  Live => [](pc[s] = "drain" => <>(pc[s] # "drain" \/ publisher[s] = "ended"))
<1> DEFINE In(label, step) == pc[s] = "drain" /\ publisher[s] = label /\ ProgressOf(s) = step
           Full == s \in buffered
           Gone == pc[s] # "drain" \/ publisher[s] = "ended"
           Turn == PublisherStep(s)
           Act == JobStep(Progress(s))
           Busy(step) == In("receive", step)
           Ready == In("receive", "none")
           Building == In("prepare", "none")
<1>1. ASSUME RunInv, [Next]_vars, ~Gone
      PROVE  Gone' \/ (pc'[s] = "drain" /\ (PublisherTurns(s) \/ PublisherStays(s)))
  BY <1>1, PublisherGoes, OthersLeavePublisher
<1>2. ASSUME RunInv, Turn, ~Gone
      PROVE  Gone' \/ (pc'[s] = "drain" /\ PublisherTurns(s))
  BY <1>2, PublisherGoes
<1>3. ASSUME RunInv, Act, ~Gone
      PROVE  pc'[s] = "drain" /\ publisher'[s] = publisher[s] /\ (Full' <=> Full) /\ SetterGoes(Progress(s))
  BY <1>3, SettersGo, MainIsTask DEF RunInv, JobStep
<1> USE DEF PublisherTurns, PublisherStays, SetterGoes, JobAt, ProgressOf
<1>4. RunInv => Gone \/ Busy("cache") \/ Busy("revision") \/ Busy("readiness") \/ Ready \/ Building
  BY DEF RunInv, PublisherTypes, PublisherLabels, PartialInv
<1>5. /\ RunInv /\ Busy("cache") /\ [Next]_vars => Busy("cache")' \/ Busy("revision")' \/ Gone'
      /\ RunInv /\ Busy("cache") /\ <<Act>>_vars => Busy("revision")'
      /\ RunInv /\ Busy("revision") /\ [Next]_vars => Busy("revision")' \/ Busy("readiness")' \/ Gone'
      /\ RunInv /\ Busy("revision") /\ <<Act>>_vars => Busy("readiness")'
      /\ RunInv /\ Busy("readiness") /\ [Next]_vars => Busy("readiness")' \/ Ready' \/ Gone'
      /\ RunInv /\ Busy("readiness") /\ <<Act>>_vars => Ready'
  BY <1>1, <1>3
<1>6. /\ RunInv /\ Ready /\ [Next]_vars => Ready' \/ Building' \/ Gone'
      /\ RunInv /\ Ready /\ <<Turn>>_vars => Building' \/ Gone'
      /\ RunInv /\ Building /\ [Next]_vars => Building' \/ Busy("cache")' \/ Ready' \/ Gone'
      /\ RunInv /\ Building /\ <<Turn>>_vars => Busy("cache")' \/ Ready' \/ Gone'
  BY <1>1, <1>2
<1>7. /\ RunInv /\ ~Gone /\ ~Full /\ [Next]_vars => Gone' \/ ~Full'
      /\ RunInv /\ Ready /\ ~Full /\ [Next]_vars => Ready' \/ Gone'
      /\ RunInv /\ Ready /\ [Next]_vars => Ready' \/ ~Full' \/ Gone'
      /\ RunInv /\ Ready /\ <<Turn>>_vars => ~Full' \/ Gone'
      /\ RunInv /\ Ready /\ ~Full /\ <<Turn>>_vars => Gone'
  BY <1>1, <1>2
<1>8. ScanCanStep(s) /\ (Busy("cache") \/ Busy("revision") \/ Busy("readiness")) => ENABLED <<Act>>_vars
  BY DEF ScanCanStep
<1>9. ScanCanStep(s) /\ (Ready \/ Building) => ENABLED <<Turn>>_vars
  BY DEF ScanCanStep, PublisherAt
<1> DEFINE Run == [][Next]_vars /\ []RunInv /\ []ScanCanStep(s) /\ WF_vars(Turn) /\ WF_vars(Act)
<1>10. Run => (Busy("cache") \/ Busy("revision") \/ Busy("readiness") ~> Ready \/ Gone)
  BY <1>5, <1>8, PTL
<1>11. Run => (Building ~> Ready \/ Gone)
  BY <1>6, <1>9, <1>10, PTL
<1>12. Run => (Ready ~> ~Full \/ Gone)
  BY <1>6, <1>7, <1>9, PTL
<1>13. Run => (Ready /\ ~Full ~> Gone)
  BY <1>6, <1>7, <1>9, PTL
<1>14. Run => [](~Gone => <>Ready \/ <>Gone)
  BY <1>4, <1>10, <1>11, PTL
<1>15. Run => [](~Gone => <>Gone)
  BY <1>7, <1>12, <1>13, <1>14, PTL
<1> QED
  BY <1>15, ScanIsLive, RunInvariant, PTL DEF PublisherIsFair

-----------------------------------------------------------------------------
(* A scan past its wait goes down, rank by rank, until it is done.         *)
Below(s, k) == Rank[pc[s]] < k

LEMMA RankIsNatural ==
    /\ \A label \in Labels : Rank[label] \in 0 .. 10
    /\ \A label \in Labels : Rank[label] = 0 => label = "done"
    /\ \A label \in Labels : label \notin {"new", "waiting"} <=> Rank[label] < 9
    /\ \A label \in Labels : Rank[label] = 4 => label = "drain"
<1> QED
  BY DEF Rank, Labels

(* Only its own step takes it down, and nothing takes it up.               *)
LEMMA LevelSteps ==
    ASSUME RunInv, NEW s \in Scans, NEW k \in 1 .. 8, Rank[pc[s]] = k
    PROVE  /\ [Next]_vars => Rank[pc'[s]] = k \/ Below(s, k)'
           /\ Idle(s) /\ [Next]_vars => Idle(s)' \/ Below(s, k)'
           /\ ScanStep(s) => Below(s, k)'
           /\ k # 4 /\ Idle(s) /\ ScanCanStep(s) => ENABLED <<ScanStep(s)>>_vars
<1>1. LeaseInv /\ ClientInv /\ pc[s] \in Labels
  BY DEF RunInv, LeaseInv
<1>2. pc[s] \notin {"new", "waiting"} /\ pc[s] # "done"
  BY <1>1, RankIsNatural DEF Rank, Labels
<1>3. ScanStep(s) => Below(s, k)'
  BY <1>1, <1>2, RankFalls DEF Below
<1>4. ASSUME [Next]_vars, ~ScanStep(s)
      PROVE  pc'[s] = pc[s] /\ (Idle(s) => Idle(s)')
  BY <1>1, <1>2, <1>4, OthersLeaveScan, SettersGo, MainIsTask DEF SetterGoes, Idle, JobAt
<1>5. k # 4 => pc[s] # "drain"
  BY DEF Rank, Labels
<1>6. k # 4 /\ Idle(s) /\ ScanCanStep(s) => ENABLED <<ScanStep(s)>>_vars
  BY <1>2, <1>5 DEF ScanCanStep
<1> QED
  BY <1>3, <1>4, <1>6

LEMMA PassedScanEnds ==
    ASSUME NEW s \in Scans
    PROVE  Live => (pc[s] \notin {"new", "waiting"} ~> pc[s] = "done")
<1> DEFINE Level(k) == Rank[pc[s]] = k
           Low(k) == Below(s, k)
           Free == Idle(s)
           Drained == publisher[s] = "ended"
           Goes(k) ==
             /\ RunInv /\ Level(k) /\ [Next]_vars => Level(k)' \/ Low(k)'
             /\ RunInv /\ Level(k) /\ Free /\ [Next]_vars => Free' \/ Low(k)'
             /\ RunInv /\ Level(k) /\ <<ScanStep(s)>>_vars => Low(k)'
           Free2(k) == RunInv /\ Level(k) /\ Free /\ ScanCanStep(s) => ENABLED <<ScanStep(s)>>_vars
           Run == [][Next]_vars /\ []RunInv /\ []ScanCanStep(s) /\ WF_vars(ScanStep(s)) /\ [](~Free => <>Free)
<1>1. Goes(1) /\ Free2(1)
  BY LevelSteps
<1>2. Goes(2) /\ Free2(2)
  BY LevelSteps
<1>3. Goes(3) /\ Free2(3)
  BY LevelSteps
<1>4. Goes(4)
  BY LevelSteps
<1>5. Goes(5) /\ Free2(5)
  BY LevelSteps
<1>6. Goes(6) /\ Free2(6)
  BY LevelSteps
<1>7. Goes(7) /\ Free2(7)
  BY LevelSteps
<1>8. Goes(8) /\ Free2(8)
  BY LevelSteps
<1>9. /\ RunInv /\ Level(4) /\ Drained /\ [Next]_vars => Drained' \/ Low(4)'
      /\ Level(4) /\ Drained /\ Free /\ ScanCanStep(s) /\ RunInv => ENABLED <<ScanStep(s)>>_vars
      /\ RunInv /\ Level(4) => pc[s] = "drain"
  <2>1. RunInv => (Level(4) <=> pc[s] = "drain")
    BY RankIsNatural DEF RunInv, LeaseInv, Rank, Labels
  <2>2. ASSUME RunInv, pc[s] = "drain", Drained, [Next]_vars PROVE Drained'
    BY <2>2, OthersLeavePublisher, PublisherGoes DEF PublisherStays, PublisherTurns
  <2>3. Level(4) /\ Drained /\ Free /\ ScanCanStep(s) /\ RunInv => ENABLED <<ScanStep(s)>>_vars
    BY <2>1 DEF ScanCanStep, At
  <2> QED
    BY <2>1, <2>2, <2>3
<1>10. Run => (Level(1) ~> Low(1))
  BY <1>1, PTL
<1>11. Run => (Level(2) ~> Low(2))
  BY <1>2, PTL
<1>12. Run => (Level(3) ~> Low(3))
  BY <1>3, PTL
<1>13. Run /\ [](pc[s] = "drain" => <>(pc[s] # "drain" \/ Drained)) => (Level(4) ~> Low(4))
  <2>1. Run => (Level(4) /\ Drained ~> Low(4))
    BY <1>4, <1>9, PTL
  <2>2. RunInv /\ Level(4) => pc[s] = "drain" /\ ~(pc[s] # "drain")
    BY <1>9
  <2>3. Run /\ [](pc[s] = "drain" => <>(pc[s] # "drain" \/ Drained))
           => (Level(4) ~> (Level(4) /\ Drained) \/ Low(4))
    BY <1>4, <2>2, PTL
  <2> QED
    BY <2>1, <2>3, PTL
<1>14. Run => (Level(5) ~> Low(5))
  BY <1>5, PTL
<1>15. Run => (Level(6) ~> Low(6))
  BY <1>6, PTL
<1>16. Run => (Level(7) ~> Low(7))
  BY <1>7, PTL
<1>17. Run => (Level(8) ~> Low(8))
  BY <1>8, PTL
<1>18. RunInv => /\ Low(9) => Low(8) \/ Level(8)
                 /\ Low(8) => Low(7) \/ Level(7)
                 /\ Low(7) => Low(6) \/ Level(6)
                 /\ Low(6) => Low(5) \/ Level(5)
                 /\ Low(5) => Low(4) \/ Level(4)
                 /\ Low(4) => Low(3) \/ Level(3)
                 /\ Low(3) => Low(2) \/ Level(2)
                 /\ Low(2) => Low(1) \/ Level(1)
                 /\ Low(1) => pc[s] = "done"
                 /\ pc[s] \notin {"new", "waiting"} => Low(9)
  <2>1. ASSUME RunInv PROVE pc[s] \in Labels /\ Rank[pc[s]] \in 0 .. 10
    BY <2>1, RankIsNatural DEF RunInv, LeaseInv
  <2> QED
    BY <2>1, RankIsNatural DEF Below
<1>19. Live => Run
  BY ScanIsLive, ScanSetterEnds, RunInvariant, PTL DEF ScanIsFair
<1>20. Live => [](pc[s] = "drain" => <>(pc[s] # "drain" \/ Drained))
  BY DrainEnds
<1>21. Live => (Low(9) ~> Low(5))
  BY <1>14, <1>15, <1>16, <1>17, <1>18, <1>19, RunInvariant, PTL
<1>22. Live => (Low(5) ~> Low(1))
  BY <1>10, <1>11, <1>12, <1>13, <1>18, <1>19, <1>20, RunInvariant, PTL
<1> QED
  BY <1>18, <1>21, <1>22, RunInvariant, PTL

-----------------------------------------------------------------------------
(* Where a request is in the slot and where its task is go together: it    *)
(* waits from its arrival to its lease, and has a lease only at work.      *)
PhaseAgrees(s) ==
    /\ pc[s] = "waiting" <=> phase[s] \in {"install", "enqueue", "queued"}
    /\ phase[s] = "leased" => HoldsLease(s)
PhaseInv == \A s \in Scans : PhaseAgrees(s)

LEMMA PhaseInvWork ==
    ASSUME LeaseInv, PhaseInv, NEW s \in Scans, Work(s)
    PROVE  PhaseInv'
<1>0. /\ pc \in [Scans -> Labels] /\ phase \in [Scans -> Phases]
      /\ pc[s] \notin {"new", "waiting"}
      /\ \A t \in Scans : t # s => pc'[t] = pc[t]
  BY WorkOutcome DEF LeaseInv, Work, Begin, Load, IndexScan, Preview, Drain, Enrich, RefreshScan,
     RefreshAgain, AutomaticRefresh, RemoveRoot, LocalIndex, LocalEnrich, EditMetadata, FindSong,
     RebuildForSong, Return, At
<1> DEFINE Kept == phase' = phase /\ (HoldsLease(s) => HoldsLease(s)') /\ pc'[s] # "waiting"
           Left == phase' = [phase EXCEPT ![s] = "left"] /\ pc'[s] # "waiting"
<1> USE <1>0 DEF HoldsLease, At, Start, Goto, Leave, Advance, slotVars
<1>1. CASE Begin(s) \/ Load(s)
  <2>1. Kept
    BY <1>1 DEF Begin, Load, FirstWork, LeaseInv, Replacing, Trying
  <2> QED
    BY <2>1 DEF PhaseInv, PhaseAgrees
<1>2. CASE IndexScan(s) \/ RefreshScan(s) \/ RefreshAgain(s)
  <2>1. Kept \/ Left
    BY <1>2 DEF IndexScan, Preview, Drain, Enrich, FailWithoutLease, Replaced, RefreshScan, RefreshAgain
  <2> QED
    BY <2>1 DEF PhaseInv, PhaseAgrees
<1>3. CASE AutomaticRefresh(s) \/ RemoveRoot(s) \/ LocalIndex(s) \/ LocalEnrich(s)
  <2>1. Kept
    BY <1>3 DEF AutomaticRefresh, RemoveRoot, LocalIndex, LocalEnrich
  <2> QED
    BY <2>1 DEF PhaseInv, PhaseAgrees
<1>4. CASE EditMetadata(s) \/ FindSong(s) \/ RebuildForSong(s)
  <2>1. Kept
    BY <1>4 DEF EditMetadata, FindSong, RebuildForSong
  <2> QED
    BY <2>1 DEF PhaseInv, PhaseAgrees
<1>5. CASE Return(s)
  <2>1. Left \/ (Kept /\ pc[s] = "ending")
    BY <1>5 DEF Return
  <2> QED
    BY <2>1 DEF PhaseInv, PhaseAgrees
<1> QED
  BY <1>1, <1>2, <1>3, <1>4, <1>5 DEF Work

LEMMA PhaseInvStep == LeaseInv /\ PhaseInv /\ [Next]_vars => PhaseInv'
<1> SUFFICES ASSUME LeaseInv, PhaseInv, [Next]_vars
             PROVE  PhaseInv'
  OBVIOUS
<1> USE DEF HoldsLease, PhaseInv, PhaseAgrees
<1>0. pc \in [Scans -> Labels] /\ phase \in [Scans -> Phases]
  BY DEF LeaseInv
<1>1. CASE UNCHANGED vars \/ ClientStep
  BY <1>1 DEF vars, slotVars, taskVars, ClientStep, Poll, Answer, Show
<1>2. ASSUME NEW s \in Scans, NEW k \in Kinds, Request(s, k) PROVE PhaseInv'
  BY <1>0, <1>2, KindsAssumption DEF Request, Goto, Unleased, Select, TryBegin, Refuse, Advance, slotVars, LeaseInv
<1>3. ASSUME NEW s \in Scans, Acquire(s) PROVE PhaseInv'
  BY <1>0, <1>3 DEF Acquire, Goto, Enqueue, Install, Admit, StandDown, Advance
<1>4. ASSUME NEW s \in Scans, Work(s) PROVE PhaseInv'
  BY <1>4, PhaseInvWork
<1>5. ASSUME NEW s \in Scans, Spawn(s) \/ EndPhase(s) PROVE PhaseInv'
  BY <1>0, <1>5 DEF Spawn, EndPhase, At, Start, Goto, slotVars
<1>6. ASSUME NEW s \in Scans, Send(s) \/ PublisherStep(s) PROVE PhaseInv'
  BY <1>6 DEF Send, PublisherStep, slotVars
<1>7. ASSUME NEW t, JobStep(t) PROVE PhaseInv'
  BY <1>7 DEF JobStep, slotVars
<1> QED
  BY <1>1, <1>2, <1>3, <1>4, <1>5, <1>6, <1>7 DEF Next, TaskStep, ScanStep

LEMMA PhaseInvInit == Init => PhaseInv
<1> SUFFICES ASSUME Init, NEW s \in Scans PROVE PhaseAgrees(s)
  BY DEF PhaseInv
<1>1. CASE s = Startup
  BY <1>1 DEF Init, SlotInit, PhaseAgrees, HoldsLease
<1>2. CASE s # Startup
  BY <1>2 DEF Init, SlotInit, PhaseAgrees, HoldsLease
<1> QED
  BY <1>1, <1>2

LEMMA PhaseInvariant == Live => []PhaseInv
<1> QED
  BY PhaseInvInit, PhaseInvStep, LiveInvariant, PTL DEF Live, FairSpec, Spec

-----------------------------------------------------------------------------
(* The slot is handed on.  A request's place: 0 when the mutex is granted   *)
(* to it, k when it is the k-th in the queue.                              *)
Place(s, k) ==
    \/ k = 0 /\ holder = s
    \/ k > 0 /\ k \in DOMAIN queue /\ queue[k] = s

(* A scan stops waiting only by getting past its wait, for good.           *)
Passed(s) == pc[s] \notin {"new", "waiting"}

LEMMA WaitersPass ==
    ASSUME RunInv, [Next]_vars, NEW s \in Scans
    PROVE  /\ Passed(s) => Passed(s)'
           /\ pc[s] = "waiting" => pc'[s] = "waiting" \/ Passed(s)'
           /\ pc[s] = "waiting" /\ ScanStep(s) => Acquire(s) /\ (Enqueue(s) \/ Passed(s)')
<1> USE DEF Passed
<1>1. CASE ScanStep(s) /\ pc[s] # "waiting"
  <2>1. pc'[s] \in Labels /\ pc[s] \in Labels /\ Rank[pc'[s]] < Rank[pc[s]]
    BY <1>1, RankFalls DEF RunInv
  <2> QED
    BY <1>1, <2>1, RankIsNatural
<1>2. CASE ScanStep(s) /\ pc[s] = "waiting"
  <2>1. Acquire(s)
    BY <1>2 DEF ScanStep, Work, Begin, Load, IndexScan, Preview, Drain, Enrich, RefreshScan, RefreshAgain,
       AutomaticRefresh, RemoveRoot, LocalIndex, LocalEnrich, EditMetadata, FindSong, RebuildForSong,
       Return, Spawn, EndPhase, At
  <2>2. pc \in [Scans -> Labels]
    BY DEF RunInv, LeaseInv
  <2> QED
    BY <1>2, <2>1, <2>2 DEF Acquire, Goto
<1>3. CASE ~ScanStep(s)
  BY <1>3, OthersLeaveScan DEF RunInv
<1> QED
  BY <1>1, <1>2, <1>3

(* The one the mutex is granted to takes it, or stands down.               *)
LEMMA HolderBegins ==
    ASSUME NEW s \in Scans
    PROVE  Live => (pc[s] = "waiting" /\ holder = s ~> Passed(s))
<1> DEFINE Waits == pc[s] = "waiting" /\ holder = s
           Gone == Passed(s)
<1>1. RunInv /\ PhaseInv' /\ Waits /\ [Next]_vars => Waits' \/ Gone'
  <2> SUFFICES ASSUME RunInv, PhaseInv', Waits, [Next]_vars, pc'[s] = "waiting" PROVE holder' = s
    BY WaitersPass
  <2>1. SlotInv /\ [SlotNext]_slotVars /\ phase'[s] \in {"install", "enqueue", "queued"}
    BY StepImplementsSlot DEF RunInv, PhaseInv, PhaseAgrees
  <2>2. ASSUME NEW t \in Scans, SlotStep(t) PROVE holder' = s
    BY <2>1, <2>2, ScansAssumption
    DEF SlotInv, SlotTypeOK, HolderInv, SlotStep, TryBegin, Refuse, Install, Select, Enqueue, Admit,
        StandDown, Leave, Advance
  <2> QED
    BY <2>1, <2>2 DEF SlotNext, slotVars
<1>2. RunInv /\ Waits /\ <<ScanStep(s)>>_vars => Gone'
  <2>1. RunInv /\ Waits => ~Enqueue(s)
    BY ScansAssumption DEF RunInv, SlotInv, HolderInv, Enqueue, Advance
  <2>2. ScanStep(s) => [Next]_vars
    BY DEF Next, TaskStep
  <2> QED
    BY <2>1, <2>2, WaitersPass
<1>3. Waits /\ ScanCanStep(s) => ENABLED <<ScanStep(s)>>_vars
  BY DEF ScanCanStep
<1> QED
  BY <1>1, <1>2, <1>3, ScanIsLive, RunInvariant, PhaseInvariant, PTL DEF ScanIsFair

(* The holder never keeps the mutex for ever.                              *)
LEMMA HolderLeaves ==
    ASSUME NEW s \in Scans
    PROVE  Live => (holder = s ~> ~(holder = s))
<1> DEFINE Holds == holder = s
           Waits == pc[s] = "waiting" /\ Holds
           Done == pc[s] = "done"
           Gone == Passed(s)
<1>1. RunInv /\ PhaseInv /\ Holds => (Waits \/ Gone) /\ ~Done
  BY ScansAssumption DEF RunInv, SlotInv, HolderInv, PhaseInv, PhaseAgrees, HoldsLease, Passed
<1>2. Live => (Waits ~> Gone)
  BY HolderBegins
<1>3. Live => (Gone ~> Done)
  BY PassedScanEnds DEF Passed
<1> QED
  BY <1>1, <1>2, <1>3, RunInvariant, PhaseInvariant, PTL

(* When it leaves, everybody who waits moves up by one place.              *)
LEMMA QueueSteps ==
    ASSUME SlotInv, [SlotNext]_slotVars, NEW s \in Scans, NEW k \in Nat, Place(s, k + 1),
           NEW h \in Scans, holder = h
    PROVE  (Place(s, k + 1)' /\ holder' = h) \/ Place(s, k)'
<1>0. k + 1 \in DOMAIN queue /\ queue[k + 1] = s /\ queue \in Seq(Scans) /\ holder # NoScan
  BY ScansAssumption DEF Place, SlotInv, SlotTypeOK
<1>1. CASE UNCHANGED <<holder, queue>>
  BY <1>0, <1>1 DEF Place
<1>2. ASSUME NEW t \in Scans, Enqueue(t) PROVE Place(s, k + 1)' /\ holder' = h
  <2>1. queue' = Append(queue, t) /\ holder' = holder
    BY <1>0, <1>2 DEF Enqueue
  <2>2. k + 1 \in DOMAIN queue' /\ queue'[k + 1] = s
    BY <1>0, <2>1
  <2> QED
    BY <2>1, <2>2 DEF Place
<1>3. ASSUME HandOver PROVE Place(s, k)'
  <2>1. queue # <<>> /\ holder' = queue[1] /\ queue' = Tail(queue)
    BY <1>0, <1>3 DEF HandOver
  <2>2. CASE k = 0
    BY <1>0, <2>1, <2>2 DEF Place
  <2>3. CASE k > 0
    <3>1. k \in DOMAIN queue' /\ queue'[k] = s
      BY <1>0, <2>1, <2>3
    <3> QED
      BY <2>3, <3>1 DEF Place
  <2> QED
    BY <2>2, <2>3
<1>4. ASSUME NEW t \in Scans, SlotStep(t)
      PROVE  UNCHANGED <<holder, queue>> \/ Enqueue(t) \/ HandOver
  BY <1>0, <1>4 DEF SlotStep, TryBegin, Refuse, Install, Select, Admit, StandDown, Leave
<1> QED
  BY <1>1, <1>2, <1>3, <1>4 DEF SlotNext, slotVars

LEMMA PlaceMovesUpBehind ==
    ASSUME NEW waiter \in Scans, NEW k \in Nat, NEW s \in Scans
    PROVE  Live => [](holder = s => (Place(waiter, k + 1) => <>Place(waiter, k)))
<1> DEFINE Here == Place(waiter, k + 1)
           There == Place(waiter, k)
           Holds == holder = s
<1>1. RunInv /\ Here /\ Holds /\ [Next]_vars => (Here' /\ Holds') \/ There'
  BY StepImplementsSlot, QueueSteps DEF RunInv
<1>2. Live => (Holds ~> ~Holds)
  BY HolderLeaves
<1> QED
  BY <1>1, <1>2, RunInvariant, PTL

LEMMA PlaceMovesUp ==
    ASSUME NEW waiter \in Scans, NEW k \in Nat
    PROVE  Live => (Place(waiter, k + 1) ~> Place(waiter, k))
<1> DEFINE Here == Place(waiter, k + 1)
           There == Place(waiter, k)
<1>1. ASSUME NEW s \in Scans
      PROVE  Live => [](holder = s => (Here => <>There))
  BY PlaceMovesUpBehind
<1>2. Live => \A s \in Scans : [](holder = s => (Here => <>There))
  BY <1>1
<1>3. (\A s \in Scans : [](holder = s => (Here => <>There)))
         => [](\A s \in Scans : (holder = s => (Here => <>There)))
  OBVIOUS
<1> DEFINE Taken == \E s \in Scans : holder = s
<1>4. (\A s \in Scans : (holder = s => (Here => <>There))) => (Taken => (Here => <>There))
  OBVIOUS
<1>5. RunInv /\ Here => Taken
  BY DEF RunInv, SlotInv, SlotTypeOK, QueueInv, Place
<1> QED
  BY <1>2, <1>3, <1>4, <1>5, RunInvariant, PTL

(* Whoever waits is handed on: from the k-th place in the queue a request   *)
(* gets to the one before it, and from the first to the mutex.  Nobody is  *)
(* overtaken and no failure keeps the slot.                                *)
MovesUp == \A waiter \in Scans, k \in Nat : Place(waiter, k + 1) ~> Place(waiter, k)

THEOREM WaitersMoveUp == FairSpec /\ []NothingIsStuck => MovesUp
<1>1. Live => MovesUp
  BY PlaceMovesUp DEF MovesUp
<1> QED
  BY <1>1 DEF Live

(* Everybody who waits has its place, after the lock it goes through first. *)
LEMMA WaiterGetsPlace ==
    ASSUME NEW s \in Scans
    PROVE  Live => (pc[s] = "waiting" ~> (\E k \in Nat : Place(s, k)) \/ Passed(s))
<1> DEFINE Entering == pc[s] = "waiting" /\ phase[s] = "enqueue"
           Placed == \E k \in Nat : Place(s, k)
           Gone == Passed(s)
           Waits == pc[s] = "waiting"
<1>1. RunInv /\ PhaseInv /\ Waits => Entering \/ Placed
  <2> SUFFICES ASSUME RunInv, PhaseInv, Waits, ~Entering PROVE Placed
    OBVIOUS
  <2>1. holder = s \/ InQueue(s)
    BY DEF RunInv, SlotInv, HolderInv, PhaseInv, PhaseAgrees
  <2>2. CASE holder = s
    BY <2>2 DEF Place
  <2>3. CASE InQueue(s)
    <3>1. PICK i \in DOMAIN queue : queue[i] = s
      BY <2>3 DEF InQueue
    <3>2. i \in Nat /\ i > 0
      BY DEF RunInv, SlotInv, SlotTypeOK
    <3> QED
      BY <3>1, <3>2 DEF Place
  <2> QED
    BY <2>1, <2>2, <2>3
<1>2. RunInv /\ Waits /\ [Next]_vars => Waits' \/ Gone'
  BY WaitersPass
<1>3. RunInv /\ Entering /\ <<ScanStep(s)>>_vars => Placed' \/ Gone'
  <2> SUFFICES ASSUME RunInv, Entering, Enqueue(s)
               PROVE  Placed'
    <3>1. ScanStep(s) => [Next]_vars
      BY DEF Next, TaskStep
    <3> QED
      BY <3>1, WaitersPass
  <2>1. CASE holder = NoScan
    BY <2>1, ScansAssumption DEF Enqueue, Place
  <2>2. CASE holder # NoScan
    <3>1. queue \in Seq(Scans) /\ queue' = Append(queue, s)
      BY <2>2 DEF Enqueue, RunInv, SlotInv, SlotTypeOK
    <3>2. PICK n \in Nat : n = Len(queue) + 1
      BY <3>1
    <3>3. n > 0 /\ n \in DOMAIN queue' /\ queue'[n] = s
      BY <3>1, <3>2
    <3> QED
      BY <3>3 DEF Place
  <2> QED
    BY <2>1, <2>2
<1>4. Entering /\ ScanCanStep(s) => ENABLED <<ScanStep(s)>>_vars
  BY DEF ScanCanStep
<1> QED
  BY <1>1, <1>2, <1>3, <1>4, ScanIsLive, RunInvariant, PhaseInvariant, PTL DEF ScanIsFair

(* The provers cannot do an induction over a temporal formula: this one,   *)
(* over the place in the queue, is taken as a hypothesis.                  *)
PlaceInduction ==
    MovesUp => \A s \in Scans, k \in Nat : (Place(s, k) ~> Place(s, 0))

(* Every scan that arrives comes to an end, whatever the others do: it     *)
(* gets its place, moves up to the mutex, and goes down its ranks; its     *)
(* publisher ends before it reads the database again (EveryScanEnds).      *)
THEOREM ArrivedScansEnd == FairSpec /\ []NothingIsStuck /\ PlaceInduction => EveryScanEnds
<1>1. ASSUME NEW s \in Scans
      PROVE  Live /\ PlaceInduction => (pc[s] # "new" ~> pc[s] = "done")
  <2> DEFINE Arrived == pc[s] # "new"
             Waits == pc[s] = "waiting"
             Placed == \E k \in Nat : Place(s, k)
             First == Place(s, 0)
             Holds == Waits /\ holder = s
             Gone == Passed(s)
             Done == pc[s] = "done"
  <2>1. Live /\ PlaceInduction => \A k \in Nat : (Place(s, k) ~> First)
    BY WaitersMoveUp DEF PlaceInduction, Live
  <2>2. (\A k \in Nat : (Place(s, k) ~> First)) => \A k \in Nat : [](Place(s, k) => <>First)
    <3>1. ASSUME NEW k \in Nat PROVE (Place(s, k) ~> First) => [](Place(s, k) => <>First)
      BY PTL
    <3> QED
      BY <3>1
  <2>3. (\A k \in Nat : [](Place(s, k) => <>First)) => [](\A k \in Nat : (Place(s, k) => <>First))
    OBVIOUS
  <2>4. (\A k \in Nat : (Place(s, k) => <>First)) => (Placed => <>First)
    OBVIOUS
  <2>5. Live => (Waits ~> Placed \/ Gone)
    BY WaiterGetsPlace
  <2>6. Live => (Holds ~> Gone)
    BY HolderBegins
  <2>7. Live => (Gone ~> Done)
    BY PassedScanEnds DEF Passed
  <2>8. RunInv /\ Waits /\ [Next]_vars => Waits' \/ Gone'
    BY WaitersPass
  <2>9. (Arrived => Waits \/ Gone) /\ (First /\ Waits => Holds)
    BY DEF Passed, Place
  <2>10. Live /\ PlaceInduction => [](Placed => <>First)
    BY <2>1, <2>2, <2>3, <2>4, PTL
  <2> QED
    BY <2>5, <2>6, <2>7, <2>8, <2>9, <2>10, RunInvariant, PTL
<1>2. Live /\ PlaceInduction => EveryScanEnds
  BY <1>1 DEF EveryScanEnds
<1> QED
  BY <1>2 DEF Live

=============================================================================
