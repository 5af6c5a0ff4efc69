------------------------- MODULE CatalogStoreProofs -------------------------
(***************************************************************************)
(* A catalog that is taken for the whole one shows the database, at rest   *)
(* and where an indexing has read it back: for any number of tasks,        *)
(* changes, batches and restarts.                                          *)
(***************************************************************************)
EXTENDS CatalogStore, FiniteSetTheorems, TLAPS

-----------------------------------------------------------------------------
(* The programs, place by place.                                           *)

LEMMA KindsAre ==
    Kinds = {"start", "load", "edit", "stream", "auto", "scan", "remove", "clear", "index"}
<1> QED
  BY DEF Kinds, Program

LEMMA StartProgram ==
    Len(Program["start"]) = 2 /\ Program["start"][1] = "restore" /\ Program["start"][2] = "serve"
<1> QED
  BY DEF Program

LEMMA LoadProgram ==
    /\ Len(Program["load"]) = 3
    /\ Program["load"][1] = "fetch" /\ Program["load"][2] = "save" /\ Program["load"][3] = "serve"
<1> QED
  BY DEF Program, PublishAndSave

LEMMA StreamProgram ==
    /\ Len(Program["stream"]) = 3
    /\ Program["stream"][1] = "fetch" /\ Program["stream"][2] = "save" /\ Program["stream"][3] = "serve"
<1> QED
  BY DEF Program, PublishAndSave

LEMMA ClearProgram ==
    /\ Len(Program["clear"]) = 3
    /\ Program["clear"][1] = "empty" /\ Program["clear"][2] = "clear" /\ Program["clear"][3] = "unserve"
<1> QED
  BY DEF Program

LEMMA AutoProgram ==
    /\ Len(Program["auto"]) = 5
    /\ Program["auto"][1] = "commit" /\ Program["auto"][2] = "export" /\ Program["auto"][3] = "store"
    /\ Program["auto"][4] = "fetch" /\ Program["auto"][5] = "serve"
<1> QED
  BY DEF Program, Indexed, Publish

LEMMA RemoveProgram ==
    /\ Len(Program["remove"]) = 5
    /\ Program["remove"][1] = "commit" /\ Program["remove"][2] = "clear" /\ Program["remove"][3] = "fetch"
    /\ Program["remove"][4] = "save" /\ Program["remove"][5] = "serve"
<1> QED
  BY DEF Program, PublishAndSave

LEMMA EditProgram ==
    /\ Len(Program["edit"]) = 7
    /\ Program["edit"][1] = "fetch" /\ Program["edit"][2] = "commit" /\ Program["edit"][3] = "clear"
    /\ Program["edit"][4] = "fetch" /\ Program["edit"][5] = "save" /\ Program["edit"][6] = "serve"
    /\ Program["edit"][7] = "fetch"
<1> QED
  BY DEF Program, PublishAndSave

LEMMA ScanProgram ==
    /\ Len(Program["scan"]) = 11
    /\ Program["scan"][1] = "commit" /\ Program["scan"][2] = "export" /\ Program["scan"][3] = "store"
    /\ Program["scan"][4] = "fetch" /\ Program["scan"][5] = "serve"
    /\ Program["scan"][6] = "commit" /\ Program["scan"][7] = "export" /\ Program["scan"][8] = "store"
    /\ Program["scan"][9] = "fetch" /\ Program["scan"][10] = "save" /\ Program["scan"][11] = "serve"
<1> QED
  BY DEF Program, Indexed, Publish, PublishAndSave

LEMMA IndexProgram ==
    /\ Len(Program["index"]) = 18
    /\ Program["index"][1] = "seed" /\ Program["index"][2] = "preview"
    /\ Program["index"][3] = "fetch" /\ Program["index"][4] = "serve" /\ Program["index"][5] = "spawn"
    /\ Program["index"][6] = "commit" /\ Program["index"][7] = "export" /\ Program["index"][8] = "store"
    /\ Program["index"][9] = "join" /\ Program["index"][10] = "clear"
    /\ Program["index"][11] = "fetch" /\ Program["index"][12] = "serve"
    /\ Program["index"][13] = "commit" /\ Program["index"][14] = "export" /\ Program["index"][15] = "store"
    /\ Program["index"][16] = "fetch" /\ Program["index"][17] = "save" /\ Program["index"][18] = "serve"
<1> QED
  BY DEF Program, Indexed, Publish, PublishAndSave

LEMMA ProgramsAreLong ==
    ASSUME NEW k \in Kinds
    PROVE  1 <= Len(Program[k])
<1>1. k \in {"start", "load", "stream"} => 1 <= Len(Program[k])
  BY StartProgram, LoadProgram, StreamProgram
<1>2. k \in {"clear", "auto", "remove"} => 1 <= Len(Program[k])
  BY ClearProgram, AutoProgram, RemoveProgram
<1>3. k \in {"edit", "scan", "index"} => 1 <= Len(Program[k])
  BY EditProgram, ScanProgram, IndexProgram
<1> QED
  BY <1>1, <1>2, <1>3, KindsAre

(* The places of each step.                                                *)
Places ==
    [fetch   |-> {<<"load", 1>>, <<"stream", 1>>, <<"edit", 1>>, <<"edit", 4>>, <<"edit", 7>>, <<"auto", 4>>,
                  <<"remove", 3>>, <<"scan", 4>>, <<"scan", 9>>, <<"index", 3>>, <<"index", 11>>, <<"index", 16>>},
     seed    |-> {<<"index", 1>>},
     clear   |-> {<<"clear", 2>>, <<"remove", 2>>, <<"edit", 3>>, <<"index", 10>>},
     commit  |-> {<<"auto", 1>>, <<"remove", 1>>, <<"edit", 2>>, <<"scan", 1>>, <<"scan", 6>>,
                  <<"index", 6>>, <<"index", 13>>},
     empty   |-> {<<"clear", 1>>},
     export  |-> {<<"auto", 2>>, <<"scan", 2>>, <<"scan", 7>>, <<"index", 7>>, <<"index", 14>>},
     store   |-> {<<"auto", 3>>, <<"scan", 3>>, <<"scan", 8>>, <<"index", 8>>, <<"index", 15>>},
     preview |-> {<<"index", 2>>},
     save    |-> {<<"load", 2>>, <<"stream", 2>>, <<"remove", 4>>, <<"edit", 5>>, <<"scan", 10>>, <<"index", 17>>},
     serve   |-> {<<"start", 2>>, <<"load", 3>>, <<"stream", 3>>, <<"auto", 5>>, <<"remove", 5>>, <<"edit", 6>>,
                  <<"scan", 5>>, <<"scan", 11>>, <<"index", 4>>, <<"index", 12>>, <<"index", 18>>},
     unserve |-> {<<"clear", 3>>},
     restore |-> {<<"start", 1>>},
     spawn   |-> {<<"index", 5>>},
     join    |-> {<<"index", 9>>}]
Last == {<<"start", 2>>, <<"load", 3>>, <<"stream", 3>>, <<"clear", 3>>, <<"auto", 5>>, <<"remove", 5>>,
         <<"edit", 7>>, <<"scan", 11>>, <<"index", 18>>}

LEMMA PlacesOfSteps ==
    ASSUME NEW k \in Kinds, NEW n \in 1 .. 18, n <= Len(Program[k])
    PROVE  /\ Len(Program[k]) \in 1 .. 18
           /\ Program[k][n] \in DOMAIN Places
           /\ <<k, n>> \in Places[Program[k][n]]
           /\ n = Len(Program[k]) <=> <<k, n>> \in Last
<1>1. CASE k = "start"
  <2>1. n = 1 \/ n = 2
    BY <1>1, StartProgram
  <2> QED
    BY <1>1, <2>1, StartProgram DEF Places, Last
<1>2. CASE k = "load"
  <2>1. n = 1 \/ n = 2 \/ n = 3
    BY <1>2, LoadProgram
  <2> QED
    BY <1>2, <2>1, LoadProgram DEF Places, Last
<1>3. CASE k = "stream"
  <2>1. n = 1 \/ n = 2 \/ n = 3
    BY <1>3, StreamProgram
  <2> QED
    BY <1>3, <2>1, StreamProgram DEF Places, Last
<1>4. CASE k = "clear"
  <2>1. n = 1 \/ n = 2 \/ n = 3
    BY <1>4, ClearProgram
  <2> QED
    BY <1>4, <2>1, ClearProgram DEF Places, Last
<1>5. CASE k = "auto"
  <2>1. n = 1 \/ n = 2 \/ n = 3 \/ n = 4 \/ n = 5
    BY <1>5, AutoProgram
  <2> QED
    BY <1>5, <2>1, AutoProgram DEF Places, Last
<1>6. CASE k = "remove"
  <2>1. n = 1 \/ n = 2 \/ n = 3 \/ n = 4 \/ n = 5
    BY <1>6, RemoveProgram
  <2> QED
    BY <1>6, <2>1, RemoveProgram DEF Places, Last
<1>7. CASE k = "edit"
  <2>1. n = 1 \/ n = 2 \/ n = 3 \/ n = 4 \/ n = 5 \/ n = 6 \/ n = 7
    BY <1>7, EditProgram
  <2> QED
    BY <1>7, <2>1, EditProgram DEF Places, Last
<1>8. CASE k = "scan"
  <2>1. n = 1 \/ n = 2 \/ n = 3 \/ n = 4 \/ n = 5 \/ n = 6 \/ n = 7 \/ n = 8 \/ n = 9 \/ n = 10 \/ n = 11
    BY <1>8, ScanProgram
  <2> QED
    BY <1>8, <2>1, ScanProgram DEF Places, Last
<1>9. CASE k = "index"
  <2>1. \/ n = 1 \/ n = 2 \/ n = 3 \/ n = 4 \/ n = 5 \/ n = 6 \/ n = 7 \/ n = 8 \/ n = 9
        \/ n = 10 \/ n = 11 \/ n = 12 \/ n = 13 \/ n = 14 \/ n = 15 \/ n = 16 \/ n = 17 \/ n = 18
    OBVIOUS
  <2> QED
    BY <1>9, <2>1, IndexProgram DEF Places, Last
<1> QED
  BY <1>1, <1>2, <1>3, <1>4, <1>5, <1>6, <1>7, <1>8, <1>9, KindsAre

-----------------------------------------------------------------------------
(* The invariant.                                                          *)

TaskTypes == [kind : Kinds \cup {"none"}, n : 1 .. 18, loaded : BOOLEAN,
              held : Catalogs \cup {NoCatalog}, alone : BOOLEAN]
PublisherTypes == [at : {"rest", "wait", "seed", "store", "fetch", "serve"}, loaded : BOOLEAN,
                   held : Catalogs \cup {NoCatalog}, sent : 0 .. MaxBatches, aborted : BOOLEAN]

Types ==
    /\ db \in [changes : 1 .. MaxChanges, empty : BOOLEAN]
    /\ cell \in Catalogs \cup {NoCatalog}
    /\ served \in Catalogs \cup {NoCatalog}
    /\ saved \in Catalogs \cup {NoCatalog}
    /\ asked \in Catalogs \cup {NoCatalog}
    /\ writing \in Catalogs \cup {NoCatalog}
    /\ task \in [Tasks -> TaskTypes]
    /\ publisher \in [Tasks -> PublisherTypes]
    /\ begun \in 0 .. MaxTasks /\ starts \in 0 .. MaxStarts
    /\ disturbed \in BOOLEAN /\ unsaved \in BOOLEAN

(* A task is at a place of its program, and one scan has the lease.  What  *)
(* is loaded or saved is a catalog.                                        *)
Place(t) == <<task[t].kind, task[t].n>>
PlaceInv ==
    /\ \A t \in Active : task[t].n <= Len(Program[task[t].kind])
    /\ \A t, u \in Active : task[t].kind \in Leased /\ task[u].kind \in Leased => t = u
    /\ \A t \in Active : task[t].loaded \/ Place(t) \in Places.save => task[t].held # NoCatalog

(* A publisher is at work between the spawn and the join of its indexing,  *)
(* or it has been told to stop: then nobody who is under way runs by       *)
(* itself, and what it leaves behind is not made good before it has ended. *)
PublisherAt(u) ==
    /\ AtWork(u) /\ ~publisher[u].aborted =>
          u \in Active /\ task[u].kind = "index" /\ task[u].n \in Spawned .. Joined
    /\ publisher[u].aborted =>
          /\ AtWork(u) /\ u \notin Active /\ disturbed
          /\ \A t \in Active : ~task[t].alone /\ task[t].kind # "load"
    /\ publisher[u].loaded => publisher[u].at \in {"seed", "fetch"}
PublisherInv == \A u \in Tasks : PublisherAt(u)

(* Where a task that runs by itself knows the cell to be right, and where  *)
(* it holds what the database has: it has cleared or stored the cell since *)
(* its last change, and read it back.                                      *)
CellRight ==
    {<<"load", 1>>, <<"load", 2>>, <<"load", 3>>, <<"edit", 4>>, <<"edit", 5>>, <<"edit", 6>>, <<"edit", 7>>,
     <<"auto", 4>>, <<"auto", 5>>, <<"scan", 9>>, <<"scan", 10>>, <<"scan", 11>>, <<"remove", 3>>,
     <<"remove", 4>>, <<"remove", 5>>, <<"clear", 3>>, <<"index", 11>>, <<"index", 12>>, <<"index", 16>>,
     <<"index", 17>>, <<"index", 18>>}
HeldRight ==
    {<<"load", 2>>, <<"load", 3>>, <<"edit", 5>>, <<"edit", 6>>, <<"auto", 3>>, <<"auto", 5>>, <<"scan", 8>>,
     <<"scan", 10>>, <<"scan", 11>>, <<"remove", 4>>, <<"remove", 5>>, <<"index", 12>>, <<"index", 15>>,
     <<"index", 17>>, <<"index", 18>>}

CellShows(t) == cell \in {NoCatalog, Content} /\ (task[t].loaded => task[t].held = Content)
FileShows == ~unsaved => Wanted = Content
AtRest == served = Content /\ cell \in {NoCatalog, Content} /\ FileShows

(* A task that runs by itself starts from what was at rest, and knows what *)
(* its place says.  A stream and a start make nothing good themselves:     *)
(* they keep what was not disturbed.                                       *)
AloneAt(t) ==
    /\ Active = {t}
    /\ task[t].n = 1 /\ ~disturbed /\ task[t].kind \notin {"start", "load"} => AtRest
    /\ Place(t) \in CellRight => CellShows(t)
    /\ Place(t) \in HeldRight => task[t].held = Content
    /\ task[t].kind = "stream" /\ ~disturbed =>
          AtRest /\ CellShows(t) /\ (task[t].n > 1 => task[t].held = Content)
    /\ task[t].kind = "start" /\ ~disturbed =>
          /\ ~unsaved /\ saved = Content /\ Settled /\ cell = NoCatalog
          /\ task[t].n = 2 => task[t].held = Content
    /\ Place(t) = <<"edit", 7>> => served = Content /\ FileShows
    /\ task[t].kind = "clear" /\ task[t].n > 1 => Content = NoCatalog
AloneInv == \A t \in Active : task[t].alone => AloneAt(t)

RestInv == Active = {} /\ ~disturbed => AtRest

(* A start without a folder finds nothing, and whoever came meanwhile has  *)
(* found nothing either.                                                   *)
LoadInv ==
    \A t \in Active : Place(t) = <<"load", 1>> /\ Content = NoCatalog =>
        /\ cell = NoCatalog /\ served = NoCatalog /\ saved = NoCatalog /\ Settled
        /\ ~task[t].loaded
        /\ \A u \in Active : u # t => Place(u) = <<"edit", 1>> /\ ~task[u].loaded

StoreInv == Types /\ PlaceInv /\ PublisherInv /\ AloneInv /\ RestInv /\ LoadInv

-----------------------------------------------------------------------------
(* What the database has is a catalog, or nothing when it has no folder.   *)
LEMMA ContentFacts ==
    ASSUME Types
    PROVE  /\ Content \in Catalogs \cup {NoCatalog}
           /\ Content = NoCatalog <=> db.empty
           /\ NoCatalog \notin Catalogs
<1>1. NoCatalog \notin [upTo : Nat, preview : BOOLEAN]
  BY StoreConstants
<1>2. NoCatalog \notin Catalogs
  BY <1>1, StoreConstants DEF Catalogs
<1>3. ~db.empty => Content \in Catalogs
  BY StoreConstants DEF Types, Content, Catalogs
<1> QED
  BY <1>2, <1>3 DEF Content

LEMMA ContentOf ==
    ASSUME NEW d \in [changes : 1 .. MaxChanges, empty : BOOLEAN]
    PROVE  [upTo |-> d.changes, preview |-> FALSE] # NoCatalog
<1>1. [upTo |-> d.changes, preview |-> FALSE] \in [upTo : Nat, preview : BOOLEAN]
  BY StoreConstants
<1> QED
  BY <1>1, StoreConstants

(* A preview or a batch over what was there is a catalog.                  *)
LEMMA MixedIsCatalog ==
    ASSUME NEW c \in Catalogs \cup {NoCatalog}
    PROVE  Mixed(c) \in Catalogs
<1> QED
  BY StoreConstants DEF Mixed, Catalogs

(* A task that is not there, and a publisher at rest, are of their types.  *)
LEMMA NoTaskTypes ==
    /\ NoTask \in TaskTypes /\ NoTask.kind = "none" /\ NoTask.n = 1 /\ ~NoTask.loaded /\ NoTask.alone
    /\ "none" \notin Kinds
<1> QED
  BY KindsAre DEF NoTask, TaskTypes

LEMMA RestTypes ==
    Rest \in PublisherTypes /\ ~Rest.loaded /\ ~Rest.aborted /\ Rest.at = "rest"
<1>1. 0 \in 0 .. MaxBatches
  BY StoreConstants
<1> QED
  BY <1>1 DEF Rest, PublisherTypes

(* What the step that is next says of the place.                           *)
LEMMA StepPlace ==
    ASSUME Types, PlaceInv, NEW t \in Tasks, Step(t) # "none"
    PROVE  /\ t \in Active /\ task[t].kind \in Kinds /\ task[t].n \in 1 .. 18
           /\ Step(t) \in DOMAIN Places /\ Place(t) \in Places[Step(t)]
           /\ task[t].n < Len(Program[task[t].kind]) <=> Place(t) \notin Last
           /\ task[t].n < Len(Program[task[t].kind]) =>
                 task[t].n + 1 \in 1 .. 18 /\ task[t].n + 1 <= Len(Program[task[t].kind])
<1>1. t \in Active /\ task[t].kind \in Kinds /\ task[t].n \in 1 .. 18
  BY DEF Step, Active, Types, TaskTypes
<1>2. task[t].n <= Len(Program[task[t].kind])
  BY <1>1 DEF PlaceInv
<1>3. PICK k \in Kinds : k = task[t].kind
  BY <1>1
<1>4. PICK n \in 1 .. 18 : n = task[t].n
  BY <1>1
<1>5. /\ Len(Program[k]) \in 1 .. 18 /\ Program[k][n] \in DOMAIN Places
      /\ <<k, n>> \in Places[Program[k][n]]
      /\ n = Len(Program[k]) <=> <<k, n>> \in Last
  BY <1>2, <1>3, <1>4, PlacesOfSteps
<1>6. Step(t) = Program[k][n]
  BY <1>1, <1>3, <1>4, NoTaskTypes DEF Step
<1>7. Step(t) \in DOMAIN Places /\ Place(t) \in Places[Step(t)]
  BY <1>3, <1>4, <1>5, <1>6 DEF Place
<1>8. PICK last \in 1 .. 18 : last = Len(Program[k])
  BY <1>5
<1>9. n <= last /\ (n = last <=> <<k, n>> \in Last)
  BY <1>2, <1>3, <1>4, <1>5, <1>8
<1>10. n < last <=> Place(t) \notin Last
  BY <1>3, <1>4, <1>9 DEF Place
<1>11. n < last => n + 1 \in 1 .. 18 /\ n + 1 <= last
  OBVIOUS
<1> QED
  BY <1>1, <1>3, <1>4, <1>7, <1>8, <1>10, <1>11

-----------------------------------------------------------------------------
(* A task's step leaves the others where they are; it goes on to its next  *)
(* place or ends.                                                          *)

OthersStay(t) == \A u \in Tasks : u # t => task'[u] = task[u]
GoesOn(t) ==
    /\ Place(t) \notin Last
    /\ task'[t].kind = task[t].kind /\ task'[t].n = task[t].n + 1
    /\ ~task'[t].loaded /\ task'[t].alone = task[t].alone
    /\ UNCHANGED disturbed
Ends(t) ==
    /\ Place(t) \in Last
    /\ task'[t] = NoTask
    /\ disturbed' = IF task[t].alone /\ task[t].kind \notin {"start", "stream"} THEN FALSE
                    ELSE disturbed \/ ~task[t].alone

(* A step that is done takes its task to the next place, or ends it.       *)
LEMMA DoneStep ==
    ASSUME Types, PlaceInv, NEW t \in Tasks, Step(t) # "none",
           NEW h \in Catalogs \cup {NoCatalog}, Done(t, h)
    PROVE  /\ task' \in [Tasks -> TaskTypes] /\ disturbed' \in BOOLEAN
           /\ OthersStay(t)
           /\ (GoesOn(t) /\ task'[t].held = h) \/ Ends(t)
<1>1. /\ t \in Active /\ task[t].kind \in Kinds /\ task[t].n \in 1 .. 18 /\ task[t] \in TaskTypes
      /\ task[t].n < Len(Program[task[t].kind]) <=> Place(t) \notin Last
      /\ task[t].n < Len(Program[task[t].kind]) => task[t].n + 1 \in 1 .. 18
  BY StepPlace DEF Types
<1>2. CASE task[t].n < Len(Program[task[t].kind])
  <2>1. /\ task' = [task EXCEPT ![t].n = @ + 1, ![t].loaded = FALSE, ![t].held = h]
        /\ UNCHANGED disturbed
    BY <1>2 DEF Done
  <2>2. task' \in [Tasks -> TaskTypes]
    BY <1>1, <1>2, <2>1 DEF Types, TaskTypes
  <2>3. /\ OthersStay(t) /\ task'[t].kind = task[t].kind /\ task'[t].n = task[t].n + 1
        /\ ~task'[t].loaded /\ task'[t].alone = task[t].alone /\ task'[t].held = h
    BY <2>1 DEF Types, TaskTypes, OthersStay
  <2> QED
    BY <1>1, <1>2, <2>1, <2>2, <2>3 DEF GoesOn, Types
<1>3. CASE ~(task[t].n < Len(Program[task[t].kind]))
  <2>1. /\ task' = [task EXCEPT ![t] = NoTask]
        /\ disturbed' = IF task[t].alone /\ task[t].kind \notin {"start", "stream"} THEN FALSE
                        ELSE disturbed \/ ~task[t].alone
    BY <1>3 DEF Done
  <2>2. task' \in [Tasks -> TaskTypes] /\ OthersStay(t) /\ task'[t] = NoTask
    BY <2>1, NoTaskTypes DEF Types, OthersStay
  <2>3. disturbed' \in BOOLEAN
    BY <1>1, <2>1 DEF Types, TaskTypes
  <2> QED
    BY <1>1, <1>3, <2>1, <2>2, <2>3 DEF Ends
<1> QED
  BY <1>2, <1>3

LEMMA KeepingStep ==
    ASSUME Types, PlaceInv, NEW t \in Tasks, Step(t) # "none", Keeping(t)
    PROVE  /\ task' \in [Tasks -> TaskTypes] /\ disturbed' \in BOOLEAN
           /\ OthersStay(t)
           /\ (GoesOn(t) /\ task'[t].held = task[t].held) \/ Ends(t)
<1>1. PICK h \in Catalogs \cup {NoCatalog} : h = task[t].held
  BY DEF Types, TaskTypes
<1>2. Done(t, h)
  BY <1>1 DEF Keeping
<1> QED
  BY <1>1, <1>2, DoneStep

(* While one task steps, no other one runs by itself; so the invariant is  *)
(* about the task that steps.                                              *)
LEMMA ActiveAfter ==
    ASSUME NEW t \in Active, OthersStay(t)
    PROVE  /\ task'[t].kind # "none" => Active' = Active
           /\ task'[t].kind = "none" => Active' = Active \ {t}
<1> QED
  BY DEF Active, OthersStay

(* When a task goes on, the invariant asks only what it now knows.         *)
LEMMA ContinuingInv ==
    ASSUME StoreInv, NEW t \in Active, OthersStay(t),
           task'[t].kind = task[t].kind, task'[t].alone = task[t].alone,
           task'[t].n <= Len(Program[task[t].kind]),
           task'[t].loaded \/ Place(t)' \in Places.save => task'[t].held # NoCatalog,
           task[t].alone /\ Active = {t} => AloneAt(t)'
    PROVE  PlaceInv' /\ AloneInv' /\ RestInv'
<1>1. Active' = Active /\ t \in Active' /\ t \in Tasks
  BY ActiveAfter DEF Active
<1>2. PlaceInv'
  BY <1>1 DEF StoreInv, PlaceInv, OthersStay, Active, Place
<1>3. \A u \in Active : task[u].alone => Active = {u}
  BY DEF StoreInv, AloneInv, AloneAt
<1>4. AloneInv'
  BY <1>1, <1>3 DEF AloneInv, OthersStay, Active
<1> QED
  BY <1>1, <1>2, <1>4 DEF RestInv

(* When a task ends, it asks whether everything is at rest.                *)
LEMMA EndingInv ==
    ASSUME StoreInv, NEW t \in Active, OthersStay(t), task'[t] = NoTask,
           Active = {t} /\ ~disturbed' => AtRest'
    PROVE  PlaceInv' /\ AloneInv' /\ RestInv'
<1>1. Active' = Active \ {t} /\ t \in Tasks
  BY ActiveAfter, NoTaskTypes DEF Active
<1>2. PlaceInv'
  BY <1>1 DEF StoreInv, PlaceInv, OthersStay, Active, Place
<1>3. \A u \in Active : task[u].alone => Active = {u}
  BY DEF StoreInv, AloneInv, AloneAt
<1>4. AloneInv'
  BY <1>1, <1>3 DEF AloneInv, OthersStay, Active
<1> QED
  BY <1>1, <1>2, <1>4 DEF RestInv

-----------------------------------------------------------------------------
(* What each step does to the parts of the invariant that are not about    *)
(* the task that runs by itself.                                           *)

LEMMA PublisherBeside ==
    ASSUME StoreInv, NEW t \in Active, OthersStay(t), UNCHANGED publisher,
           task'[t].kind \in {task[t].kind, "none"},
           task'[t].kind # "none" => task'[t].alone = task[t].alone,
           disturbed /\ ~task[t].alone /\ task[t].kind # "load" => disturbed',
           task[t].kind = "index" /\ task[t].n \in Spawned .. Joined =>
               task'[t].kind = "index" /\ task'[t].n \in Spawned .. Joined
    PROVE  PublisherInv'
<1>1. Active' \subseteq Active /\ t \in Tasks
  BY DEF Active, OthersStay
<1> SUFFICES ASSUME NEW u \in Tasks
             PROVE  PublisherAt(u)'
  BY DEF PublisherInv
<1>2. PublisherAt(u)
  BY DEF StoreInv, PublisherInv
<1>3. CASE u = t
  <2>1. ~publisher[u].aborted
    BY <1>2, <1>3 DEF PublisherAt
  <2>2. task[u].kind = "index" /\ task[u].n \in Spawned .. Joined => u \in Active'
    BY <1>1, <1>3, KindsAre, NoTaskTypes DEF Active
  <2> QED
    BY <1>2, <1>3, <2>1, <2>2 DEF PublisherAt, AtWork
<1>4. CASE u # t
  <2>1. task'[u] = task[u] /\ (u \in Active <=> u \in Active')
    BY <1>4 DEF OthersStay, Active
  <2>2. publisher[u].aborted => disturbed'
    BY <1>2 DEF PublisherAt
  <2>3. ASSUME publisher[u].aborted, NEW v \in Active'
        PROVE  ~task'[v].alone /\ task'[v].kind # "load"
    <3>1. ~task[v].alone /\ task[v].kind # "load" /\ task'[v].kind # "none" /\ v \in Tasks
      BY <1>1, <1>2, <2>3 DEF PublisherAt, Active
    <3> QED
      BY <3>1 DEF OthersStay
  <2> QED
    BY <1>2, <2>1, <2>2, <2>3 DEF PublisherAt, AtWork
<1> QED
  BY <1>3, <1>4

(* A task that ends outside of its publisher's reach.                      *)
LEMMA PublisherKept ==
    ASSUME StoreInv, NEW t \in Active, OthersStay(t), UNCHANGED publisher, task'[t] = NoTask,
           ~task[t].alone /\ task[t].kind # "load" /\ disturbed => disturbed',
           Place(t) \notin {<<"index", 6>>, <<"index", 7>>, <<"index", 8>>, <<"index", 9>>}
    PROVE  PublisherInv'
<1>1. ~(task[t].kind = "index" /\ task[t].n \in Spawned .. Joined)
  BY DEF Place, Spawned, Joined
<1> QED
  BY <1>1, NoTaskTypes, PublisherBeside

LEMMA LoadKept ==
    ASSUME StoreInv,
           \A u \in Active : Place(u) = <<"load", 1>> => Content' # NoCatalog,
           \A u \in Tasks : Place(u)' = <<"load", 1>> => Place(u) = <<"load", 1>>
    PROVE  LoadInv'
<1>1. \A u \in Active' : Place(u)' = <<"load", 1>> => u \in Active
  BY DEF Active, Place
<1> QED
  BY <1>1 DEF LoadInv, Active

(* While a start without a folder looks for something to load, the only    *)
(* other tasks are edits that have not read the cell.                      *)
LEMMA OnlyFetches ==
    ASSUME StoreInv, NEW t \in Active, Step(t) # "fetch"
    PROVE  \A u \in Active : Place(u) = <<"load", 1>> => Content # NoCatalog
<1> SUFFICES ASSUME NEW u \in Active, Place(u) = <<"load", 1>>, Content = NoCatalog
             PROVE  FALSE
  OBVIOUS
<1>1. Place(t) = <<"load", 1>> \/ Place(t) = <<"edit", 1>>
  BY DEF StoreInv, LoadInv
<1>2. Step(t) = "fetch"
  BY <1>1, NoTaskTypes, KindsAre, LoadProgram, EditProgram DEF Step, Place
<1> QED
  BY <1>2

(* The next place is not the first one.                                    *)
LEMMA GoesOnFacts ==
    ASSUME StoreInv, NEW t \in Tasks, Step(t) # "none", OthersStay(t), GoesOn(t)
    PROVE  /\ task'[t].n <= Len(Program[task[t].kind]) /\ task'[t].n # 1
           /\ Place(t)' = <<task[t].kind, task[t].n + 1>>
           /\ \A u \in Tasks : Place(u)' = <<"load", 1>> => Place(u) = <<"load", 1>>
           /\ Active = {t} => Active' = {t}
<1>1. task[t].n \in 1 .. 18 /\ task[t].n < Len(Program[task[t].kind]) /\ t \in Active
      /\ (task[t].n + 1 <= Len(Program[task[t].kind])) /\ task[t].kind \in Kinds
  BY StepPlace DEF StoreInv, GoesOn
<1>2. Active' = Active
  BY <1>1, ActiveAfter, NoTaskTypes DEF GoesOn
<1> QED
  BY <1>1, <1>2 DEF GoesOn, OthersStay, Place

(* A task that ends is at no place.                                        *)
LEMMA EndsFacts ==
    ASSUME StoreInv, NEW t \in Tasks, OthersStay(t), task'[t] = NoTask
    PROVE  \A u \in Tasks : Place(u)' = <<"load", 1>> => Place(u) = <<"load", 1>>
<1> QED
  BY NoTaskTypes DEF OthersStay, Place

(* A step that is not a read leaves a load that waits, and the publisher,  *)
(* as they are.                                                            *)
LEMMA BesideKept ==
    ASSUME StoreInv, NEW t \in Tasks, Step(t) \notin {"none", "fetch"}, OthersStay(t),
           GoesOn(t) \/ Ends(t), Content' = NoCatalog => Content = NoCatalog
    PROVE  LoadInv'
<1>1. t \in Active
  BY DEF Step, Active
<1>2. \A u \in Active : Place(u) = <<"load", 1>> => Content' # NoCatalog
  BY <1>1, OnlyFetches
<1>3. \A u \in Tasks : Place(u)' = <<"load", 1>> => Place(u) = <<"load", 1>>
  BY GoesOnFacts, EndsFacts DEF Ends
<1> QED
  BY <1>2, <1>3, LoadKept

-----------------------------------------------------------------------------
(* From one place to the next: what a task knows there it knew before, or  *)
(* has it from the step.                                                   *)

Knows(k, n) ==
    /\ <<k, n>> \in Places.fetch \cup Places.seed =>
          (<<k, n + 1>> \in CellRight \cup HeldRight => <<k, n>> \in CellRight)
    /\ <<k, n + 1>> \in Places.save => <<k, n>> \in Places.fetch
    /\ <<k, n>> \in Places.clear => <<k, n + 1>> \notin HeldRight
    /\ <<k, n>> \in Places.commit \cup Places.empty \cup Places.preview \cup Places.spawn
                       \cup Places.join \cup Places.restore =>
          <<k, n + 1>> \notin CellRight \cup HeldRight
    /\ <<k, n>> \in Places.export => <<k, n + 1>> \notin CellRight
    /\ <<k, n>> \in Places.store =>
          <<k, n + 1>> \notin HeldRight /\ (<<k, n + 1>> \in CellRight => <<k, n>> \in HeldRight)
    /\ <<k, n>> \in Places.save \cup Places.serve =>
          /\ <<k, n + 1>> \in CellRight => <<k, n>> \in CellRight
          /\ <<k, n + 1>> \in HeldRight => <<k, n>> \in HeldRight

LEMMA NextPlaces ==
    ASSUME NEW k \in Kinds, NEW n \in 1 .. 18
    PROVE  Knows(k, n)
<1>2. <<k, n>> \in Places.fetch \cup Places.seed =>
         (<<k, n + 1>> \in CellRight \cup HeldRight => <<k, n>> \in CellRight)
  BY DEF Places, CellRight, HeldRight
<1>1. <<k, n + 1>> \in Places.save => <<k, n>> \in Places.fetch
  BY DEF Places
<1>3. <<k, n>> \in Places.clear => <<k, n + 1>> \notin HeldRight
  BY DEF Places, HeldRight
<1>4. <<k, n>> \in Places.commit \cup Places.empty \cup Places.preview \cup Places.spawn
            \cup Places.join \cup Places.restore => <<k, n + 1>> \notin CellRight \cup HeldRight
  BY DEF Places, CellRight, HeldRight
<1>5. <<k, n>> \in Places.export => <<k, n + 1>> \notin CellRight
  BY DEF Places, CellRight
<1>6. <<k, n>> \in Places.store =>
         <<k, n + 1>> \notin HeldRight /\ (<<k, n + 1>> \in CellRight => <<k, n>> \in HeldRight)
  BY DEF Places, CellRight, HeldRight
<1>7. <<k, n>> \in Places.save \cup Places.serve =>
         (<<k, n + 1>> \in CellRight => <<k, n>> \in CellRight)
  BY DEF Places, CellRight
<1>8. <<k, n>> \in Places.save \cup Places.serve =>
         (<<k, n + 1>> \in HeldRight => <<k, n>> \in HeldRight)
  BY DEF Places, HeldRight
<1> QED
  BY <1>1, <1>2, <1>3, <1>4, <1>5, <1>6, <1>7, <1>8 DEF Knows

(* What a step has to show of a task that runs by itself and goes on.      *)
NextPlace(t) == <<task[t].kind, task[t].n + 1>>

(* What a task saves it has read in the step before.                       *)
LEMMA SavesWhatIsRead ==
    ASSUME StoreInv, NEW t \in Tasks, Step(t) # "none", NextPlace(t) \in Places.save
    PROVE  Step(t) = "fetch"
<1>1. Step(t) \in DOMAIN Places /\ Place(t) \in Places[Step(t)] /\ task[t].kind \in Kinds /\ task[t].n \in 1 .. 18
  BY StepPlace DEF StoreInv
<1>2. PICK k \in Kinds : k = task[t].kind
  BY <1>1
<1>3. PICK n \in 1 .. 18 : n = task[t].n
  BY <1>1
<1>4. Place(t) = <<k, n>> /\ NextPlace(t) = <<k, n + 1>>
  BY <1>2, <1>3 DEF Place, NextPlace
<1>6. Knows(k, n)
  BY NextPlaces
<1>5. Place(t) \in Places.fetch
  BY <1>4, <1>6 DEF Knows
<1> QED
  BY <1>1, <1>5 DEF Places

(* A task that runs by itself and goes on.                                 *)
LEMMA AloneGoesOn ==
    ASSUME StoreInv, NEW t \in Tasks, Step(t) # "none", OthersStay(t), GoesOn(t),
           Step(t) = "fetch" => task'[t].held # NoCatalog,
           Active = {t} /\ task[t].alone /\ AloneAt(t) =>
             /\ NextPlace(t) \in CellRight => cell' \in {NoCatalog, Content'}
             /\ NextPlace(t) \in HeldRight => task'[t].held = Content'
             /\ task[t].kind = "stream" /\ ~disturbed => AtRest' /\ task'[t].held = Content'
             /\ task[t].kind = "start" /\ ~disturbed =>
                   /\ ~unsaved' /\ saved' = Content' /\ Settled'
                   /\ cell' = NoCatalog /\ task'[t].held = Content'
             /\ NextPlace(t) = <<"edit", 7>> => served' = Content' /\ FileShows'
             /\ task[t].kind = "clear" => Content' = NoCatalog
    PROVE  PlaceInv' /\ AloneInv' /\ RestInv'
<1>1. t \in Active
  BY DEF Step, Active
<1>2. /\ task'[t].n <= Len(Program[task[t].kind]) /\ task'[t].n # 1 /\ Place(t)' = NextPlace(t)
      /\ Active = {t} => Active' = {t}
  BY GoesOnFacts DEF NextPlace
<1>3. ASSUME task[t].alone, Active = {t}
      PROVE  AloneAt(t)'
  <2>1. AloneAt(t)
    BY <1>1, <1>3 DEF StoreInv, AloneInv
  <2>2. Active' = {t} /\ task'[t].n # 1 /\ Place(t)' = NextPlace(t) /\ ~task'[t].loaded
        /\ task'[t].kind = task[t].kind /\ disturbed' = disturbed
    BY <1>2, <1>3 DEF GoesOn
  <2>3. Place(t)' \in CellRight => CellShows(t)'
    BY <1>3, <2>1, <2>2 DEF CellShows
  <2>4. task'[t].kind = "stream" /\ ~disturbed' => AtRest' /\ CellShows(t)' /\ task'[t].held = Content'
    BY <1>3, <2>1, <2>2 DEF CellShows, AtRest
  <2> QED
    BY <1>3, <2>1, <2>2, <2>3, <2>4 DEF AloneAt
<1>4. Place(t)' \in Places.save => task'[t].held # NoCatalog
  BY <1>2, SavesWhatIsRead
<1> QED
  BY <1>1, <1>2, <1>3, <1>4, ContinuingInv DEF GoesOn

(* And of one that ends.                                                   *)
LEMMA AloneEnds ==
    ASSUME StoreInv, NEW t \in Tasks, Step(t) # "none", OthersStay(t), Ends(t),
           /\ Active = {t} /\ task[t].alone /\ AloneAt(t)
           /\ task[t].kind \in {"start", "stream"} => ~disturbed
           => AtRest'
    PROVE  PlaceInv' /\ AloneInv' /\ RestInv'
<1>1. t \in Active
  BY DEF Step, Active
<1>2. Active = {t} /\ ~disturbed' => AtRest'
  BY <1>1 DEF Ends, StoreInv, AloneInv
<1> QED
  BY <1>1, <1>2, EndingInv DEF Ends

(* Only reads and publications are last in a program.                      *)
LEMMA NotLast ==
    ASSUME StoreInv, NEW t \in Tasks, Step(t) \notin {"none", "fetch", "serve", "unserve"}
    PROVE  Place(t) \notin Last
<1>1. Step(t) \in DOMAIN Places /\ Place(t) \in Places[Step(t)]
  BY StepPlace DEF StoreInv
<1> QED
  BY <1>1 DEF Places, Last

(* What the places of a step say of the next one.                          *)
LEMMA PlacesAhead ==
    ASSUME StoreInv, NEW t \in Tasks, Step(t) # "none"
    PROVE  /\ Step(t) \in {"fetch", "seed"} =>
                 (NextPlace(t) \in CellRight \cup HeldRight => Place(t) \in CellRight)
           /\ Step(t) = "clear" => NextPlace(t) \notin HeldRight
           /\ Step(t) \in {"commit", "empty", "preview", "spawn", "join", "restore"} =>
                 NextPlace(t) \notin CellRight \cup HeldRight
           /\ Step(t) = "export" => NextPlace(t) \notin CellRight
           /\ Step(t) = "store" =>
                 NextPlace(t) \notin HeldRight /\ (NextPlace(t) \in CellRight => Place(t) \in HeldRight)
           /\ Step(t) \in {"save", "serve"} =>
                 /\ NextPlace(t) \in CellRight => Place(t) \in CellRight
                 /\ NextPlace(t) \in HeldRight => Place(t) \in HeldRight
<1>1. Step(t) \in DOMAIN Places /\ Place(t) \in Places[Step(t)] /\ task[t].kind \in Kinds /\ task[t].n \in 1 .. 18
  BY StepPlace DEF StoreInv
<1>2. PICK k \in Kinds : k = task[t].kind
  BY <1>1
<1>3. PICK n \in 1 .. 18 : n = task[t].n
  BY <1>1
<1>4. Place(t) = <<k, n>> /\ NextPlace(t) = <<k, n + 1>>
  BY <1>2, <1>3 DEF Place, NextPlace
<1>11. Knows(k, n)
  BY NextPlaces
<1>5. Step(t) \in {"fetch", "seed"} => (NextPlace(t) \in CellRight \cup HeldRight => Place(t) \in CellRight)
  <2>1. Step(t) \in {"fetch", "seed"} => <<k, n>> \in Places.fetch \cup Places.seed
    BY <1>1, <1>4
  <2> QED
    BY <1>4, <2>1, <1>11 DEF Knows
<1>6. Step(t) = "clear" => NextPlace(t) \notin HeldRight
  BY <1>1, <1>4, <1>11 DEF Knows
<1>7. Step(t) \in {"commit", "empty", "preview", "spawn", "join", "restore"} =>
         NextPlace(t) \notin CellRight \cup HeldRight
  <2>1. Step(t) \in {"commit", "empty", "preview", "spawn", "join", "restore"} =>
           <<k, n>> \in Places.commit \cup Places.empty \cup Places.preview \cup Places.spawn
                           \cup Places.join \cup Places.restore
    BY <1>1, <1>4
  <2> QED
    BY <1>4, <2>1, <1>11 DEF Knows
<1>8. Step(t) = "export" => NextPlace(t) \notin CellRight
  BY <1>1, <1>4, <1>11 DEF Knows
<1>9. Step(t) = "store" =>
         NextPlace(t) \notin HeldRight /\ (NextPlace(t) \in CellRight => Place(t) \in HeldRight)
  BY <1>1, <1>4, <1>11 DEF Knows
<1>10. Step(t) \in {"save", "serve"} =>
         /\ NextPlace(t) \in CellRight => Place(t) \in CellRight
         /\ NextPlace(t) \in HeldRight => Place(t) \in HeldRight
  <2>1. Step(t) \in {"save", "serve"} => <<k, n>> \in Places.save \cup Places.serve
    BY <1>1, <1>4
  <2> QED
    BY <1>4, <2>1, <1>11 DEF Knows
<1> QED
  BY <1>5, <1>6, <1>7, <1>8, <1>9, <1>10

(* Where the special cases of a task that runs by itself may step.         *)
LEMMA SpecialPlaces ==
    ASSUME StoreInv, NEW t \in Tasks, Step(t) # "none"
    PROVE  /\ task[t].kind = "stream" =>
                 \/ Step(t) = "fetch" /\ task[t].n = 1
                 \/ Step(t) \in {"save", "serve"} /\ task[t].n > 1
           /\ task[t].kind = "start" =>
                 \/ Step(t) = "restore" /\ task[t].n = 1
                 \/ Step(t) = "serve" /\ task[t].n = 2
           /\ task[t].kind = "clear" =>
                 \/ Step(t) = "empty" /\ task[t].n = 1
                 \/ Step(t) \in {"clear", "unserve"} /\ task[t].n > 1
           /\ NextPlace(t) = <<"edit", 7>> => Step(t) = "serve" /\ Place(t) = <<"edit", 6>>
<1>1. Step(t) = Program[task[t].kind][task[t].n] /\ task[t].n \in 1 .. 18
      /\ task[t].kind \in Kinds /\ task[t].n <= Len(Program[task[t].kind])
  BY StepPlace, NoTaskTypes DEF StoreInv, Step, PlaceInv
<1>2. ASSUME task[t].kind = "stream"
      PROVE  \/ Step(t) = "fetch" /\ task[t].n = 1
             \/ Step(t) \in {"save", "serve"} /\ task[t].n > 1
  <2>1. Step(t) = Program["stream"][task[t].n] /\ task[t].n \in 1 .. 3
    BY <1>1, <1>2, StreamProgram
  <2>2. task[t].n = 1 \/ task[t].n = 2 \/ task[t].n = 3
    BY <2>1
  <2> QED
    BY <2>1, <2>2, StreamProgram
<1>3. ASSUME task[t].kind = "start"
      PROVE  \/ Step(t) = "restore" /\ task[t].n = 1
             \/ Step(t) = "serve" /\ task[t].n = 2
  <2>1. Step(t) = Program["start"][task[t].n] /\ task[t].n \in 1 .. 2
    BY <1>1, <1>3, StartProgram
  <2>2. task[t].n = 1 \/ task[t].n = 2
    BY <2>1
  <2> QED
    BY <2>1, <2>2, StartProgram
<1>4. ASSUME task[t].kind = "clear"
      PROVE  \/ Step(t) = "empty" /\ task[t].n = 1
             \/ Step(t) \in {"clear", "unserve"} /\ task[t].n > 1
  <2>1. Step(t) = Program["clear"][task[t].n] /\ task[t].n \in 1 .. 3
    BY <1>1, <1>4, ClearProgram
  <2>2. task[t].n = 1 \/ task[t].n = 2 \/ task[t].n = 3
    BY <2>1
  <2> QED
    BY <2>1, <2>2, ClearProgram
<1>5. NextPlace(t) = <<"edit", 7>> => Step(t) = "serve" /\ Place(t) = <<"edit", 6>>
  <2>1. NextPlace(t) = <<"edit", 7>> => task[t].kind = "edit" /\ task[t].n = 6
    <3>1. PICK n \in 1 .. 18 : n = task[t].n
      BY <1>1
    <3>2. PICK k : k = task[t].kind
      OBVIOUS
    <3>3. <<k, n + 1>> = <<"edit", 7>> => k = "edit" /\ n = 6
      OBVIOUS
    <3> QED
      BY <3>1, <3>2, <3>3 DEF NextPlace
  <2> QED
    BY <1>1, <2>1, EditProgram DEF Place
<1> QED
  BY <1>2, <1>3, <1>4, <1>5

(* The indexing that a publisher belongs to goes on as far as the join.    *)
LEMMA PublisherGoesOn ==
    ASSUME StoreInv, NEW t \in Tasks, Step(t) \notin {"none", "join"}, OthersStay(t), GoesOn(t),
           UNCHANGED publisher
    PROVE  PublisherInv'
<1>1. Step(t) = Program[task[t].kind][task[t].n] /\ task[t].n \in 1 .. 18 /\ t \in Active
  BY StepPlace, NoTaskTypes DEF StoreInv, Step
<1>2. task[t].kind = "index" /\ task[t].n \in Spawned .. Joined => task[t].n + 1 \in Spawned .. Joined
  BY <1>1, IndexProgram DEF Spawned, Joined
<1> QED
  BY <1>1, <1>2, PublisherBeside DEF GoesOn

(* A step that only one place of a program has, and that is not its last.  *)
LEMMA KeepingGoesOn ==
    ASSUME StoreInv, NEW t \in Tasks, Step(t) \notin {"none", "fetch", "serve", "unserve"}, Keeping(t)
    PROVE  /\ task' \in [Tasks -> TaskTypes] /\ disturbed' \in BOOLEAN
           /\ OthersStay(t) /\ GoesOn(t) /\ task'[t].held = task[t].held
<1> QED
  BY KeepingStep, NotLast DEF StoreInv, Ends

(* After the cell is cleared it is right, whatever it had.                 *)
LEMMA ClearKeeps ==
    ASSUME StoreInv, NEW t \in Tasks, Clear(t)
    PROVE  StoreInv'
<1>1. Step(t) = "clear" /\ cell' = NoCatalog /\ Content' = Content
      /\ UNCHANGED <<db, served, saved, asked, writing, unsaved, publisher, begun, starts>>
  BY DEF Clear, Others, Content, file
<1>2. /\ task' \in [Tasks -> TaskTypes] /\ disturbed' \in BOOLEAN
      /\ OthersStay(t) /\ GoesOn(t) /\ task'[t].held = task[t].held
  BY <1>1, KeepingGoesOn DEF Clear
<1>3. Types'
  BY <1>1, <1>2 DEF StoreInv, Types, PublisherTypes
<1>4. PlaceInv' /\ AloneInv' /\ RestInv'
  <2>1. /\ NextPlace(t) \notin HeldRight /\ task[t].kind \notin {"stream", "start"}
        /\ NextPlace(t) # <<"edit", 7>>
        /\ task[t].kind = "clear" => task[t].n > 1
    BY <1>1, PlacesAhead, SpecialPlaces
  <2>2. task[t].kind = "clear" /\ AloneAt(t) => Content' = NoCatalog
    BY <1>1, <2>1 DEF AloneAt
  <2> QED
    BY <1>1, <1>2, <2>1, <2>2, AloneGoesOn
<1>5. PublisherInv'
  BY <1>1, <1>2, PublisherGoesOn
<1>6. LoadInv'
  BY <1>1, <1>2, BesideKept
<1> QED
  BY <1>3, <1>4, <1>5, <1>6 DEF StoreInv

(* After a commit nobody relies on the cell until it is read again.        *)
LEMMA CommitKeeps ==
    ASSUME StoreInv, NEW t \in Tasks, Commit(t)
    PROVE  StoreInv'
<1>1. Step(t) = "commit" /\ UNCHANGED <<cell, served, saved, asked, writing, unsaved, publisher, begun, starts>>
  BY DEF Commit, Others, file
<1>2. PICK n \in {db.changes, db.changes + 1} \cap 1 .. MaxChanges :
        db' = [changes |-> n, empty |-> db.empty /\ task[t].kind # "index"]
  BY DEF Commit
<1>3. /\ task' \in [Tasks -> TaskTypes] /\ disturbed' \in BOOLEAN
      /\ OthersStay(t) /\ GoesOn(t) /\ task'[t].held = task[t].held
  BY <1>1, KeepingGoesOn DEF Commit
<1>4. db.empty \in BOOLEAN
  BY DEF StoreInv, Types
<1>5. db' \in [changes : 1 .. MaxChanges, empty : BOOLEAN] /\ (db'.empty => db.empty)
  BY <1>2, <1>4
<1>6. Types'
  BY <1>1, <1>3, <1>5 DEF StoreInv, Types, PublisherTypes
<1>7. Content' = NoCatalog => Content = NoCatalog
  <2>1. Content' = NoCatalog <=> db'.empty
    BY <1>5, ContentOf DEF Content
  <2> QED
    BY <1>5, <2>1, ContentFacts DEF StoreInv
<1>8. PlaceInv' /\ AloneInv' /\ RestInv'
  <2>1. /\ NextPlace(t) \notin CellRight \cup HeldRight /\ task[t].kind \notin {"stream", "start", "clear"}
        /\ NextPlace(t) # <<"edit", 7>>
    BY <1>1, PlacesAhead, SpecialPlaces
  <2> QED
    BY <1>1, <1>3, <2>1, AloneGoesOn
<1>9. PublisherInv'
  BY <1>1, <1>3, PublisherGoesOn
<1>10. LoadInv'
  BY <1>1, <1>3, <1>7, BesideKept
<1> QED
  BY <1>6, <1>8, <1>9, <1>10 DEF StoreInv

(* Only the one task with the lease removes the last folder, so that no    *)
(* start is looking for something to load.                                 *)
LEMMA EmptyKeeps ==
    ASSUME StoreInv, NEW t \in Tasks, Empty(t)
    PROVE  StoreInv'
<1>1. Step(t) = "empty" /\ db' = [db EXCEPT !.empty = TRUE]
      /\ UNCHANGED <<cell, served, saved, asked, writing, unsaved, publisher, begun, starts>>
  BY DEF Empty, Others, file
<1>2. /\ task' \in [Tasks -> TaskTypes] /\ disturbed' \in BOOLEAN
      /\ OthersStay(t) /\ GoesOn(t) /\ task'[t].held = task[t].held
  BY <1>1, KeepingGoesOn DEF Empty
<1>3. db' \in [changes : 1 .. MaxChanges, empty : BOOLEAN] /\ db'.empty
  BY <1>1 DEF StoreInv, Types
<1>4. Types' /\ Content' = NoCatalog
  BY <1>1, <1>2, <1>3 DEF StoreInv, Types, PublisherTypes, Content
<1>5. t \in Active /\ task[t].kind = "clear"
  <2>1. t \in Active /\ Step(t) \in DOMAIN Places /\ Place(t) \in Places[Step(t)]
    BY <1>1, StepPlace DEF StoreInv
  <2>2. Place(t) \in Places.empty
    BY <1>1, <2>1
  <2> QED
    BY <2>1, <2>2 DEF Places, Place
<1>6. PlaceInv' /\ AloneInv' /\ RestInv'
  <2>1. NextPlace(t) \notin CellRight \cup HeldRight /\ NextPlace(t) # <<"edit", 7>>
    BY <1>1, PlacesAhead, SpecialPlaces
  <2> QED
    BY <1>1, <1>2, <1>4, <1>5, <2>1, AloneGoesOn
<1>7. PublisherInv'
  BY <1>1, <1>2, PublisherGoesOn
<1>8. LoadInv'
  <2>1. \A u \in Active : Place(u) # <<"load", 1>>
    BY <1>5, KindsAre DEF StoreInv, PlaceInv, Place, Leased
  <2> QED
    BY <1>1, <1>2, <2>1, LoadKept, GoesOnFacts
<1> QED
  BY <1>4, <1>6, <1>7, <1>8 DEF StoreInv

(* An export is of what the database has.                                  *)
LEMMA ExportKeeps ==
    ASSUME StoreInv, NEW t \in Tasks, Export(t)
    PROVE  StoreInv'
<1>1. Step(t) = "export" /\ Content' = Content
      /\ UNCHANGED <<db, cell, served, saved, asked, writing, unsaved, publisher, begun, starts>>
  BY DEF Export, Others, places, Content, file
<1>2. PICK h \in Catalogs \cup {NoCatalog} : h = Content
  BY ContentFacts DEF StoreInv
<1>3. Done(t, h)
  BY <1>2 DEF Export
<1>4. /\ task' \in [Tasks -> TaskTypes] /\ disturbed' \in BOOLEAN
      /\ OthersStay(t) /\ GoesOn(t) /\ task'[t].held = Content
  BY <1>1, <1>2, <1>3, DoneStep, NotLast DEF StoreInv, Ends
<1>5. Types'
  BY <1>1, <1>4 DEF StoreInv, Types, PublisherTypes
<1>6. PlaceInv' /\ AloneInv' /\ RestInv'
  <2>1. /\ NextPlace(t) \notin CellRight /\ task[t].kind \notin {"stream", "start", "clear"}
        /\ NextPlace(t) # <<"edit", 7>>
    BY <1>1, PlacesAhead, SpecialPlaces
  <2> QED
    BY <1>1, <1>4, <2>1, AloneGoesOn
<1>7. PublisherInv'
  BY <1>1, <1>4, PublisherGoesOn
<1>8. LoadInv'
  BY <1>1, <1>4, BesideKept
<1> QED
  BY <1>5, <1>6, <1>7, <1>8 DEF StoreInv

(* What is stored was exported, where that is relied on.                   *)
LEMMA StoreKeeps ==
    ASSUME StoreInv, NEW t \in Tasks, Store(t)
    PROVE  StoreInv'
<1>1. Step(t) = "store" /\ cell' = task[t].held /\ Content' = Content
      /\ UNCHANGED <<db, served, saved, asked, writing, unsaved, publisher, begun, starts>>
  BY DEF Store, Others, Content, file
<1>2. /\ task' \in [Tasks -> TaskTypes] /\ disturbed' \in BOOLEAN
      /\ OthersStay(t) /\ GoesOn(t) /\ task'[t].held = task[t].held
  BY <1>1, KeepingGoesOn DEF Store
<1>3. Types'
  BY <1>1, <1>2 DEF StoreInv, Types, TaskTypes, PublisherTypes
<1>4. PlaceInv' /\ AloneInv' /\ RestInv'
  <2>1. /\ NextPlace(t) \notin HeldRight /\ task[t].kind \notin {"stream", "start", "clear"}
        /\ NextPlace(t) # <<"edit", 7>>
        /\ NextPlace(t) \in CellRight => Place(t) \in HeldRight
    BY <1>1, PlacesAhead, SpecialPlaces
  <2>2. AloneAt(t) /\ NextPlace(t) \in CellRight => cell' = Content'
    BY <1>1, <2>1 DEF AloneAt
  <2> QED
    BY <1>1, <1>2, <2>1, <2>2, AloneGoesOn
<1>5. PublisherInv'
  BY <1>1, <1>2, PublisherGoesOn
<1>6. LoadInv'
  BY <1>1, <1>2, BesideKept
<1> QED
  BY <1>3, <1>4, <1>5, <1>6 DEF StoreInv

(* Nobody relies on a cell with a preview in it.                           *)
LEMMA PreviewKeeps ==
    ASSUME StoreInv, NEW t \in Tasks, Preview(t)
    PROVE  StoreInv'
<1>1. Step(t) = "preview" /\ cell' = Mixed(task[t].held) /\ Content' = Content
      /\ UNCHANGED <<db, served, saved, asked, writing, unsaved, publisher, begun, starts>>
  BY DEF Preview, Others, Content, file
<1>2. /\ task' \in [Tasks -> TaskTypes] /\ disturbed' \in BOOLEAN
      /\ OthersStay(t) /\ GoesOn(t) /\ task'[t].held = task[t].held
  BY <1>1, KeepingGoesOn DEF Preview
<1>3. Types'
  <2>1. PICK h \in Catalogs \cup {NoCatalog} : h = task[t].held
    BY DEF StoreInv, Types, TaskTypes
  <2>2. cell' \in Catalogs
    BY <1>1, <2>1, MixedIsCatalog
  <2> QED
    BY <1>1, <1>2, <2>2 DEF StoreInv, Types, PublisherTypes
<1>4. PlaceInv' /\ AloneInv' /\ RestInv'
  <2>1. /\ NextPlace(t) \notin CellRight \cup HeldRight /\ task[t].kind \notin {"stream", "start", "clear"}
        /\ NextPlace(t) # <<"edit", 7>>
    BY <1>1, PlacesAhead, SpecialPlaces
  <2> QED
    BY <1>1, <1>2, <2>1, AloneGoesOn
<1>5. PublisherInv'
  BY <1>1, <1>2, PublisherGoesOn
<1>6. LoadInv'
  BY <1>1, <1>2, BesideKept
<1> QED
  BY <1>3, <1>4, <1>5, <1>6 DEF StoreInv

(* What is saved was read back, unless saving is skipped.                  *)
LEMMA SaveKeeps ==
    ASSUME StoreInv, NEW t \in Tasks, Save(t) \/ SkipSave(t)
    PROVE  StoreInv'
<1>1. /\ Step(t) = "save" /\ Keeping(t) /\ Content' = Content
      /\ UNCHANGED <<db, cell, served, saved, writing, publisher, begun, starts>>
      /\ \/ asked' = task[t].held /\ unsaved' = FALSE
         \/ UNCHANGED <<asked, unsaved>> /\ task[t].kind = "scan"
  BY DEF Save, SkipSave, Others, places, Content, file
<1>2. /\ task' \in [Tasks -> TaskTypes] /\ disturbed' \in BOOLEAN
      /\ OthersStay(t) /\ GoesOn(t) /\ task'[t].held = task[t].held
  BY <1>1, KeepingGoesOn
<1>3. Types'
  <2>1. task[t].held \in Catalogs \cup {NoCatalog}
    BY DEF StoreInv, Types, TaskTypes
  <2>2. asked' \in Catalogs \cup {NoCatalog} /\ unsaved' \in BOOLEAN
    BY <1>1, <2>1 DEF StoreInv, Types
  <2> QED
    BY <1>1, <1>2, <2>2 DEF StoreInv, Types
<1>7. task[t].held # NoCatalog
  <2>1. t \in Active /\ Place(t) \in Places[Step(t)]
    BY <1>1, StepPlace DEF StoreInv
  <2>2. Place(t) \in Places.save
    BY <1>1, <2>1
  <2> QED
    BY <2>1, <2>2 DEF StoreInv, PlaceInv
<1>8. (asked' = task[t].held => Wanted' = task[t].held) /\ (UNCHANGED asked => Wanted' = Wanted)
  BY <1>1, <1>7 DEF Wanted
<1>4. PlaceInv' /\ AloneInv' /\ RestInv'
  <2>1. /\ NextPlace(t) \in CellRight => Place(t) \in CellRight
        /\ NextPlace(t) \in HeldRight => Place(t) \in HeldRight
        /\ task[t].kind \notin {"start", "clear"} /\ NextPlace(t) # <<"edit", 7>>
        /\ task[t].kind = "stream" => task[t].n > 1
    BY <1>1, PlacesAhead, SpecialPlaces
  <2>2. ASSUME AloneAt(t)
        PROVE  /\ NextPlace(t) \in CellRight => cell' \in {NoCatalog, Content'}
               /\ NextPlace(t) \in HeldRight => task'[t].held = Content'
               /\ task[t].kind = "stream" /\ ~disturbed => AtRest' /\ task'[t].held = Content'
    BY <1>1, <1>2, <1>8, <2>1, <2>2 DEF AloneAt, CellShows, AtRest, FileShows
  <2> QED
    BY <1>1, <1>2, <2>1, <2>2, AloneGoesOn
<1>5. PublisherInv'
  BY <1>1, <1>2, PublisherGoesOn
<1>6. LoadInv'
  BY <1>1, <1>2, BesideKept
<1> QED
  BY <1>3, <1>4, <1>5, <1>6 DEF StoreInv

(* The file that a start serves is what the database has, if it was so     *)
(* saved.                                                                  *)
LEMMA RestoreKeeps ==
    ASSUME StoreInv, NEW t \in Tasks, Restore(t)
    PROVE  StoreInv'
<1>1. Step(t) = "restore" /\ Content' = Content
      /\ UNCHANGED <<db, cell, served, saved, asked, writing, unsaved, publisher, begun, starts>>
  BY DEF Restore, Others, places, Content, file
<1>2. PICK h \in Catalogs \cup {NoCatalog} : h = saved
  BY DEF StoreInv, Types
<1>3. Done(t, h)
  BY <1>2 DEF Restore
<1>4. /\ task' \in [Tasks -> TaskTypes] /\ disturbed' \in BOOLEAN
      /\ OthersStay(t) /\ GoesOn(t) /\ task'[t].held = saved
  BY <1>1, <1>2, <1>3, DoneStep, NotLast DEF StoreInv, Ends
<1>5. Types'
  BY <1>1, <1>4 DEF StoreInv, Types, PublisherTypes
<1>6. PlaceInv' /\ AloneInv' /\ RestInv'
  <2>1. /\ NextPlace(t) \notin CellRight \cup HeldRight /\ task[t].kind \notin {"stream", "clear"}
        /\ NextPlace(t) # <<"edit", 7>>
    BY <1>1, PlacesAhead, SpecialPlaces
  <2>2. AloneAt(t) /\ task[t].kind = "start" /\ ~disturbed =>
           /\ ~unsaved' /\ saved' = Content' /\ Settled'
           /\ cell' = NoCatalog /\ task'[t].held = Content'
    BY <1>1, <1>4 DEF AloneAt, Settled
  <2> QED
    BY <1>1, <1>4, <2>1, <2>2, AloneGoesOn
<1>7. PublisherInv'
  BY <1>1, <1>4, PublisherGoesOn
<1>8. LoadInv'
  BY <1>1, <1>4, BesideKept
<1> QED
  BY <1>5, <1>6, <1>7, <1>8 DEF StoreInv

(* The last places of the programs.                                        *)
LEMMA LastPlaces ==
    ASSUME StoreInv, NEW t \in Tasks, Step(t) # "none", Place(t) \in Last
    PROVE  /\ Step(t) = "fetch" => Place(t) = <<"edit", 7>> /\ task[t].kind = "edit" /\ task[t].n # 1
           /\ Step(t) = "serve" =>
                 \/ task[t].kind = "start" /\ task[t].n = 2
                 \/ task[t].kind = "stream" /\ task[t].n > 1
                 \/ /\ task[t].kind \notin {"start", "stream"}
                    /\ Place(t) \in CellRight /\ Place(t) \in HeldRight
           /\ Step(t) = "unserve" => Place(t) \in CellRight /\ task[t].kind = "clear" /\ task[t].n > 1
           /\ Place(t) \notin {<<"index", 6>>, <<"index", 7>>, <<"index", 8>>, <<"index", 9>>}
<1>1. Step(t) \in DOMAIN Places /\ Place(t) \in Places[Step(t)] /\ Place(t) \in Last
  BY StepPlace DEF StoreInv
<1>2. Place(t) \notin {<<"index", 6>>, <<"index", 7>>, <<"index", 8>>, <<"index", 9>>}
  BY <1>1 DEF Last
<1>3. Step(t) = "fetch" => Place(t) = <<"edit", 7>>
  BY <1>1 DEF Places, Last
<1>4. Step(t) = "unserve" => Place(t) = <<"clear", 3>>
  BY <1>1 DEF Places, Last
<1>5. Place(t) \in {<<"start", 2>>, <<"stream", 3>>, <<"load", 3>>, <<"clear", 3>>, <<"auto", 5>>, <<"remove", 5>>,
                    <<"edit", 7>>, <<"scan", 11>>, <<"index", 18>>}
  BY <1>1 DEF Last
<1>6. Step(t) = "serve" => Place(t) \notin {<<"edit", 7>>, <<"clear", 3>>}
  BY <1>1 DEF Places
<1>7. Place(t) \in {<<"load", 3>>, <<"auto", 5>>, <<"remove", 5>>, <<"scan", 11>>, <<"index", 18>>} =>
         Place(t) \in CellRight /\ Place(t) \in HeldRight /\ task[t].kind \notin {"start", "stream"}
  BY DEF Place, CellRight, HeldRight
<1>8. /\ Place(t) = <<"start", 2>> => task[t].kind = "start" /\ task[t].n = 2
      /\ Place(t) = <<"stream", 3>> => task[t].kind = "stream" /\ task[t].n > 1
      /\ Place(t) = <<"edit", 7>> => task[t].kind = "edit" /\ task[t].n # 1
      /\ Place(t) = <<"clear", 3>> => task[t].kind = "clear" /\ task[t].n > 1 /\ Place(t) \in CellRight
  BY DEF Place, CellRight
<1> QED
  BY <1>2, <1>3, <1>4, <1>5, <1>6, <1>7, <1>8

(* What is served by a task's last publication is what the database has.   *)
LEMMA ServeKeeps ==
    ASSUME StoreInv, NEW t \in Tasks, Serve(t)
    PROVE  StoreInv'
<1>1. /\ Step(t) = "serve" /\ Keeping(t) /\ Content' = Content
      /\ served' = task[t].held /\ unsaved' = (unsaved \/ task[t].held # Wanted) /\ Wanted' = Wanted
      /\ UNCHANGED <<db, cell, saved, asked, writing, publisher, begun, starts>>
  BY DEF Serve, Others, Content, file, Wanted
<1>2. /\ task' \in [Tasks -> TaskTypes] /\ disturbed' \in BOOLEAN /\ OthersStay(t)
      /\ (GoesOn(t) /\ task'[t].held = task[t].held) \/ Ends(t)
  BY <1>1, KeepingStep DEF StoreInv
<1>3. Types'
  BY <1>1, <1>2 DEF StoreInv, Types, TaskTypes, PublisherTypes
<1>4. LoadInv'
  BY <1>1, <1>2, BesideKept
<1>5. CASE GoesOn(t) /\ task'[t].held = task[t].held
  <2>1. /\ NextPlace(t) \in CellRight => Place(t) \in CellRight
        /\ NextPlace(t) \in HeldRight => Place(t) \in HeldRight
        /\ NextPlace(t) = <<"edit", 7>> => Place(t) = <<"edit", 6>>
        /\ task[t].kind # "clear" /\ Place(t) \notin Last
        /\ task[t].kind = "start" => task[t].n = 2
    BY <1>1, <1>5, PlacesAhead, SpecialPlaces DEF GoesOn
  <2>2. task[t].kind \notin {"start", "stream"}
    <3>1. Step(t) \in DOMAIN Places /\ Place(t) \in Places[Step(t)]
      BY <1>1, StepPlace DEF StoreInv
    <3>2. Place(t) \in Places.serve
      BY <1>1, <3>1
    <3> QED
      BY <2>1, <3>2 DEF Places, Place, Last
  <2>3. <<"edit", 6>> \in HeldRight
    BY DEF HeldRight
  <2>4. ASSUME AloneAt(t)
        PROVE  /\ NextPlace(t) \in CellRight => cell' \in {NoCatalog, Content'}
               /\ NextPlace(t) \in HeldRight => task'[t].held = Content'
               /\ NextPlace(t) = <<"edit", 7>> => served' = Content' /\ FileShows'
    BY <1>1, <1>5, <2>1, <2>3, <2>4 DEF AloneAt, CellShows, FileShows
  <2>5. PlaceInv' /\ AloneInv' /\ RestInv'
    BY <1>1, <1>2, <1>5, <2>1, <2>2, <2>4, AloneGoesOn
  <2> QED
    BY <1>1, <1>2, <1>3, <1>4, <1>5, <2>5, PublisherGoesOn DEF StoreInv
<1>6. CASE Ends(t)
  <2>1. /\ Place(t) \notin {<<"index", 6>>, <<"index", 7>>, <<"index", 8>>, <<"index", 9>>}
        /\ \/ task[t].kind = "start" /\ task[t].n = 2
           \/ task[t].kind = "stream" /\ task[t].n > 1
           \/ /\ task[t].kind \notin {"start", "stream"}
              /\ Place(t) \in CellRight /\ Place(t) \in HeldRight
    BY <1>1, <1>6, LastPlaces DEF Ends
  <2>2. ASSUME AloneAt(t), task[t].kind \in {"start", "stream"} => ~disturbed
        PROVE  AtRest'
    <3>1. task[t].held = Content
      BY <2>1, <2>2 DEF AloneAt
    <3>2. cell \in {NoCatalog, Content}
      BY <2>1, <2>2 DEF AloneAt, CellShows
    <3>3. served' = Content' /\ cell' \in {NoCatalog, Content'} /\ FileShows'
      BY <1>1, <3>1, <3>2 DEF FileShows
    <3> QED
      BY <3>3 DEF AtRest
  <2>3. PlaceInv' /\ AloneInv' /\ RestInv'
    BY <1>1, <1>2, <1>6, <2>2, AloneEnds
  <2>4. PublisherInv'
    <3>1. t \in Active /\ task'[t] = NoTask
      BY <1>1, <1>6, StepPlace DEF StoreInv, Ends
    <3>2. ~task[t].alone => disturbed'
      BY <1>6 DEF Ends
    <3> QED
      BY <1>1, <1>2, <2>1, <3>1, <3>2, PublisherKept
  <2> QED
    BY <1>3, <1>4, <2>3, <2>4 DEF StoreInv
<1> QED
  BY <1>2, <1>5, <1>6

(* Without a folder nothing is served, and nothing else has a catalog.     *)
LEMMA UnserveKeeps ==
    ASSUME StoreInv, NEW t \in Tasks, Unserve(t)
    PROVE  StoreInv'
<1>1. /\ Step(t) = "unserve" /\ Keeping(t) /\ Content' = Content
      /\ served' = NoCatalog /\ unsaved' = TRUE
      /\ UNCHANGED <<db, cell, saved, asked, writing, publisher, begun, starts>>
  BY DEF Unserve, Others, Content, file
<1>2. /\ task' \in [Tasks -> TaskTypes] /\ disturbed' \in BOOLEAN /\ OthersStay(t)
      /\ (GoesOn(t) /\ task'[t].held = task[t].held) \/ Ends(t)
  BY <1>1, KeepingStep DEF StoreInv
<1>3. Types'
  BY <1>1, <1>2 DEF StoreInv, Types, PublisherTypes
<1>4. Place(t) \in Last
  <2>1. Step(t) \in DOMAIN Places /\ Place(t) \in Places[Step(t)]
    BY <1>1, StepPlace DEF StoreInv
  <2>2. Place(t) \in Places.unserve
    BY <1>1, <2>1
  <2> QED
    BY <2>2 DEF Places, Last
<1>5. Ends(t)
  BY <1>2, <1>4 DEF GoesOn
<1>6. /\ Place(t) \notin {<<"index", 6>>, <<"index", 7>>, <<"index", 8>>, <<"index", 9>>}
      /\ Place(t) \in CellRight /\ task[t].kind = "clear" /\ task[t].n > 1
  BY <1>1, <1>4, LastPlaces
<1>7. AloneAt(t) => AtRest'
  BY <1>1, <1>6 DEF AloneAt, CellShows, AtRest, FileShows, Wanted
<1>8. PlaceInv' /\ AloneInv' /\ RestInv'
  BY <1>1, <1>2, <1>5, <1>7, AloneEnds
<1>9. PublisherInv'
  <2>1. t \in Active /\ task'[t] = NoTask
    BY <1>1, <1>5, StepPlace DEF StoreInv, Ends
  <2>2. ~task[t].alone => disturbed'
    BY <1>5 DEF Ends
  <2> QED
    BY <1>1, <1>2, <1>6, <2>1, <2>2, PublisherKept
<1>10. LoadInv'
  BY <1>1, <1>2, BesideKept
<1> QED
  BY <1>3, <1>8, <1>9, <1>10 DEF StoreInv

(* The publisher is begun and drained by the indexing it belongs to.       *)
LEMMA SpawnJoinKeeps ==
    ASSUME StoreInv, NEW t \in Tasks, SpawnPublisher(t) \/ Join(t)
    PROVE  StoreInv'
<1>1. /\ Step(t) \in {"spawn", "join"} /\ Keeping(t) /\ Content' = Content
      /\ UNCHANGED <<db, cell, served, saved, asked, writing, unsaved, begun, starts>>
  BY DEF SpawnPublisher, Join, places, Content, file
<1>2. /\ task' \in [Tasks -> TaskTypes] /\ disturbed' \in BOOLEAN
      /\ OthersStay(t) /\ GoesOn(t) /\ task'[t].held = task[t].held
  BY <1>1, KeepingGoesOn
<1>3. PICK next \in PublisherTypes :
        /\ publisher' = [publisher EXCEPT ![t] = next]
        /\ ~next.loaded /\ ~next.aborted /\ (next.at # "rest" => Step(t) = "spawn")
  <2>1. Rest \in PublisherTypes /\ ~Rest.loaded /\ ~Rest.aborted /\ Rest.at = "rest"
    BY RestTypes
  <2>2. CASE Join(t)
    BY <2>1, <2>2 DEF Join, Becomes
  <2>3. CASE SpawnPublisher(t)
    <3>1. PICK next : next = [Rest EXCEPT !.at = "wait"]
      OBVIOUS
    <3>2. next \in PublisherTypes /\ ~next.loaded /\ ~next.aborted
      BY <2>1, <3>1 DEF PublisherTypes
    <3> QED
      BY <2>3, <3>1, <3>2 DEF SpawnPublisher
  <2> QED
    BY <2>2, <2>3
<1>8. /\ publisher' \in [Tasks -> PublisherTypes] /\ publisher'[t] = next
      /\ \A u \in Tasks : u # t => publisher'[u] = publisher[u]
  BY <1>3 DEF StoreInv, Types
<1>4. Types'
  BY <1>1, <1>2, <1>8 DEF StoreInv, Types
<1>5. PlaceInv' /\ AloneInv' /\ RestInv'
  <2>1. /\ NextPlace(t) \notin CellRight \cup HeldRight /\ task[t].kind \notin {"stream", "start", "clear"}
        /\ NextPlace(t) # <<"edit", 7>>
    BY <1>1, PlacesAhead, SpecialPlaces
  <2> QED
    BY <1>1, <1>2, <2>1, AloneGoesOn
<1>6. PublisherInv'
  <2>1. ASSUME Step(t) = "spawn"
        PROVE  t \in Active' /\ task'[t].kind = "index" /\ task'[t].n \in Spawned .. Joined
    <3>1. t \in Active /\ Step(t) \in DOMAIN Places /\ Place(t) \in Places[Step(t)]
      BY <1>1, StepPlace DEF StoreInv
    <3>2. Place(t) \in Places.spawn
      BY <2>1, <3>1
    <3>3. task[t].kind = "index" /\ task[t].n = 5
      BY <3>2 DEF Places, Place
    <3> QED
      BY <1>2, <3>3 DEF GoesOn, Active, Spawned, Joined
  <2>2. t \in Active /\ Active' = Active
    BY <1>1, <1>2, StepPlace, ActiveAfter, NoTaskTypes DEF StoreInv, GoesOn
  <2>3. ASSUME NEW u \in Tasks
        PROVE  PublisherAt(u)'
    <3>1. CASE u = t
      BY <1>3, <1>8, <2>1, <3>1 DEF PublisherAt, AtWork
    <3>2. CASE u # t
      <4>1. PublisherAt(u) /\ task'[u] = task[u] /\ publisher'[u] = publisher[u]
        BY <1>2, <1>8, <3>2 DEF StoreInv, PublisherInv, OthersStay
      <4>2. \A v \in Active : task'[v].alone = task[v].alone /\ task'[v].kind = task[v].kind
        BY <1>2 DEF GoesOn, OthersStay, Active
      <4>3. disturbed' = disturbed
        BY <1>2 DEF GoesOn
      <4> QED
        BY <2>2, <4>1, <4>2, <4>3 DEF PublisherAt, AtWork
    <3> QED
      BY <3>1, <3>2
  <2> QED
    BY <2>3 DEF PublisherInv
<1>7. LoadInv'
  BY <1>1, <1>2, BesideKept
<1> QED
  BY <1>4, <1>5, <1>6, <1>7 DEF StoreInv

(* Reading the cell, or putting into it what was loaded: in both cases the *)
(* task goes on with what the cell has.                                    *)
LEMMA ReadKeeps ==
    ASSUME StoreInv, NEW t \in Tasks, Step(t) \in {"fetch", "seed"},
           NEW c \in Catalogs \cup {NoCatalog}, Done(t, c), cell' = c,
           (task[t].loaded /\ c = task[t].held) \/ (cell # NoCatalog /\ c = cell),
           UNCHANGED <<db, served, saved, asked, writing, unsaved, publisher, begun, starts>>
    PROVE  StoreInv'
<1>1. Content' = Content
  BY DEF Content
<1>2. /\ task' \in [Tasks -> TaskTypes] /\ disturbed' \in BOOLEAN /\ OthersStay(t)
      /\ (GoesOn(t) /\ task'[t].held = c) \/ Ends(t)
  BY DoneStep DEF StoreInv
<1>3. Types'
  BY <1>2 DEF StoreInv, Types, PublisherTypes
<1>4. t \in Active
  BY DEF Step, Active
<1>5. LoadInv'
  <2>1. ASSUME NEW u \in Active, Place(u) = <<"load", 1>>
        PROVE  Content # NoCatalog
    <3>1. SUFFICES ASSUME Content = NoCatalog
                   PROVE  FALSE
      OBVIOUS
    <3>2. cell = NoCatalog /\ ~task[t].loaded
      BY <1>4, <2>1, <3>1 DEF StoreInv, LoadInv
    <3> QED
      BY <3>2
  <2> QED
    BY <1>1, <1>2, <2>1, LoadKept, GoesOnFacts, EndsFacts DEF Ends
<1>9. c # NoCatalog
  BY <1>4 DEF StoreInv, PlaceInv
<1>6. AloneAt(t) /\ Place(t) \in CellRight => c = Content
  BY DEF AloneAt, CellShows
<1>7. CASE GoesOn(t) /\ task'[t].held = c
  <2>1. /\ NextPlace(t) \in CellRight \cup HeldRight => Place(t) \in CellRight
        /\ NextPlace(t) # <<"edit", 7>> /\ task[t].kind \notin {"start", "clear"}
    BY PlacesAhead, SpecialPlaces
  <2>2. ASSUME AloneAt(t)
        PROVE  /\ NextPlace(t) \in CellRight => cell' \in {NoCatalog, Content'}
               /\ NextPlace(t) \in HeldRight => task'[t].held = Content'
               /\ task[t].kind = "stream" /\ ~disturbed => AtRest' /\ task'[t].held = Content'
    <3>1. task[t].kind = "stream" /\ ~disturbed => AtRest /\ CellShows(t)
      BY <2>2 DEF AloneAt
    <3>2. task[t].kind = "stream" /\ ~disturbed => AtRest' /\ task'[t].held = Content'
      BY <1>1, <1>7, <3>1 DEF AtRest, CellShows, FileShows, Wanted
    <3> QED
      BY <1>1, <1>6, <1>7, <2>1, <2>2, <3>2
  <2>3. PlaceInv' /\ AloneInv' /\ RestInv'
    BY <1>2, <1>7, <1>9, <2>1, <2>2, AloneGoesOn
  <2> QED
    BY <1>2, <1>3, <1>5, <1>7, <2>3, PublisherGoesOn DEF StoreInv
<1>8. CASE Ends(t)
  <2>1. /\ Place(t) \notin {<<"index", 6>>, <<"index", 7>>, <<"index", 8>>, <<"index", 9>>}
        /\ Place(t) = <<"edit", 7>>
    BY <1>8, LastPlaces, NotLast DEF Ends
  <2>2. <<"edit", 7>> \in CellRight
    BY DEF CellRight
  <2>3. AloneAt(t) => AtRest'
    BY <1>1, <1>6, <2>1, <2>2 DEF AloneAt, AtRest, FileShows, Wanted
  <2>4. PlaceInv' /\ AloneInv' /\ RestInv'
    BY <1>2, <1>8, <2>3, AloneEnds
  <2>5. PublisherInv'
    BY <1>2, <1>4, <1>8, <2>1, PublisherKept DEF Ends
  <2> QED
    BY <1>3, <1>5, <2>4, <2>5 DEF StoreInv
<1> QED
  BY <1>2, <1>7, <1>8

(* Putting what was loaded into the cell is a read of it.                  *)
LEMMA PutLoadedKeeps ==
    ASSUME StoreInv, NEW t \in Tasks, PutLoaded(t)
    PROVE  StoreInv'
<1>1. PICK c \in Catalogs \cup {NoCatalog} : c = task[t].held
  BY DEF StoreInv, Types, TaskTypes
<1>2. /\ Step(t) \in {"fetch", "seed"} /\ task[t].loaded /\ cell' = c /\ Done(t, c)
      /\ UNCHANGED <<db, served, saved, asked, writing, unsaved, publisher, begun, starts>>
  BY <1>1 DEF PutLoaded, Keeping, Others, file
<1> QED
  BY <1>1, <1>2, ReadKeeps

(* Where nothing is in the cell and the database has something, it is      *)
(* loaded, and put there by a later step.                                  *)
LEMMA LoadingKeeps ==
    ASSUME StoreInv, NEW t \in Tasks, Step(t) \in {"fetch", "seed"}, Content # NoCatalog,
           task' = [task EXCEPT ![t].loaded = TRUE, ![t].held = Content], UNCHANGED disturbed,
           UNCHANGED <<db, cell, served, saved, asked, writing, unsaved, publisher, begun, starts>>
    PROVE  StoreInv'
<1>1. Content' = Content
  BY DEF Content
<1>2. t \in Active
  BY DEF Step, Active
<1>3. PICK c \in Catalogs \cup {NoCatalog} : c = Content
  BY ContentFacts DEF StoreInv
<1>4. task' = [task EXCEPT ![t].loaded = TRUE, ![t].held = c]
  BY <1>3
<1>5. /\ task' \in [Tasks -> TaskTypes] /\ OthersStay(t)
      /\ task'[t].kind = task[t].kind /\ task'[t].n = task[t].n /\ task'[t].alone = task[t].alone
      /\ task'[t].loaded /\ task'[t].held = Content
  <2>1. task \in [Tasks -> TaskTypes]
    BY DEF StoreInv, Types
  <2>2. task' \in [Tasks -> TaskTypes]
    <3>1. task[t] \in TaskTypes
      BY <2>1
    <3>2. /\ task'[t] = [task[t] EXCEPT !.loaded = TRUE, !.held = c]
          /\ \A u \in Tasks : u # t => task'[u] = task[u]
          /\ task' = [u \in Tasks |-> task'[u]]
      BY <1>4, <2>1
    <3>3. task'[t] \in TaskTypes
      BY <1>3, <3>1, <3>2 DEF TaskTypes
    <3> QED
      BY <2>1, <3>2, <3>3
  <2>3. task'[t].loaded /\ task'[t].held = c
    BY <1>4, <2>1 DEF TaskTypes
  <2>4. task'[t].kind = task[t].kind /\ task'[t].n = task[t].n /\ task'[t].alone = task[t].alone
    BY <1>4, <2>1 DEF TaskTypes
  <2>5. OthersStay(t)
    BY <1>4, <2>1 DEF OthersStay
  <2> QED
    BY <1>3, <2>2, <2>3, <2>4, <2>5
<1>6. /\ \A u \in Tasks : task'[u].kind = task[u].kind /\ task'[u].n = task[u].n
      /\ \A u \in Tasks : Place(u)' = Place(u)
      /\ Active' = Active
  BY <1>5 DEF OthersStay, Place, Active
<1>7. Types'
  BY <1>5 DEF StoreInv, Types, PublisherTypes
<1>8. AloneAt(t) => AloneAt(t)'
  <2>1. (FileShows <=> FileShows') /\ (AtRest <=> AtRest') /\ (Settled <=> Settled')
    BY <1>1 DEF AtRest, FileShows, Wanted, Settled
  <2>2. CellShows(t) => CellShows(t)'
    BY <1>1, <1>5 DEF CellShows
  <2>3. Place(t)' = Place(t) /\ t \in Tasks
    BY <1>2, <1>6 DEF Active
  <2> QED
    BY <1>1, <1>5, <1>6, <2>1, <2>2, <2>3 DEF AloneAt
<1>9. PlaceInv' /\ AloneInv' /\ RestInv'
  <2>1. task[t].n <= Len(Program[task[t].kind])
    BY <1>2 DEF StoreInv, PlaceInv
  <2>2. task[t].alone /\ Active = {t} => AloneAt(t)'
    BY <1>2, <1>8 DEF StoreInv, AloneInv
  <2> QED
    BY <1>2, <1>5, <2>1, <2>2, ContinuingInv
<1>10. PublisherInv'
  BY <1>2, <1>5, PublisherBeside
<1>11. LoadInv'
  BY <1>1, <1>6, LoadKept
<1> QED
  BY <1>7, <1>9, <1>10, <1>11 DEF StoreInv

(* An indexing without a catalog goes on without a seed.                   *)
LEMMA SeedNothingKeeps ==
    ASSUME StoreInv, NEW t \in Tasks, Step(t) = "seed", Done(t, NoCatalog),
           UNCHANGED <<db, cell, served, saved, asked, writing, unsaved, publisher, begun, starts>>
    PROVE  StoreInv'
<1>1. Content' = Content
  BY DEF Content
<1>2. /\ task' \in [Tasks -> TaskTypes] /\ disturbed' \in BOOLEAN /\ OthersStay(t) /\ GoesOn(t)
  BY DoneStep, NotLast DEF StoreInv, Ends
<1>3. Types'
  BY <1>2 DEF StoreInv, Types, PublisherTypes
<1>4. Place(t) = <<"index", 1>>
  <2>1. Step(t) \in DOMAIN Places /\ Place(t) \in Places[Step(t)]
    BY StepPlace DEF StoreInv
  <2>2. Place(t) \in Places.seed
    BY <2>1
  <2> QED
    BY <2>2 DEF Places
<1>5. PlaceInv' /\ AloneInv' /\ RestInv'
  <2>1. /\ NextPlace(t) \in CellRight \cup HeldRight => Place(t) \in CellRight
        /\ NextPlace(t) # <<"edit", 7>> /\ task[t].kind \notin {"start", "clear", "stream"}
    BY PlacesAhead, SpecialPlaces
  <2>2. <<"index", 1>> \notin CellRight
    BY DEF CellRight
  <2> QED
    BY <1>2, <1>4, <2>1, <2>2, AloneGoesOn
<1>6. PublisherInv'
  BY <1>2, PublisherGoesOn
<1>7. LoadInv'
  BY <1>1, <1>2, BesideKept
<1> QED
  BY <1>3, <1>5, <1>6, <1>7 DEF StoreInv

(* Whoever finds nothing, and nothing to load, is done.                    *)
LEMMA FoundNothingKeeps ==
    ASSUME StoreInv, NEW t \in Tasks, Step(t) = "fetch", cell = NoCatalog, Content = NoCatalog,
           task' = [task EXCEPT ![t] = NoTask], disturbed' = (task[t].kind # "load"),
           UNCHANGED <<db, cell, served, saved, asked, writing, unsaved, publisher, begun, starts>>
    PROVE  StoreInv'
<1>1. Content' = Content
  BY DEF Content
<1>2. t \in Active /\ task' \in [Tasks -> TaskTypes] /\ OthersStay(t) /\ task'[t] = NoTask
  BY NoTaskTypes DEF Step, Active, StoreInv, Types, OthersStay
<1>3. Types'
  BY <1>2 DEF StoreInv, Types, PublisherTypes
<1>4. Step(t) \in DOMAIN Places /\ Place(t) \in Places[Step(t)]
  BY StepPlace DEF StoreInv
<1>5. Place(t) \in Places.fetch
  BY <1>4
<1>6. /\ Place(t) \notin {<<"index", 6>>, <<"index", 7>>, <<"index", 8>>, <<"index", 9>>}
      /\ task[t].kind = "load" => Place(t) = <<"load", 1>>
  BY <1>5 DEF Places, Place
<1>7. task[t].kind = "load" => AtRest'
  BY <1>1, <1>2, <1>6 DEF StoreInv, LoadInv, AtRest, FileShows, Wanted, Settled
<1>8. PlaceInv' /\ AloneInv' /\ RestInv'
  BY <1>2, <1>7, EndingInv
<1>9. PublisherInv'
  BY <1>2, <1>6, PublisherKept
<1>10. LoadInv'
  <2>1. \A u \in Tasks : Place(u)' = <<"load", 1>> => Place(u) = <<"load", 1>> /\ u # t
    BY <1>2, NoTaskTypes DEF OthersStay, Place
  <2>2. Active' = Active \ {t}
    BY <1>2, ActiveAfter, NoTaskTypes
  <2>3. \A u \in Active' : u # t /\ u \in Active /\ task'[u] = task[u] /\ Place(u)' = Place(u)
    BY <1>2, <2>2 DEF OthersStay, Place, Active
  <2> QED
    BY <1>1, <2>3 DEF StoreInv, LoadInv, Settled
<1> QED
  BY <1>3, <1>8, <1>9, <1>10 DEF StoreInv

(* Looking at the cell: it has a catalog, or one is loaded, or there is    *)
(* none.                                                                   *)
LEMMA FindKeeps ==
    ASSUME StoreInv, NEW t \in Tasks, Find(t)
    PROVE  StoreInv'
<1>1. Step(t) \in {"fetch", "seed"}
      /\ UNCHANGED <<db, cell, served, saved, asked, writing, unsaved, publisher, begun, starts>>
  BY DEF Find, places, file, Others
<1>2. CASE cell # NoCatalog /\ Done(t, cell)
  <2>1. PICK c \in Catalogs \cup {NoCatalog} : c = cell
    BY DEF StoreInv, Types
  <2>2. Done(t, c) /\ cell' = c /\ c # NoCatalog
    BY <1>1, <1>2, <2>1
  <2> QED
    BY <1>1, <2>1, <2>2, ReadKeeps
<1>3. CASE /\ Content # NoCatalog
           /\ task' = [task EXCEPT ![t].loaded = TRUE, ![t].held = Content]
           /\ UNCHANGED disturbed
  BY <1>1, <1>3, LoadingKeeps
<1>4. CASE Step(t) = "seed" /\ Done(t, NoCatalog)
  BY <1>1, <1>4, SeedNothingKeeps
<1>5. CASE /\ cell = NoCatalog /\ Content = NoCatalog /\ Step(t) # "seed"
           /\ task' = [task EXCEPT ![t] = NoTask] /\ disturbed' = (task[t].kind # "load")
  BY <1>1, <1>5, FoundNothingKeeps
<1> QED
  BY <1>2, <1>3, <1>4, <1>5 DEF Find

(* A task that gives up before its first step has changed nothing.         *)
LEMMA GiveUpKeeps ==
    ASSUME StoreInv, NEW t \in Tasks, GiveUp(t)
    PROVE  StoreInv'
<1>1. /\ t \in Active /\ task[t].kind # "start" /\ Content' = Content
      /\ task' = [task EXCEPT ![t] = NoTask]
      /\ publisher' = [publisher EXCEPT ![t].aborted = AtWork(t)]
      /\ disturbed' = (disturbed \/ task[t].n > 1 \/ task[t].kind = "load" \/ ~task[t].alone)
      /\ UNCHANGED <<db, cell, served, saved, asked, writing, begun, starts, unsaved>>
  BY DEF GiveUp, places, Content, file
<1>8. PICK b \in BOOLEAN : b = AtWork(t)
  BY DEF AtWork
<1>9. /\ publisher' \in [Tasks -> PublisherTypes]
      /\ \A u \in Tasks : u # t => publisher'[u] = publisher[u]
      /\ publisher'[t].aborted = AtWork(t)
      /\ publisher'[t].at = publisher[t].at /\ publisher'[t].loaded = publisher[t].loaded
  <2>1. publisher' = [publisher EXCEPT ![t].aborted = b]
    BY <1>1, <1>8
  <2>2. publisher \in [Tasks -> PublisherTypes]
    BY DEF StoreInv, Types
  <2>3. publisher[t] \in PublisherTypes
    BY <2>2
  <2>4. PICK p : p = [publisher[t] EXCEPT !.aborted = b]
    OBVIOUS
  <2>5. p \in PublisherTypes /\ p.aborted = b /\ p.at = publisher[t].at /\ p.loaded = publisher[t].loaded
    BY <2>3, <2>4 DEF PublisherTypes
  <2>6. publisher' = [publisher EXCEPT ![t] = p]
    BY <2>1, <2>4
  <2> QED
    BY <1>8, <2>2, <2>5, <2>6
<1>2. task' \in [Tasks -> TaskTypes] /\ OthersStay(t) /\ task'[t] = NoTask
  BY <1>1, NoTaskTypes DEF StoreInv, Types, OthersStay
<1>3. Types'
  <2>1. disturbed' \in BOOLEAN
    BY <1>1 DEF StoreInv, Types, TaskTypes
  <2> QED
    BY <1>1, <1>2, <1>9, <2>1 DEF StoreInv, Types
<1>4. ASSUME Active = {t}, ~disturbed'
      PROVE  AtRest'
  <2>1. task[t].n = 1 /\ ~disturbed /\ task[t].kind \notin {"start", "load"} /\ task[t].alone
    <3>1. ~(disturbed \/ task[t].n > 1 \/ task[t].kind = "load" \/ ~task[t].alone)
      BY <1>1, <1>4
    <3>2. task[t] \in TaskTypes
      BY <1>1 DEF StoreInv, Types, Active
    <3>3. task[t].n \in 1 .. 18
      BY <3>2 DEF TaskTypes
    <3> QED
      BY <1>1, <3>1, <3>3
  <2>2. AtRest
    BY <1>1, <2>1 DEF StoreInv, AloneInv, AloneAt
  <2> QED
    BY <1>1, <2>2 DEF AtRest, FileShows, Wanted
<1>5. PlaceInv' /\ AloneInv' /\ RestInv'
  BY <1>1, <1>2, <1>4, EndingInv
<1>10. Active' = Active \ {t} /\ t \in Tasks
  BY <1>1, <1>2, ActiveAfter, NoTaskTypes DEF Active
<1>6. PublisherInv'
  <2> SUFFICES ASSUME NEW u \in Tasks
               PROVE  PublisherAt(u)'
    BY DEF PublisherInv
  <2>1. PublisherAt(u) /\ PublisherAt(t)
    BY <1>10 DEF StoreInv, PublisherInv
  <2>2. \A v \in Active' : v \in Active /\ v # t /\ v \in Tasks /\ task'[v] = task[v]
    BY <1>2, <1>10 DEF OthersStay, Active
  <2>3. CASE u = t
    <3>1. ASSUME AtWork(t)
          PROVE  disturbed' /\ \A v \in Active' : ~task'[v].alone /\ task'[v].kind # "load"
      <4>1. task[t].kind = "index" /\ task[t].n \in 6 .. 9
        BY <1>1, <2>1, <3>1 DEF PublisherAt, Spawned, Joined
      <4>4. task[t].n > 1
        BY <4>1
      <4>2. disturbed'
        BY <1>1, <4>4
      <4>3. ASSUME NEW v \in Active'
            PROVE  ~task[v].alone /\ task[v].kind # "load"
        <5>1. ~task[v].alone
          BY <1>1, <2>2, <4>3 DEF StoreInv, AloneInv, AloneAt
        <5>2. task[v].kind \notin Leased
          BY <1>1, <2>2, <4>1, <4>3, KindsAre DEF StoreInv, PlaceInv, Leased
        <5> QED
          BY <5>1, <5>2, KindsAre DEF Leased
      <4> QED
        BY <2>2, <4>2, <4>3
    <3> QED
      BY <1>9, <1>10, <2>1, <2>3, <3>1 DEF PublisherAt, AtWork
  <2>4. CASE u # t
    <3>1. publisher'[u] = publisher[u] /\ task'[u] = task[u] /\ (u \in Active' <=> u \in Active)
      BY <1>2, <1>9, <1>10, <2>4 DEF OthersStay
    <3>2. disturbed => disturbed'
      BY <1>1
    <3> QED
      BY <2>1, <2>2, <3>1, <3>2 DEF PublisherAt, AtWork
  <2> QED
    BY <2>3, <2>4
<1>7. LoadInv'
  <2>1. Active' = Active \ {t}
    BY <1>1, <1>2, ActiveAfter, NoTaskTypes
  <2>2. \A u \in Active' : u # t /\ u \in Active /\ task'[u] = task[u] /\ Place(u)' = Place(u)
    BY <1>2, <2>1 DEF OthersStay, Place, Active
  <2> QED
    BY <1>1, <2>2 DEF StoreInv, LoadInv, Settled
<1> QED
  BY <1>3, <1>5, <1>6, <1>7 DEF StoreInv

(* A publisher is at work only where its indexing neither knows nor has to *)
(* know what the cell has, and while no other scan has the lease; or it    *)
(* has been told to stop, and nobody knows anything.                       *)
LEMMA PublisherKeeps ==
    ASSUME StoreInv, NEW u \in Tasks, AtWork(u), NEW next \in PublisherTypes, Becomes(u, next),
           next.aborted => publisher[u].aborted /\ next.at # "rest",
           ~next.aborted /\ next.at # "rest" => ~publisher[u].aborted,
           next.loaded => next.at \in {"seed", "fetch"},
           cell' \in Catalogs \cup {NoCatalog}, served' \in Catalogs \cup {NoCatalog},
           UNCHANGED <<db, saved, asked, writing, task, begun, starts, disturbed, unsaved>>
    PROVE  StoreInv'
<1>1. PublisherAt(u)
  BY DEF StoreInv, PublisherInv
<1>2. /\ publisher' \in [Tasks -> PublisherTypes] /\ publisher'[u] = next
      /\ \A t \in Tasks : t # u => publisher'[t] = publisher[t]
  BY DEF Becomes, StoreInv, Types
<1>3. Types'
  BY <1>2 DEF StoreInv, Types
<1>4. PlaceInv' /\ Active' = Active
  BY DEF StoreInv, PlaceInv, Active, Place
<1>5. PublisherInv'
  <2>1. ASSUME NEW t \in Tasks
        PROVE  PublisherAt(t)'
    <3>1. PublisherAt(t)
      BY DEF StoreInv, PublisherInv
    <3>2. CASE t = u
      BY <1>2, <1>4, <3>1, <3>2 DEF PublisherAt, AtWork
    <3>3. CASE t # u
      BY <1>2, <1>4, <3>1, <3>3 DEF PublisherAt, AtWork
    <3> QED
      BY <3>2, <3>3
  <2> QED
    BY <2>1 DEF PublisherInv
<1>6. RestInv'
  BY <1>1, <1>4 DEF RestInv, PublisherAt
<1>7. ASSUME NEW t \in Active, task[t].alone
      PROVE  AloneAt(t)'
  <2>1. Active = {t}
    BY <1>7 DEF StoreInv, AloneInv, AloneAt
  <2>2. u = t /\ task[t].kind = "index" /\ task[t].n \in 6 .. 9
    BY <1>1, <1>7, <2>1 DEF PublisherAt, Spawned, Joined
  <2>3. PICK n \in 6 .. 9 : n = task[t].n
    BY <2>2
  <2>4. Place(t) = <<"index", n>>
    BY <2>2, <2>3 DEF Place
  <2>5. <<"index", n>> \notin CellRight /\ <<"index", n>> \notin HeldRight /\ <<"index", n>> # <<"edit", 7>>
    BY DEF CellRight, HeldRight
  <2>6. Place(t)' = Place(t) /\ task'[t] = task[t] /\ task[t].n # 1
    BY <2>3 DEF Place
  <2> QED
    BY <1>4, <2>1, <2>2, <2>4, <2>5, <2>6 DEF AloneAt
<1>8. AloneInv'
  BY <1>4, <1>7 DEF AloneInv
<1>9. LoadInv'
  <2>1. \A t \in Active : Place(t) # <<"load", 1>>
    BY <1>1, KindsAre DEF StoreInv, PlaceInv, PublisherAt, Place, Leased
  <2> QED
    BY <1>4, <2>1 DEF LoadInv, Place
<1> QED
  BY <1>3, <1>4, <1>5, <1>6, <1>8, <1>9 DEF StoreInv

(* The publishers' steps are in reach of PublisherKeeps.                   *)
LEMMA PublisherStepKeeps ==
    ASSUME StoreInv, NEW u \in Tasks, PublisherStep(u)
    PROVE  StoreInv'
<1>1. /\ publisher[u] \in PublisherTypes /\ PublisherAt(u)
      /\ publisher[u].held \in Catalogs \cup {NoCatalog}
      /\ cell \in Catalogs \cup {NoCatalog} /\ served \in Catalogs \cup {NoCatalog}
      /\ Content \in Catalogs \cup {NoCatalog}
  BY ContentFacts DEF StoreInv, Types, PublisherInv, PublisherTypes
<1>2. CASE Receive(u)
  <2>1. PICK next : next = [publisher[u] EXCEPT !.at = "seed", !.sent = publisher[u].sent + 1]
    OBVIOUS
  <2>2. /\ publisher[u].at = "wait" /\ publisher[u].sent < MaxBatches /\ Becomes(u, next)
        /\ UNCHANGED <<db, cell, served, saved, asked, writing, task, begun, starts, disturbed, unsaved>>
    BY <1>2, <2>1 DEF Receive, Publisher, places, file, history
  <2>3. publisher[u].sent + 1 \in 0 .. MaxBatches
    BY <1>1, <2>2, StoreConstants DEF PublisherTypes
  <2>4. /\ next \in PublisherTypes /\ next.at = "seed" /\ next.aborted = publisher[u].aborted
        /\ next.loaded = publisher[u].loaded
    BY <1>1, <2>1, <2>3 DEF PublisherTypes
  <2> QED
    BY <1>1, <2>2, <2>4, PublisherKeeps DEF AtWork
<1>3. CASE PublisherFind(u)
  <2>1. /\ publisher[u].at \in {"seed", "fetch"} /\ ~publisher[u].loaded
        /\ UNCHANGED <<db, cell, served, saved, asked, writing, task, begun, starts, disturbed, unsaved>>
    BY <1>3 DEF PublisherFind, Publisher, places, file, history
  <2>2. PICK c \in Catalogs \cup {NoCatalog} : c = Content
    BY <1>1
  <2>3. PICK where \in {"store", "serve"} : where = IF publisher[u].at = "seed" THEN "store" ELSE "serve"
    OBVIOUS
  <2>4. PICK next :
           /\ Becomes(u, next)
           /\ \/ next = [publisher[u] EXCEPT !.at = where, !.held = cell]
              \/ next = [publisher[u] EXCEPT !.loaded = TRUE, !.held = c]
              \/ next = [publisher[u] EXCEPT !.at = where, !.held = NoCatalog]
              \/ next = [publisher[u] EXCEPT !.at = "wait", !.held = NoCatalog]
    BY <1>3, <2>2, <2>3 DEF PublisherFind
  <2>5. /\ next \in PublisherTypes /\ (next.loaded => next.at \in {"seed", "fetch"})
        /\ next.aborted = publisher[u].aborted /\ next.at # "rest"
    BY <1>1, <2>1, <2>4 DEF PublisherTypes
  <2> QED
    BY <1>1, <2>1, <2>4, <2>5, PublisherKeeps DEF AtWork
<1>4. CASE PublisherPut(u)
  <2>1. PICK where \in {"store", "serve"} : where = IF publisher[u].at = "seed" THEN "store" ELSE "serve"
    OBVIOUS
  <2>2. PICK next : next = [publisher[u] EXCEPT !.at = where, !.loaded = FALSE]
    OBVIOUS
  <2>3. /\ publisher[u].loaded /\ cell' = publisher[u].held /\ Becomes(u, next)
        /\ UNCHANGED <<db, served, saved, asked, writing, task, begun, starts, disturbed, unsaved>>
    BY <1>4, <2>1, <2>2 DEF PublisherPut, Publisher, file, history
  <2>4. next \in PublisherTypes /\ ~next.loaded /\ next.aborted = publisher[u].aborted /\ next.at # "rest"
    BY <1>1, <2>2 DEF PublisherTypes
  <2>5. AtWork(u)
    BY <1>1, <2>3 DEF PublisherAt, AtWork
  <2> QED
    BY <1>1, <2>3, <2>4, <2>5, PublisherKeeps
<1>5. CASE PublisherStore(u)
  <2>1. PICK c \in Catalogs : c = Mixed(publisher[u].held)
    BY <1>1, MixedIsCatalog
  <2>2. PICK next :
           /\ Becomes(u, next)
           /\ \/ next = [publisher[u] EXCEPT !.at = "fetch"]
              \/ next = [publisher[u] EXCEPT !.at = "wait", !.held = NoCatalog]
    BY <1>5 DEF PublisherStore
  <2>3. /\ publisher[u].at = "store" /\ cell' \in {c, cell}
        /\ UNCHANGED <<db, served, saved, asked, writing, task, begun, starts, disturbed, unsaved>>
    BY <1>5, <2>1 DEF PublisherStore, Publisher, file, history
  <2>4. next \in PublisherTypes /\ ~next.loaded /\ next.aborted = publisher[u].aborted /\ next.at # "rest"
    BY <1>1, <2>2, <2>3 DEF PublisherTypes, PublisherAt
  <2> QED
    BY <1>1, <2>2, <2>3, <2>4, PublisherKeeps DEF AtWork
<1>6. CASE PublisherServe(u)
  <2>1. PICK next : next = [publisher[u] EXCEPT !.at = "wait", !.held = NoCatalog]
    OBVIOUS
  <2>2. /\ publisher[u].at = "serve" /\ served' = publisher[u].held /\ Becomes(u, next)
        /\ UNCHANGED <<db, cell, saved, asked, writing, task, begun, starts, disturbed, unsaved>>
    BY <1>6, <2>1 DEF PublisherServe, Publisher, file, history
  <2>3. next \in PublisherTypes /\ ~next.loaded /\ next.aborted = publisher[u].aborted /\ next.at # "rest"
    BY <1>1, <2>1, <2>2 DEF PublisherTypes, PublisherAt
  <2> QED
    BY <1>1, <2>2, <2>3, PublisherKeeps DEF AtWork
<1>7. CASE Killed(u)
  <2>1. /\ publisher[u].aborted /\ Becomes(u, Rest)
        /\ UNCHANGED <<db, cell, served, saved, asked, writing, task, begun, starts, disturbed, unsaved>>
    BY <1>7 DEF Killed, Publisher, places, file, history
  <2>2. AtWork(u)
    BY <1>1, <2>1 DEF PublisherAt
  <2> QED
    BY <1>1, <2>1, <2>2, RestTypes, PublisherKeeps
<1> QED
  BY <1>2, <1>3, <1>4, <1>5, <1>6, <1>7 DEF PublisherStep

(* The background task of a persist request writes what was wanted, or     *)
(* nothing does any more say that it is there.                             *)
LEMMA FileStepKeeps ==
    ASSUME StoreInv, FileStep
    PROVE  StoreInv'
<1>1. UNCHANGED <<db, cell, served, task, publisher, begun, starts, disturbed>> /\ ~Settled
      /\ Content' = Content /\ Active' = Active
  BY DEF FileStep, BeginWrite, EndWrite, FailWrite, Background, Settled, Content, Active
<1>2. FileShows => FileShows'
  <2>1. CASE BeginWrite
    BY <1>1, <2>1 DEF BeginWrite, FileShows, Wanted
  <2>2. CASE EndWrite
    BY <1>1, <2>2 DEF EndWrite, FileShows, Wanted
  <2>3. CASE FailWrite
    <3>1. asked # NoCatalog => Wanted' = Wanted /\ (unsaved' <=> unsaved)
      BY <2>3 DEF FailWrite, Wanted
    <3>2. asked = NoCatalog => unsaved'
      BY <2>3 DEF FailWrite
    <3> QED
      BY <1>1, <3>1, <3>2 DEF FileShows
  <2> QED
    BY <2>1, <2>2, <2>3 DEF FileStep
<1>3. Types'
  <2>1. unsaved' \in BOOLEAN
    BY DEF FileStep, BeginWrite, EndWrite, FailWrite, StoreInv, Types
  <2>2. {saved', asked', writing'} \subseteq Catalogs \cup {NoCatalog}
    BY DEF FileStep, BeginWrite, EndWrite, FailWrite, StoreInv, Types
  <2> QED
    BY <1>1, <2>1, <2>2 DEF StoreInv, Types
<1>4. PlaceInv' /\ PublisherInv' /\ \A t \in Tasks : Place(t)' = Place(t)
  BY <1>1 DEF StoreInv, PlaceInv, PublisherInv, PublisherAt, AtWork, Place
<1>5. AtRest => AtRest'
  BY <1>1, <1>2 DEF AtRest
<1>6. AloneInv'
  <2>1. ASSUME NEW t \in Active, task[t].alone
        PROVE  AloneAt(t)'
    <3>1. AloneAt(t) /\ t \in Tasks /\ Place(t)' = Place(t)
      BY <1>4, <2>1 DEF StoreInv, AloneInv, Active
    <3>2. ~(task[t].kind = "start" /\ ~disturbed)
      BY <1>1, <3>1 DEF AloneAt
    <3>3. CellShows(t) => CellShows(t)'
      BY <1>1 DEF CellShows
    <3> QED
      BY <1>1, <1>2, <1>5, <3>1, <3>2, <3>3 DEF AloneAt
  <2> QED
    BY <1>1, <2>1 DEF AloneInv
<1>7. RestInv'
  BY <1>1, <1>5 DEF StoreInv, RestInv
<1>8. LoadInv'
  <2>1. \A t \in Active : ~(Place(t) = <<"load", 1>> /\ Content = NoCatalog)
    BY <1>1 DEF StoreInv, LoadInv
  <2> QED
    BY <1>1, <1>4, <2>1 DEF LoadInv, Active
<1> QED
  BY <1>3, <1>4, <1>6, <1>7, <1>8 DEF StoreInv

(* A task that begins while others are under way does not run by itself,   *)
(* and no longer does anybody else.                                        *)
LEMMA BeginKeeps ==
    ASSUME StoreInv, NEW t \in Tasks, NEW kind \in Kinds, Begin(t, kind)
    PROVE  StoreInv'
<1>1. /\ t \notin Active /\ ~AtWork(t) /\ begun < MaxTasks /\ begun' = begun + 1 /\ Startable(kind) /\ Begun(t, kind)
      /\ Content' = Content
      /\ UNCHANGED <<db, cell, served, saved, asked, writing, publisher, starts, disturbed, unsaved>>
  BY DEF Begin, places, file, history, Content
<1>2. /\ task'[t].kind = kind /\ task'[t].n = 1 /\ ~task'[t].loaded /\ task'[t].held = NoCatalog
      /\ task'[t].alone = Nobody /\ task'[t] \in TaskTypes
  <2>1. task'[t] = [kind |-> kind, n |-> 1, loaded |-> FALSE, held |-> NoCatalog, alone |-> Nobody]
    BY <1>1 DEF Begun, NoTask
  <2>2. Nobody \in BOOLEAN
    BY DEF Nobody
  <2> QED
    BY <2>1, <2>2 DEF TaskTypes
<1>3. ASSUME NEW u \in Tasks, u # t
      PROVE  /\ task'[u].kind = task[u].kind /\ task'[u].n = task[u].n
             /\ task'[u].loaded = task[u].loaded /\ task'[u].held = task[u].held
             /\ u \in Active => ~task'[u].alone
             /\ task'[u] \in TaskTypes
  <2>1. task[u] \in TaskTypes
    BY DEF StoreInv, Types
  <2>2. task'[u] = [task[u] EXCEPT !.alone = task[u].alone /\ u \notin Active]
    BY <1>1, <1>3 DEF Begun
  <2>3. PICK b \in BOOLEAN : b = (task[u].alone /\ u \notin Active)
    BY <2>1 DEF TaskTypes
  <2>4. task'[u] = [task[u] EXCEPT !.alone = b]
    BY <2>2, <2>3
  <2> QED
    BY <2>1, <2>3, <2>4 DEF TaskTypes
<1>4. Active' = Active \cup {t} /\ Place(t)' = <<kind, 1>>
  BY <1>2, <1>3, NoTaskTypes DEF Active, Place
<1>5. Types'
  <2>1. task' \in [Tasks -> TaskTypes]
    BY <1>1, <1>2, <1>3 DEF Begun
  <2>2. begun' \in 0 .. MaxTasks
    BY <1>1, StoreConstants DEF StoreInv, Types
  <2> QED
    BY <1>1, <2>1, <2>2 DEF StoreInv, Types, PublisherTypes
<1>6. kind \notin {"start", "load"}
  BY <1>1, KindsAre DEF Startable, Leased
<1>7. kind \in Leased => \A u \in Active : task[u].kind \notin Leased
  BY <1>1, <1>6, KindsAre DEF Startable, Leased
<1>8. PlaceInv'
  <2>1. 1 <= Len(Program[kind])
    BY ProgramsAreLong
  <2>2. \A u \in Active' : task'[u].n <= Len(Program[task'[u].kind])
    <3>1. task'[t].n <= Len(Program[task'[t].kind])
      BY <1>2, <2>1
    <3>2. \A u \in Active : task'[u].n <= Len(Program[task'[u].kind])
      BY <1>1, <1>3 DEF StoreInv, PlaceInv, Active
    <3> QED
      BY <1>4, <3>1, <3>2
  <2>4. \A u \in Active' : task'[u].loaded \/ Place(u)' \in Places.save => task'[u].held # NoCatalog
    <3>1. <<kind, 1>> \notin Places.save
      BY DEF Places
    <3>2. \A u \in Active : Place(u)' = Place(u)
      BY <1>1, <1>3 DEF Place, Active
    <3> QED
      BY <1>1, <1>2, <1>3, <1>4, <3>1, <3>2 DEF StoreInv, PlaceInv, Active
  <2>3. \A u, v \in Active' : task'[u].kind \in Leased /\ task'[v].kind \in Leased => u = v
    BY <1>1, <1>2, <1>3, <1>4, <1>7 DEF StoreInv, PlaceInv, Active
  <2> QED
    BY <2>2, <2>3, <2>4 DEF PlaceInv
<1>9. PublisherInv'
  <2>1. ASSUME NEW u \in Tasks
        PROVE  PublisherAt(u)'
    <3>1. PublisherAt(u)
      BY DEF StoreInv, PublisherInv
    <3>2. CASE u = t
      BY <1>1, <3>1, <3>2 DEF PublisherAt, AtWork
    <3>3. CASE u # t
      <4>1. publisher[u].aborted => ~task'[t].alone /\ task'[t].kind # "load"
        BY <1>2, <1>6, <3>1 DEF PublisherAt, Nobody
      <4>2. \A v \in Active : task'[v].kind = task[v].kind /\ ~task'[v].alone
        BY <1>1, <1>3 DEF Active
      <4> QED
        BY <1>1, <1>3, <1>4, <3>1, <3>3, <4>1, <4>2 DEF PublisherAt, AtWork
    <3> QED
      BY <3>2, <3>3
  <2> QED
    BY <2>1 DEF PublisherInv
<1>10. AloneInv'
  <2>1. ASSUME NEW u \in Active', task'[u].alone
        PROVE  AloneAt(u)'
    <3>1. u = t /\ Active' = {t} /\ (~disturbed => AtRest)
      BY <1>2, <1>3, <1>4, <2>1 DEF StoreInv, RestInv, Active, Nobody
    <3>2. <<kind, 1>> \notin CellRight /\ <<kind, 1>> \notin HeldRight /\ <<kind, 1>> # <<"edit", 7>>
      BY <1>6 DEF CellRight, HeldRight
    <3>3. AtRest => AtRest' /\ CellShows(t)'
      BY <1>1, <1>2 DEF AtRest, FileShows, Wanted, CellShows
    <3> QED
      BY <1>1, <1>2, <1>4, <1>6, <3>1, <3>2, <3>3 DEF AloneAt
  <2> QED
    BY <2>1 DEF AloneInv
<1>11. RestInv'
  BY <1>4 DEF RestInv
<1>12. LoadInv'
  <2>1. ASSUME NEW u \in Active', Place(u)' = <<"load", 1>>, Content' = NoCatalog
        PROVE  /\ cell' = NoCatalog /\ served' = NoCatalog /\ saved' = NoCatalog /\ Settled' /\ ~task'[u].loaded
               /\ \A v \in Active' : v # u => Place(v)' = <<"edit", 1>> /\ ~task'[v].loaded
    <3>1. u # t /\ u \in Active
      BY <1>4, <1>6, <2>1
    <3>2. Place(u) = <<"load", 1>> /\ task[u].kind = "load"
      BY <1>3, <2>1, <3>1 DEF Place, Active
    <3>3. /\ cell = NoCatalog /\ served = NoCatalog /\ saved = NoCatalog /\ Settled /\ ~task[u].loaded
          /\ \A v \in Active : v # u => Place(v) = <<"edit", 1>> /\ ~task[v].loaded
      BY <1>1, <2>1, <3>1, <3>2 DEF StoreInv, LoadInv
    <3>4. kind = "edit"
      BY <1>1, <1>6, <1>7, <3>1, <3>2, <3>3, KindsAre DEF Startable, Leased
    <3>5. \A v \in Active : v # u => Place(v)' = <<"edit", 1>> /\ ~task'[v].loaded
      BY <1>1, <1>3, <3>3 DEF Place, Active
    <3> QED
      BY <1>1, <1>2, <1>3, <1>4, <3>1, <3>3, <3>4, <3>5 DEF Active, Settled
  <2> QED
    BY <2>1 DEF LoadInv
<1> QED
  BY <1>5, <1>8, <1>9, <1>10, <1>11, <1>12 DEF StoreInv

(* A start takes the file, if there is one; then it is what the database   *)
(* has, unless something was disturbed or not saved.                       *)
LEMMA RestartKeeps ==
    ASSUME StoreInv, Restart
    PROVE  StoreInv'
<1>1. PICK kind \in {"load", "start"} : kind = IF saved = NoCatalog THEN "load" ELSE "start"
  OBVIOUS
<1>2. PICK t \in Tasks :
        /\ starts < MaxStarts /\ starts' = starts + 1
        /\ cell' = NoCatalog /\ served' = NoCatalog /\ asked' = NoCatalog /\ writing' = NoCatalog
        /\ publisher' = [u \in Tasks |-> Rest] /\ Content' = Content
        /\ task' = [u \in Tasks |-> IF u = t THEN [NoTask EXCEPT !.kind = kind] ELSE NoTask]
        /\ disturbed' = (disturbed \/ unsaved \/ ~Settled \/ Active # {})
        /\ UNCHANGED <<db, saved, begun, unsaved>>
  BY <1>1 DEF Restart, Content
<1>3. /\ task'[t].kind = kind /\ task'[t].n = 1 /\ ~task'[t].loaded /\ task'[t] \in TaskTypes
  <2>1. task'[t] = [kind |-> kind, n |-> 1, loaded |-> FALSE, held |-> NoCatalog, alone |-> TRUE]
    BY <1>2 DEF NoTask
  <2> QED
    BY <2>1, KindsAre DEF TaskTypes
<1>4. \A u \in Tasks : u # t => task'[u] = NoTask
  BY <1>2
<1>5. Active' = {t} /\ Place(t)' = <<kind, 1>>
  BY <1>3, <1>4, NoTaskTypes DEF Active, Place
<1>6. Types'
  <2>1. task' \in [Tasks -> TaskTypes]
    BY <1>2, <1>3, <1>4, NoTaskTypes
  <2>2. starts' \in 0 .. MaxStarts /\ disturbed' \in BOOLEAN
    BY <1>2, StoreConstants DEF StoreInv, Types
  <2> QED
    BY <1>2, <2>1, <2>2, RestTypes DEF StoreInv, Types
<1>7. PlaceInv' /\ PublisherInv' /\ RestInv'
  <2>1. task'[t].n <= Len(Program[task'[t].kind])
    BY <1>3, StartProgram, LoadProgram
  <2>2. <<kind, 1>> \notin Places.save
    BY DEF Places
  <2> QED
    BY <1>2, <1>3, <1>5, <2>1, <2>2, RestTypes DEF PlaceInv, PublisherInv, PublisherAt, AtWork, RestInv
<1>8. AloneInv'
  <2>1. <<kind, 1>> \notin HeldRight /\ <<kind, 1>> # <<"edit", 7>>
    BY DEF HeldRight
  <2>2. CellShows(t)'
    BY <1>2, <1>3 DEF CellShows
  <2>3. ASSUME kind = "start", ~disturbed'
        PROVE  ~unsaved' /\ saved' = Content' /\ Settled' /\ cell' = NoCatalog
    <3>1. ~disturbed /\ ~unsaved /\ Settled /\ Active = {}
      BY <1>2, <2>3
    <3> QED
      BY <1>2, <3>1 DEF StoreInv, RestInv, AtRest, FileShows, Wanted, Settled
  <2>4. AloneAt(t)'
    BY <1>3, <1>5, <2>1, <2>2, <2>3 DEF AloneAt
  <2> QED
    BY <1>5, <2>4 DEF AloneInv
<1>9. LoadInv'
  <2>1. Place(t)' = <<"load", 1>> => saved' = NoCatalog
    BY <1>1, <1>2, <1>5
  <2> QED
    BY <1>2, <1>3, <1>5, <2>1 DEF LoadInv, Settled
<1> QED
  BY <1>6, <1>7, <1>8, <1>9 DEF StoreInv

-----------------------------------------------------------------------------
(* The invariant holds.                                                    *)

LEMMA StoreInvInit == Init => StoreInv
<1> SUFFICES ASSUME Init
             PROVE  StoreInv
  OBVIOUS
<1>1. Active = {} /\ publisher = [t \in Tasks |-> Rest] /\ disturbed
  BY NoTaskTypes DEF Init, Active
<1>2. task \in [Tasks -> TaskTypes]
  BY NoTaskTypes DEF Init
<1>3. Types
  BY <1>1, <1>2, RestTypes, StoreConstants DEF Init, Types
<1> QED
  BY <1>1, <1>3, RestTypes
  DEF StoreInv, PlaceInv, PublisherInv, PublisherAt, AtWork, AloneInv, RestInv, LoadInv

LEMMA StoreInvNext == StoreInv /\ [Next]_vars => StoreInv'
<1> SUFFICES ASSUME StoreInv, [Next]_vars
             PROVE  StoreInv'
  OBVIOUS
<1>1. ASSUME NEW t \in Tasks, TaskStep(t)
      PROVE  StoreInv'
  BY <1>1, FindKeeps, PutLoadedKeeps, ClearKeeps, CommitKeeps, EmptyKeeps, ExportKeeps, StoreKeeps, PreviewKeeps,
     SaveKeeps, ServeKeeps, UnserveKeeps, RestoreKeeps, SpawnJoinKeeps, GiveUpKeeps DEF TaskStep
<1>2. ASSUME NEW t \in Tasks, NEW kind \in Kinds, Begin(t, kind)
      PROVE  StoreInv'
  BY <1>2, BeginKeeps
<1>3. ASSUME NEW t \in Tasks, PublisherStep(t)
      PROVE  StoreInv'
  BY <1>3, PublisherStepKeeps
<1>6. CASE FileStep
  BY <1>6, FileStepKeeps
<1>4. CASE Restart
  BY <1>4, RestartKeeps
<1>5. CASE UNCHANGED vars
  <2>1. Active' = Active /\ Content' = Content /\ \A t \in Tasks : Place(t)' = Place(t)
    BY <1>5 DEF vars, places, file, Active, Content, Place
  <2>2. Types' /\ PlaceInv' /\ PublisherInv'
    BY <1>5, <2>1 DEF vars, places, file, history, StoreInv, Types, PlaceInv, PublisherInv, PublisherAt, AtWork, Active, Place
  <2>3. AloneInv'
    BY <1>5, <2>1 DEF vars, places, file, history, StoreInv, AloneInv, AloneAt, CellShows, FileShows, Wanted, AtRest, Settled, Active
  <2>4. RestInv'
    BY <1>5, <2>1 DEF vars, places, file, history, StoreInv, RestInv, FileShows, Wanted, AtRest
  <2>5. LoadInv'
    BY <1>5, <2>1 DEF vars, places, file, StoreInv, LoadInv, Settled, Active
  <2> QED
    BY <2>2, <2>3, <2>4, <2>5 DEF StoreInv
<1> QED
  BY <1>1, <1>2, <1>3, <1>4, <1>5, <1>6 DEF Next

(* StoreInv holds in every reachable state.                                *)
THEOREM StoreInvariant == Spec => []StoreInv
<1> QED
  BY StoreInvInit, StoreInvNext, PTL DEF Spec

(* The types, that one scan has the lease, and that a publisher works for  *)
(* an indexing that will wait for it, or has been told to stop.            *)
THEOREM StoreTyping == Spec => []TypeOK
<1>1. StoreInv => TypeOK
  <2> SUFFICES ASSUME StoreInv
               PROVE  TypeOK
    OBVIOUS
  <2> DEFINE holders == {t \in Active : task[t].kind \in Leased}
  <2>1. Cardinality(holders) <= 1
    <3>1. CASE holders = {}
      BY <3>1, FS_EmptySet
    <3>2. CASE holders # {}
      <4>1. PICK t \in holders : TRUE
        BY <3>2
      <4>2. holders = {t}
        BY <4>1 DEF StoreInv, PlaceInv
      <4> QED
        BY <4>2, FS_Singleton
    <3> QED
      BY <3>1, <3>2
  <2>2. \A t \in Tasks : AtWork(t) /\ ~publisher[t].aborted =>
           task[t].kind = "index" /\ task[t].n \in Spawned .. Joined
    BY DEF StoreInv, PublisherInv, PublisherAt
  <2> QED
    BY <2>1, <2>2 DEF TypeOK, StoreInv, Types, TaskTypes, PublisherTypes
<1> QED
  BY <1>1, StoreInvariant, PTL

(* A catalog that is taken for the whole one shows the database: when      *)
(* nothing is under way, in the cell, in what is served and, once it is    *)
(* written, in what was saved; and in what an indexing has read back.      *)
THEOREM WholeCatalog == Spec => []WholeCatalogShowsDatabase
<1>1. StoreInv => RestShowsDatabase
  BY DEF StoreInv, RestInv, AtRest, FileShows, Wanted, Settled, RestShowsDatabase
<1>2. StoreInv => DrainedIsWhole
  <2> SUFFICES ASSUME StoreInv, NEW t \in Active, task[t].kind = "index", task[t].n = Drained, task[t].alone
               PROVE  task[t].held = Content
    BY DEF DrainedIsWhole
  <2>1. Place(t) = <<"index", 12>>
    BY DEF Place, Drained
  <2>2. <<"index", 12>> \in HeldRight
    BY DEF HeldRight
  <2> QED
    BY <2>1, <2>2 DEF StoreInv, AloneInv, AloneAt
<1>3. StoreInv => WholeCatalogShowsDatabase
  BY <1>1, <1>2 DEF WholeCatalogShowsDatabase
<1> QED
  BY <1>3, StoreInvariant, PTL
=============================================================================
