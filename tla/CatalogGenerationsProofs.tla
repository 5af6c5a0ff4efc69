---------------------- MODULE CatalogGenerationsProofs ----------------------
(***************************************************************************)
(* Theorems about CatalogGenerations, for any number of requests and of    *)
(* damaged files.                                                          *)
(***************************************************************************)
EXTENDS CatalogGenerations, SequenceTheorems, TLAPS

Generations == [catalog : Requests, readable : BOOLEAN]
Last == generations[Len(generations)]

(* A request has a task from the moment it is counted.                     *)
TasksAreCounted == \A n \in Requests : task[n] # "none" => n =< request

(* A file is of a request that has renamed it, and the task that is going  *)
(* to write one has a later request than every file.                       *)
FilesAreRenamed ==
    \A i \in DOMAIN generations : task[generations[i].catalog] \in {"pruning", "over"}
WriterIsLater ==
    \A n \in Requests : task[n] \in {"writing", "renaming"} =>
        \A i \in DOMAIN generations : generations[i].catalog < n

(* The last request is on its way, or its file is the newest, or it is lost. *)
LastIsOnItsWay ==
    request > 0 /\ ~lost =>
        \/ task[request] \in InFlight \ {"pruning"}
        \/ generations # <<>> /\ Last.catalog = request

OrderInv ==
    /\ Typed /\ LockIsWriters /\ TasksAreCounted
    /\ FilesAreRenamed /\ WriterIsLater /\ GenerationsInOrder
FileInv == OrderInv /\ LastIsOnItsWay

(* Pruning leaves a suffix of the files, with the newest one in it.        *)
LEMMA PruneKeepsSuffix ==
    ASSUME generations \in Seq(Generations), NEW n \in Requests, Prune(n)
    PROVE  \E d \in Nat :
              /\ generations' \in Seq(Generations)
              /\ Len(generations) = Len(generations') + d
              /\ \A i \in DOMAIN generations' : generations'[i] = generations[i + d]
              /\ generations # <<>> => generations' # <<>>
              /\ Len(generations) >= 2 => Len(generations') >= 2
<1> DEFINE len == Len(generations)
<1>1. len \in Nat /\ generations \in [1 .. len -> Generations]
  BY LenProperties
<1>2. PICK kept \in {Kept, len} : generations' = Newest(kept)
  BY DEF Prune
<1>3. CASE len > kept
  <2> DEFINE m == len - kept + 1
             d == len - kept
  <2>0. kept = 2
    <3> HIDE DEF len
    <3> QED BY <1>1, <1>2, <1>3 DEF Kept
  <2>1. kept = 2 /\ d \in Nat /\ m \in Int /\ len \in Int /\ m =< len /\ m >= 1
    <3> HIDE DEF len
    <3> QED BY <1>1, <2>0, <1>3
  <2>2. \A i \in m .. len : generations[i] \in Generations
    BY <1>1, <2>1
  <2>3. generations' = SubSeq(generations, m, len)
    BY <1>2, <1>3 DEF Newest
  <2>4. /\ generations' \in Seq(Generations)
        /\ Len(generations') = len - m + 1
        /\ \A i \in 1 .. len - m + 1 : generations'[i] = generations[m + i - 1]
    <3> HIDE DEF m, len
    <3> QED BY <2>1, <2>2, <2>3, SubSeqProperties
  <2>5. Len(generations') = 2 /\ DOMAIN generations' = 1 .. 2
    BY <1>1, <2>1, <2>4, LenProperties
  <2>6. \A i \in 1 .. 2 : generations'[i] = generations[i + d]
    <3>1. len - m + 1 = 2 /\ m = d + 1
      <4> HIDE DEF len
      <4> QED BY <1>1, <2>0
    <3>2. generations'[1] = generations[m] /\ generations'[2] = generations[m + 1]
      <4> HIDE DEF m, len, d
      <4> QED BY <2>1, <2>4, <3>1
    <3> HIDE DEF m, len, d
    <3> QED BY <2>1, <3>1, <3>2
  <2>7. len = Len(generations') + d /\ generations' # <<>>
    <3>1. len = 2 + d
      <4> HIDE DEF len
      <4> QED BY <1>1, <2>0
    <3> HIDE DEF len, d
    <3> QED BY <2>5, <3>1
  <2>8. Len(generations') >= 2
    BY <2>5
  <2> QED BY <2>1, <2>4, <2>5, <2>6, <2>7, <2>8
<1>4. CASE ~(len > kept)
  <2>1. generations' = generations
    BY <1>2, <1>4 DEF Newest
  <2>2. \A i \in DOMAIN generations : generations[i] = generations[i + 0]
    BY <1>1
  <2>3. len = len + 0 /\ 0 \in Nat
    BY <1>1
  <2> QED BY <2>1, <2>2, <2>3
<1> QED BY <1>3, <1>4

LEMMA OrderInvInit == Init => FileInv
<1> SUFFICES ASSUME Init PROVE FileInv
  OBVIOUS
<1>1. Typed
  <2>1. generations \in Seq([catalog : Requests, readable : BOOLEAN])
    BY EmptySeq DEF Init
  <2>2. 0 \in 0 .. MaxRequests /\ 0 \in 0 .. MaxDamage
    BY BoundsAssumption
  <2>3. task \in [Requests -> InFlight \cup {"none", "over"}]
    BY DEF Init
  <2> QED BY <2>1, <2>2, <2>3 DEF Init, Typed
<1>2. DOMAIN generations = {}
  BY EmptySeq, LenProperties DEF Init
<1>3. \A n \in Requests : task[n] = "none"
  BY DEF Init
<1> QED BY <1>1, <1>2, <1>3
    DEF FileInv, OrderInv, LockIsWriters, TasksAreCounted, FilesAreRenamed, WriterIsLater,
        GenerationsInOrder, LastIsOnItsWay, Locked, Init

(* Between two steps only Rename, Prune and Damage change the files.       *)
LEMMA OrderInvStep ==
    ASSUME OrderInv, [Next]_vars
    PROVE  OrderInv'
<1> USE DEF Go, files, Locked, InFlight
<1>0. /\ Typed /\ LockIsWriters /\ TasksAreCounted
      /\ FilesAreRenamed /\ WriterIsLater /\ GenerationsInOrder
      /\ generations \in Seq(Generations)
      /\ DOMAIN generations = 1 .. Len(generations) /\ Len(generations) \in Nat
      /\ \A i \in DOMAIN generations : /\ i \in Nat
                                       /\ generations[i] \in Generations
                                       /\ generations[i].catalog \in Requests
      /\ \A n \in Requests : n \in Nat /\ n # Nobody
      /\ request \in Nat
  <2>1. generations \in Seq(Generations) /\ request \in Nat
    BY BoundsAssumption DEF OrderInv, Typed, Generations
  <2>2. DOMAIN generations = 1 .. Len(generations) /\ Len(generations) \in Nat
    BY <2>1, LenProperties
  <2>3. \A i \in DOMAIN generations : i \in Nat /\ generations[i] \in Generations
    BY <2>1, <2>2, ElementOfSeq
  <2>4. \A i \in DOMAIN generations : generations[i].catalog \in Requests
    BY <2>3 DEF Generations
  <2>5. \A n \in Requests : n \in Nat /\ n # Nobody
    BY BoundsAssumption DEF Requests, Nobody
  <2> QED BY <2>1, <2>2, <2>3, <2>4, <2>5 DEF OrderInv
<1>1. ASSUME Request PROVE OrderInv'
  <2>1. Typed'
    <3>1. request' \in 0 .. MaxRequests
      BY <1>0, <1>1, BoundsAssumption DEF Request
    <3> QED BY <1>0, <1>1, <3>1 DEF Request, Typed
  <2>2. LockIsWriters' /\ TasksAreCounted'
    BY <1>0, <1>1 DEF Request, Typed, LockIsWriters, TasksAreCounted
  <2>3. FilesAreRenamed'
    BY <1>0, <1>1 DEF Request, Typed, FilesAreRenamed
  <2>4. WriterIsLater'
    BY <1>0, <1>1 DEF Request, Typed, WriterIsLater, FilesAreRenamed, TasksAreCounted, LockIsWriters
  <2>5. GenerationsInOrder'
    BY <1>0, <1>1 DEF Request, Typed, GenerationsInOrder, WriterIsLater
  <2> QED BY <2>1, <2>2, <2>3, <2>4, <2>5 DEF OrderInv
<1>2. ASSUME NEW n \in Requests, Wake(n) PROVE OrderInv'
  <2>1. Typed'
    BY <1>0, <1>2 DEF Wake, Typed, Generations
  <2>2. LockIsWriters' /\ TasksAreCounted'
    BY <1>0, <1>2 DEF Wake, Typed, LockIsWriters, TasksAreCounted
  <2>3. FilesAreRenamed'
    BY <1>0, <1>2 DEF Wake, Typed, FilesAreRenamed
  <2>4. WriterIsLater'
    BY <1>0, <1>2 DEF Wake, Typed, WriterIsLater, FilesAreRenamed, TasksAreCounted, LockIsWriters
  <2>5. GenerationsInOrder'
    BY <1>0, <1>2 DEF Wake, Typed, GenerationsInOrder, WriterIsLater
  <2> QED BY <2>1, <2>2, <2>3, <2>4, <2>5 DEF OrderInv
<1>3. ASSUME NEW n \in Requests, Enter(n) PROVE OrderInv'
  <2>1. Typed'
    BY <1>0, <1>3 DEF Enter, Typed, Generations
  <2>2. LockIsWriters' /\ TasksAreCounted'
    BY <1>0, <1>3 DEF Enter, Typed, LockIsWriters, TasksAreCounted
  <2>3. FilesAreRenamed'
    BY <1>0, <1>3 DEF Enter, Typed, FilesAreRenamed
  <2>4. WriterIsLater'
    <3>1. CASE request = n /\ task[n] = "queued"
      <4>1. \A i \in DOMAIN generations : generations[i].catalog # n
        BY <1>0, <3>1 DEF FilesAreRenamed
      <4>2. \A i \in DOMAIN generations : generations[i].catalog =< request
        BY <1>0 DEF FilesAreRenamed, TasksAreCounted
      <4>3. \A i \in DOMAIN generations : generations[i].catalog < n
        <5> TAKE i \in DOMAIN generations
        <5>1. /\ generations[i].catalog \in Nat /\ n \in Nat
              /\ generations[i].catalog # n /\ generations[i].catalog =< n
          BY <1>0, <3>1, <4>1, <4>2
        <5> QED BY <5>1
      <4> QED BY <1>0, <1>3, <3>1, <4>3 DEF Enter, Typed, WriterIsLater
    <3>2. CASE request # n
      BY <1>0, <1>3, <3>2 DEF Enter, Typed, WriterIsLater
    <3> QED BY <1>3, <3>1, <3>2 DEF Enter
  <2>5. GenerationsInOrder'
    BY <1>0, <1>3 DEF Enter, Typed, GenerationsInOrder, WriterIsLater
  <2> QED BY <2>1, <2>2, <2>3, <2>4, <2>5 DEF OrderInv
<1>4. ASSUME NEW n \in Requests, Write(n) PROVE OrderInv'
  <2>1. Typed'
    BY <1>0, <1>4 DEF Write, Typed, Generations
  <2>2. LockIsWriters' /\ TasksAreCounted'
    BY <1>0, <1>4 DEF Write, Typed, LockIsWriters, TasksAreCounted
  <2>3. FilesAreRenamed'
    BY <1>0, <1>4 DEF Write, Typed, FilesAreRenamed
  <2>4. WriterIsLater'
    BY <1>0, <1>4 DEF Write, Typed, WriterIsLater, FilesAreRenamed, TasksAreCounted, LockIsWriters
  <2>5. GenerationsInOrder'
    BY <1>0, <1>4 DEF Write, Typed, GenerationsInOrder, WriterIsLater
  <2> QED BY <2>1, <2>2, <2>3, <2>4, <2>5 DEF OrderInv
<1>5. ASSUME NEW n \in Requests, Rename(n) PROVE OrderInv'
  <2>1. Typed'
    <3>1. [catalog |-> n, readable |-> TRUE] \in Generations
      BY DEF Generations
    <3>2. generations' \in Seq(Generations)
      BY <1>0, <1>5, <3>1, AppendProperties DEF Rename
    <3>3. written' \in Nat
      BY <1>0, <1>5 DEF Rename, Typed
    <3> QED BY <1>0, <1>5, <3>2, <3>3 DEF Rename, Typed, Generations
  <2>2. LockIsWriters' /\ TasksAreCounted'
    BY <1>0, <1>5 DEF Rename, Typed, LockIsWriters, TasksAreCounted
  <2>3. FilesAreRenamed'
    BY <1>0, <1>5 DEF Rename, Typed, FilesAreRenamed
  <2>4. WriterIsLater'
    BY <1>0, <1>5 DEF Rename, Typed, WriterIsLater, FilesAreRenamed, TasksAreCounted, LockIsWriters
  <2>5. GenerationsInOrder'
    BY <1>0, <1>5 DEF Rename, Typed, GenerationsInOrder, WriterIsLater
  <2> QED BY <2>1, <2>2, <2>3, <2>4, <2>5 DEF OrderInv
<1>6. ASSUME NEW n \in Requests, Fail(n) PROVE OrderInv'
  <2>1. Typed'
    BY <1>0, <1>6 DEF Fail, Typed, Generations
  <2>2. LockIsWriters' /\ TasksAreCounted'
    BY <1>0, <1>6 DEF Fail, Typed, LockIsWriters, TasksAreCounted
  <2>3. FilesAreRenamed'
    BY <1>0, <1>6 DEF Fail, Typed, FilesAreRenamed
  <2>4. WriterIsLater'
    BY <1>0, <1>6 DEF Fail, Typed, WriterIsLater, FilesAreRenamed, TasksAreCounted, LockIsWriters
  <2>5. GenerationsInOrder'
    BY <1>0, <1>6 DEF Fail, Typed, GenerationsInOrder, WriterIsLater
  <2> QED BY <2>1, <2>2, <2>3, <2>4, <2>5 DEF OrderInv
<1>7. ASSUME NEW n \in Requests, Prune(n) PROVE OrderInv'
  <2>0. PICK d \in Nat :
           /\ generations' \in Seq(Generations)
           /\ Len(generations) = Len(generations') + d
           /\ \A i \in DOMAIN generations' : generations'[i] = generations[i + d]
    BY <1>0, <1>7, PruneKeepsSuffix
  <2>9. \A i \in DOMAIN generations' : i \in Nat /\ i + d \in DOMAIN generations
    BY <1>0, <2>0, LenProperties
  <2>1. Typed'
    BY <1>0, <1>7, <2>0 DEF Prune, Typed, Generations
  <2>2. LockIsWriters' /\ TasksAreCounted'
    BY <1>0, <1>7 DEF Prune, Typed, LockIsWriters, TasksAreCounted
  <2>3. FilesAreRenamed'
    <3>1. \A i \in DOMAIN generations' : task[generations'[i].catalog] \in {"pruning", "over"}
      BY <1>0, <2>0, <2>9 DEF FilesAreRenamed
    <3>2. \A k : task[k] \in {"pruning", "over"} => task'[k] \in {"pruning", "over"}
      BY <1>0, <1>7 DEF Prune, Typed
    <3> QED BY <3>1, <3>2 DEF FilesAreRenamed
  <2>4. WriterIsLater'
    BY <1>0, <1>7 DEF Prune, Typed, WriterIsLater, LockIsWriters
  <2>5. GenerationsInOrder'
    <3> SUFFICES ASSUME NEW i \in DOMAIN generations', NEW j \in DOMAIN generations', i < j
                 PROVE  generations'[i].catalog < generations'[j].catalog
      BY DEF GenerationsInOrder
    <3>1. i + d < j + d
      BY <2>9
    <3> QED BY <2>0, <2>9, <3>1, <1>0 DEF GenerationsInOrder
  <2> QED BY <2>1, <2>2, <2>3, <2>4, <2>5 DEF OrderInv
<1>8. ASSUME Crash PROVE OrderInv'
  <2>1. Typed'
    BY <1>0, <1>8 DEF Crash, Typed, Generations
  <2>2. LockIsWriters' /\ TasksAreCounted'
    BY <1>0, <1>8 DEF Crash, Typed, LockIsWriters, TasksAreCounted
  <2>3. FilesAreRenamed'
    BY <1>0, <1>8 DEF Crash, Typed, FilesAreRenamed
  <2>4. WriterIsLater'
    BY <1>0, <1>8 DEF Crash, Typed, WriterIsLater, FilesAreRenamed, TasksAreCounted, LockIsWriters
  <2>5. GenerationsInOrder'
    BY <1>0, <1>8 DEF Crash, Typed, GenerationsInOrder, WriterIsLater
  <2> QED BY <2>1, <2>2, <2>3, <2>4, <2>5 DEF OrderInv
<1>9. ASSUME NEW i \in DOMAIN generations, Damage(i) PROVE OrderInv'
  <2>1. Typed'
    <3>1. generations' \in Seq(Generations)
      <4>1. [generations[i] EXCEPT !.readable = FALSE] \in Generations
        BY <1>0 DEF Generations
      <4> QED BY <1>0, <1>9, <4>1, ExceptSeq DEF Damage
    <3>2. damaged' \in 0 .. MaxDamage
      BY <1>0, <1>9, BoundsAssumption DEF Damage, Typed
    <3> QED BY <1>0, <1>9, <3>1, <3>2 DEF Damage, Typed, Generations
  <2>2. LockIsWriters' /\ TasksAreCounted'
    BY <1>0, <1>9 DEF Damage, Typed, LockIsWriters, TasksAreCounted
  <2>3. FilesAreRenamed'
    BY <1>0, <1>9 DEF Damage, Typed, FilesAreRenamed
  <2>4. WriterIsLater'
    BY <1>0, <1>9 DEF Damage, Typed, WriterIsLater, FilesAreRenamed, TasksAreCounted, LockIsWriters
  <2>5. GenerationsInOrder'
    <3>1. \A j \in DOMAIN generations' :
             j \in DOMAIN generations /\ generations'[j].catalog = generations[j].catalog
      BY <1>0, <1>9 DEF Damage, Typed, Generations
    <3> QED BY <1>0, <3>1 DEF GenerationsInOrder
  <2> QED BY <2>1, <2>2, <2>3, <2>4, <2>5 DEF OrderInv
<1>10. ASSUME UNCHANGED vars PROVE OrderInv'
  BY <1>0, <1>10 DEF vars, OrderInv, Typed, LockIsWriters, TasksAreCounted, FilesAreRenamed, WriterIsLater, GenerationsInOrder
<1> QED BY <1>1, <1>2, <1>3, <1>4, <1>5, <1>6, <1>7, <1>8, <1>9, <1>10 DEF Next, TaskStep

(* Names and requests of the files go up together: whatever a task finds    *)
(* when it gets the lock, it writes only if no later request was made.     *)
THEOREM FilesInOrder == Spec => []GenerationsInOrder
<1>1. Init => OrderInv
  BY OrderInvInit DEF FileInv
<1>2. OrderInv /\ [Next]_vars => OrderInv'
  BY OrderInvStep
<1>3. OrderInv => GenerationsInOrder
  BY DEF OrderInv
<1> QED BY <1>1, <1>2, <1>3, PTL DEF Spec

(* The counter, the tasks and the files keep their types.                  *)
THEOREM GenerationsTyping == Spec => []TypeOK
<1>1. Init => OrderInv
  BY OrderInvInit DEF FileInv
<1>2. OrderInv /\ [Next]_vars => OrderInv'
  BY OrderInvStep
<1>3. OrderInv => TypeOK
  BY DEF OrderInv, TypeOK
<1> QED BY <1>1, <1>2, <1>3, PTL DEF Spec

(* The task of the last request is never dropped as overtaken, and its     *)
(* file, once there, stays the newest.                                     *)
LEMMA LastIsKept ==
    ASSUME FileInv, [Next]_vars
    PROVE  LastIsOnItsWay'
<1> USE DEF Go, files, InFlight
<1>0. /\ Typed /\ LastIsOnItsWay /\ TasksAreCounted /\ WriterIsLater
      /\ generations \in Seq(Generations)
      /\ request \in Nat
      /\ request > 0 => request \in Requests
      /\ \A n \in Requests : n > 0
      /\ generations # <<>> => Last \in Generations /\ Last.catalog \in Requests
  <2>1. generations \in Seq(Generations) /\ request \in 0 .. MaxRequests
    BY DEF FileInv, OrderInv, Typed, Generations
  <2>2. generations # <<>> => Last \in Generations
    BY <2>1, LenProperties, ElementOfSeq, EmptySeq DEF Last
  <2> QED BY <2>1, <2>2, BoundsAssumption DEF FileInv, OrderInv, Generations, Requests
<1>1. ASSUME Request PROVE LastIsOnItsWay'
  <2>1. request' \in Requests /\ task' = [task EXCEPT ![request'] = "sleeping"]
    <3>1. /\ request < MaxRequests /\ request' = request + 1
          /\ task' = [task EXCEPT ![request'] = "sleeping"]
      BY <1>1 DEF Request
    <3>2. request + 1 \in 1 .. MaxRequests
      BY <1>0, <3>1, BoundsAssumption
    <3> QED BY <3>1, <3>2 DEF Requests
  <2>2. task'[request'] = "sleeping"
    BY <1>0, <2>1 DEF Typed
  <2> QED BY <2>2 DEF LastIsOnItsWay
<1>2. ASSUME NEW n \in Requests, Wake(n) \/ Enter(n) \/ Write(n) PROVE LastIsOnItsWay'
  <2>1. /\ request' = request /\ lost' = lost
        /\ generations' = generations /\ Last' = Last
    BY <1>2 DEF Wake, Enter, Write, Last
  <2>2. request > 0 /\ task[request] \in InFlight \ {"pruning"}
           => task'[request] \in InFlight \ {"pruning"}
    BY <1>0, <1>2 DEF Wake, Enter, Write, Typed
  <2> QED BY <1>0, <2>1, <2>2 DEF LastIsOnItsWay
<1>3. ASSUME NEW n \in Requests, Fail(n) PROVE LastIsOnItsWay'
  <2>1. /\ request' = request /\ (lost' <=> (lost \/ n = request))
        /\ generations' = generations /\ Last' = Last
    BY <1>3 DEF Fail, Last
  <2>2. n # request /\ request > 0 => task'[request] = task[request]
    BY <1>0, <1>3 DEF Fail, Typed
  <2> QED BY <1>0, <2>1, <2>2 DEF LastIsOnItsWay
<1>4. ASSUME NEW n \in Requests, Rename(n) PROVE LastIsOnItsWay'
  <2>1. generations' # <<>> /\ Last'.catalog = n
    <3>1. [catalog |-> n, readable |-> TRUE] \in Generations
      BY DEF Generations
    <3>2. generations' # <<>> /\ Last' = [catalog |-> n, readable |-> TRUE]
      BY <1>0, <1>4, <3>1, AppendProperties DEF Rename, Last
    <3> QED BY <3>2
  <2>2. request' = request /\ lost' = lost
    BY <1>4 DEF Rename
  <2>3. CASE n = request
    BY <2>1, <2>2, <2>3 DEF LastIsOnItsWay
  <2>4. CASE n # request
    <3>1. request > 0 => task'[request] = task[request]
      BY <1>0, <1>4, <2>4 DEF Rename, Typed
    <3>2. n =< request
      BY <1>0, <1>4 DEF Rename, TasksAreCounted
    <3>3. generations # <<>> => Last.catalog < n
      BY <1>0, <1>4 DEF Rename, WriterIsLater, Last
    <3>4. generations # <<>> => Last.catalog # request
      <4> SUFFICES ASSUME generations # <<>> PROVE Last.catalog # request
        OBVIOUS
      <4>1. Last.catalog \in Nat /\ n \in Nat /\ request \in Nat
        BY <1>0, BoundsAssumption DEF Requests
      <4> QED BY <3>2, <3>3, <4>1
    <3> QED BY <1>0, <2>2, <3>1, <3>4 DEF LastIsOnItsWay
  <2> QED BY <2>3, <2>4
<1>5. ASSUME NEW n \in Requests, Prune(n) PROVE LastIsOnItsWay'
  <2>1. /\ generations # <<>> => generations' # <<>>
        /\ generations' # <<>> => Last' = Last
    <3>1. PICK d \in Nat :
             /\ generations' \in Seq(Generations)
             /\ Len(generations) = Len(generations') + d
             /\ \A i \in DOMAIN generations' : generations'[i] = generations[i + d]
             /\ generations # <<>> => generations' # <<>>
      BY <1>0, <1>5, PruneKeepsSuffix
    <3>2. generations' # <<>> => Len(generations') \in DOMAIN generations'
      BY <3>1, LenProperties, EmptySeq
    <3> QED BY <3>1, <3>2 DEF Last
  <2>2. request' = request /\ lost' = lost
    BY <1>5 DEF Prune
  <2>3. request > 0 /\ task[request] \in InFlight \ {"pruning"} => task'[request] = task[request]
    BY <1>0, <1>5 DEF Prune, Typed
  <2> QED BY <1>0, <2>1, <2>2, <2>3 DEF LastIsOnItsWay
<1>6. ASSUME Crash PROVE LastIsOnItsWay'
  <2>1. request' = request /\ generations' = generations /\ Last' = Last
    BY <1>6 DEF Crash, Last
  <2>2. lost' = (lost \/ \E n \in Requests : n = request /\ task[n] \in InFlight \ {"pruning"})
    BY <1>6 DEF Crash
  <2>3. request > 0 /\ task[request] \in InFlight \ {"pruning"} => lost'
    BY <1>0, <2>2
  <2>4. lost => lost'
    BY <2>2
  <2> QED BY <1>0, <2>1, <2>3, <2>4 DEF LastIsOnItsWay
<1>7. ASSUME NEW i \in DOMAIN generations, Damage(i) PROVE LastIsOnItsWay'
  <2>1. /\ generations' = [generations EXCEPT ![i] = [generations[i] EXCEPT !.readable = FALSE]]
        /\ UNCHANGED <<request, task, lost>>
    BY <1>7 DEF Damage
  <2>2. /\ DOMAIN generations = 1 .. Len(generations) /\ Len(generations) \in Nat
        /\ [generations[i] EXCEPT !.readable = FALSE] \in Generations
    <3>1. DOMAIN generations = 1 .. Len(generations) /\ Len(generations) \in Nat
      BY <1>0, LenProperties
    <3>2. generations[i] \in Generations
      BY <1>0, <3>1, ElementOfSeq
    <3> QED BY <3>1, <3>2 DEF Generations
  <2>3. /\ Len(generations') = Len(generations) /\ generations' \in Seq(Generations)
        /\ \A j \in DOMAIN generations : generations'[j].catalog = generations[j].catalog
    BY <1>0, <2>1, <2>2, ExceptSeq
  <2>4. generations # <<>> => generations' # <<>> /\ Last'.catalog = Last.catalog
    BY <1>0, <2>2, <2>3, EmptySeq DEF Last
  <2> QED BY <1>0, <2>1, <2>4 DEF LastIsOnItsWay
<1>8. ASSUME UNCHANGED vars PROVE LastIsOnItsWay'
  BY <1>0, <1>8 DEF vars, LastIsOnItsWay, Last
<1> QED BY <1>1, <1>2, <1>3, <1>4, <1>5, <1>6, <1>7, <1>8 DEF Next, TaskStep

(* When all tasks are over, the newest file is of the last catalog that was *)
(* published to be kept, unless its writing failed or was cut off.         *)
THEOREM LastRequestIsSaved == Spec => []QuietNewestIsLastRequest
<1>1. Init => FileInv
  BY OrderInvInit
<1>2. FileInv /\ [Next]_vars => FileInv'
  BY OrderInvStep, LastIsKept DEF FileInv
<1>3. FileInv => QuietNewestIsLastRequest
  <2> SUFFICES ASSUME FileInv, \A n \in Requests : task[n] \notin InFlight, request > 0, ~lost
               PROVE  generations # <<>> /\ Last.catalog = request
    BY DEF QuietNewestIsLastRequest, Last
  <2>1. request \in Requests
    BY BoundsAssumption DEF FileInv, OrderInv, Typed, Requests
  <2> QED BY <2>1 DEF FileInv, LastIsOnItsWay
<1> QED BY <1>1, <1>2, <1>3, PTL DEF Spec

-----------------------------------------------------------------------------
(* Pruning never goes below two files, and a disk that damaged one file has *)
(* left the other ones readable.                                           *)
FallbackInv ==
    /\ written >= 1 => Len(generations) >= 1
    /\ written >= 2 => Len(generations) >= 2
    /\ damaged = 0 => \A i \in DOMAIN generations : generations[i].readable
    /\ damaged =< 1 => \A i, j \in DOMAIN generations :
                            generations[i].readable \/ generations[j].readable \/ i = j

LEMMA FallbackStep ==
    ASSUME OrderInv, FallbackInv, [Next]_vars
    PROVE  FallbackInv'
<1>1. /\ generations \in Seq(Generations) /\ written \in Nat /\ damaged \in Nat
      /\ DOMAIN generations = 1 .. Len(generations) /\ Len(generations) \in Nat
  <2>1. generations \in Seq(Generations) /\ written \in Nat /\ damaged \in Nat
    BY BoundsAssumption DEF OrderInv, Typed, Generations
  <2> QED BY <2>1, LenProperties
<1>2. ASSUME NEW n \in Requests, Rename(n) PROVE FallbackInv'
  <2>1. PICK file : file = [catalog |-> n, readable |-> TRUE]
    OBVIOUS
  <2>2. file \in Generations /\ file.readable
    BY <2>1 DEF Generations
  <2>3. generations' = Append(generations, file) /\ written' = written + 1 /\ damaged' = damaged
    BY <1>2, <2>1 DEF Rename
  <2>4. /\ Len(generations') = Len(generations) + 1 /\ DOMAIN generations' = 1 .. Len(generations) + 1
        /\ \A i \in 1 .. Len(generations) : generations'[i] = generations[i]
        /\ generations'[Len(generations) + 1] = file
    BY <1>1, <2>2, <2>3, AppendProperties
  <2>5. \A i \in DOMAIN generations' : i \in DOMAIN generations \/ generations'[i].readable
    BY <1>1, <2>2, <2>4
  <2>6. (written' >= 1 => Len(generations') >= 1) /\ (written' >= 2 => Len(generations') >= 2)
    BY <1>1, <2>3, <2>4 DEF FallbackInv
  <2> QED BY <1>1, <2>3, <2>4, <2>5, <2>6 DEF FallbackInv
<1>3. ASSUME NEW n \in Requests, Prune(n) PROVE FallbackInv'
  <2>1. PICK d \in Nat :
           /\ generations' \in Seq(Generations)
           /\ Len(generations) = Len(generations') + d
           /\ \A i \in DOMAIN generations' : generations'[i] = generations[i + d]
           /\ generations # <<>> => generations' # <<>>
           /\ Len(generations) >= 2 => Len(generations') >= 2
    BY <1>1, <1>3, PruneKeepsSuffix
  <2>2. DOMAIN generations' = 1 .. Len(generations') /\ Len(generations') \in Nat
    BY <2>1, LenProperties
  <2>3. Len(generations) >= 1 => Len(generations') >= 1
    BY <1>1, <2>1, <2>2, EmptySeq
  <2>4. \A i \in DOMAIN generations' : i \in Nat /\ i + d \in DOMAIN generations
    BY <1>1, <2>1, <2>2
  <2>5. written' = written /\ damaged' = damaged
    BY <1>3 DEF Prune
  <2>6. damaged' =< 1 => \A i, j \in DOMAIN generations' :
            generations'[i].readable \/ generations'[j].readable \/ i = j
    <3> SUFFICES ASSUME damaged =< 1, NEW i \in DOMAIN generations', NEW j \in DOMAIN generations'
                 PROVE  generations'[i].readable \/ generations'[j].readable \/ i = j
      BY <2>5
    <3>1. generations[i + d].readable \/ generations[j + d].readable \/ i + d = j + d
      BY <2>4 DEF FallbackInv
    <3>2. i \in Nat /\ j \in Nat /\ (i + d = j + d => i = j)
      BY <2>4
    <3> QED BY <2>1, <3>1, <3>2
  <2>7. damaged' = 0 => \A i \in DOMAIN generations' : generations'[i].readable
    BY <2>1, <2>4, <2>5 DEF FallbackInv
  <2> QED BY <2>1, <2>3, <2>5, <2>6, <2>7 DEF FallbackInv
<1>4. ASSUME NEW i \in DOMAIN generations, Damage(i) PROVE FallbackInv'
  <2>1. PICK file : file = [generations[i] EXCEPT !.readable = FALSE]
    OBVIOUS
  <2>2. generations[i] \in Generations
    BY <1>1, ElementOfSeq
  <2>3. file \in Generations
    BY <2>1, <2>2 DEF Generations
  <2>4. generations' = [generations EXCEPT ![i] = file] /\ damaged' = damaged + 1 /\ written' = written
    BY <1>4, <2>1 DEF Damage
  <2>5. /\ Len(generations') = Len(generations) /\ DOMAIN generations' = DOMAIN generations
        /\ \A j \in DOMAIN generations : j # i => generations'[j] = generations[j]
    BY <1>1, <2>3, <2>4, ExceptSeq
  <2>6. damaged' # 0 /\ (damaged' =< 1 => damaged = 0)
    BY <1>1, <2>4
  <2> QED BY <2>4, <2>5, <2>6 DEF FallbackInv
<1>5. CASE UNCHANGED files
  BY <1>5 DEF files, FallbackInv
<1> QED BY <1>2, <1>3, <1>4, <1>5 DEF Next, TaskStep, Request, Crash, Wake, Enter, Write, Fail, vars

(* "Retain one fallback generation": once two files were written, one      *)
(* damaged file does not leave a start without a catalog, whatever crashes *)
(* and however often pruning is repeated: StartFindsCatalog.               *)
THEOREM FallbackIsKept == Spec => []StartFindsCatalog
<1>1. Init => OrderInv /\ FallbackInv
  <2>1. Init => FallbackInv
    BY EmptySeq DEF Init, FallbackInv
  <2> QED BY <2>1, OrderInvInit DEF FileInv
<1>2. OrderInv /\ FallbackInv /\ [Next]_vars => (OrderInv /\ FallbackInv)'
  BY OrderInvStep, FallbackStep
<1>3. OrderInv /\ FallbackInv => StartFindsCatalog
  <2> SUFFICES ASSUME OrderInv, FallbackInv, written >= 2, damaged =< 1
               PROVE  \E i \in DOMAIN generations : generations[i].readable
    BY DEF StartFindsCatalog
  <2>1. generations \in Seq(Generations) /\ Len(generations) >= 2
    BY DEF OrderInv, Typed, Generations, FallbackInv
  <2>2. 1 \in DOMAIN generations /\ 2 \in DOMAIN generations
    BY <2>1, LenProperties
  <2> QED BY <2>2 DEF FallbackInv
<1> QED BY <1>1, <1>2, <1>3, PTL DEF Spec
-----------------------------------------------------------------------------
(* Every request settles.  The provers know nothing of ENABLED; that no    *)
(* task is stuck where its code does not wait, TasksCanStep, is taken as a *)
(* hypothesis.  A queued task must not be overtaken at the lock for ever   *)
(* either: the hypothesis that publications stop says so here, where a     *)
(* behaviour of the model has MaxRequests of them.                         *)
PublicationsStop == <>[][request' = request]_vars

(* The lock is given back by whoever leaves it.                            *)
LockIsHeld == lock # Nobody => lock \in Requests /\ task[lock] \in Locked
TaskInv == OrderInv /\ LockIsHeld

(* What a task does while nothing is published.                            *)
Goes(n) ==
    \/ task'[n] = task[n]
    \/ task[n] = "sleeping" /\ task'[n] \in {"queued", "over"}
    \/ task[n] = "queued" /\ task'[n] = "over"
    \/ task[n] = "queued" /\ lock = Nobody /\ n = request /\ task'[n] = "writing"
    \/ task[n] = "writing" /\ task'[n] = "renaming"
    \/ task[n] = "renaming" /\ task'[n] = "pruning"
    \/ task[n] \in Locked /\ task'[n] = "over" /\ lock' = Nobody

LEMMA EveryoneGoes ==
    ASSUME Typed, [Next]_vars, request' = request, NEW n \in Requests
    PROVE  Goes(n)
<1> USE DEF Go, files, Typed, Locked
<1>1. CASE Request
  BY <1>1, BoundsAssumption DEF Request
<1>2. ASSUME NEW m \in Requests, Wake(m) \/ Write(m) \/ Rename(m) PROVE Goes(n)
  BY <1>2 DEF Wake, Write, Rename, Goes
<1>3. ASSUME NEW m \in Requests, Enter(m) PROVE Goes(n)
  BY <1>3 DEF Enter, Goes
<1>4. ASSUME NEW m \in Requests, Fail(m) PROVE Goes(n)
  BY <1>4 DEF Fail, Goes
<1>5. ASSUME NEW m \in Requests, Prune(m) PROVE Goes(n)
  BY <1>5 DEF Prune, Goes
<1>6. CASE Crash
  BY <1>6 DEF Crash, Goes, InFlight
<1>7. ASSUME NEW i \in DOMAIN generations, Damage(i) PROVE Goes(n)
  BY <1>7 DEF Damage, Goes
<1>8. CASE UNCHANGED vars
  BY <1>8 DEF vars, Goes
<1> QED BY <1>1, <1>2, <1>3, <1>4, <1>5, <1>6, <1>7, <1>8 DEF Next, TaskStep

LEMMA LockStaysHeld ==
    ASSUME Typed, LockIsWriters, LockIsHeld, [Next]_vars
    PROVE  LockIsHeld'
<1> USE DEF Go, files, Locked, LockIsHeld, Typed
<1>1. CASE Request
  BY <1>1 DEF Request
<1>2. ASSUME NEW m \in Requests, Wake(m) \/ Write(m) \/ Rename(m) PROVE LockIsHeld'
  BY <1>2 DEF Wake, Write, Rename
<1>3. ASSUME NEW m \in Requests, Enter(m) PROVE LockIsHeld'
  BY <1>3 DEF Enter
<1>4. ASSUME NEW m \in Requests, Fail(m) \/ Prune(m) PROVE LockIsHeld'
  BY <1>4 DEF Fail, Prune
<1>5. CASE Crash
  BY <1>5 DEF Crash
<1>6. ASSUME NEW i \in DOMAIN generations, Damage(i) PROVE LockIsHeld'
  BY <1>6 DEF Damage
<1>7. CASE UNCHANGED vars
  BY <1>7 DEF vars
<1> QED BY <1>1, <1>2, <1>3, <1>4, <1>5, <1>6, <1>7 DEF Next, TaskStep

LEMMA TaskInvariant == Spec => []TaskInv
<1>1. Init => TaskInv
  BY OrderInvInit DEF FileInv, TaskInv, LockIsHeld, Init
<1>2. TaskInv /\ [Next]_vars => TaskInv'
  BY OrderInvStep, LockStaysHeld DEF TaskInv, OrderInv
<1> QED BY <1>1, <1>2, PTL DEF Spec

(* The fairness and the hypotheses at any time, and once publications have *)
(* stopped.                                                                *)
Fairness == \A n \in Requests : TaskIsFair(n)
Live == [][Next]_vars /\ []TaskInv /\ Fairness /\ []TasksCanStep
LiveAndStill == Live /\ [][request' = request]_vars

LEMMA StaysLive == Live => []Live
<1>1. ASSUME NEW n \in Requests PROVE TaskIsFair(n) => []TaskIsFair(n)
  BY PTL DEF TaskIsFair
<1>2. (\A n \in Requests : []TaskIsFair(n)) => []Fairness
  BY DEF Fairness
<1>3. Fairness => []Fairness
  <2>1. Fairness => \A n \in Requests : []TaskIsFair(n)
    BY <1>1 DEF Fairness
  <2> QED BY <2>1, <1>2
<1> QED BY <1>3, PTL DEF Live

LEMMA TaskIsLive ==
    ASSUME NEW n \in Requests
    PROVE  Live => TaskIsFair(n) /\ []TaskCanStep(n) /\ [][Next]_vars /\ []TaskInv
<1>1. Fairness => TaskIsFair(n)
  BY DEF Fairness
<1>2. TasksCanStep => TaskCanStep(n)
  BY DEF TasksCanStep
<1> QED BY <1>1, <1>2, PTL DEF Live

LEMMA StillGoes ==
    ASSUME TaskInv, [Next]_vars, [request' = request]_vars, NEW n \in Requests
    PROVE  Goes(n) /\ request' = request
<1>1. request' = request
  BY DEF vars
<1>2. Typed
  BY DEF TaskInv, OrderInv
<1> QED BY <1>1, <1>2, EveryoneGoes

(* A sleeper wakes.                                                        *)
LEMMA SleeperWakes ==
    ASSUME NEW n \in Requests
    PROVE  LiveAndStill => (task[n] = "sleeping" ~> task[n] \in {"queued", "over"})
<1> DEFINE P == task[n] = "sleeping"
           Q == task[n] \in {"queued", "over"}
<1>1. TaskInv /\ P /\ [Next]_vars /\ [request' = request]_vars => P' \/ Q'
  BY StillGoes DEF Goes, Locked
<1>2. TaskInv /\ P /\ <<TaskStep(n)>>_vars => Q'
  BY DEF TaskInv, OrderInv, Typed, TaskStep, Wake, Enter, Write, Rename, Fail, Prune, Go
<1>3. P /\ TaskCanStep(n) => ENABLED <<TaskStep(n)>>_vars
  BY DEF TaskCanStep, InFlight
<1> QED BY <1>1, <1>2, <1>3, TaskIsLive, PTL DEF LiveAndStill, TaskIsFair

(* A task that works under the lock gives it back.                         *)
LEMMA HolderLeaves ==
    ASSUME NEW n \in Requests
    PROVE  LiveAndStill => (task[n] \in Locked ~> task[n] = "over" /\ lock = Nobody)
<1> DEFINE At(place) == task[n] = place
           Q == task[n] = "over" /\ lock = Nobody
<1>1. TaskInv /\ At("writing") /\ [Next]_vars /\ [request' = request]_vars
        => At("writing")' \/ At("renaming")' \/ Q'
  BY StillGoes DEF Goes, Locked
<1>2. TaskInv /\ At("renaming") /\ [Next]_vars /\ [request' = request]_vars
        => At("renaming")' \/ At("pruning")' \/ Q'
  BY StillGoes DEF Goes, Locked
<1>3. TaskInv /\ At("pruning") /\ [Next]_vars /\ [request' = request]_vars
        => At("pruning")' \/ Q'
  BY StillGoes DEF Goes, Locked
<1>4. TaskInv /\ At("writing") /\ <<TaskStep(n)>>_vars => At("renaming")' \/ Q'
  BY DEF TaskInv, OrderInv, Typed, TaskStep, Wake, Enter, Write, Rename, Fail, Prune, Go
<1>5. TaskInv /\ At("renaming") /\ <<TaskStep(n)>>_vars => At("pruning")' \/ Q'
  BY DEF TaskInv, OrderInv, Typed, TaskStep, Wake, Enter, Write, Rename, Fail, Prune, Go
<1>6. TaskInv /\ At("pruning") /\ <<TaskStep(n)>>_vars => Q'
  BY DEF TaskInv, OrderInv, Typed, TaskStep, Wake, Enter, Write, Rename, Fail, Prune, Go
<1>7. (At("writing") \/ At("renaming") \/ At("pruning")) /\ TaskCanStep(n)
        => ENABLED <<TaskStep(n)>>_vars
  BY DEF TaskCanStep, InFlight
<1>8. LiveAndStill => (At("pruning") ~> Q)
  BY <1>3, <1>6, <1>7, TaskIsLive, PTL DEF LiveAndStill, TaskIsFair
<1>9. LiveAndStill => (At("renaming") ~> At("pruning") \/ Q)
  BY <1>2, <1>5, <1>7, TaskIsLive, PTL DEF LiveAndStill, TaskIsFair
<1>10. LiveAndStill => (At("writing") ~> At("renaming") \/ Q)
  BY <1>1, <1>4, <1>7, TaskIsLive, PTL DEF LiveAndStill, TaskIsFair
<1>11. task[n] \in Locked => At("writing") \/ At("renaming") \/ At("pruning")
  BY DEF Locked
<1> QED BY <1>8, <1>9, <1>10, <1>11, PTL

(* Whoever has the lock gives it back.                                     *)
LEMMA LockIsGivenBack == LiveAndStill => []<>(lock = Nobody)
<1> DEFINE Holds(n) == task[n] \in Locked
           Held == \E n \in Requests : Holds(n)
           Free == lock = Nobody
<1>1. LiveAndStill => \A n \in Requests : [](Holds(n) => <>Free)
  <2>1. ASSUME NEW n \in Requests PROVE LiveAndStill => [](Holds(n) => <>Free)
    BY HolderLeaves, PTL
  <2> QED BY <2>1
<1>2. (\A n \in Requests : [](Holds(n) => <>Free)) => [](\A n \in Requests : (Holds(n) => <>Free))
  OBVIOUS
<1>3. (\A n \in Requests : (Holds(n) => <>Free)) => (Held => <>Free)
  OBVIOUS
<1>4. TaskInv => Held \/ Free
  BY DEF TaskInv, LockIsHeld
<1> QED BY <1>1, <1>2, <1>3, <1>4, PTL DEF LiveAndStill, Live

(* Only the last request takes the lock.                                   *)
LEMMA LastTakesLock ==
    ASSUME TaskInv, [Next]_vars, [request' = request]_vars, lock = Nobody
    PROVE  lock' = Nobody \/ (lock' = request /\ request \in Requests /\ task'[request] \in Locked)
<1>1. TaskInv'
  BY OrderInvStep, LockStaysHeld DEF TaskInv, OrderInv
<1> SUFFICES ASSUME lock' # Nobody PROVE lock' = request /\ request \in Requests /\ task'[request] \in Locked
  OBVIOUS
<1>2. PICK m \in Requests : m = lock' /\ task'[m] \in Locked
  BY <1>1 DEF TaskInv, LockIsHeld
<1>3. Goes(m) /\ task[m] \notin Locked
  BY StillGoes DEF TaskInv, OrderInv, LockIsWriters, Nobody, Requests
<1>4. m = request
  BY <1>2, <1>3 DEF Goes, Locked
<1> QED BY <1>2, <1>4

(* The last request is not kept from the lock: nobody else takes it.       *)
LastIsOver == \A n \in Requests : request = n => task[n] \notin InFlight

LEMMA LastSettles ==
    ASSUME NEW n \in Requests
    PROVE  LiveAndStill => [](request = n => <>LastIsOver)
<1> DEFINE Waits == request = n /\ task[n] = "queued"
           Enters == Waits /\ lock = Nobody
           Left == task[n] \in Locked \cup {"over"}
           Done == task[n] = "over"
<1>1. TaskInv /\ Waits /\ [Next]_vars /\ [request' = request]_vars => Waits' \/ Left'
  BY StillGoes DEF Goes, Locked
<1>2. TaskInv /\ Enters /\ [Next]_vars /\ [request' = request]_vars => Enters' \/ Left'
  BY <1>1, LastTakesLock
<1>3. TaskInv /\ Enters /\ <<TaskStep(n)>>_vars => Left'
  BY DEF TaskInv, OrderInv, Typed, TaskStep, Wake, Enter, Write, Rename, Fail, Prune, Go, Locked
<1>4. Enters /\ TaskCanStep(n) => ENABLED <<TaskStep(n)>>_vars
  BY DEF TaskCanStep, InFlight
<1>5. LiveAndStill => (Enters ~> Left)
  BY <1>2, <1>3, <1>4, TaskIsLive, PTL DEF LiveAndStill, TaskIsFair
<1>6. LiveAndStill => (Waits ~> Left)
  BY <1>1, <1>5, LockIsGivenBack, TaskIsLive, PTL DEF LiveAndStill
<1>7. LiveAndStill => (Left ~> Done)
  <2>1. Left => task[n] \in Locked \/ Done
    OBVIOUS
  <2> QED BY <2>1, HolderLeaves, PTL
<1>8. TaskInv /\ request = n /\ [Next]_vars /\ [request' = request]_vars => (request = n)'
  BY DEF vars
<1>9. LiveAndStill => [](request = n => [](request = n))
  BY <1>8, TaskIsLive, PTL DEF LiveAndStill
<1>10. LiveAndStill => (task[n] = "sleeping" ~> task[n] = "queued" \/ Done)
  <2>1. task[n] \in {"queued", "over"} => task[n] = "queued" \/ Done
    OBVIOUS
  <2> QED BY <2>1, SleeperWakes, PTL
<1>11. TaskInv => \/ task[n] \notin InFlight \/ task[n] = "sleeping" \/ task[n] = "queued" \/ Left
  BY DEF InFlight, Locked
<1>12. request = n /\ (Done \/ task[n] \notin InFlight) => LastIsOver
  BY DEF LastIsOver, InFlight
<1> QED BY <1>6, <1>7, <1>9, <1>10, <1>11, <1>12, TaskIsLive, PTL DEF LiveAndStill

(* When the last request is over the lock stays free.                      *)
Clear == LastIsOver /\ lock = Nobody

LEMMA LockComesFree == LiveAndStill => <>[]Clear
<1>1. LiveAndStill => \A n \in Requests : [](request = n => <>LastIsOver)
  BY LastSettles
<1>2. (\A n \in Requests : [](request = n => <>LastIsOver))
         => [](\A n \in Requests : (request = n => <>LastIsOver))
  OBVIOUS
<1> DEFINE Counted == \E n \in Requests : request = n
<1>3. (\A n \in Requests : (request = n => <>LastIsOver)) => (Counted => <>LastIsOver)
  OBVIOUS
<1>4. Counted \/ LastIsOver
  BY DEF LastIsOver
<1>5. TaskInv /\ LastIsOver /\ [Next]_vars /\ [request' = request]_vars => LastIsOver'
  <2> SUFFICES ASSUME TaskInv, LastIsOver, [Next]_vars, [request' = request]_vars,
                      NEW n \in Requests, request' = n
               PROVE  task'[n] \notin InFlight
    BY DEF LastIsOver
  <2>1. Goes(n) /\ request' = request
    BY StillGoes
  <2> QED BY <2>1 DEF LastIsOver, Goes, InFlight, Locked
<1>6. TaskInv /\ Clear /\ [Next]_vars /\ [request' = request]_vars => Clear'
  <2> SUFFICES ASSUME TaskInv, Clear, [Next]_vars, [request' = request]_vars
               PROVE  lock' = Nobody
    BY <1>5 DEF Clear
  <2>1. LastIsOver' /\ request' = request
    BY <1>5 DEF Clear, vars
  <2> QED BY <2>1, LastTakesLock DEF Clear, LastIsOver, Locked, InFlight
<1> QED BY <1>1, <1>2, <1>3, <1>4, <1>5, <1>6, LockIsGivenBack, PTL DEF LiveAndStill, Live, Clear

(* Once nothing is published, every task comes to its end.                 *)
LEMMA TaskSettles ==
    ASSUME NEW n \in Requests
    PROVE  LiveAndStill => (task[n] \in InFlight ~> task[n] = "over")
<1> DEFINE Waits == task[n] = "queued"
           Done == task[n] = "over"
<1>1. TaskInv /\ Waits /\ Clear /\ [Next]_vars /\ [request' = request]_vars => Waits' \/ Done'
  BY StillGoes DEF Goes, Locked, Clear, LastIsOver, InFlight
<1>2. TaskInv /\ Waits /\ Clear /\ <<TaskStep(n)>>_vars => Done'
  BY DEF TaskInv, OrderInv, Typed, TaskStep, Wake, Enter, Write, Rename, Fail, Prune, Go, Clear,
         LastIsOver, InFlight
<1>3. Waits /\ Clear /\ TaskCanStep(n) => ENABLED <<TaskStep(n)>>_vars
  BY DEF TaskCanStep, Clear
<1>4. LiveAndStill => []([]Clear => (Waits => <>Done))
  BY <1>1, <1>2, <1>3, TaskIsLive, PTL DEF LiveAndStill, TaskIsFair
<1>5. TaskInv /\ Waits /\ [Next]_vars /\ [request' = request]_vars
        => Waits' \/ (task[n] \in Locked)' \/ Done'
  BY StillGoes DEF Goes, Locked
<1>6. LiveAndStill => (task[n] \in Locked ~> Done)
  BY HolderLeaves, PTL
<1>7. LiveAndStill => (Waits ~> Done)
  BY <1>4, <1>5, <1>6, LockComesFree, TaskIsLive, PTL DEF LiveAndStill
<1>8. task[n] \in {"queued", "over"} => Waits \/ Done
  OBVIOUS
<1>9. task[n] \in InFlight => task[n] = "sleeping" \/ Waits \/ task[n] \in Locked
  BY DEF InFlight, Locked
<1> QED BY <1>6, <1>7, <1>8, <1>9, SleeperWakes, PTL

(* A task in flight stays so until it is over, whatever is published.      *)
LEMMA StaysInFlight ==
    ASSUME TaskInv, [Next]_vars, NEW n \in Requests, task[n] \in InFlight
    PROVE  task'[n] \in InFlight \cup {"over"}
<1>0. Typed
  BY DEF TaskInv, OrderInv
<1>1. CASE request' = request
  BY <1>0, <1>1, EveryoneGoes DEF Goes, InFlight, Locked
<1>2. CASE request' # request
  <2>1. Request
    BY <1>2 DEF Next, TaskStep, Wake, Enter, Write, Rename, Fail, Prune, Crash, Damage, vars
  <2>2. request' \in Requests
    BY <1>0, <2>1, BoundsAssumption DEF Request, Typed, Requests
  <2> QED BY <1>0, <2>1, <2>2 DEF Request, Go, Typed, InFlight
<1> QED BY <1>1, <1>2

(* Every request settles, however they overtake each other, once           *)
(* publications stop: a task that sleeps, waits or writes ends, whether it *)
(* is the last one or was overtaken (EveryRequestSettles).                 *)
THEOREM RequestsSettle == FairSpec /\ []TasksCanStep /\ PublicationsStop => EveryRequestSettles
<1>1. FairSpec /\ []TasksCanStep => Live
  BY TaskInvariant, PTL DEF FairSpec, Live, Fairness, Spec
<1>2. ASSUME NEW n \in Requests
      PROVE  Live /\ PublicationsStop => (task[n] = "sleeping" ~> task[n] = "over")
  <2> DEFINE Flies == task[n] \in InFlight
             Done == task[n] = "over"
  <2>1. TaskInv /\ Flies /\ [Next]_vars => Flies' \/ Done'
    BY StaysInFlight
  <2>2. task[n] = "sleeping" => Flies
    BY DEF InFlight
  <2>3. Live => [][Next]_vars /\ []TaskInv
    BY PTL DEF Live
  <2>4. Live /\ PublicationsStop => <>LiveAndStill
    BY StaysLive, PTL DEF PublicationsStop, LiveAndStill
  <2> QED BY <2>1, <2>2, <2>3, <2>4, TaskSettles, PTL
<1>3. Live /\ PublicationsStop => EveryRequestSettles
  BY <1>2 DEF EveryRequestSettles
<1> QED BY <1>1, <1>3
=============================================================================
