------------------------- MODULE LibraryRootsProofs -------------------------
(***************************************************************************)
(* Theorems about LibraryRoots, for any folders and any requests, however  *)
(* many of them are removals; the last one is about a single removal.      *)
(***************************************************************************)
EXTENDS LibraryRoots, FiniteSetTheorems, TLAPS

(* Who is about to commit a folder has registered it; who is about to make *)
(* Core forget one has deleted its rows.  Both hold the lease.             *)
CommitsAreRegistered == \A t \in Tasks : pc[t] = "commit" => root[t] \in registered
ForgottenHasNoRows == \A t \in Tasks : pc[t] = "unregister" => root[t] \notin indexed

RegistryInv ==
    TypeOK /\ CommitsAreRegistered /\ ForgottenHasNoRows /\ IndexedIsRegistered

LEMMA RegistryInvInit == Init => RegistryInv
<1> SUFFICES ASSUME Init PROVE RegistryInv
  OBVIOUS
<1>1. TypeOK
  BY NoTaskAssumption DEF Init, TypeOK, Files, Absent, Labels, Leased, Writing
<1> QED BY <1>1
    DEF Init, RegistryInv, CommitsAreRegistered, ForgottenHasNoRows, IndexedIsRegistered

(* Who has the lease keeps it while its place is a leased one, and is at   *)
(* rest when it has given it back.                                         *)
LeaseTyped ==
    /\ pc \in [Tasks -> Labels]
    /\ lease \in Tasks \cup {NoTask}
    /\ \A t \in Tasks : pc[t] \in Leased <=> lease = t

LEMMA KeepsLease ==
    ASSUME TypeOK, NEW t \in Tasks, pc[t] \in Leased,
           NEW label \in Leased, Goto(t, label), UNCHANGED lease
    PROVE  LeaseTyped'
<1>1. label \in Labels /\ lease = t
  BY DEF Labels, TypeOK
<1>2. pc' = [pc EXCEPT ![t] = label]
  BY DEF Goto
<1>3. pc' \in [Tasks -> Labels]
  BY <1>1, <1>2 DEF TypeOK
<1>4. ASSUME NEW u \in Tasks PROVE pc'[u] \in Leased <=> lease' = u
  <2>1. CASE u = t
    BY <2>1, <1>1, <1>2 DEF TypeOK
  <2>2. CASE u # t
    BY <2>2, <1>1, <1>2 DEF TypeOK
  <2> QED BY <2>1, <2>2
<1> QED BY <1>3, <1>4 DEF LeaseTyped, TypeOK

LEMMA GivesLeaseBack ==
    ASSUME TypeOK, NEW t \in Tasks, pc[t] \in Leased, Finish(t)
    PROVE  LeaseTyped'
<1>1. lease = t /\ "done" \in Labels /\ "done" \notin Leased
  BY DEF TypeOK, Labels, Leased, Writing
<1>2. pc' = [pc EXCEPT ![t] = "done"] /\ lease' = NoTask
  BY DEF Finish, Goto
<1>3. pc' \in [Tasks -> Labels]
  BY <1>1, <1>2 DEF TypeOK
<1>4. ASSUME NEW u \in Tasks PROVE pc'[u] \notin Leased /\ lease' # u
  <2>1. CASE u = t
    BY <2>1, <1>1, <1>2, NoTaskAssumption DEF TypeOK
  <2>2. CASE u # t
    BY <2>2, <1>1, <1>2, NoTaskAssumption DEF TypeOK
  <2> QED BY <2>1, <2>2
<1> QED BY <1>2, <1>3, <1>4 DEF LeaseTyped

LEMMA AfterWriteLease ==
    ASSUME TypeOK, NEW t \in Tasks, pc[t] \in Leased, AfterWrite(t)
    PROVE  LeaseTyped'
<1>1. "register" \in Leased /\ "next" \in Leased
  BY DEF Leased
<1>2. kind[t] \in {"index", "refresh", "remove"}
  BY DEF TypeOK
<1>3. CASE kind[t] = "index"
  BY <1>1, <1>3, KeepsLease DEF AfterWrite
<1>4. CASE kind[t] = "refresh"
  BY <1>1, <1>4, KeepsLease DEF AfterWrite
<1>5. CASE kind[t] = "remove"
  BY <1>5, GivesLeaseBack DEF AfterWrite
<1> QED BY <1>2, <1>3, <1>4, <1>5

(* The steps of one request that move the lease are those that take it,    *)
(* and those that finish.                                                  *)
LEMMA TypingStep ==
    ASSUME TypeOK, [Next]_vars
    PROVE  TypeOK'
<1> USE DEF files, stores, mine, Files, Absent, Damaged, Listing, Labels, Leased, Writing,
            At, Goto, Finish, Acquire, AfterWrite, Skip
<1>1. ASSUME NEW t \in Tasks, Arrive(t) PROVE TypeOK'
  BY <1>1, NoTaskAssumption DEF TypeOK, Arrive
<1>2. ASSUME NEW t \in Tasks, BeginIndex(t) PROVE TypeOK'
  BY <1>2, NoTaskAssumption DEF TypeOK, BeginIndex
<1>3. ASSUME NEW t \in Tasks, BeginRefresh(t) PROVE TypeOK'
  BY <1>3, NoTaskAssumption DEF TypeOK, BeginRefresh
<1>4. ASSUME NEW t \in Tasks, Look(t) PROVE TypeOK'
  <2>1. PICK paths \in Configured : seen' = [seen EXCEPT ![t] = paths]
    BY <1>4 DEF Look
  <2>2. paths \in SUBSET Roots
    BY <2>1 DEF Configured, TypeOK
  <2>3. seen' \in [Tasks -> SUBSET Roots]
    BY <2>1, <2>2 DEF TypeOK
  <2>4. pc' \in [Tasks -> Labels]
    BY <1>4 DEF Look, TypeOK
  <2>5. \A u \in Tasks : pc'[u] \in Leased <=> lease' = u
    BY <1>4 DEF Look, TypeOK
  <2> QED BY <1>4, <2>3, <2>4, <2>5 DEF Look, TypeOK
<1>5. ASSUME NEW t \in Tasks, BeginRemove(t) PROVE TypeOK'
  BY <1>5, NoTaskAssumption DEF TypeOK, BeginRemove
<1>6. ASSUME NEW t \in Tasks, Save(t) PROVE TypeOK'
  <2>1. list' \in [Tasks -> SUBSET Roots]
    <3>1. config.paths \in SUBSET Roots /\ root[t] \in Roots
      BY DEF TypeOK
    <3>2. config.paths \cup {root[t]} \in SUBSET Roots
      BY <3>1
    <3>3. list' \in {list, [list EXCEPT ![t] = config.paths \cup {root[t]}]}
      BY <1>6 DEF Save
    <3> QED BY <3>2, <3>3 DEF TypeOK
  <2>2. LeaseTyped'
    <3> HIDE DEF AfterWrite, Goto, Finish
    <3>1. pc[t] \in Leased
      BY <1>6 DEF Save
    <3>2. AfterWrite(t) \/ (Goto(t, "temp") /\ UNCHANGED lease) \/ Finish(t)
      BY <1>6 DEF Save
    <3> QED BY <3>1, <3>2, AfterWriteLease, KeepsLease, GivesLeaseBack
  <2> QED BY <1>6, <2>1, <2>2 DEF LeaseTyped, Save, TypeOK
<1>7. ASSUME NEW t \in Tasks, WriteTemp(t) PROVE TypeOK'
  <2>1. LeaseTyped'
    <3> HIDE DEF AfterWrite, Goto, Finish
    <3>1. pc[t] \in Leased
      BY <1>7 DEF WriteTemp
    <3>2. AfterWrite(t) \/ (Goto(t, "aside") /\ UNCHANGED lease)
      BY <1>7 DEF WriteTemp
    <3> QED BY <3>1, <3>2, AfterWriteLease, KeepsLease, GivesLeaseBack
  <2> QED BY <1>7, <2>1 DEF LeaseTyped, WriteTemp, TypeOK
<1>8. ASSUME NEW t \in Tasks, SetAside(t) PROVE TypeOK'
  <2>1. LeaseTyped'
    <3> HIDE DEF AfterWrite, Goto, Finish
    <3>1. pc[t] \in Leased
      BY <1>8 DEF SetAside
    <3>2. AfterWrite(t) \/ (Goto(t, "replace") /\ UNCHANGED lease)
      BY <1>8 DEF SetAside
    <3> QED BY <3>1, <3>2, AfterWriteLease, KeepsLease, GivesLeaseBack
  <2>3. config' \in Files /\ backup' \in Files
    BY <1>8 DEF SetAside, TypeOK
  <2> QED BY <1>8, <2>1, <2>3 DEF LeaseTyped, SetAside, TypeOK
<1>9. ASSUME NEW t \in Tasks, Replace(t) PROVE TypeOK'
  <2>1. LeaseTyped'
    <3> HIDE DEF AfterWrite, Goto, Finish
    <3>1. pc[t] \in Leased
      BY <1>9 DEF Replace
    <3>2. AfterWrite(t) \/ (Goto(t, "clean") /\ UNCHANGED lease)
      BY <1>9 DEF Replace
    <3> QED BY <3>1, <3>2, AfterWriteLease, KeepsLease, GivesLeaseBack
  <2>3. config' \in Files /\ backup' \in Files
    <3>1. list[t] \in SUBSET Roots
      BY DEF TypeOK
    <3>2. Listing(list[t]) \in Files /\ Absent \in Files
      BY <3>1
    <3>3. config' \in {config, backup, Listing(list[t])} /\ backup' \in {backup, Absent}
      BY <1>9 DEF Replace
    <3> QED BY <3>2, <3>3 DEF TypeOK
  <2> QED BY <1>9, <2>1, <2>3 DEF LeaseTyped, Replace, TypeOK
<1>10. ASSUME NEW t \in Tasks, Clean(t) PROVE TypeOK'
  <2>1. LeaseTyped'
    <3> HIDE DEF AfterWrite, Goto, Finish
    <3>1. pc[t] \in Leased
      BY <1>10 DEF Clean
    <3>2. AfterWrite(t)
      BY <1>10 DEF Clean
    <3> QED BY <3>1, <3>2, AfterWriteLease, KeepsLease, GivesLeaseBack
  <2>3. backup' \in Files /\ removed' \subseteq Roots
    BY <1>10 DEF Clean, TypeOK
  <2> QED BY <1>10, <2>1, <2>3 DEF LeaseTyped, Clean, TypeOK
<1>11. ASSUME NEW t \in Tasks, Register(t) PROVE TypeOK'
  BY <1>11, NoTaskAssumption DEF TypeOK, Register
<1>12. ASSUME NEW t \in Tasks, Commit(t) PROVE TypeOK'
  BY <1>12, NoTaskAssumption DEF TypeOK, Commit
<1>13. ASSUME NEW t \in Tasks, Read(t) PROVE TypeOK'
  <2>1. PICK paths \in Configured : seen' = [seen EXCEPT ![t] = paths]
    BY <1>13 DEF Read
  <2>2. paths \in SUBSET Roots
    BY <2>1 DEF Configured, TypeOK
  <2>3. seen' \in [Tasks -> SUBSET Roots]
    BY <2>1, <2>2 DEF TypeOK
  <2> QED BY <1>13, <2>3 DEF Read, TypeOK
<1>14. ASSUME NEW t \in Tasks, NextRoot(t) PROVE TypeOK'
  <2>1. root' \in [Tasks -> Roots] /\ seen' \in [Tasks -> SUBSET Roots]
    BY <1>14 DEF NextRoot, TypeOK
  <2>2. LeaseTyped'
    <3> HIDE DEF AfterWrite, Goto, Finish
    <3>1. pc[t] \in Leased
      BY <1>14 DEF NextRoot
    <3>2. (Goto(t, "register") /\ UNCHANGED lease) \/ Finish(t)
      BY <1>14 DEF NextRoot
    <3> QED BY <3>1, <3>2, AfterWriteLease, KeepsLease, GivesLeaseBack
  <2> QED BY <1>14, <2>1, <2>2 DEF LeaseTyped, NextRoot, TypeOK
<1>15. ASSUME NEW t \in Tasks, Delete(t) PROVE TypeOK'
  BY <1>15, NoTaskAssumption DEF TypeOK, Delete
<1>16. ASSUME NEW t \in Tasks, Unregister(t) PROVE TypeOK'
  <2>1. registered' \subseteq Roots /\ list' \in [Tasks -> SUBSET Roots]
    BY <1>16 DEF Unregister, TypeOK
  <2> QED BY <1>16, <2>1 DEF Unregister, TypeOK
<1>17. ASSUME Crash PROVE TypeOK'
  BY <1>17, NoTaskAssumption DEF TypeOK, Crash
<1>18. ASSUME Damage PROVE TypeOK'
  BY <1>18 DEF TypeOK, Damage
<1>19. ASSUME UNCHANGED vars PROVE TypeOK'
  BY <1>19 DEF TypeOK, vars
<1> QED
  BY <1>1, <1>2, <1>3, <1>4, <1>5, <1>6, <1>7, <1>8, <1>9, <1>10, <1>11, <1>12, <1>13,
     <1>14, <1>15, <1>16, <1>17, <1>18, <1>19
  DEF Next, Step

(* The rows and the registry change only under the lease, so that of two   *)
(* requests no one commits while another one unregisters.                  *)
LEMMA RegistryInvStep ==
    ASSUME RegistryInv, [Next]_vars
    PROVE  RegistryInv'
<1> USE DEF files, stores, mine, At, Goto, Finish, Acquire, AfterWrite, Skip
<1>0. /\ TypeOK /\ TypeOK'
      /\ CommitsAreRegistered /\ ForgottenHasNoRows /\ IndexedIsRegistered
  BY TypingStep DEF RegistryInv
<1>1. ASSUME NEW t \in Tasks, NEW u \in Tasks,
             pc[t] \in {"commit", "unregister"}, pc[u] \in {"commit", "unregister"}
      PROVE  t = u
  BY <1>0, <1>1 DEF TypeOK, Leased
<1> DEFINE Kept == CommitsAreRegistered' /\ ForgottenHasNoRows' /\ IndexedIsRegistered'
<1>2. ASSUME NEW t \in Tasks,
             Arrive(t) \/ BeginIndex(t) \/ BeginRefresh(t) \/ Look(t) \/ BeginRemove(t)
      PROVE  Kept
  BY <1>0, <1>2 DEF TypeOK, Arrive, BeginIndex, BeginRefresh, Look, BeginRemove,
                    CommitsAreRegistered, ForgottenHasNoRows, IndexedIsRegistered
<1>3. ASSUME NEW t \in Tasks,
             Save(t) \/ WriteTemp(t) \/ SetAside(t) \/ Replace(t) \/ Clean(t)
      PROVE  Kept
  <2>1. UNCHANGED <<stores, root>>
    BY <1>3 DEF Save, WriteTemp, SetAside, Replace, Clean
  <2>2. pc'[t] \notin {"commit", "unregister"}
    BY <1>0, <1>3 DEF TypeOK, Save, WriteTemp, SetAside, Replace, Clean
  <2>3. \A u \in Tasks \ {t} : pc'[u] = pc[u]
    BY <1>0, <1>3 DEF TypeOK, Save, WriteTemp, SetAside, Replace, Clean
  <2> QED BY <1>0, <2>1, <2>2, <2>3
      DEF CommitsAreRegistered, ForgottenHasNoRows, IndexedIsRegistered
<1>4. ASSUME NEW t \in Tasks, Register(t) PROVE Kept
  BY <1>0, <1>4 DEF TypeOK, Register, CommitsAreRegistered, ForgottenHasNoRows, IndexedIsRegistered
<1>5. ASSUME NEW t \in Tasks, Commit(t) PROVE Kept
  <2>1. CommitsAreRegistered'
    BY <1>0, <1>5 DEF TypeOK, Commit, CommitsAreRegistered
  <2>2. IndexedIsRegistered'
    BY <1>0, <1>5 DEF TypeOK, Commit, CommitsAreRegistered, IndexedIsRegistered
  <2>3. \A u \in Tasks : pc'[u] # "unregister"
    BY <1>0, <1>1, <1>5 DEF TypeOK, Commit
  <2> QED BY <2>1, <2>2, <2>3 DEF ForgottenHasNoRows
<1>6. ASSUME NEW t \in Tasks, Read(t) \/ NextRoot(t) PROVE Kept
  BY <1>0, <1>6 DEF TypeOK, Read, NextRoot,
                    CommitsAreRegistered, ForgottenHasNoRows, IndexedIsRegistered
<1>7. ASSUME NEW t \in Tasks, Delete(t) PROVE Kept
  <2>1. CommitsAreRegistered' /\ IndexedIsRegistered'
    BY <1>0, <1>7 DEF TypeOK, Delete, CommitsAreRegistered, IndexedIsRegistered
  <2>2. \A u \in Tasks : pc'[u] = "unregister" => u = t
    BY <1>0, <1>7 DEF TypeOK, Delete, Leased
  <2>3. pc'[t] = "unregister" => root'[t] \notin indexed'
    BY <1>0, <1>7 DEF TypeOK, Delete
  <2> QED BY <2>1, <2>2, <2>3 DEF ForgottenHasNoRows
<1>8. ASSUME NEW t \in Tasks, Unregister(t) PROVE Kept
  <2>1. \A u \in Tasks : pc'[u] \notin {"commit", "unregister"}
    BY <1>0, <1>1, <1>8 DEF TypeOK, Unregister
  <2>2. indexed' \subseteq registered'
    BY <1>0, <1>8 DEF Unregister, ForgottenHasNoRows, IndexedIsRegistered
  <2> QED BY <2>1, <2>2 DEF CommitsAreRegistered, ForgottenHasNoRows, IndexedIsRegistered
<1>9. ASSUME Crash \/ Damage \/ UNCHANGED vars PROVE Kept
  BY <1>0, <1>9 DEF TypeOK, Crash, Damage, vars,
                    CommitsAreRegistered, ForgottenHasNoRows, IndexedIsRegistered
<1>10. Kept
  BY <1>2, <1>3, <1>4, <1>5, <1>6, <1>7, <1>8, <1>9 DEF Next, Step
<1> QED BY <1>0, <1>10 DEF RegistryInv

-----------------------------------------------------------------------------
(* At every step of an indexing, a refresh or a removal, and after a stop   *)
(* between any two of them, Core knows every folder with rows in the       *)
(* database (index_library_to_database_phase, remove_library_root).        *)
THEOREM RowsAreRegistered == Spec => []IndexedIsRegistered
<1>1. RegistryInv /\ [Next]_vars => RegistryInv'
  BY RegistryInvStep
<1>2. RegistryInv => IndexedIsRegistered
  BY DEF RegistryInv
<1> QED BY RegistryInvInit, <1>1, <1>2, PTL DEF Spec

(* Every variable keeps its type, and a request works on the database, the *)
(* registry and libraries.json exactly while it holds the scan lease.      *)
THEOREM RootsTyping == Spec => []TypeOK
<1>1. Init => TypeOK
  BY RegistryInvInit DEF RegistryInv
<1>2. TypeOK /\ [Next]_vars => TypeOK'
  BY TypingStep
<1> QED BY <1>1, <1>2, PTL DEF Spec
-----------------------------------------------------------------------------
(* One removal.  A request that removes keeps to its own steps.            *)
OneRemoval == \A t, u \in Tasks : kind[t] = "remove" /\ kind[u] = "remove" => t = u
OwnSteps ==
    \A t \in Tasks :
        IF kind[t] = "remove" THEN pc[t] \in {"new", "look", "try", "delete", "unregister", "done"} \cup Writing
        ELSE /\ pc[t] \notin {"look", "try", "delete", "unregister"}
             /\ kind[t] = "index" => pc[t] \notin {"read", "next"}

(* A folder is only reported as removed when its rows are gone and a list  *)
(* without it was written.                                                 *)
ReportedLast == removed # {} => \A t \in Tasks : kind[t] = "remove" => pc[t] = "done"
RemovalGoesOn ==
    \A t \in Tasks : kind[t] = "remove" =>
        /\ pc[t] \in {"unregister"} \cup Writing => root[t] \notin indexed
        /\ pc[t] \in Writing => root[t] \notin list[t]

(* No other request that has the lease knows the folder.                   *)
Unknown ==
    \A t \in Tasks : kind[t] # "remove" =>
        /\ pc[t] \in {"save", "register", "commit"} \cup Writing => root[t] \notin removed
        /\ kind[t] = "refresh" /\ pc[t] \in {"next", "save", "register", "commit"} \cup Writing =>
            seen[t] \cap removed = {}
        /\ pc[t] \in Writing => list[t] \cap removed = {}

(* The file that was set aside is put back only in the place of one that   *)
(* is gone, and then does not name the folder.                             *)
FilesFit ==
    /\ config = Absent => removed \cap backup.paths = {}
    /\ \A t \in Tasks : pc[t] = "replace" => config = Absent
    /\ \A t \in Tasks : pc[t] = "clean" => config # Absent /\ config.paths \subseteq list[t]

RemovalInv ==
    OneRemoval /\ OwnSteps /\ ReportedLast /\ RemovalGoesOn /\ Unknown /\ FilesFit /\ RemovedStaysRemoved

LEMMA RemovalInvInit ==
    ASSUME IsFiniteSet(Tasks), MaxRemovals =< 1
    PROVE  Init => RemovalInv
<1> SUFFICES ASSUME Init PROVE RemovalInv
  OBVIOUS
<1> DEFINE Removals == {t \in Tasks : kind[t] = "remove"}
<1>1. OneRemoval
  <2>1. IsFiniteSet(Removals) /\ Cardinality(Removals) =< MaxRemovals
    BY FS_Subset DEF Init
  <2>2. Cardinality(Removals) =< 1 /\ Cardinality(Removals) \in Nat
    BY <2>1, FS_CardinalityType, RemovalsAssumption
  <2>3. SUFFICES ASSUME NEW t \in Tasks, NEW u \in Tasks, kind[t] = "remove", kind[u] = "remove", t # u
                 PROVE  FALSE
    BY DEF OneRemoval
  <2>4. {t, u} \subseteq Removals
    BY <2>3
  <2>5. Cardinality({t, u}) = 2 /\ IsFiniteSet({t, u})
    <3>1. IsFiniteSet({t}) /\ Cardinality({t}) = 1
      BY FS_Singleton
    <3>2. {t, u} = {t} \cup {u}
      OBVIOUS
    <3>3. IsFiniteSet({t} \cup {u}) /\ Cardinality({t} \cup {u}) = Cardinality({t}) + 1
      BY <2>3, <3>1, FS_AddElement
    <3> QED BY <3>1, <3>2, <3>3
  <2>6. Cardinality({t, u}) =< Cardinality(Removals)
    BY <2>1, <2>4, FS_Subset
  <2> QED BY <2>2, <2>5, <2>6
<1> QED
  BY <1>1
  DEF Init, RemovalInv, OwnSteps, ReportedLast, RemovalGoesOn, Unknown, FilesFit, RemovedStaysRemoved,
      Absent, Writing

\* A step of one request leaves the others where they are.
LEMMA OthersStand ==
    ASSUME TypeOK, NEW t \in Tasks, Step(t)
    PROVE  /\ kind' = kind
           /\ \A u \in Tasks : u # t =>
                pc'[u] = pc[u] /\ root'[u] = root[u] /\ seen'[u] = seen[u] /\ list'[u] = list[u]
<1> USE DEF mine, Goto, Finish, AfterWrite, Skip
<1>1. CASE Arrive(t) \/ BeginIndex(t) \/ BeginRefresh(t) \/ Look(t) \/ BeginRemove(t)
  BY <1>1 DEF TypeOK, Arrive, BeginIndex, BeginRefresh, Look, BeginRemove
<1>2. CASE Save(t) \/ WriteTemp(t) \/ SetAside(t) \/ Replace(t) \/ Clean(t)
  BY <1>2 DEF TypeOK, Save, WriteTemp, SetAside, Replace, Clean
<1>3. CASE Register(t) \/ Commit(t) \/ Read(t) \/ NextRoot(t) \/ Delete(t) \/ Unregister(t)
  BY <1>3 DEF TypeOK, Register, Commit, Read, NextRoot, Delete, Unregister
<1> QED BY <1>1, <1>2, <1>3 DEF Step

\* Where a request goes that has not got the lease yet, or gives it back.
LEMMA WaitingSteps ==
    ASSUME TypeOK, RemovalInv, NEW t \in Tasks,
           Arrive(t) \/ BeginIndex(t) \/ BeginRefresh(t) \/ Look(t) \/ BeginRemove(t)
    PROVE  RemovalInv'
<1> USE DEF files, stores, mine, At, Goto, Acquire, Writing
<1>1. /\ OneRemoval /\ OwnSteps /\ ReportedLast /\ RemovalGoesOn /\ Unknown /\ FilesFit /\ RemovedStaysRemoved
      /\ kind' = kind /\ UNCHANGED <<files, stores, root, list>>
      /\ \A u \in Tasks : u # t => pc'[u] = pc[u] /\ seen'[u] = seen[u]
  BY OthersStand DEF Step, RemovalInv, Arrive, BeginIndex, BeginRefresh, Look, BeginRemove
<1>2. pc'[t] \in {"look", "waiting", "save", "done", "read", "try", "delete"}
      /\ (kind[t] = "remove" => pc'[t] \in {"look", "try", "delete", "done"})
      /\ (kind[t] # "remove" => pc'[t] \in {"waiting", "save", "read", "done"})
      /\ (kind[t] = "index" => pc'[t] # "read")
  BY <1>1 DEF TypeOK, OwnSteps, Arrive, BeginIndex, BeginRefresh, Look, BeginRemove
<1>3. removed' \subseteq removed /\ (pc'[t] = "save" => root[t] \notin removed' /\ kind[t] = "index")
  BY DEF TypeOK, Arrive, BeginIndex, BeginRefresh, Look, BeginRemove
<1>4. pc[t] # "done"
  BY DEF Arrive, BeginIndex, BeginRefresh, Look, BeginRemove
<1>5. OneRemoval' /\ OwnSteps'
  BY <1>1, <1>2 DEF OneRemoval, OwnSteps
<1>6. ReportedLast'
  BY <1>1, <1>3, <1>4 DEF ReportedLast
<1>7. RemovalGoesOn' /\ FilesFit' /\ RemovedStaysRemoved'
  BY <1>1, <1>2, <1>3 DEF RemovalGoesOn, FilesFit, RemovedStaysRemoved
<1>8. Unknown'
  BY <1>1, <1>2, <1>3 DEF Unknown
<1> QED BY <1>5, <1>6, <1>7, <1>8 DEF RemovalInv

\* A request that writes the list, and where it goes on.
LEMMA WritingSteps ==
    ASSUME TypeOK, RemovalInv, NEW t \in Tasks,
           WriteTemp(t) \/ SetAside(t) \/ Replace(t) \/ Clean(t)
    PROVE  RemovalInv'
<1> USE DEF files, stores, mine, At, Goto, Finish, Writing
<1>1. /\ OneRemoval /\ OwnSteps /\ ReportedLast /\ RemovalGoesOn /\ Unknown /\ FilesFit /\ RemovedStaysRemoved
      /\ UNCHANGED <<kind, stores, root, list, seen>>
      /\ \A u \in Tasks : u # t => pc'[u] = pc[u]
      /\ pc[t] \in Writing
  BY OthersStand DEF Step, RemovalInv, WriteTemp, SetAside, Replace, Clean
<1>2. kind[t] \in {"index", "refresh", "remove"} /\ config \in Files /\ backup \in Files
      /\ \A u \in Tasks : u # t => pc[u] \notin Leased
  BY <1>1 DEF TypeOK, Leased
<1>3. AfterWrite(t) => pc'[t] = IF kind[t] = "index" THEN "register"
                                ELSE IF kind[t] = "refresh" THEN "next" ELSE "done"
  BY <1>2 DEF TypeOK, AfterWrite
<1>4. \/ AfterWrite(t)
      \/ pc'[t] \in {"aside", "replace", "clean"}
  BY DEF TypeOK, WriteTemp, SetAside, Replace, Clean
<1>5. OneRemoval' /\ OwnSteps'
  BY <1>1, <1>2, <1>3, <1>4 DEF OneRemoval, OwnSteps
<1>6. /\ removed' = removed \/ (kind[t] = "remove" /\ pc[t] = "clean" /\ removed' = removed \cup {root[t]} /\ AfterWrite(t))
  BY DEF WriteTemp, SetAside, Replace, Clean
<1>7. kind[t] = "remove" => removed = {}
  BY <1>1 DEF ReportedLast
<1>8. ReportedLast'
  <2>1. CASE kind[t] = "remove" /\ AfterWrite(t)
    <3>1. pc'[t] = "done" /\ \A u \in Tasks : kind[u] = "remove" => u = t
      BY <1>1, <1>3, <2>1 DEF OneRemoval
    <3> QED BY <1>1, <3>1 DEF ReportedLast
  <2>2. CASE kind[t] = "remove" /\ ~AfterWrite(t)
    BY <1>6, <1>7, <2>2 DEF ReportedLast
  <2>3. CASE kind[t] # "remove"
    BY <1>1, <1>6, <2>3 DEF ReportedLast
  <2> QED BY <2>1, <2>2, <2>3
<1>9. RemovalGoesOn'
  BY <1>1, <1>3, <1>4 DEF RemovalGoesOn
<1>10. Unknown'
  <2>1. ASSUME NEW u \in Tasks, u # t PROVE pc'[u] \notin Leased
    BY <1>1, <1>2, <2>1
  <2>2. kind[t] # "remove" => removed' = removed
    BY <1>6
  <2> QED BY <1>1, <1>2, <1>3, <1>4, <2>1, <2>2 DEF Unknown, Leased
<1>11. config' = config \/ config' = Absent \/ config' = backup \/ config' = Listing(list[t])
  BY DEF WriteTemp, SetAside, Replace, Clean
<1>12. FilesFit' /\ RemovedStaysRemoved'
  <2>1. ASSUME NEW u \in Tasks, u # t PROVE pc'[u] \notin Leased
    BY <1>1, <1>2, <2>1
  <2>2. Absent.paths = {} /\ Absent.is = "absent" /\ Listing(list[t]).paths = list[t] /\ Listing(list[t]) # Absent
    BY DEF Absent, Listing
  <2>3. CASE WriteTemp(t)
    BY <1>1, <1>3, <1>6, <2>1, <2>3 DEF TypeOK, WriteTemp, FilesFit, RemovedStaysRemoved, Leased
  <2>4. CASE SetAside(t)
    BY <1>1, <1>3, <1>6, <2>1, <2>2, <2>4 DEF TypeOK, SetAside, FilesFit, RemovedStaysRemoved, Leased
  <2>5. CASE Replace(t)
    <3>1. removed \cap list[t] = {} /\ config = Absent /\ removed' = removed
      BY <1>1, <1>7, <2>5 DEF Unknown, FilesFit, Replace
    <3>2. CASE config' = Listing(list[t]) /\ pc'[t] = "clean" /\ backup' = backup
      BY <1>1, <2>1, <2>2, <3>1, <3>2 DEF FilesFit, RemovedStaysRemoved, Leased
    <3>3. CASE UNCHANGED files /\ AfterWrite(t)
      BY <1>1, <1>3, <2>1, <3>1, <3>3 DEF FilesFit, RemovedStaysRemoved, Leased
    <3>4. CASE backup # Absent /\ config' = backup /\ backup' = Absent /\ AfterWrite(t)
      BY <1>1, <1>3, <2>1, <2>2, <3>1, <3>4 DEF FilesFit, RemovedStaysRemoved, Leased
    <3> QED BY <2>5, <3>2, <3>3, <3>4 DEF TypeOK, Replace
  <2>6. CASE Clean(t)
    <3>1. config' = config /\ config # Absent /\ config.paths \subseteq list[t] /\ indexed' = indexed /\ AfterWrite(t)
      BY <1>1, <2>6 DEF Clean, FilesFit
    <3>2. kind[t] = "remove" => root[t] \notin indexed /\ root[t] \notin list[t]
      BY <1>1 DEF RemovalGoesOn
    <3> QED BY <1>1, <1>3, <1>6, <2>1, <3>1, <3>2 DEF FilesFit, RemovedStaysRemoved, Leased
  <2> QED BY <2>3, <2>4, <2>5, <2>6
<1> QED BY <1>5, <1>8, <1>9, <1>10, <1>12 DEF RemovalInv

\* An indexing, a refresh or a removal at its work under the lease.
LEMMA WorkingSteps ==
    ASSUME TypeOK, RemovalInv, NEW t \in Tasks,
           \/ Save(t) \/ Register(t) \/ Commit(t) \/ Read(t) \/ NextRoot(t)
           \/ Delete(t) \/ Unregister(t)
    PROVE  RemovalInv'
<1> USE DEF files, stores, mine, At, Goto, Finish, Writing
<1>1. /\ OneRemoval /\ OwnSteps /\ ReportedLast /\ RemovalGoesOn /\ Unknown /\ FilesFit /\ RemovedStaysRemoved
      /\ UNCHANGED <<kind, files, removed>>
      /\ \A u \in Tasks : u # t =>
            pc'[u] = pc[u] /\ root'[u] = root[u] /\ seen'[u] = seen[u] /\ list'[u] = list[u]
      /\ pc[t] \in Leased
  BY OthersStand DEF Step, RemovalInv, Save, Register, Commit, Read, NextRoot, Delete, Unregister, Leased
<1>2. kind[t] \in {"index", "refresh", "remove"} /\ \A u \in Tasks : u # t => pc'[u] \notin Leased
  BY <1>1 DEF TypeOK
<1>3. /\ kind[t] = "remove" => pc[t] \in {"delete", "unregister"} /\ removed = {}
      /\ kind[t] # "remove" => pc[t] \in {"save", "register", "commit", "read", "next"}
  BY <1>1 DEF OwnSteps, ReportedLast, Save, Register, Commit, Read, NextRoot, Delete, Unregister
\* It is enough to look at t.
<1>4. ASSUME kind[t] = "remove", pc'[t] \in {"unregister", "temp", "done"}, root'[t] = root[t],
             pc'[t] = "unregister" => root[t] \notin indexed',
             pc'[t] = "temp" => root[t] \notin indexed' /\ root[t] \notin list'[t]
      PROVE  RemovalInv'
  <2>1. removed' = {}
    BY <1>1, <1>3, <1>4
  <2>2. OneRemoval' /\ OwnSteps' /\ ReportedLast' /\ RemovedStaysRemoved'
    BY <1>1, <1>4, <2>1 DEF OneRemoval, OwnSteps, ReportedLast, RemovedStaysRemoved
  <2>3. RemovalGoesOn'
    BY <1>1, <1>2, <1>4 DEF RemovalGoesOn, Leased
  <2>4. Unknown'
    BY <1>1, <1>4, <2>1 DEF Unknown
  <2>5. FilesFit'
    BY <1>1, <1>2, <1>4, <2>1 DEF FilesFit, Leased
  <2> QED BY <2>2, <2>3, <2>4, <2>5 DEF RemovalInv
<1>5. ASSUME kind[t] # "remove", pc'[t] \in {"save", "register", "commit", "next", "temp", "done"},
             pc'[t] \in {"save", "register", "commit", "temp"} => root'[t] \notin removed,
             kind[t] = "index" => pc'[t] # "next",
             kind[t] = "refresh" /\ pc'[t] # "done" => seen'[t] \cap removed = {},
             pc'[t] = "temp" => list'[t] \cap removed = {},
             indexed' \cap removed = {}
      PROVE  RemovalInv'
  <2>1. OneRemoval' /\ OwnSteps' /\ ReportedLast' /\ RemovedStaysRemoved'
    BY <1>1, <1>5 DEF OneRemoval, OwnSteps, ReportedLast, RemovedStaysRemoved
  <2>2. RemovalGoesOn'
    BY <1>1, <1>2, <1>5 DEF RemovalGoesOn, Leased
  <2>3. Unknown'
    BY <1>1, <1>2, <1>5 DEF Unknown, Leased
  <2>4. FilesFit'
    BY <1>1, <1>2, <1>5 DEF FilesFit, Leased
  <2> QED BY <2>1, <2>2, <2>3, <2>4 DEF RemovalInv
<1>6. CASE Save(t)
  <2>1. kind[t] # "remove" /\ root[t] \notin removed /\ (kind[t] = "refresh" => seen[t] \cap removed = {})
    BY <1>1, <1>3, <1>6 DEF Save, Unknown
  <2>2. UNCHANGED <<root, seen, indexed>> /\ pc'[t] \in {"register", "next", "temp", "done"}
        /\ (kind[t] = "index" => pc'[t] # "next")
        /\ (pc'[t] = "temp" => list'[t] = config.paths \cup {root[t]})
    BY <1>2, <1>6, <2>1 DEF TypeOK, Save, AfterWrite
  <2>3. removed \cap config.paths = {} /\ removed \cap indexed = {}
    BY <1>1 DEF RemovedStaysRemoved
  <2> QED BY <1>5, <2>1, <2>2, <2>3
<1>7. CASE Register(t) \/ Commit(t)
  <2>1. kind[t] # "remove" /\ root[t] \notin removed /\ (kind[t] = "refresh" => seen[t] \cap removed = {})
    BY <1>1, <1>3, <1>7 DEF Register, Commit, Unknown
  <2>2. UNCHANGED <<root, seen, list>> /\ pc'[t] \in {"commit", "save", "next", "done"}
        /\ (kind[t] = "index" => pc'[t] # "next")
        /\ indexed' \subseteq indexed \cup {root[t]}
    BY <1>7 DEF TypeOK, Register, Commit, Skip
  <2>3. removed \cap indexed' = {}
    BY <1>1, <2>1, <2>2 DEF RemovedStaysRemoved
  <2> QED BY <1>5, <2>1, <2>2, <2>3
<1>8. CASE Read(t)
  <2>1. PICK paths \in Configured : seen' = [seen EXCEPT ![t] = paths]
    BY <1>8 DEF Read
  <2>2. seen'[t] = paths /\ paths \subseteq config.paths \cup indexed
    BY <2>1 DEF TypeOK, Configured
  <2>3. kind[t] = "refresh" /\ pc'[t] = "next" /\ UNCHANGED indexed
    BY <1>1, <1>2, <1>3, <1>8 DEF TypeOK, Read, OwnSteps
  <2> QED BY <1>1, <1>5, <2>2, <2>3 DEF RemovedStaysRemoved
<1>9. CASE NextRoot(t)
  <2>1. kind[t] # "remove" /\ (kind[t] = "refresh" => seen[t] \cap removed = {}) /\ UNCHANGED indexed
    BY <1>1, <1>3, <1>9 DEF NextRoot, Unknown
  <2>2. \/ pc'[t] = "done"
        \/ pc'[t] = "register" /\ root'[t] \in seen[t] /\ seen'[t] \subseteq seen[t]
    BY <1>9 DEF TypeOK, NextRoot
  <2>3. kind[t] = "refresh"
    BY <1>1, <1>2, <1>9, <2>1 DEF NextRoot, OwnSteps
  <2> QED BY <1>1, <1>5, <2>1, <2>2, <2>3 DEF RemovedStaysRemoved
<1>10. CASE Delete(t)
  <2>1. kind[t] = "remove" /\ root' = root /\ pc'[t] \in {"unregister", "done"}
        /\ (pc'[t] = "unregister" => root[t] \notin indexed')
    BY <1>3, <1>10 DEF TypeOK, Delete
  <2> QED BY <1>4, <2>1
<1>11. CASE Unregister(t)
  <2>1. kind[t] = "remove" /\ root' = root /\ pc'[t] = "temp" /\ indexed' = indexed /\ root[t] \notin indexed
        /\ root[t] \notin list'[t]
    BY <1>1, <1>3, <1>11 DEF TypeOK, Unregister, RemovalGoesOn
  <2> QED BY <1>4, <2>1
<1> QED BY <1>6, <1>7, <1>8, <1>9, <1>10, <1>11

LEMMA RemovalInvStep ==
    ASSUME TypeOK, RemovalInv, [Next]_vars
    PROVE  RemovalInv'
<1> USE DEF files, stores, mine
<1>1. ASSUME NEW t \in Tasks, Step(t) PROVE RemovalInv'
  BY <1>1, WaitingSteps, WritingSteps, WorkingSteps DEF Step
<1>2. CASE Crash
  <2>1. \A t \in Tasks : pc'[t] \in {"new", "done"} /\ (pc[t] = "done" => pc'[t] = "done")
    BY <1>2 DEF TypeOK, Crash
  <2> QED
    BY <1>2, <2>1
       DEF Crash, RemovalInv, OneRemoval, OwnSteps, ReportedLast, RemovalGoesOn, Unknown, FilesFit,
           RemovedStaysRemoved, Writing
<1>3. CASE Damage
  <2>1. config' # Absent /\ config'.paths = {} /\ config # Absent
        /\ UNCHANGED <<backup, stores, pc, mine, removed>>
    BY <1>3 DEF Damage, Damaged, Absent
  <2> QED
    BY <2>1
       DEF RemovalInv, OneRemoval, OwnSteps, ReportedLast, RemovalGoesOn, Unknown, FilesFit,
           RemovedStaysRemoved
<1>4. CASE UNCHANGED vars
  BY <1>4
     DEF vars, RemovalInv, OneRemoval, OwnSteps, ReportedLast, RemovalGoesOn, Unknown, FilesFit,
         RemovedStaysRemoved
<1> QED BY <1>1, <1>2, <1>3, <1>4 DEF Next

(* With one removal among any number of indexings and refreshes, a folder  *)
(* whose removal was reported does not come back before it is indexed      *)
(* again, neither to the database nor to libraries.json, wherever the      *)
(* process stops and whatever rename fails (remove_library_root,           *)
(* write_library_paths): RemovedStaysRemoved.                              *)
THEOREM RemovedIsGone ==
    ASSUME IsFiniteSet(Tasks), MaxRemovals =< 1
    PROVE  Spec => []RemovedStaysRemoved
<1>1. Init => RemovalInv
  BY RemovalInvInit
<1>2. TypeOK /\ RemovalInv /\ [Next]_vars => RemovalInv'
  BY RemovalInvStep
<1>3. RemovalInv => RemovedStaysRemoved
  BY DEF RemovalInv
<1> QED BY <1>1, <1>2, <1>3, RootsTyping, PTL DEF Spec
=============================================================================
