--------------------------- MODULE CastSessionProofs ---------------------------
(***************************************************************************)
(* Theorems about CastSession, for any number of devices, overlapping      *)
(* reads, sessions, changes and foreign events, and a channel of any size: *)
(* a stopped session stays stopped, and a page to which nothing is on its  *)
(* way any more shows the current session.                                 *)
(***************************************************************************)
EXTENDS CastSession, SequenceTheorems, TLAPS

LEMMA ConstantsAreNumbers ==
    MaxSessions \in Nat /\ MaxChanges \in Nat /\ MaxForeign \in Nat /\ EventBuffer \in Nat /\ EventBuffer > 0
  BY CastConstants

-----------------------------------------------------------------------------
(* The rows.  Their numbers are bounded by how often they have changed.    *)
RowAfter(n) == [status : Statuses \cup {"none"}, revision : 0 .. n + 1, command : Commands,
                commanded : 0 .. n, acknowledged : 0 .. n]

RowsTyped ==
    /\ changes \in 0 .. MaxChanges
    /\ row \in [Ids -> RowAfter(changes)]
    /\ \A i \in Ids : row[i].acknowledged <= row[i].commanded

(* Whoever knows of a session has it from a row that is there.             *)
Exists(i) == i \in Ids /\ row[i].status # "none"
KnownExist ==
    /\ holds \in [Devices -> Ids \cup {NoId}] /\ created \in [Devices -> Ids \cup {NoId}]
    /\ \A d \in Devices : /\ holds[d] # NoId => Exists(holds[d])
                          /\ created[d] # NoId => Exists(created[d])

(* What a device has read is how the row was at that revision.             *)
ReadsAgree ==
    /\ poll \in [Polls -> [at : {"idle", "asked", "read", "stop", "report"},
                           session : Ids \cup {NoId}, remote : Row]]
    /\ \A p \in Polls :
        /\ poll[p].at # "idle" => Exists(poll[p].session)
        /\ poll[p].at = "read" =>
            /\ poll[p].remote.revision <= row[poll[p].session].revision
            /\ poll[p].remote.revision = row[poll[p].session].revision
                => row[poll[p].session] = poll[p].remote

RowInv == RowsTyped /\ KnownExist /\ ReadsAgree

(* What a change may do to a row: nothing, or a new revision of it.        *)
Revised(i) ==
    /\ row'[i] \in RowAfter(changes + 1)
    /\ row'[i].acknowledged <= row'[i].commanded
    /\ row[i].status = "none" \/ row[i].revision < row'[i].revision
    /\ row'[i].status # "none"
    /\ row[i].status = "stopped" => row'[i].status = "stopped"
RowChange ==
    /\ changes' = changes + 1 /\ changes' <= MaxChanges
    /\ DOMAIN row' = Ids /\ row' = [i \in Ids |-> row'[i]]
    /\ \A i \in Ids : row'[i] = row[i] \/ Revised(i)
RowStep == UNCHANGED rows \/ RowChange

LEMMA RowFields ==
    ASSUME RowsTyped, NEW i \in Ids
    PROVE  /\ row[i] \in RowAfter(changes)
           /\ row[i].revision \in 0 .. changes + 1 /\ row[i].commanded \in 0 .. changes
           /\ row[i].acknowledged \in 0 .. row[i].commanded
           /\ row[i].status \in Statuses \cup {"none"}
           /\ row[i].command \in Commands
           /\ changes \in Nat
<1>1. row[i] \in RowAfter(changes) /\ changes \in Nat
  BY DEF RowsTyped
<1>2. /\ row[i].revision \in 0 .. changes + 1 /\ row[i].commanded \in 0 .. changes
      /\ row[i].acknowledged \in 0 .. changes
      /\ row[i].status \in Statuses \cup {"none"}
      /\ row[i].command \in Commands
  BY <1>1 DEF RowAfter
<1>3. row[i].acknowledged <= row[i].commanded
  BY DEF RowsTyped
<1> QED BY <1>1, <1>2, <1>3

LEMMA StoppedIsRowChange ==
    ASSUME RowsTyped, NEW i \in Ids, Change(Stopped(i))
    PROVE  RowChange
<1>1. changes' = changes + 1 /\ changes' <= MaxChanges /\ row' = Stopped(i)
  BY CastConstants DEF Change, RowsTyped
<1>2. row' = [row EXCEPT ![i].status = "stopped", ![i].command = "stop",
                        ![i].commanded = @ + 1, ![i].revision = @ + 1]
  BY <1>1 DEF Stopped
<1>3. row \in [Ids -> RowAfter(changes)]
  BY DEF RowsTyped
<1>4. DOMAIN row' = Ids /\ row' = [j \in Ids |-> row'[j]] /\ \A j \in Ids : j # i => row'[j] = row[j]
  BY <1>2, <1>3
<1>6. row[i] \in RowAfter(changes)
  BY RowFields
<1>7. row'[i] = [status |-> "stopped", revision |-> row[i].revision + 1, command |-> "stop",
                commanded |-> row[i].commanded + 1, acknowledged |-> row[i].acknowledged]
  BY <1>2, <1>3, <1>6 DEF RowAfter
<1>8. Revised(i)
  BY <1>7, RowFields DEF Revised, RowAfter, Statuses, Commands
<1> QED BY <1>1, <1>4, <1>8 DEF RowChange

LEMMA CommandIsRowChange ==
    ASSUME RowsTyped, NEW i \in Ids, NEW command \in Commands \ {"none"}, SendCommand(i, command)
    PROVE  RowChange
<1> DEFINE rows2 == [row EXCEPT ![i].command = command, ![i].commanded = @ + 1,
                               ![i].revision = @ + 1]
<1>1. changes' = changes + 1 /\ changes' <= MaxChanges /\ row' = rows2
  BY CastConstants DEF SendCommand, Change, RowsTyped
<1>2. row \in [Ids -> RowAfter(changes)] /\ row[i] \in RowAfter(changes)
  BY DEF RowsTyped
<1>3. DOMAIN row' = Ids /\ row' = [j \in Ids |-> row'[j]] /\ \A j \in Ids : j # i => row'[j] = row[j]
  BY <1>1, <1>2
<1>4. row'[i] = [status |-> row[i].status, revision |-> row[i].revision + 1, command |-> command,
                commanded |-> row[i].commanded + 1, acknowledged |-> row[i].acknowledged]
  BY <1>1, <1>2 DEF RowAfter
<1>5. row[i].status \in {"connecting", "playing"}
  BY DEF SendCommand, IsCurrent, Active
<1>6. Revised(i)
  BY <1>4, <1>5, RowFields DEF Revised, RowAfter
<1> QED BY <1>1, <1>3, <1>6 DEF RowChange

LEMMA CreateIsRowChange ==
    ASSUME RowsTyped, NEW d \in Devices, Create(d)
    PROVE  /\ RowChange
           /\ \E n \in Ids : created' = [created EXCEPT ![d] = n] /\ row'[n].status # "none"
<1> DEFINE Rows(n) ==
        [i \in Ids |->
             IF i = n THEN [NoRow EXCEPT !.status = "connecting", !.revision = 1]
             ELSE IF row[i].status \in Active
             THEN [row[i] EXCEPT !.status = "stopped", !.revision = @ + 1]
             ELSE row[i]]
<1>1. PICK n \in Ids :
        row[n].status = "none" /\ Change(Rows(n)) /\ created' = [created EXCEPT ![d] = n]
  BY DEF Create
<1> HIDE DEF Rows
<1>2. changes' = changes + 1 /\ changes' <= MaxChanges /\ row' = Rows(n) /\ changes \in Nat
  BY <1>1, CastConstants DEF Change, RowsTyped
<1>3. DOMAIN row' = Ids /\ row' = [j \in Ids |-> row'[j]]
  BY <1>2 DEF Rows
<1>4. row'[n] = [status |-> "connecting", revision |-> 1, command |-> "none", commanded |-> 0,
                acknowledged |-> 0]
  BY <1>2 DEF NoRow, Rows
<1>5. Revised(n)
  BY <1>1, <1>2, <1>4 DEF Revised, RowAfter, Statuses, Commands
<1>6. ASSUME NEW i \in Ids, i # n PROVE row'[i] = row[i] \/ Revised(i)
  <2>1. CASE row[i].status \in Active
    <3>1. row[i] \in RowAfter(changes)
      BY RowFields
    <3>2. row'[i] = [row[i] EXCEPT !.status = "stopped", !.revision = @ + 1]
      BY <1>2, <1>6, <2>1 DEF Rows
    <3>3. row'[i] = [status |-> "stopped", revision |-> row[i].revision + 1,
                     command |-> row[i].command, commanded |-> row[i].commanded,
                     acknowledged |-> row[i].acknowledged]
      BY <3>1, <3>2 DEF RowAfter
    <3> QED BY <2>1, <3>3, RowFields DEF Revised, RowAfter, Statuses, Active
  <2> QED BY <1>2, <1>6, <2>1 DEF Rows
<1>7. RowChange
  BY <1>2, <1>3, <1>5, <1>6 DEF RowChange
<1>8. row'[n].status # "none"
  BY <1>4
<1> QED BY <1>1, <1>7, <1>8

(* A report is taken only of a row that is as the device read it, and not  *)
(* stopped therefore.                                                      *)
LEMMA ReportIsRowChange ==
    ASSUME RowInv, NEW p \in Polls, PollReport(p)
    PROVE  RowChange
<1> DEFINE s == poll[p].session
           remote == poll[p].remote
<1>1. s \in Ids /\ row[s].status # "none" /\ remote \in Row
  BY DEF RowInv, ReadsAgree, PollReport, Exists
<1>2. row[s] = remote /\ row[s].status # "stopped"
  BY DEF RowInv, ReadsAgree, PollReport, Fresh
<1>3. PICK status \in Statuses \ {"stopped"} :
        Change([row EXCEPT ![s].status = status, ![s].acknowledged = remote.commanded,
                           ![s].revision = @ + 1])
  BY DEF PollReport
<1> HIDE DEF s, remote
<1>4. /\ changes' = changes + 1 /\ changes' <= MaxChanges
      /\ row' = [row EXCEPT ![s].status = status, ![s].acknowledged = remote.commanded,
                            ![s].revision = @ + 1]
  BY <1>3, CastConstants DEF Change, RowInv, RowsTyped
<1>5. row \in [Ids -> RowAfter(changes)] /\ row[s] \in RowAfter(changes) /\ RowsTyped
  BY <1>1 DEF RowInv, RowsTyped
<1>6. DOMAIN row' = Ids /\ row' = [j \in Ids |-> row'[j]] /\ \A j \in Ids : j # s => row'[j] = row[j]
  BY <1>4, <1>5
<1>7. row'[s] = [status |-> status, revision |-> row[s].revision + 1, command |-> row[s].command,
                commanded |-> row[s].commanded, acknowledged |-> row[s].commanded]
  BY <1>1, <1>2, <1>4, <1>5 DEF RowAfter
<1>8. Revised(s)
  BY <1>1, <1>2, <1>5, <1>7, RowFields DEF Revised, RowAfter, Statuses
<1> QED BY <1>1, <1>4, <1>6, <1>8 DEF RowChange

LEMMA StepsOnRows == RowInv /\ [Next]_vars => RowStep
<1> SUFFICES ASSUME RowInv, [Next]_vars PROVE RowStep
  OBVIOUS
<1> USE DEF RowInv
<1>1. ASSUME NEW d \in Devices, Create(d) PROVE RowStep
  BY <1>1, CreateIsRowChange DEF RowStep
<1>2. ASSUME NEW d \in Devices, Leave(d) PROVE RowStep
  <2>1. holds[d] \in Ids
    BY <1>2 DEF Leave, KnownExist, Exists
  <2> QED BY <1>2, <2>1, StoppedIsRowChange DEF Leave, RowStep
<1>3. ASSUME NEW d \in Devices, NEW p \in Polls, PollStop(p, d) PROVE RowStep
  <2>1. poll[p].session \in Ids
    BY <1>3 DEF PollStop, ReadsAgree, Exists
  <2> QED BY <1>3, <2>1, StoppedIsRowChange DEF PollStop, RowStep
<1>4. ASSUME NEW p \in Polls, PollReport(p) PROVE RowStep
  BY <1>4, ReportIsRowChange DEF RowStep
<1>5. ASSUME NEW i \in Ids, Stop(i) PROVE RowStep
  BY <1>5, StoppedIsRowChange DEF Stop, RowStep
<1>6. ASSUME NEW i \in Ids, NEW command \in Commands \ {"none"}, SendCommand(i, command)
      PROVE  RowStep
  BY <1>6, CommandIsRowChange DEF RowStep
<1>7. ASSUME \/ \E d \in Devices : \/ Hold(d)
                                    \/ \E p \in Polls : PollAsk(p, d) \/ PollForget(p, d)
                                                        \/ PollEnd(p, d)
             \/ \E p \in Polls : PollRead(p) \/ PollFail(p)
             \/ Find \/ ReadCurrent \/ Show \/ FetchFails \/ Refetch
             \/ Connect \/ Open \/ Break \/ Close \/ Message
             \/ ServerStep \/ UNCHANGED vars
      PROVE  RowStep
  BY <1>7 DEF RowStep, Hold, PollAsk, PollForget, PollEnd, PollRead, PollFail, Find, ReadCurrent,
              Show, FetchFails, Refetch, Connect, Open, Break, Close, Message, ServerStep,
              OthersEvent, Forward, rows, vars
<1> QED BY <1>1, <1>2, <1>3, <1>4, <1>5, <1>6, <1>7 DEF Next, DeviceStep, PageStep

LEMMA RowStepKeepsRows ==
    ASSUME RowsTyped, RowStep
    PROVE  /\ RowsTyped'
           /\ \A i \in Ids : Exists(i) => Exists(i)'
           /\ \A i \in Ids : \/ row'[i] = row[i]
                             \/ row[i].status = "none" \/ row[i].revision < row'[i].revision
<1>1. CASE UNCHANGED rows
  BY <1>1 DEF rows, RowsTyped, Exists
<1>2. CASE RowChange
  <2>1. changes \in Nat /\ changes' = changes + 1 /\ changes' \in 0 .. MaxChanges
    BY <1>2, CastConstants DEF RowChange, RowsTyped
  <2>2. ASSUME NEW i \in Ids PROVE row'[i] \in RowAfter(changes') /\ row'[i].acknowledged <= row'[i].commanded
    <3>1. CASE row'[i] = row[i]
      BY <2>1, <3>1, RowFields DEF RowAfter
    <3>2. CASE Revised(i)
      BY <2>1, <3>2 DEF Revised
    <3> QED BY <1>2, <3>1, <3>2 DEF RowChange
  <2>3. row' \in [Ids -> RowAfter(changes')]
    BY <1>2, <2>2 DEF RowChange
  <2>4. RowsTyped'
    BY <2>1, <2>2, <2>3 DEF RowsTyped, RowAfter
  <2> QED BY <1>2, <2>4 DEF RowChange, Revised, Exists
<1> QED BY <1>1, <1>2 DEF RowStep

LEMMA RowInvInit == Init => RowInv
<1> SUFFICES ASSUME Init PROVE RowInv
  OBVIOUS
<1>1. RowsTyped
  BY CastConstants DEF Init, RowsTyped, RowAfter, NoRow, Statuses, Commands
<1>2. KnownExist
  BY DEF Init, KnownExist
<1>3. ReadsAgree
  BY CastConstants DEF Init, ReadsAgree, Idle, Row, NoRow, Statuses, Commands
<1> QED BY <1>1, <1>2, <1>3 DEF RowInv

LEMMA KnownStillExist ==
    ASSUME RowInv, [Next]_vars
    PROVE  KnownExist'
<1>1. RowStep /\ \A i \in Ids : Exists(i) => Exists(i)'
  BY StepsOnRows, RowStepKeepsRows DEF RowInv
<1>2. ASSUME UNCHANGED <<holds, created>> PROVE KnownExist'
  BY <1>1, <1>2 DEF KnownExist, RowInv, Exists
<1>3. ASSUME NEW d \in Devices, NEW i \in Ids \cup {NoId}, i # NoId => Exists(i),
             holds' = [holds EXCEPT ![d] = i], UNCHANGED created
      PROVE  KnownExist'
  BY <1>1, <1>3 DEF KnownExist, RowInv, Exists
<1>4. ASSUME NEW d \in Devices, Create(d) PROVE KnownExist'
  <2>1. PICK n \in Ids : created' = [created EXCEPT ![d] = n] /\ row'[n].status # "none"
    BY <1>4, CreateIsRowChange DEF RowInv
  <2>2. UNCHANGED holds
    BY <1>4 DEF Create
  <2> QED BY <1>1, <2>1, <2>2 DEF KnownExist, RowInv, Exists
<1>5. ASSUME NEW d \in Devices, Hold(d) PROVE KnownExist'
  BY <1>1, <1>5 DEF Hold, KnownExist, RowInv, Exists
<1>6. ASSUME NEW d \in Devices, Leave(d) PROVE KnownExist'
  BY <1>3, <1>6 DEF Leave
<1>7. ASSUME NEW d \in Devices, NEW p \in Polls, PollForget(p, d) \/ PollStop(p, d)
      PROVE  KnownExist'
  BY <1>3, <1>7 DEF PollForget, PollStop
<1>8. ASSUME NEW d \in Devices, NEW p \in Polls, PollEnd(p, d) PROVE KnownExist'
  BY <1>3, <1>8 DEF PollEnd, RowInv, ReadsAgree
<1>9. ASSUME \/ \E p \in Polls, d \in Devices : PollAsk(p, d)
             \/ \E p \in Polls : PollRead(p) \/ PollReport(p) \/ PollFail(p)
             \/ PageStep \/ ServerStep \/ UNCHANGED vars
      PROVE  UNCHANGED <<holds, created>>
  BY <1>9 DEF PollAsk, PollRead, PollReport, PollFail, PageStep, Stop, SendCommand, Find, ReadCurrent,
              Show, FetchFails, Refetch, Connect, Open, Break, Close, Message, ServerStep,
              OthersEvent, Forward, device, vars
<1> QED BY <1>2, <1>4, <1>5, <1>6, <1>7, <1>8, <1>9 DEF Next, DeviceStep

Reading == [at : {"idle", "asked", "read", "stop", "report"}, session : Ids \cup {NoId}, remote : Row]
Agrees(q, r) ==
    /\ q \in Reading
    /\ q.at # "idle" => q.session \in Ids /\ r[q.session].status # "none"
    /\ q.at = "read" =>
        /\ q.remote.revision <= r[q.session].revision
        /\ q.remote.revision = r[q.session].revision => r[q.session] = q.remote

LEMMA RowsAreRows == RowsTyped => \A i \in Ids : row[i] \in Row
<1> SUFFICES ASSUME RowsTyped, NEW i \in Ids PROVE row[i] \in Row
  OBVIOUS
<1>1. row[i] \in RowAfter(changes) /\ changes \in 0 .. MaxChanges
  BY DEF RowsTyped
<1> QED BY <1>1, CastConstants DEF Row, RowAfter

LEMMA StillAgrees ==
    ASSUME RowsTyped, RowStep, NEW q, Agrees(q, row)
    PROVE  Agrees(q, row')
<1>1. CASE q.at = "idle"
  BY <1>1 DEF Agrees
<1>2. CASE q.at # "idle"
  <2>1. q.session \in Ids /\ row[q.session].status # "none" /\ row'[q.session].status # "none"
    BY <1>2, RowStepKeepsRows DEF Agrees, Exists
  <2>2. row'[q.session] = row[q.session] \/ row[q.session].revision < row'[q.session].revision
    BY <2>1, RowStepKeepsRows
  <2>3. CASE q.at = "read"
    <3>1. q.remote.revision \in Nat
      BY CastConstants DEF Agrees, Reading, Row
    <3>2. row[q.session].revision \in Nat
      BY <2>1 DEF RowsTyped, RowAfter
    <3>3. RowsTyped'
      BY RowStepKeepsRows
    <3>4. row'[q.session].revision \in Nat
      BY <2>1, <3>3 DEF RowsTyped, RowAfter
    <3> QED BY <2>1, <2>2, <2>3, <3>1, <3>2, <3>4 DEF Agrees
  <2> QED BY <2>1, <2>3 DEF Agrees
<1> QED BY <1>1, <1>2

PollBecomes(p, q) ==
    /\ poll'[p] = q
    /\ \A r \in Polls : r # p => poll'[r] = poll[r]
    /\ poll' = [r \in Polls |-> poll'[r]]

LEMMA OneReadSteps ==
    ASSUME RowInv, RowStep, NEW p \in Polls, NEW q, Agrees(q, row'), PollBecomes(p, q)
    PROVE  ReadsAgree'
<1>1. poll \in [Polls -> Reading] /\ \A r \in Polls : Agrees(poll[r], row)
  BY DEF RowInv, ReadsAgree, Reading, Agrees, Exists
<1>2. ASSUME NEW r \in Polls PROVE Agrees(poll'[r], row')
  <2>1. CASE r = p
    BY <2>1 DEF PollBecomes
  <2>2. CASE r # p
    <3>1. PICK old : old = poll[r]
      OBVIOUS
    <3>2. Agrees(old, row')
      BY <1>1, <3>1, StillAgrees DEF RowInv
    <3> QED BY <2>2, <3>1, <3>2 DEF PollBecomes
  <2> QED BY <2>1, <2>2
<1>3. poll' \in [Polls -> Reading]
  BY <1>2 DEF Agrees, PollBecomes
<1> QED BY <1>2, <1>3 DEF ReadsAgree, Reading, Agrees, Exists

LEMMA ReadsStillAgree ==
    ASSUME RowInv, [Next]_vars
    PROVE  ReadsAgree'
<1>1. RowStep
  BY StepsOnRows
<1>2. poll \in [Polls -> Reading] /\ \A r \in Polls : Agrees(poll[r], row)
  BY DEF RowInv, ReadsAgree, Reading, Agrees, Exists
<1>3. Agrees(Idle, row')
  BY CastConstants DEF Agrees, Reading, Idle, Row, NoRow, Statuses, Commands
<1>4. ASSUME UNCHANGED poll PROVE ReadsAgree'
  <2>1. ASSUME NEW r \in Polls PROVE Agrees(poll'[r], row')
    <3>1. PICK old : old = poll[r]
      OBVIOUS
    <3>2. Agrees(old, row')
      BY <1>1, <1>2, <3>1, StillAgrees DEF RowInv
    <3> QED BY <1>4, <3>1, <3>2
  <2> QED BY <1>2, <1>4, <2>1 DEF ReadsAgree, Reading, Agrees, Exists
<1>5. ASSUME NEW p \in Polls, NEW d \in Devices,
             PollForget(p, d) \/ PollStop(p, d) \/ PollEnd(p, d) \/ PollFail(p)
      PROVE  ReadsAgree'
  BY <1>1, <1>2, <1>3, <1>5, OneReadSteps DEF PollForget, PollStop, PollEnd, PollFail, PollBecomes
<1>6. ASSUME NEW p \in Polls, NEW d \in Devices, PollAsk(p, d) PROVE ReadsAgree'
  <2>1. PICK q : q = [at |-> "asked", session |-> holds[d], remote |-> NoRow]
    OBVIOUS
  <2>2. holds[d] \in Ids /\ row[holds[d]].status # "none" /\ UNCHANGED rows
    BY <1>6 DEF PollAsk, RowInv, KnownExist, Exists
  <2>3. Agrees(q, row')
    BY <2>1, <2>2, CastConstants DEF rows, Agrees, Reading, Row, NoRow, Statuses, Commands
  <2>4. PollBecomes(p, q)
    BY <1>2, <1>6, <2>1 DEF PollAsk, PollBecomes
  <2> QED BY <1>1, <2>3, <2>4, OneReadSteps
<1>7. ASSUME NEW p \in Polls, PollRead(p) PROVE ReadsAgree'
  <2>1. PICK q : q = [at |-> "read", session |-> poll[p].session, remote |-> row[poll[p].session]]
    OBVIOUS
  <2>2. poll[p].session \in Ids /\ row[poll[p].session].status # "none" /\ UNCHANGED rows
    BY <1>2, <1>7 DEF PollRead, Agrees
  <2>3. row[poll[p].session] \in Row
    BY <2>2, RowsAreRows DEF RowInv
  <2>4. Agrees(q, row')
    BY <2>1, <2>2, <2>3, CastConstants DEF rows, Agrees, Reading, Row
  <2>5. PollBecomes(p, q)
    BY <1>2, <1>7, <2>1 DEF PollRead, Reading, PollBecomes
  <2> QED BY <1>1, <2>4, <2>5, OneReadSteps
<1>8. ASSUME NEW p \in Polls, PollReport(p) PROVE ReadsAgree'
  <2>1. PICK q : q = [at |-> "report", session |-> poll[p].session, remote |-> NoRow]
    OBVIOUS
  <2>2. poll[p].session \in Ids /\ row[poll[p].session].status # "none"
    BY <1>2, <1>8 DEF PollReport, Agrees
  <2>3. Agrees(q, row')
    BY <1>1, <2>1, <2>2, RowStepKeepsRows, CastConstants
    DEF RowInv, Exists, Agrees, Reading, Row, NoRow, Statuses, Commands
  <2>4. PollBecomes(p, q)
    BY <1>2, <1>8, <2>1 DEF PollReport, Reading, PollBecomes
  <2> QED BY <1>1, <2>3, <2>4, OneReadSteps
<1>9. ASSUME \/ \E d \in Devices : Create(d) \/ Hold(d) \/ Leave(d)
             \/ PageStep \/ ServerStep \/ UNCHANGED vars
      PROVE  UNCHANGED poll
  BY <1>9 DEF Create, Hold, Leave, PageStep, Stop, SendCommand, Find, ReadCurrent,
              Show, FetchFails, Refetch, Connect, Open, Break, Close, Message, ServerStep,
              OthersEvent, Forward, device, vars
<1>10. ASSUME NEW p \in Polls, PollFail(p) PROVE ReadsAgree'
  BY <1>1, <1>2, <1>3, <1>10, OneReadSteps DEF PollFail, PollBecomes
<1> QED BY <1>4, <1>5, <1>6, <1>7, <1>8, <1>9, <1>10 DEF Next, DeviceStep

LEMMA RowInvariant == Spec => []RowInv
<1>1. RowInv /\ [Next]_vars => RowInv'
  <2> SUFFICES ASSUME RowInv, [Next]_vars PROVE RowInv'
    OBVIOUS
  <2>1. RowsTyped'
    BY StepsOnRows, RowStepKeepsRows DEF RowInv
  <2> QED BY <2>1, KnownStillExist, ReadsStillAgree DEF RowInv
<1> QED BY RowInvInit, <1>1, PTL DEF Spec

(* A session that has been stopped is never played again: neither by a     *)
(* report that was on its way, however long, nor by a command or by a      *)
(* session that takes its place.                                           *)
THEOREM StoppedForGood == Spec => StoppedStaysStopped
<1>1. RowInv /\ [Next]_vars => [\A i \in Ids : row[i].status = "stopped" => row'[i].status = "stopped"]_vars
  <2> SUFFICES ASSUME RowInv, [Next]_vars, NEW i \in Ids, row[i].status = "stopped"
               PROVE  row'[i].status = "stopped"
    OBVIOUS
  <2>1. RowStep
    BY StepsOnRows
  <2> QED BY <2>1 DEF RowStep, rows, RowChange, Revised
<1> QED BY RowInvariant, <1>1, PTL DEF Spec, StoppedStaysStopped

-----------------------------------------------------------------------------
(* The page.  What it shows is current, or it will hear of the change, or  *)
(* it is asking, and what it is told will be current or followed by word   *)
(* of a change; else it has missed one.                                    *)
ChannelTyped ==
    /\ events \in Seq({"own", "foreign"}) /\ Len(events) <= EventBuffer
    /\ lagged \in BOOLEAN /\ foreign \in 0 .. MaxForeign
    /\ socket \in {"down", "opening", "up", "lost"} /\ messages \in Nat
    /\ missed \in BOOLEAN

FetchTyped ==
    /\ fetch \in [at : {"idle", "asked", "found", "answered"}, sight : Sights]
    /\ shown \in Sights
    /\ fetch.at = "found" => fetch.sight.session \in Ids

Asking == fetch.at = "asked" \/ (fetch.at \in {"found", "answered"} /\ fetch.sight \in Current)
HearsOrKnows == missed \/ Coming \/ Asking \/ (fetch.at = "idle" /\ shown \in Current)

PageInv == ChannelTyped /\ FetchTyped /\ HearsOrKnows

Announced ==
    /\ \/ SendEvent("own") /\ missed' = (missed \/ ~Subscribed)
       \/ missed' = TRUE /\ UNCHANGED <<events, lagged>>
    /\ UNCHANGED <<foreign, socket, messages, fetch, shown>>

LEMMA SendEventKeepsChannel ==
    ASSUME ChannelTyped, NEW event \in {"own", "foreign"}, SendEvent(event)
    PROVE  /\ events' \in Seq({"own", "foreign"}) /\ Len(events') <= EventBuffer
           /\ lagged' \in BOOLEAN
           /\ Subscribed /\ event = "own" => \E n \in DOMAIN events' : events'[n] = "own"
           /\ lagged \/ (\E n \in DOMAIN events : events[n] = "own")
                => lagged' \/ \E n \in DOMAIN events' : events'[n] = "own"
<1> DEFINE S == {"own", "foreign"}
<1>1. CASE ~Subscribed
  BY <1>1 DEF SendEvent, ChannelTyped
<1>2. CASE Subscribed /\ Len(events) # EventBuffer
  <2>1. events' = Append(events, event) /\ lagged' = lagged
    BY <1>2 DEF SendEvent, ChannelTyped
  <2>2. /\ events' \in Seq(S) /\ Len(events') = Len(events) + 1
        /\ events'[Len(events) + 1] = event
        /\ \A n \in 1 .. Len(events) : events'[n] = events[n]
    BY <2>1, AppendProperties DEF ChannelTyped
  <2>3. DOMAIN events = 1 .. Len(events) /\ DOMAIN events' = 1 .. Len(events') /\ Len(events) \in Nat
    BY <2>2 DEF ChannelTyped
  <2>4. Len(events) + 1 \in DOMAIN events' /\ DOMAIN events \subseteq DOMAIN events'
    BY <2>2, <2>3
  <2>5. Len(events') <= EventBuffer
    <3>1. Len(events) <= EventBuffer /\ Len(events) # EventBuffer
      BY <1>2 DEF ChannelTyped
    <3>2. Len(events') = Len(events) + 1 /\ Len(events) \in Nat
      BY <2>2, <2>3
    <3> QED BY <3>1, <3>2, ConstantsAreNumbers
  <2>6. \A n \in DOMAIN events : events'[n] = events[n]
    BY <2>2, <2>3
  <2> QED BY <2>1, <2>2, <2>4, <2>5, <2>6 DEF ChannelTyped
<1>3. CASE Subscribed /\ Len(events) = EventBuffer
  <2>1. events' = Append(Tail(events), event) /\ lagged' = TRUE
    BY <1>3 DEF SendEvent, ChannelTyped
  <2>2. events # <<>>
    BY <1>3, CastConstants DEF ChannelTyped
  <2>3. Tail(events) \in Seq(S) /\ Len(Tail(events)) = Len(events) - 1
    BY <2>2, HeadTailProperties DEF ChannelTyped
  <2>4. events' \in Seq(S) /\ Len(events') = Len(events) /\ events'[Len(events)] = event
    BY <2>1, <2>3, AppendProperties, CastConstants DEF ChannelTyped
  <2>5. Len(events) \in DOMAIN events'
    BY <1>3, <2>4, CastConstants
  <2> QED BY <1>3, <2>1, <2>4, <2>5, CastConstants DEF ChannelTyped
<1> QED BY <1>1, <1>2, <1>3

LEMMA AnnouncedIsHeard ==
    ASSUME PageInv, Announced
    PROVE  PageInv'
<1>1. ChannelTyped
  BY DEF PageInv
<1>2. ChannelTyped' /\ (missed' \/ Coming')
  <2>1. CASE SendEvent("own") /\ missed' = (missed \/ ~Subscribed)
    BY <1>1, <2>1, SendEventKeepsChannel DEF Announced, ChannelTyped, Coming
  <2>2. CASE missed' = TRUE /\ UNCHANGED <<events, lagged>>
    BY <1>1, <2>2 DEF Announced, ChannelTyped, Coming
  <2> QED BY <2>1, <2>2 DEF Announced
<1>3. FetchTyped'
  BY DEF Announced, PageInv, FetchTyped
<1> QED BY <1>2, <1>3 DEF PageInv, HearsOrKnows

LEMMA SightsOfCurrent ==
    ASSUME RowsTyped
    PROVE  /\ \A i \in Ids : Sight(i) \in Sights
           /\ Current \subseteq Sights
           /\ \A sight \in Current : sight # Nothing => sight.session \in Ids
           /\ \A sight \in Current : sight.session \in Ids => Sight(sight.session) \in Current
<1>1. ASSUME NEW i \in Ids PROVE Sight(i) \in Sights
  <2>1. row[i] \in Row
    BY RowsAreRows
  <2> QED BY <2>1 DEF Sight, Sights, Row
<1>2. Nothing = [session |-> NoId, status |-> "none", revision |-> 0] /\ Nothing \in Sights
  BY CastConstants DEF Nothing, Sights
<1>3. \A i \in Ids : Sight(i).session = i /\ i # NoId
  BY DEF Sight, Ids, NoId
<1>4. CASE \E i \in Ids : IsCurrent(i)
  <2>1. \A sight \in Current : \E i \in Ids : IsCurrent(i) /\ sight = Sight(i)
    BY <1>4 DEF Current
  <2> QED BY <1>1, <1>2, <1>3, <2>1
<1>5. CASE ~\E i \in Ids : IsCurrent(i)
  <2>1. Current = {Nothing}
    BY <1>5 DEF Current
  <2>2. Nothing.session \notin Ids
    BY <1>2 DEF NoId, Ids
  <2> QED BY <1>1, <1>2, <2>1, <2>2
<1> QED BY <1>4, <1>5

LEMMA PageInvInit == Init => PageInv
<1> SUFFICES ASSUME Init PROVE PageInv
  OBVIOUS
<1>1. <<>> \in Seq({"own", "foreign"}) /\ Len(<<>>) = 0
  BY EmptySeq
<1>2. ChannelTyped
  <2>1. events = <<>>
    BY DEF Init
  <2>2. events \in Seq({"own", "foreign"}) /\ Len(events) = 0
    BY <1>1, <2>1
  <2>3. Len(events) <= EventBuffer
    BY <2>2, ConstantsAreNumbers
  <2>4. foreign \in 0 .. MaxForeign /\ messages \in Nat
    BY ConstantsAreNumbers DEF Init
  <2> QED BY <2>2, <2>3, <2>4 DEF Init, ChannelTyped
<1>3. FetchTyped
  BY CastConstants DEF Init, FetchTyped, Sights, Nothing, Unknown
<1>4. Asking
  BY DEF Init, Asking
<1> QED BY <1>2, <1>3, <1>4 DEF PageInv, HearsOrKnows

LEMMA ForwardKeepsPage ==
    ASSUME PageInv, Forward
    PROVE  PageInv'
<1>1. UNCHANGED <<rows, foreign, socket, fetch, shown, missed>> /\ Current' = Current
  BY DEF Forward, rows, device, Current, IsCurrent, Sight
<1>2. CASE lagged
  <2>1. lagged' = FALSE /\ messages' = messages + 1 /\ UNCHANGED events
    BY <1>2 DEF Forward
  <2>2. messages' \in Nat /\ messages' > 0
    BY <2>1 DEF PageInv, ChannelTyped
  <2>3. ChannelTyped' /\ Coming'
    BY <1>1, <2>1, <2>2 DEF PageInv, ChannelTyped, Coming
  <2> QED BY <1>1, <2>3 DEF PageInv, FetchTyped, HearsOrKnows
<1>3. CASE ~lagged
  <2>1. /\ events # <<>> /\ events' = Tail(events) /\ lagged' = lagged
        /\ messages' = messages + (IF Head(events) = "own" THEN 1 ELSE 0)
    BY <1>3 DEF Forward
  <2>2. /\ Tail(events) \in Seq({"own", "foreign"}) /\ Len(Tail(events)) = Len(events) - 1
        /\ Head(events) = events[1]
        /\ \A n \in 1 .. Len(Tail(events)) : Tail(events)[n] = events[n + 1]
    BY <2>1, HeadTailProperties DEF PageInv, ChannelTyped
  <2>3. ChannelTyped'
    BY <1>1, <2>1, <2>2, CastConstants DEF PageInv, ChannelTyped
  <2>4. ASSUME NEW n \in DOMAIN events, events[n] = "own" PROVE Coming'
    <3>1. n \in 1 .. Len(events) /\ Len(events) \in Nat /\ messages \in Nat
      BY DEF PageInv, ChannelTyped
    <3>2. CASE n = 1
      BY <2>1, <2>2, <2>4, <3>1, <3>2 DEF Coming
    <3>3. CASE n # 1
      <4>1. n - 1 \in 1 .. Len(Tail(events)) /\ DOMAIN events' = 1 .. Len(events')
        BY <2>1, <2>2, <3>1, <3>3
      <4>2. events'[n - 1] = "own" /\ n - 1 \in DOMAIN events'
        BY <2>1, <2>2, <2>4, <3>1, <4>1
      <4> QED BY <4>2 DEF Coming
    <3> QED BY <3>2, <3>3
  <2>5. Coming => Coming'
    BY <1>3, <2>1, <2>4 DEF Coming, PageInv, ChannelTyped
  <2> QED BY <1>1, <2>3, <2>5 DEF PageInv, FetchTyped, HearsOrKnows, Asking
<1> QED BY <1>2, <1>3

LEMMA PageStepKeepsPage ==
    ASSUME RowInv, PageInv,
           Find \/ ReadCurrent \/ Show \/ FetchFails \/ Refetch
           \/ Connect \/ Open \/ Break \/ Close \/ Message
    PROVE  PageInv'
<1>1. UNCHANGED rows /\ Current' = Current
  BY DEF Find, ReadCurrent, Show, FetchFails, Refetch, Connect, Open, Break, Close, Message,
         rows, Current, IsCurrent, Sight
<1>2. Nothing \in Sights
  BY CastConstants DEF Sights, Nothing
<1> USE <1>1 DEF PageInv, ChannelTyped, FetchTyped, HearsOrKnows, Asking
<1>3. CASE Find
  <2>1. PICK sight \in Current :
            fetch' = [at |-> IF sight = Nothing THEN "answered" ELSE "found", sight |-> sight]
    BY <1>3 DEF Find
  <2>2. sight \in Sights /\ (sight # Nothing => sight.session \in Ids)
    BY SightsOfCurrent DEF RowInv
  <2> QED BY <1>3, <2>1, <2>2 DEF Find, channel, Coming
<1>4. CASE ReadCurrent
  <2>1. fetch.sight.session \in Ids
    BY <1>4 DEF ReadCurrent
  <2>2. fetch' = [at |-> "answered", sight |-> Sight(fetch.sight.session)]
    BY <1>4 DEF ReadCurrent
  <2>3. fetch'.sight \in Sights
    BY <2>1, <2>2, SightsOfCurrent DEF RowInv
  <2>4. fetch.sight \in Current => fetch'.sight \in Current
    BY <2>1, <2>2, SightsOfCurrent DEF RowInv
  <2> QED BY <1>4, <2>2, <2>3, <2>4 DEF ReadCurrent, channel, Coming
<1>5. CASE Show
  BY <1>2, <1>5 DEF Show, channel, Coming
<1>6. CASE FetchFails
  BY <1>2, <1>6 DEF FetchFails, channel, Coming
<1>7. CASE Refetch
  BY <1>2, <1>7 DEF Refetch, Ask, channel, Coming
<1>8. CASE Connect \/ Open \/ Close
  BY <1>8 DEF Connect, Open, Close, channel, Coming
<1>9. CASE Break
  <2>1. <<>> \in Seq({"own", "foreign"}) /\ Len(<<>>) = 0
    BY EmptySeq
  <2>2. events' \in Seq({"own", "foreign"}) /\ Len(events') <= EventBuffer
    BY <1>9, <2>1, ConstantsAreNumbers DEF Break
  <2>3. messages' \in Nat /\ lagged' \in BOOLEAN /\ missed' \in BOOLEAN
    BY <1>9 DEF Break
  <2>4. foreign' \in 0 .. MaxForeign /\ socket' \in {"down", "opening", "up", "lost"}
    BY <1>9 DEF Break
  <2>5. Coming => missed'
    BY <1>9 DEF Break, Coming
  <2> QED BY <1>9, <2>2, <2>3, <2>4, <2>5 DEF Break
<1>10. CASE Message
  <2>1. messages' \in Nat /\ UNCHANGED <<events, lagged, foreign, socket, shown>>
    BY <1>10 DEF Message, channel
  <2>2. CASE fetch.at # "idle" /\ shown = Unknown
    <3>1. missed' = TRUE /\ UNCHANGED fetch
      BY <1>10, <2>2 DEF Message
    <3> QED BY <2>1, <3>1
  <2>3. CASE ~(fetch.at # "idle" /\ shown = Unknown)
    <3>1. missed' = FALSE /\ fetch' = [at |-> "asked", sight |-> Nothing]
      BY <1>10, <2>3 DEF Message, Ask
    <3> QED BY <1>2, <2>1, <3>1
  <2> QED BY <2>2, <2>3
<1> QED BY <1>3, <1>4, <1>5, <1>6, <1>7, <1>8, <1>9, <1>10

RowsChange ==
    \/ \E d \in Devices : Create(d) \/ Leave(d) \/ \E p \in Polls : PollStop(p, d)
    \/ \E p \in Polls : PollReport(p)
    \/ \E i \in Ids : Stop(i) \/ \E command \in Commands \ {"none"} : SendCommand(i, command)

LEMMA ChangesAreAnnounced == RowsChange => Announced
<1>1. ASSUME \E d \in Devices : Create(d) \/ Leave(d) PROVE Announced
  BY <1>1 DEF Create, Leave, Change, Announced
<1>2. ASSUME NEW p \in Polls, PollReport(p) \/ \E d \in Devices : PollStop(p, d) PROVE Announced
  BY <1>2 DEF PollStop, PollReport, Change, Announced
<1>3. ASSUME NEW i \in Ids, Stop(i) \/ \E command \in Commands \ {"none"} : SendCommand(i, command)
      PROVE  Announced
  BY <1>3 DEF Stop, SendCommand, Change, Announced
<1> QED BY <1>1, <1>2, <1>3 DEF RowsChange

LEMMA PageInvariant == Spec => []PageInv
<1>1. RowInv /\ PageInv /\ [Next]_vars => PageInv'
  <2> SUFFICES ASSUME RowInv, PageInv, [Next]_vars PROVE PageInv'
    OBVIOUS
  <2>1. ASSUME RowsChange PROVE Announced
    BY <2>1, ChangesAreAnnounced
  <2>2. ASSUME OthersEvent PROVE PageInv'
    <3>1. UNCHANGED <<rows, page>> /\ Current' = Current
      BY <2>2 DEF OthersEvent, rows, Current, IsCurrent, Sight
    <3>2. ChannelTyped'
      BY <2>2, <3>1, SendEventKeepsChannel, CastConstants DEF OthersEvent, PageInv, ChannelTyped, page
    <3>3. Coming => Coming'
      BY <2>2, <3>1, SendEventKeepsChannel DEF OthersEvent, PageInv, Coming, page
    <3> QED BY <3>1, <3>2, <3>3 DEF PageInv, FetchTyped, HearsOrKnows, Asking, page
  <2>3. ASSUME \/ \E d \in Devices : \/ Hold(d)
                                      \/ \E p \in Polls : PollAsk(p, d) \/ PollForget(p, d)
                                                          \/ PollEnd(p, d)
               \/ \E p \in Polls : PollRead(p) \/ PollFail(p)
               \/ UNCHANGED vars
        PROVE  PageInv'
    <3>1. UNCHANGED <<rows, channel, page>> /\ Current' = Current
      BY <2>3 DEF Hold, PollAsk, PollForget, PollEnd, PollRead, PollFail, vars, rows, Current, IsCurrent, Sight
    <3> QED BY <3>1 DEF PageInv, ChannelTyped, FetchTyped, HearsOrKnows, Asking, Coming, channel, page
  <2> QED BY <2>1, <2>2, <2>3, AnnouncedIsHeard, ForwardKeepsPage, PageStepKeepsPage
          DEF Next, DeviceStep, PageStep, ServerStep, RowsChange
<1> QED BY PageInvInit, RowInvariant, <1>1, PTL DEF Spec

(* The variables keep their types; no row counts further than it has been  *)
(* changed, and the channel never holds more than its buffer.              *)
THEOREM CastTyping == Spec => []TypeOK
<1>1. RowInv /\ PageInv => TypeOK
  <2> SUFFICES ASSUME RowInv, PageInv PROVE TypeOK
    OBVIOUS
  <2>1. row \in [Ids -> Row]
    BY RowsAreRows DEF RowInv, RowsTyped
  <2> QED BY <2>1 DEF TypeOK, RowInv, RowsTyped, KnownExist, ReadsAgree, PageInv, ChannelTyped, FetchTyped
<1> QED BY RowInvariant, PageInvariant, <1>1, PTL

(* A page to which nothing is on its way, and which has not missed a       *)
(* change, shows the current session, whatever events were forgotten and   *)
(* whichever answers overtook each other.                                  *)
THEOREM QuietPage == Spec => []QuietPageIsCurrent
<1>1. PageInv => QuietPageIsCurrent
  BY DEF PageInv, HearsOrKnows, Asking, QuietPageIsCurrent
<1> QED BY PageInvariant, <1>1, PTL

-----------------------------------------------------------------------------
(* The page catches up.  The provers know nothing of ENABLED; that the     *)
(* page is not stuck, PageCanStep, is taken as a hypothesis.  So is that   *)
(* the channel and the socket come to be empty of news: how many steps     *)
(* that takes depends on how much they hold.                               *)
NewsRunsOut == <>[]~Coming

(* Nothing is on its way, and the page has missed nothing.                 *)
Calm == RowInv /\ PageInv /\ ~Coming /\ ~missed
At(place) == fetch.at = place
Shows == shown \in Current

LEMMA AnswersCome ==
    ASSUME Calm, Calm', [Next]_vars
    PROVE  /\ At("asked") => fetch'.at \in {"asked", "found", "answered"}
           /\ At("found") => fetch'.at \in {"found", "answered"}
           /\ At("answered") => fetch'.at \in {"answered", "idle"}
<1> USE DEF Calm, At
<1>0. fetch \in [at : {"idle", "asked", "found", "answered"}, sight : Sights]
  BY DEF PageInv, FetchTyped
<1>1. CASE UNCHANGED fetch
  BY <1>0, <1>1
<1>2. ASSUME RowsChange PROVE UNCHANGED fetch
  BY <1>2, ChangesAreAnnounced DEF Announced
<1>3. CASE ServerStep
  <2>1. UNCHANGED fetch
    BY <1>3 DEF ServerStep, OthersEvent, Forward, page
  <2> QED BY <1>1, <2>1
<1>4. CASE Find \/ ReadCurrent \/ Show
  BY <1>4, <1>0 DEF Find, ReadCurrent, Show
<1>5. CASE FetchFails \/ Refetch \/ Message
  <2>1. messages = 0
    BY DEF Coming, PageInv, ChannelTyped
  <2> QED BY <1>5, <2>1 DEF FetchFails, Refetch, Message
<1>6. ASSUME \/ \E d \in Devices : \/ Hold(d)
                                    \/ \E p \in Polls : PollAsk(p, d) \/ PollForget(p, d)
                                                        \/ PollEnd(p, d)
             \/ \E p \in Polls : PollRead(p) \/ PollFail(p)
             \/ Connect \/ Open \/ Break \/ Close
             \/ UNCHANGED vars
      PROVE  UNCHANGED fetch
  <2>1. CASE Connect \/ Open \/ Break \/ Close
    BY <2>1 DEF Connect, Open, Break, Close
  <2>2. CASE ~(Connect \/ Open \/ Break \/ Close)
    BY <1>6, <2>2 DEF Hold, PollAsk, PollForget, PollEnd, PollRead, PollFail, vars, page
  <2> QED BY <2>1, <2>2
<1> QED BY <1>1, <1>2, <1>3, <1>4, <1>5, <1>6 DEF Next, DeviceStep, PageStep, RowsChange

LEMMA PageIsFair == Spec => WF_vars(Find) /\ WF_vars(ReadCurrent) /\ WF_vars(Show)
BY PTL DEF Spec, Fairness

(* The page comes to show the current session as it is, unless it has      *)
(* missed a change, once what was on its way has arrived: whatever request *)
(* is under way then, its answer is the current session (PageCatchesUp).   *)
THEOREM PageCatches == Spec /\ []PageCanStep /\ NewsRunsOut => PageCatchesUp
<1>1. Calm /\ At("asked") /\ [Next]_vars /\ Calm' => At("asked")' \/ At("found")' \/ At("answered")'
  BY AnswersCome DEF At
<1>2. Calm /\ At("found") /\ [Next]_vars /\ Calm' => At("found")' \/ At("answered")'
  BY AnswersCome DEF At
<1>3. Calm /\ At("answered") /\ [Next]_vars /\ Calm' => At("answered")' \/ At("idle")'
  BY AnswersCome DEF At
<1>4. Calm /\ At("asked") /\ <<Find>>_vars => At("found")' \/ At("answered")'
  BY DEF Find, At
<1>5. Calm /\ At("found") /\ <<ReadCurrent>>_vars => At("answered")'
  BY DEF ReadCurrent, At
<1>6. Calm /\ At("answered") /\ <<Show>>_vars => At("idle")'
  BY DEF Show, At
<1>7. /\ PageCanStep /\ At("asked") => ENABLED <<Find>>_vars
      /\ PageCanStep /\ At("found") => ENABLED <<ReadCurrent>>_vars
      /\ PageCanStep /\ At("answered") => ENABLED <<Show>>_vars
  BY DEF PageCanStep, At
<1>8. /\ Calm => At("asked") \/ At("found") \/ At("answered") \/ At("idle")
      /\ Calm /\ At("idle") => Shows
  BY DEF Calm, PageInv, FetchTyped, HearsOrKnows, Asking, At, Shows
<1> DEFINE Caught == missed \/ Shows
<1>9. Spec => [][Next]_vars /\ []RowInv /\ []PageInv
  BY RowInvariant, PageInvariant, PTL DEF Spec
<1>10. [](RowInv /\ PageInv) /\ []~Coming /\ []~missed => []Calm
  BY PTL DEF Calm
<1>11. [][Next]_vars /\ []Calm /\ []PageCanStep /\ WF_vars(Show)
         => (At("answered") ~> At("idle"))
  BY <1>3, <1>6, <1>7, PTL
<1>12. [][Next]_vars /\ []Calm /\ []PageCanStep /\ WF_vars(ReadCurrent)
         => (At("found") ~> At("answered"))
  BY <1>2, <1>5, <1>7, PTL
<1>13. [][Next]_vars /\ []Calm /\ []PageCanStep /\ WF_vars(Find)
         => (At("asked") ~> At("found") \/ At("answered"))
  BY <1>1, <1>4, <1>7, PTL
<1>14. [][Next]_vars /\ []Calm /\ []PageCanStep /\ WF_vars(Find) /\ WF_vars(ReadCurrent) /\ WF_vars(Show)
         => <>Shows
  BY <1>8, <1>11, <1>12, <1>13, PTL
<1>15. Spec /\ []PageCanStep /\ NewsRunsOut => []<>Caught
  BY <1>9, <1>10, <1>14, PageIsFair, PTL DEF NewsRunsOut
<1> QED BY <1>15 DEF PageCatchesUp, Shows
===============================================================================
