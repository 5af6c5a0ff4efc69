----------------------------- MODULE CastSession ------------------------------
(***************************************************************************)
(* Playing on a receiver.  A device (use-cast-output.android.ts) creates a *)
(* session and polls it: it reads the row, carries out the command it      *)
(* finds there and reports what the receiver does.  A page                 *)
(* (use-cast-output.ts) shows the current session, sends commands and      *)
(* reads it again when the server's WebSocket says that it has changed     *)
(* (crates/backend/src/api/cast.rs).  All are of one user; the broadcast   *)
(* channel also has the events of others.                                  *)
(***************************************************************************)
EXTENDS Naturals, Sequences

CONSTANTS
    Devices,        \* what plays to a receiver
    Polls,          \* reads of the session that may be under way: nothing keeps them apart
    MaxSessions,    \* how many sessions are created at most
    MaxChanges,     \* how often the rows are changed at most
    MaxForeign,     \* how many events of other users there are at most
    EventBuffer     \* CAST_EVENT_BUFFER

ASSUME CastConstants ==
    MaxSessions \in Nat /\ MaxChanges \in Nat /\ MaxForeign \in Nat /\ EventBuffer \in Nat \ {0}

VARIABLES
    row,            \* cast_session; a status of "none" is no row
    changes,        \* how often the rows have changed
    holds, created, \* each device's backendSession, and the answer it waits for
    poll,           \* what each poll is doing
    events, lagged, \* what the page's receiver of the channel has to take
    foreign,        \* events of other users so far
    socket,         \* the page's WebSocket
    messages,       \* how many "cast_session_changed" are on their way to the page
    fetch,          \* the page's request for the current session
    shown,          \* what the page shows
    missed          \* History: the page has missed a change, and not asked since

rows == <<row, changes>>
device == <<holds, created, poll>>
channel == <<events, lagged, foreign>>
page == <<socket, messages, fetch, shown, missed>>
vars == <<rows, device, channel, page>>

Ids == 1 .. MaxSessions
NoId == 0
Statuses == {"connecting", "playing", "ended", "stopped"}
Active == {"connecting", "playing"}         \* playing is for paused too
Commands == {"none", "play", "stop"}        \* play is for each that the device just does
Row == [status : Statuses \cup {"none"}, revision : 0 .. MaxChanges + 1, command : Commands,
        commanded : 0 .. MaxChanges, acknowledged : 0 .. MaxChanges]
NoRow == [status |-> "none", revision |-> 0, command |-> "none", commanded |-> 0,
          acknowledged |-> 0]
Idle == [at |-> "idle", session |-> NoId, remote |-> NoRow]

(* What the page knows of a session.                                       *)
Nothing == [session |-> NoId, status |-> "none", revision |-> 0]
Unknown == [Nothing EXCEPT !.status = "unknown"]
Sight(i) == [session |-> i, status |-> row[i].status, revision |-> row[i].revision]
IsCurrent(i) == row[i].status \in Active
Current == IF \E i \in Ids : IsCurrent(i) THEN {Sight(i) : i \in {j \in Ids : IsCurrent(j)}}
           ELSE {Nothing}
Sights == [session : Ids \cup {NoId}, status : Statuses \cup {"none", "unknown"},
           revision : 0 .. MaxChanges + 1]

TypeOK ==
    /\ row \in [Ids -> Row]
    /\ \A i \in Ids : row[i].acknowledged <= row[i].commanded
    /\ changes \in 0 .. MaxChanges
    /\ holds \in [Devices -> Ids \cup {NoId}] /\ created \in [Devices -> Ids \cup {NoId}]
    /\ poll \in [Polls -> [at : {"idle", "asked", "read", "stop", "report"},
                           session : Ids \cup {NoId}, remote : Row]]
    /\ events \in Seq({"own", "foreign"}) /\ Len(events) <= EventBuffer
    /\ lagged \in BOOLEAN /\ foreign \in 0 .. MaxForeign
    /\ socket \in {"down", "opening", "up", "lost"} /\ messages \in Nat
    /\ fetch \in [at : {"idle", "asked", "found", "answered"}, sight : Sights]
    /\ shown \in Sights /\ missed \in BOOLEAN

Init ==
    /\ row = [i \in Ids |-> NoRow] /\ changes = 0
    /\ holds = [d \in Devices |-> NoId] /\ created = [d \in Devices |-> NoId]
    /\ poll = [p \in Polls |-> Idle]
    /\ events = <<>> /\ lagged = FALSE /\ foreign = 0
    /\ socket = "down" /\ messages = 0 /\ missed = FALSE
    /\ fetch = [at |-> "asked", sight |-> Nothing] /\ shown = Unknown

-----------------------------------------------------------------------------
(* The server.                                                             *)
Subscribed == socket \in {"opening", "up"}

(* A full channel forgets its oldest event, and the receiver is told.      *)
SendEvent(event) ==
    IF ~Subscribed THEN UNCHANGED <<events, lagged>>
    ELSE /\ events' = Append(IF Len(events) = EventBuffer THEN Tail(events) ELSE events, event)
         /\ lagged' = (lagged \/ Len(events) = EventBuffer)

(* A row is changed in one statement or transaction.  The event follows,   *)
(* unless the request is gone by then and its handler dropped; whoever     *)
(* subscribes in between would have it too.                                *)
Change(rows2) ==
    /\ changes < MaxChanges /\ changes' = changes + 1
    /\ row' = rows2
    /\ \/ /\ SendEvent("own")
          /\ missed' = (missed \/ ~Subscribed)
       \/ /\ missed' = TRUE
          /\ UNCHANGED <<events, lagged>>
    /\ UNCHANGED <<foreign, socket, messages, fetch, shown>>

\* A session that is replaced keeps its revision.
CreateSilently(d) ==
    /\ created[d] = NoId
    /\ \E n \in Ids :
        /\ row[n].status = "none" /\ \A i \in 1 .. n - 1 : row[i].status # "none"
        /\ Change([i \in Ids |->
             IF i = n THEN [NoRow EXCEPT !.status = "connecting", !.revision = 1]
             ELSE IF row[i].status \in Active THEN [row[i] EXCEPT !.status = "stopped"]
             ELSE row[i]])
        /\ created' = [created EXCEPT ![d] = n]
    /\ UNCHANGED <<holds, poll>>

(* create_session stops what the user has that is not ended.               *)
Create(d) ==
    /\ created[d] = NoId
    /\ \E n \in Ids :
        /\ row[n].status = "none" /\ \A i \in 1 .. n - 1 : row[i].status # "none"
        /\ Change([i \in Ids |->
             IF i = n THEN [NoRow EXCEPT !.status = "connecting", !.revision = 1]
             ELSE IF row[i].status \in Active
             THEN [row[i] EXCEPT !.status = "stopped", !.revision = @ + 1]
             ELSE row[i]])
        /\ created' = [created EXCEPT ![d] = n]
    /\ UNCHANGED <<holds, poll>>

Stopped(i) == [row EXCEPT ![i].status = "stopped", ![i].command = "stop",
                          ![i].commanded = @ + 1, ![i].revision = @ + 1]

(* stop_session, from the page: whatever the session is doing.             *)
Stop(i) ==
    /\ row[i].status # "none"
    /\ Change(Stopped(i))
    /\ UNCHANGED device

(* send_command: the row has room for one.                                 *)
SendCommand(i, command) ==
    /\ IsCurrent(i)
    /\ Change([row EXCEPT ![i].command = command, ![i].commanded = @ + 1,
                          ![i].revision = @ + 1])
    /\ UNCHANGED device

OthersEvent ==
    /\ foreign < MaxForeign /\ foreign' = foreign + 1
    /\ SendEvent("foreign")
    /\ UNCHANGED <<rows, device, page>>

\* What was lost is not made up for.
ForwardIgnoringLag ==
    /\ Subscribed
    /\ \/ /\ lagged /\ lagged' = FALSE
          /\ UNCHANGED <<events, messages>>
       \/ /\ ~lagged /\ events # <<>>
          /\ events' = Tail(events)
          /\ messages' = messages + (IF Head(events) = "own" THEN 1 ELSE 0)
          /\ UNCHANGED lagged
    /\ UNCHANGED <<rows, device, foreign, socket, fetch, shown, missed>>

(* session_events.                                                         *)
Forward ==
    /\ Subscribed
    /\ \/ /\ lagged /\ lagged' = FALSE
          /\ messages' = messages + 1
          /\ UNCHANGED events
       \/ /\ ~lagged /\ events # <<>>
          /\ events' = Tail(events)
          /\ messages' = messages + (IF Head(events) = "own" THEN 1 ELSE 0)
          /\ UNCHANGED lagged
    /\ UNCHANGED <<rows, device, foreign, socket, fetch, shown, missed>>

-----------------------------------------------------------------------------
(* The device.                                                             *)
(* The answer to its creation; a newer selection ignores it, or it is lost.*)
Hold(d) ==
    /\ created[d] # NoId
    /\ created' = [created EXCEPT ![d] = NoId]
    /\ \E i \in {created[d], holds[d]} : holds' = [holds EXCEPT ![d] = i]
    /\ UNCHANGED <<rows, poll, channel, page>>

(* The receiver is gone: the device forgets the session and stops it.  If  *)
(* that is lost, the session is left as by an answer that is lost.         *)
Leave(d) ==
    /\ holds[d] # NoId
    /\ holds' = [holds EXCEPT ![d] = NoId]
    /\ Change(Stopped(holds[d]))
    /\ UNCHANGED <<created, poll>>

(* synchronize.                                                            *)
PollAsk(p, d) ==
    /\ poll[p].at = "idle" /\ holds[d] # NoId
    /\ poll' = [poll EXCEPT ![p] = [at |-> "asked", session |-> holds[d], remote |-> NoRow]]
    /\ UNCHANGED <<rows, holds, created, channel, page>>

PollRead(p) ==
    /\ poll[p].at = "asked"
    /\ poll' = [poll EXCEPT ![p].at = "read", ![p].remote = row[poll[p].session]]
    /\ UNCHANGED <<rows, holds, created, channel, page>>

Commanded(p) == poll[p].remote.commanded > poll[p].remote.acknowledged

PollForget(p, d) ==
    /\ poll[p].at = "read" /\ poll[p].remote.status = "stopped"
    /\ poll' = [poll EXCEPT ![p] = Idle]
    /\ holds' = [holds EXCEPT ![d] = NoId]
    /\ UNCHANGED <<rows, created, channel, page>>

PollStop(p, d) ==
    /\ poll[p].at = "read" /\ poll[p].remote.status # "stopped"
    /\ Commanded(p) /\ poll[p].remote.command = "stop"
    /\ poll' = [poll EXCEPT ![p] = Idle]
    /\ holds' = [holds EXCEPT ![d] = NoId]
    /\ Change(Stopped(poll[p].session))
    /\ UNCHANGED <<created>>

(* A command is carried out, and update_state takes the report if nothing  *)
(* has changed since the row was read.                                     *)
Fresh(p) ==
    LET now == row[poll[p].session] IN
    /\ now.revision = poll[p].remote.revision
    /\ now.acknowledged <= poll[p].remote.commanded
    /\ poll[p].remote.commanded <= now.commanded

PollReport(p) ==
    /\ poll[p].at = "read" /\ poll[p].remote.status # "stopped"
    /\ ~(Commanded(p) /\ poll[p].remote.command = "stop")
    /\ Fresh(p)
    /\ \E status \in Statuses \ {"stopped"} :
        Change([row EXCEPT ![poll[p].session].status = status,
                           ![poll[p].session].acknowledged = poll[p].remote.commanded,
                           ![poll[p].session].revision = @ + 1])
    /\ poll' = [poll EXCEPT ![p].at = "report", ![p].remote = NoRow]
    /\ UNCHANGED <<holds, created>>

(* The answer to the report puts back the session that was reported on.    *)
PollEnd(p, d) ==
    /\ poll[p].at = "report"
    /\ holds' = [holds EXCEPT ![d] = poll[p].session]
    /\ poll' = [poll EXCEPT ![p] = Idle]
    /\ UNCHANGED <<rows, created, channel, page>>

(* A request fails, the report was not taken, or the hook has been left.   *)
PollFail(p) ==
    /\ poll[p].at # "idle"
    /\ poll' = [poll EXCEPT ![p] = Idle]
    /\ UNCHANGED <<rows, holds, created, channel, page>>

-----------------------------------------------------------------------------
(* The page.                                                               *)
Ask == fetch' = [at |-> "asked", sight |-> Nothing] /\ missed' = FALSE

(* current_session looks for the session, then reads it.                   *)
Find ==
    /\ fetch.at = "asked"
    /\ \E sight \in Current : fetch' = [at |-> IF sight = Nothing THEN "answered" ELSE "found",
                                        sight |-> sight]
    /\ UNCHANGED <<rows, device, channel, socket, messages, shown, missed>>

ReadCurrent ==
    /\ fetch.at = "found"
    /\ fetch' = [at |-> "answered", sight |-> Sight(fetch.sight.session)]
    /\ UNCHANGED <<rows, device, channel, socket, messages, shown, missed>>

Show ==
    /\ fetch.at = "answered"
    /\ shown' = fetch.sight
    /\ fetch' = [at |-> "idle", sight |-> Nothing]
    /\ UNCHANGED <<rows, device, channel, socket, messages, missed>>

FetchFails ==
    /\ fetch.at # "idle"
    /\ fetch' = [at |-> "idle", sight |-> Nothing]
    /\ missed' = TRUE
    /\ UNCHANGED <<rows, device, channel, socket, messages, shown>>

(* Without a connection the page asks now and then.                        *)
Refetch ==
    /\ socket \in {"down", "opening"} /\ fetch.at = "idle"
    /\ Ask
    /\ UNCHANGED <<rows, device, channel, socket, messages, shown>>

Connect ==
    /\ socket = "down"
    /\ socket' = "opening"
    /\ UNCHANGED <<rows, device, channel, messages, fetch, shown, missed>>

(* Nothing is asked for now, nor when "ready" comes.                       *)
Open ==
    /\ socket = "opening"
    /\ socket' = "up"
    /\ UNCHANGED <<rows, device, channel, messages, fetch, shown, missed>>

(* The connection breaks, with all that is on its way.                     *)
Break ==
    /\ Subscribed
    /\ socket' = IF socket = "up" THEN "lost" ELSE "down"
    /\ events' = <<>> /\ lagged' = FALSE /\ messages' = 0
    /\ missed' = (missed \/ messages > 0 \/ lagged \/ \E n \in DOMAIN events : events[n] = "own")
    /\ UNCHANGED <<rows, device, foreign, fetch, shown>>

Close ==
    /\ socket = "lost"
    /\ socket' = "down"
    /\ UNCHANGED <<rows, device, channel, messages, fetch, shown, missed>>

(* invalidateQueries starts the request again, except the first one, which *)
(* goes on as it is.                                                       *)
Message ==
    /\ socket = "up" /\ messages > 0 /\ messages' = messages - 1
    /\ IF fetch.at # "idle" /\ shown = Unknown
       THEN missed' = TRUE /\ UNCHANGED fetch
       ELSE Ask
    /\ UNCHANGED <<rows, device, channel, socket, shown>>

-----------------------------------------------------------------------------
DeviceStep ==
    \/ \E d \in Devices : \/ Create(d) \/ Hold(d) \/ Leave(d)
                          \/ \E p \in Polls : PollAsk(p, d) \/ PollForget(p, d) \/ PollStop(p, d)
                                              \/ PollEnd(p, d)
    \/ \E p \in Polls : PollRead(p) \/ PollReport(p) \/ PollFail(p)

PageStep ==
    \/ \E i \in Ids : Stop(i) \/ \E command \in Commands \ {"none"} : SendCommand(i, command)
    \/ Find \/ ReadCurrent \/ Show \/ FetchFails \/ Refetch
    \/ Connect \/ Open \/ Break \/ Close \/ Message

ServerStep == OthersEvent \/ Forward

Next == DeviceStep \/ PageStep \/ ServerStep

(* The channel is read, requests are answered, and the page handles its    *)
(* answers, its messages and its timer.                                    *)
Fairness ==
    /\ WF_vars(Forward)
    /\ WF_vars(Find) /\ WF_vars(ReadCurrent) /\ WF_vars(Show)
    /\ WF_vars(Refetch) /\ WF_vars(Open) /\ WF_vars(Message)

Spec == Init /\ [][Next]_vars /\ Fairness

-----------------------------------------------------------------------------
(* A session that has been stopped never plays again: a report that was    *)
(* under way meanwhile is refused (update_state, create_session,           *)
(* stop_session).                                                          *)
StoppedStaysStopped ==
    [][\A i \in Ids : row[i].status = "stopped" => row'[i].status = "stopped"]_vars

(* A page to which nothing is on its way shows the current session as it   *)
(* is, unless it has missed a change: neither an event that a full channel *)
(* forgot nor an answer that was overtaken leaves it behind (SendEvent,    *)
(* session_events, use-cast-output.ts).                                    *)
Coming == messages > 0 \/ lagged \/ \E n \in DOMAIN events : events[n] = "own"
QuietPageIsCurrent ==
    ~missed /\ ~Coming /\ fetch.at = "idle" => shown \in Current

(* Neither the page nor the server's reader is ever stuck where its code   *)
(* does not wait: a request is answered and shown, what the channel has is *)
(* forwarded, and a message is handled, whatever else is under way.        *)
PageCanStep ==
    /\ fetch.at = "asked" => ENABLED <<Find>>_vars
    /\ fetch.at = "found" => ENABLED <<ReadCurrent>>_vars
    /\ fetch.at = "answered" => ENABLED <<Show>>_vars
    /\ Subscribed /\ (lagged \/ events # <<>>) => ENABLED <<Forward>>_vars
    /\ socket = "opening" => ENABLED <<Open>>_vars
    /\ socket = "up" /\ messages > 0 => ENABLED <<Message>>_vars

(* The page comes to show the current session as it is, unless it has      *)
(* missed a change; other users' events never make it miss one             *)
(* (session_events, use-cast-output.ts).                                   *)
PageCatchesUp == []<>(missed \/ shown \in Current)
===============================================================================
