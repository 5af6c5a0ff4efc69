------------------------------ MODULE ScanSlot ------------------------------
(***************************************************************************)
(* The single-flight scan slot of LibraryLifecycle                         *)
(* (crates/backend/src/library/state.rs, try_begin_scan and                *)
(* begin_replacing_scan).                                                  *)
(*                                                                         *)
(* A scan owns the slot through a fair (first come, first served) mutex,   *)
(* and is told to stop through a cancellation token.  The newest token is  *)
(* kept beside the mutex, in active_scan, under a lock of its own: taking  *)
(* the mutex and changing active_scan are two separate steps, in one order *)
(* for a scan that only tries and in the other order for a folder          *)
(* selection that replaces the running scan.                               *)
(*                                                                         *)
(* A scan request is identified with its token: each request makes a fresh *)
(* one and is served at most once.                                         *)
(***************************************************************************)
EXTENDS Naturals, Sequences

CONSTANTS
    Scans,      \* the scan requests, one token each
    Startup,    \* the scan that loads the library when the server starts
    NoScan      \* the free mutex

ASSUME ScansAssumption == Startup \in Scans /\ NoScan \notin Scans

VARIABLES
    holder,     \* the scan the mutex is granted to, or NoScan
    queue,      \* the scans waiting for the mutex, oldest first
    active,     \* active_scan: the token installed last
    cancelled,  \* the tokens that have been cancelled
    selected,   \* the scans that entered through begin_replacing_scan
    phase       \* how far each request has come

slotVars == <<holder, queue, active, cancelled, selected, phase>>

Phases == {"out", "install", "enqueue", "queued", "leased", "left"}

SlotTypeOK ==
    /\ holder \in Scans \cup {NoScan}
    /\ queue \in Seq(Scans)
    /\ active \in Scans
    /\ cancelled \subseteq Scans
    /\ selected \subseteq Scans
    /\ phase \in [Scans -> Phases]

(* server.rs takes the first lease before any request can be served. *)
SlotInit ==
    /\ holder = Startup
    /\ queue = <<>>
    /\ active = Startup
    /\ cancelled = {}
    /\ selected = {}
    /\ phase = [s \in Scans |-> IF s = Startup THEN "leased" ELSE "out"]

Advance(s, from, to) ==
    /\ phase[s] = from
    /\ phase' = [phase EXCEPT ![s] = to]

(* A faulty release: the mutex is unlocked and nobody is woken.            *)
UnlockOnly ==
    /\ holder' = NoScan
    /\ UNCHANGED queue

(* Dropping the guard hands the mutex straight to the oldest waiter. *)
HandOver ==
    /\ holder' = IF queue = <<>> THEN NoScan ELSE Head(queue)
    /\ queue' = IF queue = <<>> THEN queue ELSE Tail(queue)

-----------------------------------------------------------------------------
(* try_begin_scan: the mutex first, then the token. *)

(* A faulty attempt: it does not look whether the mutex is free.           *)
TryBeginBlindly(s) ==
    /\ Advance(s, "out", "install")
    /\ holder' = s
    /\ UNCHANGED <<queue, active, cancelled, selected>>

TryBegin(s) ==
    /\ holder = NoScan
    /\ Advance(s, "out", "install")
    /\ holder' = s
    /\ UNCHANGED <<queue, active, cancelled, selected>>

Refuse(s) ==
    /\ holder # NoScan
    /\ Advance(s, "out", "left")
    /\ UNCHANGED <<holder, queue, active, cancelled, selected>>

Install(s) ==
    /\ Advance(s, "install", "leased")
    /\ active' = s
    /\ UNCHANGED <<holder, queue, cancelled, selected>>

-----------------------------------------------------------------------------
(* begin_replacing_scan: swap the token and cancel the one it replaces,    *)
(* then wait for the mutex, then look at the own token.                    *)

(* A faulty swap: it cancels the token it has just installed.              *)
SelectSwapped(s) ==
    /\ Advance(s, "out", "enqueue")
    /\ active' = s
    /\ cancelled' = cancelled \cup {active'}
    /\ selected' = selected \cup {s}
    /\ UNCHANGED <<holder, queue>>

Select(s) ==
    /\ Advance(s, "out", "enqueue")
    /\ active' = s
    /\ cancelled' = cancelled \cup {active}
    /\ selected' = selected \cup {s}
    /\ UNCHANGED <<holder, queue>>

Enqueue(s) ==
    /\ Advance(s, "enqueue", "queued")
    /\ \/ /\ holder = NoScan
          /\ holder' = s
          /\ UNCHANGED queue
       \/ /\ holder # NoScan
          /\ queue' = Append(queue, s)
          /\ UNCHANGED holder
    /\ UNCHANGED <<active, cancelled, selected>>

Admit(s) ==
    /\ holder = s
    /\ s \notin cancelled
    /\ Advance(s, "queued", "leased")
    /\ UNCHANGED <<holder, queue, active, cancelled, selected>>

StandDown(s) ==
    /\ holder = s
    /\ s \in cancelled
    /\ Advance(s, "queued", "left")
    /\ HandOver
    /\ UNCHANGED <<active, cancelled, selected>>

(* The lease is dropped. *)
Leave(s) ==
    /\ Advance(s, "leased", "left")
    /\ HandOver
    /\ UNCHANGED <<active, cancelled, selected>>

SlotStep(s) ==
    \/ TryBegin(s) \/ Refuse(s) \/ Install(s)
    \/ Select(s) \/ Enqueue(s) \/ Admit(s) \/ StandDown(s)
    \/ Leave(s)

SlotNext == \E s \in Scans : SlotStep(s)

SlotSpec == SlotInit /\ [][SlotNext]_slotVars

-----------------------------------------------------------------------------
(* At most one scan has the slot: a second indexer never starts writing    *)
(* the library database while the first still can (test                    *)
(* library_scans_are_single_flight).                                       *)
LeaseExclusion ==
    \A s, t \in Scans :
        phase[s] \in {"install", "leased"} /\ phase[t] \in {"install", "leased"} => s = t

(* The mutex is never free while somebody waits for it: a released slot is *)
(* always handed on, whatever the interleaving of the arrivals.            *)
NoLostWaiter ==
    \A s \in Scans :
        phase[s] = "queued" =>
            /\ holder # NoScan
            /\ holder = s \/ \E i \in DOMAIN queue : queue[i] = s

(* The newest token has never been cancelled.  Whoever arrives, the last   *)
(* folder selected is not stopped by an older request, so the newest       *)
(* selection always gets to run.                                           *)
NewestTokenLives == active \notin cancelled

(* A folder selection that waits has cancelled the older selection that is *)
(* still at work ("Cancels obsolete work, then waits for its transaction   *)
(* to roll back before replacing it"): of the two, one is cancelled.       *)
ObsoleteSelectionCancelled ==
    \A s, t \in selected \ cancelled :
        phase[s] = "leased" /\ phase[t] = "queued" => s = t
=============================================================================
