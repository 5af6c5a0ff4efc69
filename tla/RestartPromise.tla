---------------------------- MODULE RestartPromise ----------------------------
(***************************************************************************)
(* What a staged restore or a confirmed reset promises, without a file:    *)
(* there is the data a running server works on, and the data its next      *)
(* complete start will open.  A request made to the running server settles *)
(* what that start opens; stopping, however it happens and however often,  *)
(* settles nothing.  StagedRestore is shown to implement this.             *)
(***************************************************************************)

CONSTANTS
    Items,          \* what the data consist of
    Contents,       \* what an item can be
    Down,           \* no server runs
    Unstartable     \* the next start is refused

VARIABLES
    serving,        \* the data the running server has open, or Down
    next,           \* the data the next complete start opens
    pending,        \* is there something left for that start to do?
    excepted        \* what a start has given up its word on

promise == <<serving, next, pending, excepted>>

Data == [Items -> Contents]

Init == /\ serving \in Data
        /\ next = serving
        /\ pending = FALSE
        /\ excepted = {}

(* The server writes.  What waits for the next start keeps waiting: item   *)
(* by item, the start opens either what it was to open or what is written. *)
Write ==
    /\ serving # Down
    /\ serving' \in Data
    /\ UNCHANGED <<pending, excepted>>
    /\ \/ ~pending /\ next' = serving'
       \/ pending /\ next' = next
       \/ /\ pending /\ next # Unstartable
          /\ next' \in Data
          /\ \A i \in Items : next'[i] \in {next[i], serving'[i]}

(* Only a request to a running server says what the next start will open.  *)
Promise ==
    /\ serving # Down
    /\ pending' = TRUE
    /\ next' \in Data \cup {Unstartable}
    /\ UNCHANGED <<serving, excepted>>

Stop ==
    /\ serving # Down
    /\ serving' = Down
    /\ UNCHANGED <<next, pending, excepted>>

(* The start has done what was pending, and nothing is left half done.     *)
Settle ==
    /\ serving = Down
    /\ pending
    /\ next # Unstartable
    /\ pending' = FALSE
    /\ UNCHANGED <<serving, next, excepted>>

(* While it restores, a start may meet what it cannot do and goes on; a    *)
(* later attempt may do it.                                                *)
Except ==
    /\ serving = Down
    /\ pending
    /\ excepted' \in SUBSET Items
    /\ UNCHANGED <<serving, next, pending>>

Open ==
    /\ serving = Down
    /\ ~pending
    /\ serving' \in Data /\ next' = serving'
    /\ \A i \in Items \ excepted : serving'[i] = next[i]
    /\ excepted' = {}
    /\ UNCHANGED pending

Next == Write \/ Promise \/ Stop \/ Settle \/ Except \/ Open

Spec == Init /\ [][Next]_promise
===============================================================================
