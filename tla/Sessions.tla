------------------------------- MODULE Sessions -------------------------------
(***************************************************************************)
(* The sessions of one account (crates/backend/src/api/auth.rs, the        *)
(* password change of api/user.rs) and the clients that hold them          *)
(* (packages/parson-music-sdk/src/core/http.ts).  A session is a row       *)
(* of refresh_session; its refresh token is used once and buys the next    *)
(* session.  A client keeps the access and the refresh token of a session, *)
(* and its tabs share them.  A browser also approves a device that shows a *)
(* code.                                                                   *)
(*                                                                         *)
(* One action is one database block of a handler, the arrival of a request *)
(* or of its answer.  A client may give up on a request at any point; what *)
(* the handler has handed to the database goes on.                         *)
(***************************************************************************)
EXTENDS Naturals, FiniteSets

CONSTANTS
    Requests,       \* requests that may be under way at the same time
    Clients,        \* who holds tokens: the browser, and the device that is paired
    Device,         \* the one that is paired instead of signing in
    Contexts,       \* how many tabs (script contexts) each client has; with none, it only
                    \* keeps its tokens
    MaxSession,     \* how many sessions are made at most
    MaxVersion,     \* how often the password is changed at most, plus one
    MaxPairing,     \* how many codes are shown at most
    None            \* no session

ASSUME SessionConstants ==
    /\ Device \in Clients
    /\ Contexts \in [Clients -> Nat]
    /\ MaxSession \in Nat /\ MaxVersion \in Nat \ {0} /\ MaxPairing \in Nat
    /\ None \notin Nat

VARIABLES
    version,        \* user.token_version: counts the changes of the password
    rows,           \* refresh_session
    made,           \* how many sessions have been made; they are numbered
    carries,        \* the token_version in the tokens of a session
    old,            \* so many of them are past expires_at: all live equally long
    jar,            \* the session whose tokens a client holds
    req,            \* the requests under way
    pairing,        \* the entry of PAIRING_REQUESTS
    (* History: what a session descends from - a password that was given, or *)
    (* a code that was approved - and the version that password belonged to; *)
    (* the descent of the last session a client held; whether its requests   *)
    (* have crossed or an answer was lost since it last signed in.           *)
    descent, proved, held, crossed

database == <<version, rows, made, carries, old>>
history == <<descent, proved>>
client == <<jar, held, crossed>>
vars == <<database, jar, req, pairing, history, held, crossed>>

Sessions == 1 .. MaxSession
Versions == 1 .. MaxVersion
SignedIn(s) == s
Paired(code) == MaxSession + code
Origins == 1 .. MaxSession + MaxPairing
Ops == {"login", "refresh", "logout", "password", "approve"}
Answers == {"none", "tokens", "clear"}
Idle == [op |-> "none", at |-> "idle", by |-> Device, heard |-> FALSE, sent |-> None,
         seen |-> 1, code |-> 0, answer |-> "none", got |-> None]
NoPairing == [code |-> 0, state |-> "none", session |-> None]

TypeOK ==
    /\ version \in Versions
    /\ made \in 0 .. MaxSession
    /\ rows \subseteq 1 .. made /\ old \in 0 .. made
    /\ carries \in [1 .. made -> Versions]
    /\ jar \in [Clients -> Sessions \cup {None}]
    /\ req \in [Requests -> [op : Ops \cup {"none"}, at : {"idle", "first", "second", "third", "answered"},
                             by : Clients, heard : BOOLEAN, sent : Sessions \cup {None}, seen : Versions,
                             code : 0 .. MaxPairing, answer : Answers, got : Sessions \cup {None}]]
    /\ pairing \in [code : 0 .. MaxPairing, session : Sessions \cup {None},
                    state : {"none", "pending", "approving", "approved"}]
    /\ descent \in [1 .. made -> Origins]
    /\ proved \in [1 .. made -> Versions]
    /\ held \in [Clients -> Origins \cup {None}]
    /\ crossed \in [Clients -> BOOLEAN]
    (* Only a pairing that was approved has a session to hand out.          *)
    /\ pairing.state = "approved" <=> pairing.session # None

Init ==
    /\ version = 1
    /\ rows = {} /\ made = 0 /\ carries = <<>> /\ old = 0
    /\ jar = [c \in Clients |-> None]
    /\ req = [r \in Requests |-> Idle]
    /\ pairing = NoPairing
    /\ descent = <<>> /\ proved = <<>>
    /\ held = [c \in Clients |-> None]
    /\ crossed = [c \in Clients |-> FALSE]

-----------------------------------------------------------------------------
expired == 1 .. old

(* A session counts while its row is there and unexpired and its version   *)
(* is the user's: lookup_token_generation.                                 *)
Active(s) == s # None /\ s \in rows \ expired
Usable(s) == Active(s) /\ carries[s] = version

Extend(f, x) == [s \in 1 .. made + 1 |-> IF s = made + 1 THEN x ELSE f[s]]

(* insert_refresh_session drops what has expired.                          *)
\* Every other session of the user is dropped.
InsertAlone(kept, v, from, given) ==
    /\ made < MaxSession
    /\ made' = made + 1
    /\ rows' = {made + 1}
    /\ carries' = Extend(carries, v)
    /\ descent' = Extend(descent, from) /\ proved' = Extend(proved, given)
    /\ UNCHANGED <<version, old>>

Insert(kept, v, from, given) ==
    /\ made < MaxSession
    /\ made' = made + 1
    /\ rows' = (kept \ expired) \cup {made + 1}
    /\ carries' = Extend(carries, v)
    /\ descent' = Extend(descent, from) /\ proved' = Extend(proved, given)
    /\ UNCHANGED <<version, old>>

Fresh == made + 1

-----------------------------------------------------------------------------
(* Requests.                                                               *)
Signing == {"login", "refresh", "logout"}
Under(c) == {r \in Requests : req[r].op \in Signing /\ req[r].by = c}

(* Each script context has one refresh at a time: refreshOnce.             *)
MaySend(c, op) ==
    /\ Contexts[c] > 0
    /\ op = "login" => c # Device
    /\ op = "refresh" =>
        /\ jar[c] # None
        /\ Cardinality({r \in Requests : req[r].op = "refresh" /\ req[r].by = c /\ req[r].heard}) < Contexts[c]
    /\ op \in {"password", "approve"} => c # Device /\ jar[c] # None
    /\ op = "approve" => pairing.code # 0

Sent(op, c) ==
    [op |-> op, at |-> "first", by |-> c, heard |-> TRUE,
     sent |-> IF op = "login" THEN None ELSE jar[c],
     seen |-> IF op \in {"login", "password"} THEN version ELSE 1,
     code |-> 0, answer |-> "none", got |-> None]

Send(r, c, op) ==
    /\ req[r].at = "idle"
    /\ MaySend(c, op)
    /\ req' = [req EXCEPT ![r] = Sent(op, c)]
    /\ crossed' = [crossed EXCEPT ![c] = @ \/ (op \in Signing /\ Under(c) # {})]
    /\ UNCHANGED <<database, jar, pairing, history, held>>

Proceed(r, at, seen) == req' = [req EXCEPT ![r].at = at, ![r].seen = seen]

(* The answer is lost on a client that has given up.                       *)
Reply(r, answer, tokens) ==
    req' = [req EXCEPT ![r] =
        IF req[r].heard
        THEN [op |-> req[r].op, at |-> "answered", by |-> req[r].by, heard |-> TRUE,
              sent |-> None, seen |-> 1, code |-> 0, answer |-> answer, got |-> tokens]
        ELSE Idle]

At(r, op, at) == req[r].op = op /\ req[r].at = at

(* A database that cannot be used is answered with an error: no cookie is  *)
(* touched.                                                                *)
Fail(r) ==
    /\ req[r].at \in {"first", "second"}
    /\ Reply(r, "none", None)
    /\ pairing' = IF At(r, "approve", "second") /\ pairing.code = req[r].code
                     /\ pairing.state = "approving"
                  THEN [pairing EXCEPT !.state = "pending"] ELSE pairing
    /\ UNCHANGED <<database, client, history>>

-----------------------------------------------------------------------------
(* login: the password is checked and the version read in one block, the   *)
(* session stored in another.                                              *)
VerifyPassword(r) ==
    /\ At(r, "login", "first")
    /\ IF req[r].seen = version
       THEN Proceed(r, "second", version)
       ELSE Reply(r, "none", None)
    /\ UNCHANGED <<database, client, pairing, history>>

StoreSession(r) ==
    /\ At(r, "login", "second")
    /\ Insert(rows, req[r].seen, SignedIn(made + 1), req[r].seen)
    /\ Reply(r, "tokens", Fresh)
    /\ UNCHANGED <<client, pairing>>

(* refresh: every refusal takes the cookies away (expired_auth_response).  *)
\* The version in the token is not compared.
ReadUserOnly(r) ==
    /\ At(r, "refresh", "first")
    /\ IF req[r].sent \notin expired
       THEN Proceed(r, "second", version)
       ELSE Reply(r, "clear", None)
    /\ UNCHANGED <<database, client, pairing, history>>

ReadUser(r) ==
    /\ At(r, "refresh", "first")
    /\ IF req[r].sent \notin expired /\ carries[req[r].sent] = version
       THEN Proceed(r, "second", version)
       ELSE Reply(r, "clear", None)
    /\ UNCHANGED <<database, client, pairing, history>>

\* Whether the old row was there is not looked at.
RotateBlindly(r) ==
    /\ At(r, "refresh", "second")
    /\ LET s == req[r].sent IN
       Insert(rows \ {s}, req[r].seen, descent[s], proved[s])
    /\ Reply(r, "tokens", Fresh)
    /\ UNCHANGED <<client, pairing>>

Rotate(r) ==
    /\ At(r, "refresh", "second")
    /\ LET s == req[r].sent IN
       IF Active(s)
       THEN /\ Insert(rows \ {s}, req[r].seen, descent[s], proved[s])
            /\ Reply(r, "tokens", Fresh)
       ELSE /\ Reply(r, "clear", None)
            /\ UNCHANGED <<database, history>>
    /\ UNCHANGED <<client, pairing>>

(* logout revokes the sessions its tokens name, expired or not.            *)
Revoke(r) ==
    /\ At(r, "logout", "first")
    /\ rows' = rows \ {req[r].sent}
    /\ Reply(r, "clear", None)
    /\ UNCHANGED <<version, made, carries, old, client, pairing, history>>

(* validator, in front of the handlers that need a session.                *)
Validate(r) ==
    /\ req[r].op \in {"password", "approve"} /\ req[r].at = "first"
    /\ IF ~Usable(req[r].sent) THEN Reply(r, "none", None) /\ UNCHANGED pairing
       ELSE IF req[r].op # "approve"
       THEN Proceed(r, "second", req[r].seen) /\ UNCHANGED pairing
       ELSE (* approve_pairing takes the code, if nobody has.               *)
            IF pairing.state = "pending"
            THEN /\ pairing' = [pairing EXCEPT !.state = "approving"]
                 /\ req' = [req EXCEPT ![r].at = "second", ![r].code = pairing.code]
            ELSE Reply(r, "none", None) /\ UNCHANGED pairing
    /\ UNCHANGED <<database, client, history>>

(* change_password: the given password must be the current one.  It is     *)
(* checked before the transaction, so another change may come in between.  *)
ChangePassword(r) ==
    /\ At(r, "password", "second")
    /\ Reply(r, "none", None)
    /\ \/ /\ version < MaxVersion
          /\ version' = version + 1
          /\ rows' = {}
       \/ req[r].seen # version /\ UNCHANGED <<version, rows>>
    /\ UNCHANGED <<made, carries, old, client, pairing, history>>

-----------------------------------------------------------------------------
(* Pairing.                                                                *)
StartPairing ==
    /\ pairing.state = "none" /\ pairing.code < MaxPairing
    /\ pairing' = [code |-> pairing.code + 1, state |-> "pending", session |-> None]
    /\ UNCHANGED <<database, jar, req, history, held, crossed>>

(* cleanup_pairing_requests: whatever its state.                           *)
\* The answer is kept.
ExpireCodeOnly ==
    /\ pairing.state # "none"
    /\ pairing' = [pairing EXCEPT !.state = "none"]
    /\ UNCHANGED <<database, jar, req, history, held, crossed>>

ExpirePairing ==
    /\ pairing.state # "none"
    /\ pairing' = [pairing EXCEPT !.state = "none", !.session = None]
    /\ UNCHANGED <<database, jar, req, history, held, crossed>>

(* issue_paired_session takes the version from the approver's token.       *)
IssuePaired(r) ==
    /\ At(r, "approve", "second")
    /\ LET s == req[r].sent IN Insert(rows, carries[s], Paired(req[r].code), proved[s])
    /\ req' = [req EXCEPT ![r].at = "third", ![r].got = Fresh]
    /\ UNCHANGED <<client, pairing>>

FinishPairing(r) ==
    /\ At(r, "approve", "third")
    /\ pairing' = IF pairing.code = req[r].code /\ pairing.state # "none"
                  THEN [pairing EXCEPT !.state = "approved", !.session = req[r].got]
                  ELSE pairing
    /\ Reply(r, "none", None)
    /\ UNCHANGED <<database, client, history>>

Hold(c, s, since) ==
    /\ jar' = [jar EXCEPT ![c] = s]
    /\ held' = IF s = None THEN held ELSE [held EXCEPT ![c] = descent[s]]
    /\ crossed' = [crossed EXCEPT ![c] = since]

(* pairing_status: the device asks until it is told.                       *)
PairingStatus ==
    /\ pairing.state = "approved"
    /\ Under(Device) = {}
    /\ held[Device] # Paired(pairing.code)
    /\ Hold(Device, pairing.session, FALSE)
    /\ UNCHANGED <<database, req, pairing, history>>

-----------------------------------------------------------------------------
(* The answer reaches the client: only what it says about cookies counts.  *)
Deliver(r) ==
    /\ req[r].at = "answered"
    /\ LET c == req[r].by
           alone == req[r].op = "login" /\ req[r].answer = "tokens" /\ Under(c) = {r}
       IN Hold(c, CASE req[r].answer = "none" -> jar[c]
                    [] req[r].answer = "clear" -> None
                    [] req[r].answer = "tokens" -> req[r].got,
               IF alone THEN FALSE ELSE crossed[c])
    /\ req' = [req EXCEPT ![r] = Idle]
    /\ UNCHANGED <<database, pairing, history>>

(* The client gives up, or the connection is lost.                         *)
GiveUp(r) ==
    /\ req[r].heard
    /\ req' = IF req[r].at = "answered" THEN [req EXCEPT ![r] = Idle]
              ELSE [req EXCEPT ![r].heard = FALSE]
    /\ crossed' = [crossed EXCEPT ![req[r].by] = @ \/ req[r].op \in Signing]
    /\ UNCHANGED <<database, jar, pairing, history, held>>

(* Its handler may be dropped before a block or after it; the block is not. *)
Drop(r) ==
    /\ ~req[r].heard
    /\ req[r].at \in {"first", "third"}
    /\ req' = [req EXCEPT ![r] = Idle]
    /\ UNCHANGED <<database, client, pairing, history>>

Expire ==
    /\ old < made
    /\ old' = old + 1
    /\ UNCHANGED <<version, rows, made, carries, jar, req, pairing, history, held, crossed>>

-----------------------------------------------------------------------------
ServerStep(r) ==
    \/ VerifyPassword(r) \/ StoreSession(r) \/ ReadUser(r) \/ Rotate(r) \/ Revoke(r)
    \/ Validate(r) \/ ChangePassword(r) \/ IssuePaired(r) \/ FinishPairing(r)
    \/ Fail(r)

Next ==
    \/ \E r \in Requests :
        \/ \E c \in Clients, op \in Ops : Send(r, c, op)
        \/ ServerStep(r) \/ Deliver(r) \/ GiveUp(r) \/ Drop(r)
    \/ StartPairing \/ ExpirePairing \/ PairingStatus \/ Expire

Spec == Init /\ [][Next]_vars

-----------------------------------------------------------------------------
(* However often a refresh is repeated, by tabs at once or after an answer *)
(* was lost, one sign-in has one session, and so has one approved code:    *)
(* rotate_refresh_session, approve_pairing.                                *)
OneSessionPerSignIn ==
    \A s, t \in rows : descent[s] = descent[t] => s = t

(* "Password changes ... invalidate older credentials"                     *)
(* (apps/site/content/docs/accounts-privacy-security.mdx): nothing that    *)
(* goes back to an older password is accepted, though sign-ins, refreshes, *)
(* renewals and approvals that were under way write their rows later.      *)
OldPasswordIsCutOff ==
    \A s \in rows : Usable(s) => proved[s] = version

(* A client at rest whose requests have not crossed and whose answers      *)
(* arrived holds tokens that are good until the password is changed or     *)
(* they expire, whatever other clients do; and when it holds none, logging *)
(* out has left no session behind (refresh, logout, http.ts).              *)
ClientIsAsTold ==
    \A c \in Clients :
        Under(c) = {} /\ ~crossed[c] =>
            IF jar[c] # None
            THEN carries[jar[c]] = version /\ jar[c] \notin expired
                    => jar[c] \in rows
            ELSE \A s \in rows : Usable(s) => descent[s] # held[c]
===============================================================================
