---------------------------- MODULE SessionsProofs ----------------------------
(***************************************************************************)
(* Theorems about Sessions, for any number of clients with any number of   *)
(* tabs, any requests under way, any number of sessions, passwords and     *)
(* codes: a sign-in has one session, an old password buys none, and a      *)
(* client whose requests do not cross is told the truth.                   *)
(***************************************************************************)
EXTENDS Sessions, TLAPS

Made == 1 .. made

LEMMA ConstantsAreNumbers ==
    /\ Device \in Clients /\ None \notin Nat
    /\ MaxSession \in Nat /\ MaxVersion \in Nat /\ MaxVersion > 0 /\ MaxPairing \in Nat
  BY SessionConstants

-----------------------------------------------------------------------------
(* What a client, a request or a pairing names has been made.              *)
ClientsKnow ==
    \A c \in Clients : /\ jar[c] # None => jar[c] \in Made /\ held[c] = descent[jar[c]]
                       /\ held[c] # None => \E s \in Made : descent[s] = held[c]
RequestsKnow ==
    \A r \in Requests : /\ req[r].sent # None => req[r].sent \in Made
                        /\ req[r].got # None => req[r].got \in Made
PairingKnows ==
    /\ pairing.session # None => pairing.session \in Made
    /\ pairing.state # "none" => pairing.code # 0

(* What a request knows at each of its steps.                              *)
Placed(q) ==
    /\ q.at = "idle" <=> q.op = "none"
    /\ q.at = "second" => q.op \notin {"none", "logout"}
    /\ q.at = "third" => q.op = "approve" /\ q.got # None
    /\ q.at \in {"idle", "first", "second"} => q.got = None
    /\ q.at # "answered" => q.answer = "none"
    /\ q.at = "answered" => q.heard /\ q.sent = None
    /\ q.op \in {"none", "login"} => q.sent = None
    /\ q.op \in {"refresh", "password", "approve"} /\ q.at \in {"first", "second"} => q.sent # None
    /\ q.answer = "tokens" => q.op \in {"login", "refresh"} /\ q.got # None
    /\ q.answer = "clear" => q.op \in {"refresh", "logout"}
    /\ q.op = "approve" /\ q.at \in {"second", "third"} => q.code # 0

RequestsInPlace ==
    \A r \in Requests : Placed(req[r]) /\ req[r].seen <= version

Basic == TypeOK /\ ClientsKnow /\ RequestsKnow /\ PairingKnows /\ RequestsInPlace

(* The password a session goes back to is that of its tokens, and the same *)
(* for all that descend from one sign-in.                                  *)
SessionsAgree ==
    /\ \A s \in Made : carries[s] = proved[s] /\ carries[s] <= version
    /\ \A s, t \in Made : descent[s] = descent[t] => carries[s] = carries[t]
ReadsAgree ==
    \A r \in Requests :
        At(r, "refresh", "second") => req[r].seen = carries[req[r].sent]

(* An origin is a sign-in that was the session of that number, or a code.  *)
Approving(r) == req[r].op = "approve" /\ req[r].at \in {"second", "third"}
OriginsKnown ==
    /\ \A s \in Made : descent[s] \in 1 .. s \/ descent[s] \in MaxSession + 1 .. MaxSession + pairing.code
    /\ \A r \in Requests : Approving(r) => req[r].code <= pairing.code

(* A code is being approved once, and has a session after that.            *)
Issued(code) == \E s \in Made : descent[s] = Paired(code)

CodesUsedOnce ==
    /\ \A r, q \in Requests : Approving(r) /\ Approving(q) /\ req[r].code = req[q].code => r = q
    /\ \A r \in Requests :
        /\ At(r, "approve", "second") => ~Issued(req[r].code)
        /\ Approving(r) /\ req[r].code = pairing.code => pairing.state \in {"none", "approving"}
    /\ pairing.state = "pending" => ~Issued(pairing.code)

SessionInv ==
    /\ Basic /\ SessionsAgree /\ ReadsAgree
    /\ OriginsKnown /\ CodesUsedOnce /\ OneSessionPerSignIn

-----------------------------------------------------------------------------
(* What a client has of a sign-in or a code: the tokens it holds last, and *)
(* those in its requests and their answers.                                *)
Bears(r, origin) ==
    /\ req[r].op \in Signing
    /\ \/ req[r].sent # None /\ descent[req[r].sent] = origin
       \/ req[r].got # None /\ descent[req[r].got] = origin
Has(c, origin) ==
    held[c] = origin \/ \E r \in Requests : req[r].by = c /\ Bears(r, origin)

(* Two clients have nothing of the same sign-in or code.                   *)
ClientsApart ==
    \A c, d \in Clients, origin \in Origins : Has(c, origin) /\ Has(d, origin) => c = d

(* The device has but what it was given last for a code.                   *)
DeviceHasCodes ==
    /\ \A origin \in Origins :
        /\ Has(Device, origin) => origin = held[Device] /\ origin > MaxSession
        /\ \A c \in Clients : c # Device /\ Has(c, origin) => origin <= MaxSession
    /\ \A r \in Requests : req[r].op = "login" => req[r].by # Device

(* A session that is as it was when it was made, and has no successor.     *)
Whole(s) ==
    /\ carries[s] = version /\ s \notin expired => s \in rows
    /\ \A t \in Made : descent[t] = descent[s] => t <= s

(* The answer to a sign-in is the only trace of its session.               *)
FirstAnswersWhole ==
    \A r \in Requests : req[r].op = "login" /\ req[r].answer = "tokens" =>
        /\ Whole(req[r].got) /\ descent[req[r].got] = req[r].got
        /\ \A c \in Clients : held[c] # req[r].got
        /\ \A q \in Requests : Bears(q, req[r].got) => q = r

(* So is the entry of a code, until the device has asked for it.           *)
PairedWhole ==
    /\ \A r \in Requests : At(r, "approve", "third") =>
        /\ Whole(req[r].got) /\ descent[req[r].got] = Paired(req[r].code)
        /\ held[Device] # Paired(req[r].code)
    /\ pairing.state = "approved" =>
        /\ descent[pairing.session] = Paired(pairing.code)
        /\ held[Device] # Paired(pairing.code) => Whole(pairing.session)

(* A client whose requests have not crossed, at each step of the only one  *)
(* it has under way: nothing else takes its session from it.               *)
Gone(origin) == \A s \in rows : Usable(s) => descent[s] # origin
Holds(c) == IF jar[c] # None THEN Whole(jar[c]) ELSE Gone(held[c])
Told(c) ==
    /\ \A r, q \in Under(c) : r = q
    /\ \A r \in Under(c) :
        /\ req[r].heard
        /\ req[r].op \in {"refresh", "logout"} /\ req[r].at \in {"first", "second"}
            => req[r].sent = jar[c]
        /\ req[r].answer = "tokens" => Whole(req[r].got)
        /\ req[r].answer = "clear" => Gone(held[c])
    /\ (\A r \in Under(c) : req[r].answer = "none") => Holds(c)
ToldInv == \A c \in Clients : ~crossed[c] => Told(c)

ClientInv == ClientsApart /\ DeviceHasCodes /\ FirstAnswersWhole /\ PairedWhole /\ ToldInv

-----------------------------------------------------------------------------
(* What the parts of a step do.                                            *)
RequestRecord ==
    [op : Ops \cup {"none"}, at : {"idle", "first", "second", "third", "answered"},
     by : Clients, heard : BOOLEAN, sent : Sessions \cup {None}, seen : Versions,
     code : 0 .. MaxPairing, answer : Answers, got : Sessions \cup {None}]

\* Request r, and no other, becomes one with these fields.
Becomes(r, op, at, by, heard, sent, seen, code, answer, got) ==
    /\ req'[r] = [op |-> op, at |-> at, by |-> by, heard |-> heard, sent |-> sent, seen |-> seen,
                  code |-> code, answer |-> answer, got |-> got]
    /\ \A q \in Requests : q # r => req'[q] = req[q]
    /\ req' \in [Requests -> RequestRecord]

\* It is answered, if the client still listens.
Replied(r, answer, got) ==
    \/ /\ req[r].heard
       /\ Becomes(r, req[r].op, "answered", req[r].by, TRUE, None, 1, 0, answer, got)
    \/ /\ ~req[r].heard
       /\ Becomes(r, "none", "idle", Device, FALSE, None, 1, 0, "none", None)

\* It goes on to the next block of its handler.
Proceeds(r, seen) ==
    Becomes(r, req[r].op, "second", req[r].by, req[r].heard, req[r].sent, seen, req[r].code,
            req[r].answer, req[r].got)

\* A session is made, and the others are as they were.
Makes(v, from, given) ==
    /\ made' = made + 1 /\ made' <= MaxSession
    /\ carries' \in [Made' -> Versions] /\ carries'[made'] = v
    /\ descent' \in [Made' -> Origins] /\ descent'[made'] = from
    /\ proved' \in [Made' -> Versions] /\ proved'[made'] = given
    /\ \A s \in Made : carries'[s] = carries[s] /\ descent'[s] = descent[s] /\ proved'[s] = proved[s]
    /\ version' = version /\ old' = old

LEMMA RequestFields ==
    ASSUME TypeOK, NEW r \in Requests
    PROVE  /\ req[r] \in RequestRecord
           /\ req[r].op \in Ops \cup {"none"} /\ req[r].by \in Clients /\ req[r].heard \in BOOLEAN
           /\ req[r].at \in {"idle", "first", "second", "third", "answered"}
           /\ req[r].sent \in Sessions \cup {None} /\ req[r].seen \in Versions
           /\ req[r].code \in 0 .. MaxPairing /\ req[r].answer \in Answers
           /\ req[r].got \in Sessions \cup {None}
<1>1. req[r] \in RequestRecord
  BY DEF TypeOK, RequestRecord
<1> QED BY <1>1 DEF RequestRecord

LEMMA InsertMakes ==
    ASSUME TypeOK, NEW kept, NEW v \in Versions, NEW from \in Origins, NEW given \in Versions,
           Insert(kept, v, from, given)
    PROVE  Makes(v, from, given) /\ rows' = (kept \ expired) \cup {made + 1}
<1>1. made \in Nat /\ made' = made + 1 /\ made' <= MaxSession
  BY ConstantsAreNumbers DEF TypeOK, Insert
<1>2. /\ carries' = [s \in Made' |-> IF s = made + 1 THEN v ELSE carries[s]]
      /\ descent' = [s \in Made' |-> IF s = made + 1 THEN from ELSE descent[s]]
      /\ proved' = [s \in Made' |-> IF s = made + 1 THEN given ELSE proved[s]]
  BY <1>1 DEF Insert, Extend, Made
<1>3. /\ carries \in [Made -> Versions] /\ descent \in [Made -> Origins]
      /\ proved \in [Made -> Versions]
  BY DEF TypeOK, Made
<1>4. made + 1 \in Made' /\ \A s \in Made : s \in Made' /\ s # made + 1
  BY <1>1 DEF Made
<1>5. \A s \in Made' : s = made + 1 \/ s \in Made
  BY <1>1 DEF Made
<1>6. carries' \in [Made' -> Versions] /\ carries'[made + 1] = v /\ \A s \in Made : carries'[s] = carries[s]
  BY <1>2, <1>3, <1>4, <1>5
<1>7. descent' \in [Made' -> Origins] /\ descent'[made + 1] = from /\ \A s \in Made : descent'[s] = descent[s]
  BY <1>2, <1>3, <1>4, <1>5
<1>8. proved' \in [Made' -> Versions] /\ proved'[made + 1] = given /\ \A s \in Made : proved'[s] = proved[s]
  BY <1>2, <1>3, <1>4, <1>5
<1> QED BY <1>1, <1>6, <1>7, <1>8 DEF Makes, Insert

LEMMA ReplyBecomes ==
    ASSUME TypeOK, NEW r \in Requests, NEW answer \in Answers, NEW got \in Sessions \cup {None},
           Reply(r, answer, got)
    PROVE  Replied(r, answer, got)
<1> DEFINE told == [op |-> req[r].op, at |-> "answered", by |-> req[r].by, heard |-> TRUE,
                   sent |-> None, seen |-> 1, code |-> 0, answer |-> answer, got |-> got]
<1>1. 1 \in Versions /\ 0 \in 0 .. MaxPairing
  BY ConstantsAreNumbers DEF Versions
<1>2. told \in RequestRecord
  BY <1>1, RequestFields DEF RequestRecord
<1>3. Idle \in RequestRecord
  BY <1>1, ConstantsAreNumbers DEF RequestRecord, Idle, Answers
<1>4. req \in [Requests -> RequestRecord]
  BY DEF TypeOK, RequestRecord
<1>5. req' = [req EXCEPT ![r] = IF req[r].heard THEN told ELSE Idle]
  BY DEF Reply
<1> HIDE DEF told
<1>6. /\ req' \in [Requests -> RequestRecord] /\ req'[r] = (IF req[r].heard THEN told ELSE Idle)
      /\ \A q \in Requests : q # r => req'[q] = req[q]
  BY <1>2, <1>3, <1>4, <1>5
<1> QED BY <1>6 DEF Replied, Becomes, Idle, told

LEMMA IdleBecomes ==
    ASSUME TypeOK, NEW r \in Requests, req' = [req EXCEPT ![r] = Idle]
    PROVE  Becomes(r, "none", "idle", Device, FALSE, None, 1, 0, "none", None)
<1>1. 1 \in Versions /\ 0 \in 0 .. MaxPairing
  BY ConstantsAreNumbers DEF Versions
<1>2. Idle \in RequestRecord
  BY <1>1, ConstantsAreNumbers DEF RequestRecord, Idle, Answers
<1>3. req \in [Requests -> RequestRecord]
  BY DEF TypeOK, RequestRecord
<1> QED BY <1>2, <1>3 DEF Becomes, Idle

LEMMA SendBecomes ==
    ASSUME TypeOK, NEW r \in Requests, NEW c \in Clients, NEW op \in Ops, Send(r, c, op)
    PROVE  Becomes(r, op, "first", c, TRUE, IF op = "login" THEN None ELSE jar[c],
                   IF op \in {"login", "password"} THEN version ELSE 1, 0, "none", None)
<1>1. 1 \in Versions /\ 0 \in 0 .. MaxPairing
  BY ConstantsAreNumbers DEF Versions
<1>2. req \in [Requests -> RequestRecord] /\ req' = [req EXCEPT ![r] = Sent(op, c)]
  BY DEF TypeOK, RequestRecord, Send
<1>3. jar[c] \in Sessions \cup {None} /\ version \in Versions
  BY DEF TypeOK
<1>4. Sent(op, c) \in RequestRecord
  BY <1>1, <1>3 DEF RequestRecord, Sent, Answers
<1> QED BY <1>2, <1>4 DEF Becomes, Sent

\* The steps that take a request to its next block.
LEMMA ProceedBecomes ==
    ASSUME TypeOK, NEW r \in Requests, NEW seen \in Versions, Proceed(r, "second", seen)
    PROVE  Proceeds(r, seen)
<1>1. req \in [Requests -> RequestRecord] /\ req[r] \in RequestRecord
  BY RequestFields DEF TypeOK, RequestRecord
<1>2. req' = [req EXCEPT ![r].at = "second", ![r].seen = seen]
  BY DEF Proceed
<1>3. req'[r] = [op |-> req[r].op, at |-> "second", by |-> req[r].by, heard |-> req[r].heard,
                 sent |-> req[r].sent, seen |-> seen, code |-> req[r].code,
                 answer |-> req[r].answer, got |-> req[r].got]
  BY <1>1, <1>2 DEF RequestRecord
<1>4. req'[r] \in RequestRecord
  BY <1>3, RequestFields DEF RequestRecord
<1>5. req' = [q \in Requests |-> req'[q]] /\ \A q \in Requests : q # r => req'[q] = req[q]
  BY <1>1, <1>2
<1>6. req' \in [Requests -> RequestRecord]
  BY <1>1, <1>4, <1>5
<1> QED BY <1>3, <1>5, <1>6 DEF Proceeds, Becomes

LEMMA ApproveBecomes ==
    ASSUME TypeOK, NEW r \in Requests, req' = [req EXCEPT ![r].at = "second", ![r].code = pairing.code]
    PROVE  Becomes(r, req[r].op, "second", req[r].by, req[r].heard, req[r].sent, req[r].seen,
                   pairing.code, req[r].answer, req[r].got)
<1>1. req \in [Requests -> RequestRecord] /\ req[r] \in RequestRecord /\ pairing.code \in 0 .. MaxPairing
  BY RequestFields DEF TypeOK, RequestRecord
<1>3. req'[r] = [op |-> req[r].op, at |-> "second", by |-> req[r].by, heard |-> req[r].heard,
                 sent |-> req[r].sent, seen |-> req[r].seen, code |-> pairing.code,
                 answer |-> req[r].answer, got |-> req[r].got]
  BY <1>1 DEF RequestRecord
<1>4. req'[r] \in RequestRecord
  BY <1>1, <1>3, RequestFields DEF RequestRecord
<1>5. req' = [q \in Requests |-> req'[q]] /\ \A q \in Requests : q # r => req'[q] = req[q]
  BY <1>1
<1>6. req' \in [Requests -> RequestRecord]
  BY <1>1, <1>4, <1>5
<1> QED BY <1>3, <1>5, <1>6 DEF Becomes

LEMMA IssueBecomes ==
    ASSUME TypeOK, NEW r \in Requests, made < MaxSession,
           req' = [req EXCEPT ![r].at = "third", ![r].got = Fresh]
    PROVE  Becomes(r, req[r].op, "third", req[r].by, req[r].heard, req[r].sent, req[r].seen,
                   req[r].code, req[r].answer, made + 1)
<1>1. req \in [Requests -> RequestRecord] /\ req[r] \in RequestRecord
  BY RequestFields DEF TypeOK, RequestRecord
<1>2. Fresh = made + 1 /\ Fresh \in Sessions
  BY ConstantsAreNumbers DEF TypeOK, Fresh, Sessions
<1>3. req'[r] = [op |-> req[r].op, at |-> "third", by |-> req[r].by, heard |-> req[r].heard,
                 sent |-> req[r].sent, seen |-> req[r].seen, code |-> req[r].code,
                 answer |-> req[r].answer, got |-> made + 1]
  BY <1>1, <1>2 DEF RequestRecord
<1>4. req'[r] \in RequestRecord
  BY <1>2, <1>3, RequestFields DEF RequestRecord
<1>5. req' = [q \in Requests |-> req'[q]] /\ \A q \in Requests : q # r => req'[q] = req[q]
  BY <1>1
<1>6. req' \in [Requests -> RequestRecord]
  BY <1>1, <1>4, <1>5
<1> QED BY <1>3, <1>5, <1>6 DEF Becomes

LEMMA UnheardBecomes ==
    ASSUME TypeOK, NEW r \in Requests, req' = [req EXCEPT ![r].heard = FALSE]
    PROVE  Becomes(r, req[r].op, req[r].at, req[r].by, FALSE, req[r].sent, req[r].seen,
                   req[r].code, req[r].answer, req[r].got)
<1>1. req \in [Requests -> RequestRecord] /\ req[r] \in RequestRecord
  BY RequestFields DEF TypeOK, RequestRecord
<1>3. req'[r] = [op |-> req[r].op, at |-> req[r].at, by |-> req[r].by, heard |-> FALSE,
                 sent |-> req[r].sent, seen |-> req[r].seen, code |-> req[r].code,
                 answer |-> req[r].answer, got |-> req[r].got]
  BY <1>1 DEF RequestRecord
<1>2. [req[r] EXCEPT !.heard = FALSE] \in RequestRecord
  BY <1>1 DEF RequestRecord
<1>4. req'[r] \in RequestRecord
  BY <1>1, <1>2
<1>5. req' = [q \in Requests |-> req'[q]] /\ \A q \in Requests : q # r => req'[q] = req[q]
  BY <1>1
<1>6. req' \in [Requests -> RequestRecord]
  BY <1>1, <1>4, <1>5
<1> QED BY <1>3, <1>5, <1>6 DEF Becomes
-----------------------------------------------------------------------------
(* TypeOK, in the parts that the steps are about.                          *)
DatabaseOK ==
    /\ version \in Versions /\ made \in 0 .. MaxSession
    /\ rows \subseteq Made /\ old \in 0 .. made
    /\ carries \in [Made -> Versions] /\ descent \in [Made -> Origins] /\ proved \in [Made -> Versions]
PairingOK ==
    /\ pairing \in [code : 0 .. MaxPairing, session : Sessions \cup {None},
                    state : {"none", "pending", "approving", "approved"}]
    /\ pairing.state = "approved" <=> pairing.session # None
ClientsOK ==
    /\ jar \in [Clients -> Sessions \cup {None}] /\ held \in [Clients -> Origins \cup {None}]
    /\ crossed \in [Clients -> BOOLEAN]

LEMMA TypeOKParts ==
    TypeOK <=> DatabaseOK /\ req \in [Requests -> RequestRecord] /\ PairingOK /\ ClientsOK
  BY DEF TypeOK, DatabaseOK, PairingOK, ClientsOK, RequestRecord, Made

(* What is made stays as it is, and time goes on.                          *)
Older ==
    /\ Made \subseteq Made' /\ version <= version' /\ old <= old'
    /\ \A s \in Made : carries'[s] = carries[s] /\ descent'[s] = descent[s] /\ proved'[s] = proved[s]

(* A step of the database drops rows, or makes a session.                  *)
Keeps ==
    /\ made' = made /\ carries' = carries /\ descent' = descent /\ proved' = proved
    /\ rows' \subseteq rows
    /\ version' \in Versions /\ version <= version' /\ old' \in old .. made
MakesOne ==
    /\ \E v \in Versions, from \in Origins, given \in Versions : Makes(v, from, given)
    /\ rows' \subseteq rows \cup {made + 1}

LEMMA DatabaseParts ==
    ASSUME TypeOK, Keeps \/ MakesOne
    PROVE  DatabaseOK' /\ Older
<1>1. DatabaseOK /\ made \in Nat /\ version \in Nat /\ old \in Nat
  BY ConstantsAreNumbers, TypeOKParts DEF DatabaseOK, Versions
<1>2. CASE Keeps
  BY <1>1, <1>2, ConstantsAreNumbers DEF Keeps, DatabaseOK, Older, Made
<1>3. CASE MakesOne
  <2>1. made' = made + 1 /\ made' <= MaxSession /\ version' = version /\ old' = old
    BY <1>3 DEF MakesOne, Makes
  <2>2. Made \subseteq Made' /\ made + 1 \in Made'
    BY <1>1, <2>1 DEF Made
  <2>3. /\ carries' \in [Made' -> Versions] /\ descent' \in [Made' -> Origins]
        /\ proved' \in [Made' -> Versions]
        /\ \A s \in Made : carries'[s] = carries[s] /\ descent'[s] = descent[s] /\ proved'[s] = proved[s]
    BY <1>3 DEF MakesOne, Makes
  <2>4. rows' \subseteq Made'
    BY <1>1, <1>3, <2>2 DEF MakesOne, DatabaseOK
  <2>5. made' \in 0 .. MaxSession /\ old' \in 0 .. made' /\ version' \in Versions
    BY <1>1, <2>1, ConstantsAreNumbers DEF DatabaseOK
  <2> QED BY <1>1, <2>1, <2>2, <2>3, <2>4, <2>5 DEF DatabaseOK, Older
<1> QED BY <1>2, <1>3

(* The same for the requests, when one of them becomes something else.     *)
OnlyChanges(r) ==
    /\ req' \in [Requests -> RequestRecord]
    /\ \A q \in Requests : q # r => req'[q] = req[q]

LEMMA RequestParts ==
    ASSUME Basic, Older, DatabaseOK', NEW r \in Requests, OnlyChanges(r), Placed(req'[r]),
           req'[r].seen <= version',
           req'[r].sent # None => req'[r].sent \in Made', req'[r].got # None => req'[r].got \in Made'
    PROVE  RequestsInPlace' /\ RequestsKnow'
<1>1. /\ \A q \in Requests : req[q].seen \in Nat
      /\ version \in Nat /\ version' \in Nat
  BY RequestFields, TypeOKParts, ConstantsAreNumbers DEF Basic, DatabaseOK, Versions
<1>2. ASSUME NEW q \in Requests
      PROVE  /\ Placed(req'[q]) /\ req'[q].seen <= version'
             /\ req'[q].sent # None => req'[q].sent \in Made'
             /\ req'[q].got # None => req'[q].got \in Made'
  <2>1. CASE q = r
    BY <2>1
  <2>2. CASE q # r
    <3>1. req'[q] = req[q]
      BY <2>2 DEF OnlyChanges
    <3> QED BY <1>1, <3>1 DEF Basic, RequestsInPlace, RequestsKnow, Older
  <2> QED BY <2>1, <2>2
<1> QED BY <1>2 DEF RequestsInPlace, RequestsKnow
-----------------------------------------------------------------------------
(* What the steps of the server do.                                        *)
LEMMA VerifyDoes ==
    ASSUME TypeOK, NEW r \in Requests, VerifyPassword(r)
    PROVE  Proceeds(r, version) \/ Replied(r, "none", None)
<1>1. PICK v : v = version
  OBVIOUS
<1>2. v \in Versions /\ "none" \in Answers
  BY <1>1 DEF TypeOK, Answers
<1>3. Proceed(r, "second", v) \/ Reply(r, "none", None)
  BY <1>1 DEF VerifyPassword, Proceed
<1>4. Proceeds(r, v) \/ Replied(r, "none", None)
  BY <1>2, <1>3, ProceedBecomes, ReplyBecomes
<1> QED BY <1>1, <1>4 DEF Proceeds

LEMMA ReadUserDoes ==
    ASSUME TypeOK, NEW r \in Requests, ReadUser(r)
    PROVE  \/ Proceeds(r, version) /\ carries[req[r].sent] = version
           \/ /\ Replied(r, "clear", None)
              /\ ~(carries[req[r].sent] = version /\ req[r].sent \notin expired)
<1>1. PICK v : v = version
  OBVIOUS
<1>2. v \in Versions /\ "clear" \in Answers
  BY <1>1 DEF TypeOK, Answers
<1>3. \/ Proceed(r, "second", v) /\ carries[req[r].sent] = version
      \/ Reply(r, "clear", None) /\ ~(carries[req[r].sent] = version /\ req[r].sent \notin expired)
  BY <1>1 DEF ReadUser, Proceed
<1>4. CASE Proceed(r, "second", v) /\ carries[req[r].sent] = version
  BY <1>1, <1>2, <1>4, ProceedBecomes DEF Proceeds
<1>5. CASE Reply(r, "clear", None) /\ ~(carries[req[r].sent] = version /\ req[r].sent \notin expired)
  BY <1>2, <1>5, ReplyBecomes
<1> QED BY <1>3, <1>4, <1>5

LEMMA StoreDoes ==
    ASSUME TypeOK, NEW r \in Requests, StoreSession(r)
    PROVE  /\ Makes(req[r].seen, made + 1, req[r].seen)
           /\ rows' = (rows \ expired) \cup {made + 1}
           /\ Replied(r, "tokens", made + 1)
<1>1. PICK v, n : v = req[r].seen /\ n = made + 1
  OBVIOUS
<1>2. v \in Versions /\ "tokens" \in Answers
  BY <1>1, RequestFields DEF TypeOK, Answers
<1>3. n \in Sessions /\ n \in Origins
  BY <1>1, ConstantsAreNumbers DEF TypeOK, StoreSession, Insert, Sessions, Origins
<1>4. PICK kept : kept = rows
  OBVIOUS
<1>5. Insert(kept, v, n, v) /\ Reply(r, "tokens", n)
  BY <1>1, <1>4 DEF StoreSession, SignedIn, Fresh, Insert, Extend, Reply
<1>6. Makes(v, n, v) /\ rows' = (kept \ expired) \cup {made + 1}
  BY <1>2, <1>3, <1>5, InsertMakes
<1>7. Replied(r, "tokens", n)
  BY <1>2, <1>3, <1>5, ReplyBecomes
<1> QED BY <1>1, <1>4, <1>6, <1>7 DEF Makes, Replied, Becomes

LEMMA RotateDoes ==
    ASSUME TypeOK, NEW r \in Requests, Rotate(r)
    PROVE  LET s == req[r].sent IN
           \/ /\ Active(s) /\ s \in Made
              /\ Makes(req[r].seen, descent[s], proved[s])
              /\ rows' = ((rows \ {s}) \ expired) \cup {made + 1}
              /\ Replied(r, "tokens", made + 1)
           \/ /\ ~Active(s) /\ Replied(r, "clear", None)
              /\ UNCHANGED <<database, history>>
<1>1. CASE Active(req[r].sent)
  <2>1. PICK s, v, n, from, given :
            /\ s = req[r].sent /\ v = req[r].seen /\ n = made + 1
            /\ from = descent[req[r].sent] /\ given = proved[req[r].sent]
    OBVIOUS
  <2>2. s \in Made
    BY <1>1, <2>1 DEF TypeOK, Active, Made
  <2>3. from \in Origins /\ given \in Versions
    BY <2>1, <2>2 DEF TypeOK, Made
  <2>4. v \in Versions /\ "tokens" \in Answers
    BY <2>1, RequestFields DEF TypeOK, Answers
  <2>5. PICK kept : kept = rows \ {s}
    OBVIOUS
  <2>6. Insert(rows \ {req[r].sent}, req[r].seen, descent[req[r].sent], proved[req[r].sent])
        /\ Reply(r, "tokens", Fresh)
    BY <1>1 DEF Rotate
  <2>7. Insert(kept, v, from, given) /\ Reply(r, "tokens", n)
    BY <2>1, <2>5, <2>6 DEF Insert, Extend, Reply, Fresh
  <2>8. n \in Sessions
    BY <2>1, <2>7, ConstantsAreNumbers DEF TypeOK, Insert, Sessions
  <2>9. Makes(v, from, given) /\ rows' = (kept \ expired) \cup {made + 1}
    BY <2>3, <2>4, <2>7, InsertMakes
  <2>10. Replied(r, "tokens", n)
    BY <2>4, <2>7, <2>8, ReplyBecomes
  <2> QED BY <1>1, <2>1, <2>2, <2>5, <2>9, <2>10 DEF Makes, Replied, Becomes
<1>2. CASE ~Active(req[r].sent)
  <2>1. Reply(r, "clear", None) /\ UNCHANGED <<database, history>> /\ "clear" \in Answers
    BY <1>2 DEF Rotate, Answers
  <2>2. Replied(r, "clear", None)
    BY <2>1, ReplyBecomes
  <2> QED BY <1>2, <2>1, <2>2
<1> QED BY <1>1, <1>2

LEMMA RevokeDoes ==
    ASSUME TypeOK, NEW r \in Requests, Revoke(r)
    PROVE  Replied(r, "clear", None) /\ rows' = rows \ {req[r].sent}
  BY ReplyBecomes DEF Revoke, Answers

LEMMA ValidateDoes ==
    ASSUME TypeOK, NEW r \in Requests, Validate(r)
    PROVE  \/ Replied(r, "none", None) /\ UNCHANGED pairing
           \/ Usable(req[r].sent) /\ req[r].op = "password" /\ Proceeds(r, req[r].seen) /\ UNCHANGED pairing
           \/ /\ Usable(req[r].sent) /\ req[r].op = "approve" /\ pairing.state = "pending"
              /\ pairing' = [code |-> pairing.code, state |-> "approving", session |-> pairing.session]
              /\ Becomes(r, req[r].op, "second", req[r].by, req[r].heard, req[r].sent, req[r].seen,
                         pairing.code, req[r].answer, req[r].got)
<1>1. CASE Reply(r, "none", None) /\ UNCHANGED pairing
  BY <1>1, ReplyBecomes DEF Answers
<1>2. CASE Usable(req[r].sent) /\ req[r].op # "approve" /\ Proceed(r, "second", req[r].seen) /\ UNCHANGED pairing
  <2>1. PICK v : v = req[r].seen
    OBVIOUS
  <2>2. v \in Versions /\ Proceed(r, "second", v)
    BY <1>2, <2>1, RequestFields DEF Proceed
  <2>3. Proceeds(r, v)
    BY <2>2, ProceedBecomes
  <2> QED BY <1>2, <2>1, <2>3 DEF Proceeds, Validate
<1>3. CASE /\ Usable(req[r].sent) /\ req[r].op = "approve" /\ pairing.state = "pending"
           /\ pairing' = [pairing EXCEPT !.state = "approving"]
           /\ req' = [req EXCEPT ![r].at = "second", ![r].code = pairing.code]
  <2>1. pairing' = [code |-> pairing.code, state |-> "approving", session |-> pairing.session]
    BY <1>3 DEF TypeOK
  <2> QED BY <1>3, <2>1, ApproveBecomes
<1> QED BY <1>1, <1>2, <1>3 DEF Validate

LEMMA ChangePasswordDoes ==
    ASSUME TypeOK, NEW r \in Requests, ChangePassword(r)
    PROVE  /\ Replied(r, "none", None)
           /\ \/ version' = version + 1 /\ version' <= MaxVersion /\ rows' = {}
              \/ version' = version /\ rows' = rows
  BY ReplyBecomes, ConstantsAreNumbers DEF ChangePassword, Answers, TypeOK, Versions

LEMMA IssueDoes ==
    ASSUME TypeOK, NEW r \in Requests, IssuePaired(r), req[r].sent \in Made, req[r].code # 0
    PROVE  LET s == req[r].sent IN
           /\ Makes(carries[s], Paired(req[r].code), proved[s])
           /\ rows' = (rows \ expired) \cup {made + 1}
           /\ Becomes(r, "approve", "third", req[r].by, req[r].heard, s, req[r].seen,
                      req[r].code, req[r].answer, made + 1)
<1>1. PICK s, v, from, given, kept :
          /\ s = req[r].sent /\ v = carries[req[r].sent] /\ kept = rows
          /\ from = Paired(req[r].code) /\ given = proved[req[r].sent]
  OBVIOUS
<1>2. from \in Origins
  BY <1>1, RequestFields, ConstantsAreNumbers DEF Paired, Origins
<1>3. v \in Versions /\ given \in Versions
  BY <1>1 DEF TypeOK, Made
<1>4. Insert(kept, v, from, given)
  BY <1>1 DEF IssuePaired, Insert, Extend
<1>5. Makes(v, from, given) /\ rows' = (kept \ expired) \cup {made + 1}
  BY <1>2, <1>3, <1>4, InsertMakes
<1>6. /\ made < MaxSession /\ req' = [req EXCEPT ![r].at = "third", ![r].got = Fresh]
      /\ req[r].op = "approve"
  BY DEF IssuePaired, Insert, At
<1>7. Becomes(r, req[r].op, "third", req[r].by, req[r].heard, req[r].sent, req[r].seen,
              req[r].code, req[r].answer, made + 1)
  BY <1>6, IssueBecomes
<1> QED BY <1>1, <1>5, <1>6, <1>7 DEF Makes

LEMMA FinishDoes ==
    ASSUME TypeOK, NEW r \in Requests, FinishPairing(r)
    PROVE  /\ Replied(r, "none", None)
           /\ \/ /\ pairing.code = req[r].code /\ pairing.state # "none"
                 /\ pairing' = [code |-> pairing.code, state |-> "approved", session |-> req[r].got]
              \/ UNCHANGED pairing /\ ~(pairing.code = req[r].code /\ pairing.state # "none")
<1>1. Replied(r, "none", None)
  BY ReplyBecomes DEF FinishPairing, Answers
<1>2. CASE pairing.code = req[r].code /\ pairing.state # "none"
  <2>1. pairing' = [pairing EXCEPT !.state = "approved", !.session = req[r].got]
    BY <1>2 DEF FinishPairing
  <2>2. pairing' = [code |-> pairing.code, state |-> "approved", session |-> req[r].got]
    BY <2>1 DEF TypeOK
  <2> QED BY <1>1, <1>2, <2>2
<1>3. CASE ~(pairing.code = req[r].code /\ pairing.state # "none")
  BY <1>1, <1>3 DEF FinishPairing
<1> QED BY <1>2, <1>3

LEMMA FailDoes ==
    ASSUME TypeOK, NEW r \in Requests, Fail(r)
    PROVE  /\ Replied(r, "none", None)
           /\ \/ /\ At(r, "approve", "second") /\ pairing.code = req[r].code
                 /\ pairing.state = "approving"
                 /\ pairing' = [code |-> pairing.code, state |-> "pending", session |-> pairing.session]
              \/ /\ UNCHANGED pairing
                 /\ ~(At(r, "approve", "second") /\ pairing.code = req[r].code
                        /\ pairing.state = "approving")
<1>1. Replied(r, "none", None)
  BY ReplyBecomes DEF Fail, Answers
<1>2. CASE At(r, "approve", "second") /\ pairing.code = req[r].code /\ pairing.state = "approving"
  <2>1. pairing' = [pairing EXCEPT !.state = "pending"]
    BY <1>2 DEF Fail
  <2>2. pairing' = [code |-> pairing.code, state |-> "pending", session |-> pairing.session]
    BY <2>1 DEF TypeOK
  <2> QED BY <1>1, <1>2, <2>2
<1>3. CASE ~(At(r, "approve", "second") /\ pairing.code = req[r].code /\ pairing.state = "approving")
  BY <1>1, <1>3 DEF Fail
<1> QED BY <1>2, <1>3

LEMMA ExpirePairingDoes ==
    ASSUME TypeOK, ExpirePairing
    PROVE  pairing' = [code |-> pairing.code, state |-> "none", session |-> None]
  BY DEF TypeOK, ExpirePairing
-----------------------------------------------------------------------------
(* Basic is preserved.                                                     *)
LEMMA BasicFacts ==
    ASSUME Basic, NEW r \in Requests
    PROVE  /\ TypeOK /\ Placed(req[r]) /\ req[r].seen <= version
           /\ req[r].sent # None => req[r].sent \in Made
           /\ req[r].got # None => req[r].got \in Made
  BY DEF Basic, RequestsInPlace, RequestsKnow

LEMMA DatabaseSteps == Basic /\ [Next]_vars => Keeps \/ MakesOne
<1> SUFFICES ASSUME Basic, [Next]_vars PROVE Keeps \/ MakesOne
  OBVIOUS
<1>1. TypeOK /\ DatabaseOK /\ made \in Nat /\ version \in Nat /\ old \in Nat /\ MaxVersion \in Nat
  BY ConstantsAreNumbers, TypeOKParts DEF Basic, DatabaseOK, Versions
<1>2. CASE UNCHANGED <<database, history>>
  BY <1>1, <1>2 DEF Keeps, database, history, DatabaseOK
<1>3. ASSUME NEW r \in Requests, StoreSession(r) PROVE MakesOne
  <2>1. made + 1 \in Origins
    BY <1>1, <1>3, ConstantsAreNumbers DEF StoreSession, Insert, Origins
  <2> QED BY <1>1, <1>3, <2>1, StoreDoes, RequestFields DEF MakesOne
<1>4. ASSUME NEW r \in Requests, Rotate(r) PROVE Keeps \/ MakesOne
  <2>1. CASE UNCHANGED <<database, history>>
    BY <1>2, <2>1
  <2>2. CASE /\ req[r].sent \in Made
             /\ Makes(req[r].seen, descent[req[r].sent], proved[req[r].sent])
             /\ rows' = ((rows \ {req[r].sent}) \ expired) \cup {made + 1}
    <3>1. descent[req[r].sent] \in Origins /\ proved[req[r].sent] \in Versions
      BY <1>1, <2>2 DEF DatabaseOK
    <3> QED BY <1>1, <2>2, <3>1, RequestFields DEF MakesOne
  <2> QED BY <1>1, <1>4, <2>1, <2>2, RotateDoes
<1>5. ASSUME NEW r \in Requests, Revoke(r) PROVE Keeps
  BY <1>1, <1>5, RevokeDoes DEF Keeps, Revoke, history, DatabaseOK
<1>6. ASSUME NEW r \in Requests, ChangePassword(r) PROVE Keeps
  BY <1>1, <1>6, ChangePasswordDoes DEF Keeps, ChangePassword, history, DatabaseOK, Versions
<1>7. ASSUME NEW r \in Requests, IssuePaired(r) PROVE MakesOne
  <2>1. req[r].sent \in Made /\ req[r].code # 0 /\ req[r].op = "approve"
    BY <1>7, BasicFacts DEF Placed, IssuePaired, At
  <2>2. /\ Makes(carries[req[r].sent], Paired(req[r].code), proved[req[r].sent])
        /\ rows' = (rows \ expired) \cup {made + 1}
    BY <1>1, <1>7, <2>1, IssueDoes
  <2>3. carries[req[r].sent] \in Versions /\ proved[req[r].sent] \in Versions
    BY <1>1, <2>1 DEF DatabaseOK
  <2>4. Paired(req[r].code) \in Origins
    BY <1>1, <2>1, RequestFields, ConstantsAreNumbers DEF Paired, Origins
  <2> QED BY <2>2, <2>3, <2>4 DEF MakesOne
<1>8. CASE Expire
  BY <1>1, <1>8 DEF Keeps, Expire, DatabaseOK, history
<1>9. ASSUME NEW r \in Requests, ServerStep(r) PROVE Keeps \/ MakesOne
  <2>1. CASE VerifyPassword(r) \/ ReadUser(r) \/ Validate(r)
    BY <1>2, <2>1 DEF VerifyPassword, ReadUser, Validate
  <2>2. CASE FinishPairing(r) \/ Fail(r)
    BY <1>2, <2>2 DEF FinishPairing, Fail
  <2> QED BY <1>3, <1>4, <1>5, <1>6, <1>7, <1>9, <2>1, <2>2 DEF ServerStep
<1>10. ASSUME NEW r \in Requests,
              (\E c \in Clients, op \in Ops : Send(r, c, op)) \/ Deliver(r) \/ GiveUp(r) \/ Drop(r)
       PROVE  Keeps \/ MakesOne
  BY <1>2, <1>10 DEF Send, Deliver, GiveUp, Drop
<1>11. CASE StartPairing \/ ExpirePairing \/ PairingStatus
  BY <1>2, <1>11 DEF StartPairing, ExpirePairing, PairingStatus
<1>12. CASE UNCHANGED vars
  BY <1>2, <1>12 DEF vars
<1> QED BY <1>8, <1>9, <1>10, <1>11, <1>12 DEF Next

LEMMA MadeGrows ==
    ASSUME Basic, [Next]_vars
    PROVE  DatabaseOK' /\ Older /\ TypeOK
  BY DatabaseSteps, DatabaseParts DEF Basic
RequestsOK == req \in [Requests -> RequestRecord] /\ RequestsInPlace /\ RequestsKnow

LEMMA OneSeen == \A v \in Versions : v \in Nat /\ 1 <= v
  BY ConstantsAreNumbers DEF Versions

LEMMA RequestsUnchanged ==
    ASSUME Basic, Older, DatabaseOK', UNCHANGED req
    PROVE  RequestsOK'
<1>1. /\ \A q \in Requests : req[q].seen \in Nat
      /\ version \in Nat /\ version' \in Nat
  BY RequestFields, TypeOKParts, ConstantsAreNumbers DEF Basic, DatabaseOK, Versions
<1>2. RequestsInPlace'
  BY <1>1 DEF Basic, RequestsInPlace, Older
<1>3. RequestsKnow'
  BY DEF Basic, RequestsKnow, Older
<1> QED BY <1>2, <1>3, TypeOKParts DEF Basic, RequestsOK

LEMMA IdleKeepsRequests ==
    ASSUME Basic, Older, DatabaseOK', NEW r \in Requests,
           Becomes(r, "none", "idle", Device, FALSE, None, 1, 0, "none", None)
    PROVE  RequestsOK'
<1>1. OnlyChanges(r) /\ Placed(req'[r]) /\ req'[r].sent = None /\ req'[r].got = None /\ req'[r].seen = 1
  BY DEF Becomes, OnlyChanges, Placed
<1>2. 1 <= version'
  BY OneSeen DEF DatabaseOK
<1> QED BY <1>1, <1>2, RequestParts DEF RequestsOK, OnlyChanges

LEMMA ReplyKeepsRequests ==
    ASSUME Basic, Older, DatabaseOK', NEW r \in Requests, NEW answer \in Answers,
           NEW got \in Sessions \cup {None}, Replied(r, answer, got),
           req[r].op # "none",
           answer = "tokens" => req[r].op \in {"login", "refresh"} /\ got # None,
           answer = "clear" => req[r].op \in {"refresh", "logout"},
           got # None => got \in Made'
    PROVE  RequestsOK'
<1>1. CASE Becomes(r, "none", "idle", Device, FALSE, None, 1, 0, "none", None)
  BY <1>1, IdleKeepsRequests
<1>2. CASE Becomes(r, req[r].op, "answered", req[r].by, TRUE, None, 1, 0, answer, got)
  <2>1. OnlyChanges(r) /\ req'[r].sent = None /\ req'[r].got = got /\ req'[r].seen = 1
    BY <1>2 DEF Becomes, OnlyChanges
  <2>2. Placed(req'[r])
    BY <1>2 DEF Becomes, Placed
  <2>3. 1 <= version'
    BY OneSeen DEF DatabaseOK
  <2> QED BY <2>1, <2>2, <2>3, RequestParts DEF RequestsOK, OnlyChanges
<1> QED BY <1>1, <1>2 DEF Replied

LEMMA ProceedKeepsRequests ==
    ASSUME Basic, Older, DatabaseOK', NEW r \in Requests, NEW seen, Proceeds(r, seen),
           seen <= version',
           req[r].at = "first", req[r].op \in {"login", "refresh", "password"}
    PROVE  RequestsOK'
<1>1. /\ OnlyChanges(r) /\ req'[r].sent = req[r].sent /\ req'[r].got = req[r].got
      /\ req'[r].seen = seen
  BY DEF Proceeds, Becomes, OnlyChanges
<1>2. Placed(req'[r])
  BY BasicFacts DEF Proceeds, Becomes, Placed
<1>3. /\ req'[r].sent # None => req'[r].sent \in Made'
      /\ req'[r].got # None => req'[r].got \in Made'
  BY <1>1, BasicFacts DEF Older
<1> QED BY <1>1, <1>2, <1>3, RequestParts DEF RequestsOK, OnlyChanges

LEMMA RequestsSteps == Basic /\ [Next]_vars => RequestsOK'
<1> SUFFICES ASSUME Basic, [Next]_vars PROVE RequestsOK'
  OBVIOUS
<1> USE DEF At
<1>1. DatabaseOK' /\ Older /\ TypeOK /\ version \in Nat /\ version' \in Nat
  BY MadeGrows, OneSeen, TypeOKParts DEF DatabaseOK
<1>2. ASSUME NEW r \in Requests, NEW c \in Clients, NEW op \in Ops, Send(r, c, op)
      PROVE  RequestsOK'
  <2>1. Becomes(r, op, "first", c, TRUE, IF op = "login" THEN None ELSE jar[c],
                IF op \in {"login", "password"} THEN version ELSE 1, 0, "none", None)
    BY <1>1, <1>2, SendBecomes
  <2>2. jar[c] # None => jar[c] \in Made'
    BY <1>1 DEF Basic, ClientsKnow, Older
  <2>3. MaySend(c, op)
    BY <1>2 DEF Send
  <2>4. /\ OnlyChanges(r) /\ req'[r].got = None
        /\ req'[r].sent = (IF op = "login" THEN None ELSE jar[c])
        /\ req'[r].seen \in {version, 1}
    BY <2>1 DEF Becomes, OnlyChanges
  <2>5. Placed(req'[r])
    BY <2>1, <2>3 DEF Becomes, Placed, MaySend, Ops
  <2>6. version = version'
    BY <1>2 DEF Send, database
  <2>7. req'[r].seen <= version'
    BY <1>1, <2>4, <2>6, OneSeen DEF DatabaseOK
  <2> QED BY <1>1, <2>2, <2>4, <2>5, <2>7, RequestParts DEF RequestsOK, OnlyChanges
<1>3. ASSUME NEW r \in Requests, VerifyPassword(r) PROVE RequestsOK'
  <2>1. PICK v : v = version
    OBVIOUS
  <2>2. Proceeds(r, v) \/ Replied(r, "none", None)
    BY <1>1, <1>3, <2>1, VerifyDoes DEF Proceeds
  <2>3. v <= version' /\ "none" \in Answers
    BY <1>1, <2>1 DEF Answers, Older
  <2> QED BY <1>1, <1>3, <2>2, <2>3, ProceedKeepsRequests, ReplyKeepsRequests DEF VerifyPassword
<1>4. ASSUME NEW r \in Requests, ReadUser(r) PROVE RequestsOK'
  <2>1. PICK v : v = version
    OBVIOUS
  <2>2. Proceeds(r, v) \/ Replied(r, "clear", None)
    BY <1>1, <1>4, <2>1, ReadUserDoes DEF Proceeds
  <2>3. v <= version' /\ "clear" \in Answers
    BY <1>1, <2>1 DEF Answers, Older
  <2> QED BY <1>1, <1>4, <2>2, <2>3, ProceedKeepsRequests, ReplyKeepsRequests DEF ReadUser
<1>5. ASSUME NEW r \in Requests, StoreSession(r) \/ Rotate(r) PROVE RequestsOK'
  <2>1. req[r].op \in {"login", "refresh"}
    BY <1>5 DEF StoreSession, Rotate
  <2>2. PICK n : n = made + 1
    OBVIOUS
  <2>3. CASE made' = made + 1 /\ Replied(r, "tokens", made + 1)
    <3>1. Replied(r, "tokens", n)
      BY <2>2, <2>3 DEF Replied, Becomes
    <3>2. n \in Made' /\ n \in Sessions /\ "tokens" \in Answers /\ n # None
      BY <1>1, <2>2, <2>3, ConstantsAreNumbers DEF DatabaseOK, Made, Sessions, Answers, TypeOK
    <3> QED BY <1>1, <2>1, <3>1, <3>2, ReplyKeepsRequests
  <2>4. CASE req[r].op = "refresh" /\ Replied(r, "clear", None)
    BY <1>1, <2>4, ReplyKeepsRequests DEF Answers
  <2> QED BY <1>1, <1>5, <2>3, <2>4, StoreDoes, RotateDoes DEF Makes, Rotate
<1>6. ASSUME NEW r \in Requests, Revoke(r) PROVE RequestsOK'
  BY <1>1, <1>6, RevokeDoes, ReplyKeepsRequests DEF Revoke, Answers
<1>7. ASSUME NEW r \in Requests, Validate(r) PROVE RequestsOK'
  <2>1. req[r].at = "first" /\ req[r].op \in {"password", "approve"} /\ "none" \in Answers
    BY <1>7 DEF Validate, Answers
  <2>2. CASE Replied(r, "none", None)
    BY <1>1, <2>1, <2>2, ReplyKeepsRequests
  <2>3. CASE req[r].op = "password" /\ Proceeds(r, req[r].seen)
    <3>1. PICK v : v = req[r].seen
      OBVIOUS
    <3>2. Proceeds(r, v)
      BY <2>3, <3>1 DEF Proceeds
    <3>3. v <= version'
      BY <1>1, <3>1, BasicFacts, RequestFields, OneSeen DEF Older
    <3> QED BY <1>1, <2>1, <2>3, <3>2, <3>3, ProceedKeepsRequests
  <2>4. CASE /\ req[r].op = "approve" /\ pairing.state = "pending"
             /\ Becomes(r, req[r].op, "second", req[r].by, req[r].heard, req[r].sent, req[r].seen,
                        pairing.code, req[r].answer, req[r].got)
    <3>1. pairing.code # 0
      BY <2>4 DEF Basic, PairingKnows
    <3>2. /\ OnlyChanges(r) /\ req'[r].sent = req[r].sent /\ req'[r].got = req[r].got
          /\ req'[r].seen = req[r].seen
      BY <2>4 DEF Becomes, OnlyChanges
    <3>3. Placed(req'[r])
      BY <2>1, <2>4, <3>1, BasicFacts DEF Becomes, Placed
    <3>4. req'[r].seen <= version'
      BY <1>1, <3>2, BasicFacts, RequestFields, OneSeen DEF Older
    <3>5. /\ req'[r].sent # None => req'[r].sent \in Made'
          /\ req'[r].got # None => req'[r].got \in Made'
      BY <1>1, <3>2, BasicFacts DEF Older
    <3> QED BY <1>1, <3>2, <3>3, <3>4, <3>5, RequestParts DEF RequestsOK, OnlyChanges
  <2> QED BY <1>1, <1>7, <2>2, <2>3, <2>4, ValidateDoes
<1>8. ASSUME NEW r \in Requests, ChangePassword(r) PROVE RequestsOK'
  BY <1>1, <1>8, ChangePasswordDoes, ReplyKeepsRequests DEF ChangePassword, Answers
<1>9. ASSUME NEW r \in Requests, IssuePaired(r) PROVE RequestsOK'
  <2>1. req[r].op = "approve" /\ req[r].sent \in Made /\ req[r].code # 0 /\ req[r].answer = "none"
    BY <1>9, BasicFacts DEF Placed, IssuePaired
  <2>2. /\ made' = made + 1
        /\ Becomes(r, "approve", "third", req[r].by, req[r].heard, req[r].sent, req[r].seen,
                   req[r].code, req[r].answer, made + 1)
    BY <1>1, <1>9, <2>1, IssueDoes DEF Makes
  <2>3. made + 1 \in Made' /\ made + 1 # None
    BY <1>1, <2>2, ConstantsAreNumbers DEF TypeOK, Made
  <2>4. OnlyChanges(r) /\ Placed(req'[r])
    BY <2>1, <2>2, <2>3 DEF Becomes, Placed, OnlyChanges
  <2>5. req'[r].sent \in Made' /\ req'[r].got \in Made' /\ req'[r].seen = req[r].seen
    BY <1>1, <2>1, <2>2, <2>3 DEF Becomes, Older
  <2>6. req'[r].seen <= version'
    BY <1>1, <2>5, BasicFacts, RequestFields, OneSeen DEF Older
  <2> QED BY <1>1, <2>4, <2>5, <2>6, RequestParts DEF RequestsOK, OnlyChanges
<1>10. ASSUME NEW r \in Requests, FinishPairing(r) PROVE RequestsOK'
  BY <1>1, <1>10, FinishDoes, ReplyKeepsRequests DEF FinishPairing, Answers
<1>11. ASSUME NEW r \in Requests, Fail(r) PROVE RequestsOK'
  <2>1. req[r].op # "none"
    BY <1>11, BasicFacts DEF Fail, Placed
  <2> QED BY <1>1, <1>11, <2>1, FailDoes, ReplyKeepsRequests DEF Answers
<1>12. ASSUME NEW r \in Requests, Deliver(r) \/ Drop(r) PROVE RequestsOK'
  BY <1>1, <1>12, IdleBecomes, IdleKeepsRequests DEF Deliver, Drop
<1>13. ASSUME NEW r \in Requests, GiveUp(r) PROVE RequestsOK'
  <2>1. CASE req' = [req EXCEPT ![r] = Idle]
    BY <1>1, <2>1, IdleBecomes, IdleKeepsRequests
  <2>2. CASE req[r].at # "answered" /\ req' = [req EXCEPT ![r].heard = FALSE]
    <3>1. Becomes(r, req[r].op, req[r].at, req[r].by, FALSE, req[r].sent, req[r].seen,
                  req[r].code, req[r].answer, req[r].got)
      BY <1>1, <2>2, UnheardBecomes
    <3>2. /\ OnlyChanges(r) /\ req'[r].sent = req[r].sent /\ req'[r].got = req[r].got
          /\ req'[r].seen = req[r].seen
      BY <3>1 DEF Becomes, OnlyChanges
    <3>3. Placed(req'[r])
      <4>1. /\ req'[r].op = req[r].op /\ req'[r].at = req[r].at /\ req'[r].sent = req[r].sent
            /\ req'[r].code = req[r].code /\ req'[r].answer = req[r].answer /\ req'[r].got = req[r].got
        BY <3>1 DEF Becomes
      <4> QED BY <2>2, <4>1, BasicFacts DEF Placed
    <3>4. req'[r].seen <= version'
      BY <1>1, <3>2, BasicFacts, RequestFields, OneSeen DEF Older
    <3>5. /\ req'[r].sent # None => req'[r].sent \in Made'
          /\ req'[r].got # None => req'[r].got \in Made'
      BY <1>1, <3>2, BasicFacts DEF Older
    <3> QED BY <1>1, <3>2, <3>3, <3>4, <3>5, RequestParts DEF RequestsOK, OnlyChanges
  <2> QED BY <1>13, <2>1, <2>2 DEF GiveUp
<1>14. CASE UNCHANGED req
  BY <1>1, <1>14, RequestsUnchanged
<1>15. CASE StartPairing \/ ExpirePairing \/ PairingStatus \/ Expire \/ UNCHANGED vars
  BY <1>14, <1>15 DEF StartPairing, ExpirePairing, PairingStatus, Expire, vars
<1> QED
  BY <1>2, <1>3, <1>4, <1>5, <1>6, <1>7, <1>8, <1>9, <1>10, <1>11, <1>12, <1>13, <1>15
     DEF Next, ServerStep
LEMMA PairingSteps == Basic /\ [Next]_vars => PairingOK' /\ PairingKnows'
<1> SUFFICES ASSUME Basic, [Next]_vars PROVE PairingOK' /\ PairingKnows'
  OBVIOUS
<1>1. /\ TypeOK /\ PairingOK /\ PairingKnows /\ Older /\ DatabaseOK'
      /\ pairing.code \in 0 .. MaxPairing /\ pairing.session \in Sessions \cup {None}
      /\ MaxPairing \in Nat
  BY MadeGrows, TypeOKParts, ConstantsAreNumbers DEF Basic, PairingOK
<1>2. CASE UNCHANGED pairing
  BY <1>1, <1>2 DEF PairingOK, PairingKnows, Older
<1>3. ASSUME NEW r \in Requests, Validate(r) PROVE PairingOK' /\ PairingKnows'
  <2>1. CASE /\ pairing.state = "pending"
             /\ pairing' = [code |-> pairing.code, state |-> "approving", session |-> pairing.session]
    BY <1>1, <2>1 DEF PairingOK, PairingKnows, Older
  <2> QED BY <1>1, <1>2, <1>3, <2>1, ValidateDoes
<1>4. ASSUME NEW r \in Requests, FinishPairing(r) PROVE PairingOK' /\ PairingKnows'
  <2>1. req[r].got # None /\ req[r].got \in Made /\ req[r].got \in Sessions \cup {None}
    BY <1>1, <1>4, BasicFacts, RequestFields DEF FinishPairing, At, Placed
  <2>2. CASE /\ pairing.state # "none"
             /\ pairing' = [code |-> pairing.code, state |-> "approved", session |-> req[r].got]
    BY <1>1, <2>1, <2>2 DEF PairingOK, PairingKnows, Older
  <2> QED BY <1>1, <1>2, <1>4, <2>2, FinishDoes
<1>5. ASSUME NEW r \in Requests, Fail(r) PROVE PairingOK' /\ PairingKnows'
  <2>1. CASE /\ pairing.state = "approving"
             /\ pairing' = [code |-> pairing.code, state |-> "pending", session |-> pairing.session]
    BY <1>1, <2>1 DEF PairingOK, PairingKnows, Older
  <2> QED BY <1>1, <1>2, <1>5, <2>1, FailDoes
<1>6. CASE StartPairing
  <2>1. pairing' = [code |-> pairing.code + 1, state |-> "pending", session |-> None]
        /\ pairing.code + 1 \in 0 .. MaxPairing /\ pairing.code + 1 # 0
    BY <1>1, <1>6 DEF StartPairing
  <2> QED BY <2>1 DEF PairingOK, PairingKnows
<1>7. CASE ExpirePairing
  <2>1. pairing' = [code |-> pairing.code, state |-> "none", session |-> None]
    BY <1>1, <1>7, ExpirePairingDoes
  <2> QED BY <1>1, <2>1 DEF PairingOK, PairingKnows
<1>8. ASSUME NEW r \in Requests,
             \/ VerifyPassword(r) \/ StoreSession(r) \/ ReadUser(r) \/ Rotate(r) \/ Revoke(r)
             \/ ChangePassword(r) \/ IssuePaired(r)
      PROVE  PairingOK' /\ PairingKnows'
  BY <1>2, <1>8 DEF VerifyPassword, StoreSession, ReadUser, Rotate, Revoke, ChangePassword, IssuePaired
<1>9. ASSUME NEW r \in Requests,
             (\E c \in Clients, op \in Ops : Send(r, c, op)) \/ Deliver(r) \/ GiveUp(r) \/ Drop(r)
      PROVE  PairingOK' /\ PairingKnows'
  BY <1>2, <1>9 DEF Send, Deliver, GiveUp, Drop
<1>10. CASE PairingStatus \/ Expire \/ UNCHANGED vars
  BY <1>2, <1>10 DEF PairingStatus, Expire, vars
<1> QED BY <1>3, <1>4, <1>5, <1>6, <1>7, <1>8, <1>9, <1>10 DEF Next, ServerStep

\* Client c, and no other, holds session s or none, and may have lost track.
HoldsNow(c, s, since) ==
    /\ jar'[c] = s /\ held'[c] = (IF s = None THEN held[c] ELSE descent[s]) /\ crossed'[c] = since
    /\ \A d \in Clients : d # c => jar'[d] = jar[d] /\ held'[d] = held[d] /\ crossed'[d] = crossed[d]

LEMMA HoldDoes ==
    ASSUME TypeOK, NEW c \in Clients, NEW s \in Sessions \cup {None}, NEW since \in BOOLEAN,
           Hold(c, s, since), s # None => s \in Made
    PROVE  HoldsNow(c, s, since) /\ ClientsOK'
<1>1. ClientsOK /\ (s # None => descent[s] \in Origins)
  BY TypeOKParts DEF DatabaseOK
<1>2. jar' \in [Clients -> Sessions \cup {None}] /\ jar'[c] = s /\ \A d \in Clients : d # c => jar'[d] = jar[d]
  BY <1>1 DEF Hold, ClientsOK
<1>3. /\ crossed' \in [Clients -> BOOLEAN] /\ crossed'[c] = since
      /\ \A d \in Clients : d # c => crossed'[d] = crossed[d]
  BY <1>1 DEF Hold, ClientsOK
<1>4. /\ held' \in [Clients -> Origins \cup {None}]
      /\ held'[c] = (IF s = None THEN held[c] ELSE descent[s])
      /\ \A d \in Clients : d # c => held'[d] = held[d]
  <2>1. CASE s = None
    BY <1>1, <2>1 DEF Hold, ClientsOK
  <2>2. CASE s # None
    BY <1>1, <2>2 DEF Hold, ClientsOK
  <2> QED BY <2>1, <2>2
<1> QED BY <1>2, <1>3, <1>4 DEF HoldsNow, ClientsOK

Given(r) ==
    IF req[r].answer = "none" THEN jar[req[r].by]
    ELSE IF req[r].answer = "clear" THEN None ELSE req[r].got
Alone(r) == req[r].op = "login" /\ req[r].answer = "tokens" /\ Under(req[r].by) = {r}

LEMMA DeliverDoes ==
    ASSUME Basic, NEW r \in Requests, Deliver(r)
    PROVE  /\ HoldsNow(req[r].by, Given(r), IF Alone(r) THEN FALSE ELSE crossed[req[r].by])
           /\ ClientsOK'
           /\ Given(r) # None => Given(r) \in Made
           /\ Becomes(r, "none", "idle", Device, FALSE, None, 1, 0, "none", None)
<1>1. TypeOK
  BY DEF Basic
<1>2. PICK c, s, since : /\ c = req[r].by /\ s = Given(r)
                         /\ since = IF Alone(r) THEN FALSE ELSE crossed[req[r].by]
  OBVIOUS
<1>3. c \in Clients /\ req[r].answer \in Answers /\ jar[c] \in Sessions \cup {None}
      /\ crossed[c] \in BOOLEAN /\ req[r].got \in Sessions \cup {None}
  BY <1>1, <1>2, RequestFields, TypeOKParts DEF ClientsOK
<1>4. s \in Sessions \cup {None} /\ since \in BOOLEAN
  BY <1>2, <1>3 DEF Given
<1>5. s # None => s \in Made
  BY <1>2, <1>3, BasicFacts DEF Given, Basic, ClientsKnow
<1>6. Hold(c, s, since)
  <2>1. s = CASE req[r].answer = "none" -> jar[c]
              [] req[r].answer = "clear" -> None
              [] req[r].answer = "tokens" -> req[r].got
    BY <1>2, <1>3 DEF Given, Answers
  <2> QED BY <1>2, <2>1 DEF Deliver, Alone, Hold
<1>7. HoldsNow(c, s, since) /\ ClientsOK'
  BY <1>1, <1>3, <1>4, <1>5, <1>6, HoldDoes
<1>8. Becomes(r, "none", "idle", Device, FALSE, None, 1, 0, "none", None)
  BY <1>1, IdleBecomes DEF Deliver
<1> QED BY <1>2, <1>5, <1>7, <1>8

LEMMA PairingStatusDoes ==
    ASSUME Basic, PairingStatus
    PROVE  HoldsNow(Device, pairing.session, FALSE) /\ ClientsOK' /\ pairing.session \in Made
<1>1. TypeOK /\ Device \in Clients
  BY ConstantsAreNumbers DEF Basic
<1>2. PICK s : s = pairing.session
  OBVIOUS
<1>3. s \in Sessions \cup {None} /\ s # None /\ s \in Made
  BY <1>1, <1>2 DEF PairingStatus, TypeOK, Basic, PairingKnows
<1>4. Hold(Device, s, FALSE)
  BY <1>2 DEF PairingStatus, Hold
<1>5. FALSE \in BOOLEAN
  OBVIOUS
<1> QED BY <1>1, <1>2, <1>3, <1>4, <1>5, HoldDoes

LEMMA HoldKeepsClients ==
    ASSUME Basic, Older, NEW c \in Clients, NEW s, NEW since, HoldsNow(c, s, since),
           s # None => s \in Made
    PROVE  ClientsKnow'
<1>1. ASSUME NEW d \in Clients
      PROVE  /\ jar'[d] # None => jar'[d] \in Made' /\ held'[d] = descent'[jar'[d]]
             /\ held'[d] # None => \E t \in Made' : descent'[t] = held'[d]
  <2>1. /\ jar[d] # None => jar[d] \in Made' /\ held[d] = descent'[jar[d]]
        /\ held[d] # None => \E t \in Made' : descent'[t] = held[d]
    BY DEF Basic, ClientsKnow, Older
  <2>2. s # None => s \in Made' /\ descent[s] = descent'[s]
    BY DEF Older
  <2>3. CASE d = c
    BY <2>1, <2>2, <2>3 DEF HoldsNow
  <2>4. CASE d # c
    BY <2>1, <2>4 DEF HoldsNow
  <2> QED BY <2>3, <2>4
<1> QED BY <1>1 DEF ClientsKnow

LEMMA ClientsSteps == Basic /\ [Next]_vars => ClientsOK' /\ ClientsKnow'
<1> SUFFICES ASSUME Basic, [Next]_vars PROVE ClientsOK' /\ ClientsKnow'
  OBVIOUS
<1>1. TypeOK /\ ClientsOK /\ ClientsKnow /\ Older
  BY MadeGrows, TypeOKParts DEF Basic
<1>2. CASE UNCHANGED <<jar, held>> /\ crossed' \in [Clients -> BOOLEAN]
  BY <1>1, <1>2 DEF ClientsOK, ClientsKnow, Older
<1>3. ASSUME NEW r \in Requests, NEW c \in Clients, NEW op \in Ops, Send(r, c, op)
      PROVE  ClientsOK' /\ ClientsKnow'
  <2>1. crossed' = [crossed EXCEPT ![c] = crossed[c] \/ (op \in Signing /\ Under(c) # {})]
    BY <1>3 DEF Send
  <2>2. (crossed[c] \/ (op \in Signing /\ Under(c) # {})) \in BOOLEAN
    BY <1>1 DEF ClientsOK
  <2>3. crossed' \in [Clients -> BOOLEAN]
    BY <1>1, <2>1, <2>2 DEF ClientsOK
  <2> QED BY <1>2, <1>3, <2>3 DEF Send
<1>4. ASSUME NEW r \in Requests, GiveUp(r) PROVE ClientsOK' /\ ClientsKnow'
  <2>1. crossed' = [crossed EXCEPT ![req[r].by] = crossed[req[r].by] \/ req[r].op \in Signing]
    BY <1>4 DEF GiveUp
  <2>2. crossed' \in [Clients -> BOOLEAN]
    <3> HIDE DEF Signing
    <3>1. (crossed[req[r].by] \/ req[r].op \in Signing) \in BOOLEAN
      BY <1>1 DEF ClientsOK
    <3> QED BY <1>1, <2>1, <3>1 DEF ClientsOK
  <2> QED BY <1>2, <1>4, <2>2 DEF GiveUp
<1>5. ASSUME NEW r \in Requests, Deliver(r) PROVE ClientsOK' /\ ClientsKnow'
  <2>1. PICK c, s, since : /\ c = req[r].by /\ s = Given(r)
                           /\ since = IF Alone(r) THEN FALSE ELSE crossed[req[r].by]
    OBVIOUS
  <2>2. HoldsNow(c, s, since) /\ ClientsOK' /\ (s # None => s \in Made) /\ c \in Clients
    BY <1>1, <1>5, <2>1, DeliverDoes, RequestFields DEF HoldsNow
  <2> QED BY <1>1, <2>2, HoldKeepsClients
<1>6. CASE PairingStatus
  <2>1. PICK s : s = pairing.session
    OBVIOUS
  <2>2. HoldsNow(Device, s, FALSE) /\ ClientsOK' /\ s \in Made
    BY <1>6, <2>1, PairingStatusDoes DEF HoldsNow
  <2> QED BY <1>1, <2>2, HoldKeepsClients, ConstantsAreNumbers
<1>7. CASE UNCHANGED client
  BY <1>1, <1>2, <1>7 DEF client, ClientsOK
<1>8. ASSUME NEW r \in Requests, ServerStep(r) PROVE UNCHANGED client
  <2>1. CASE VerifyPassword(r) \/ StoreSession(r) \/ ReadUser(r) \/ Rotate(r) \/ Revoke(r)
    BY <2>1 DEF VerifyPassword, StoreSession, ReadUser, Rotate, Revoke
  <2>2. CASE Validate(r) \/ ChangePassword(r) \/ IssuePaired(r) \/ FinishPairing(r) \/ Fail(r)
    BY <2>2 DEF Validate, ChangePassword, IssuePaired, FinishPairing, Fail
  <2> QED BY <1>8, <2>1, <2>2 DEF ServerStep
<1>9. (\E r \in Requests : Drop(r)) \/ StartPairing \/ ExpirePairing \/ Expire \/ UNCHANGED vars
         => UNCHANGED client
  BY DEF Drop, StartPairing, ExpirePairing, Expire, vars, client
<1> QED BY <1>3, <1>4, <1>5, <1>6, <1>7, <1>8, <1>9 DEF Next

LEMMA BasicInit == Init => Basic
<1> SUFFICES ASSUME Init PROVE Basic
  OBVIOUS
<1>1. 1 \in Versions /\ 0 \in 0 .. MaxPairing /\ 0 \in 0 .. MaxSession /\ 1 .. 0 = {}
  BY ConstantsAreNumbers DEF Versions
<1>2. Idle \in RequestRecord /\ Placed(Idle) /\ Idle.sent = None /\ Idle.got = None /\ Idle.seen = 1
  BY <1>1, ConstantsAreNumbers DEF RequestRecord, Idle, Answers, Placed
<1>3. DatabaseOK
  <2>1. Made = {}
    BY <1>1 DEF Init, Made
  <2>2. <<>> \in [Made -> Versions] /\ <<>> \in [Made -> Origins]
    BY <2>1
  <2> QED BY <1>1, <2>2 DEF Init, DatabaseOK
<1>4. req \in [Requests -> RequestRecord] /\ RequestsKnow /\ RequestsInPlace
  BY <1>2 DEF Init, RequestsKnow, RequestsInPlace
<1>5. PairingOK /\ PairingKnows
  BY <1>1 DEF Init, PairingOK, PairingKnows, NoPairing
<1>6. ClientsOK /\ ClientsKnow
  BY DEF Init, ClientsOK, ClientsKnow
<1> QED BY <1>3, <1>4, <1>5, <1>6, TypeOKParts DEF Basic

LEMMA BasicStep == Basic /\ [Next]_vars => Basic'
<1> SUFFICES ASSUME Basic, [Next]_vars PROVE Basic'
  OBVIOUS
<1>1. DatabaseOK' /\ RequestsOK' /\ PairingOK' /\ PairingKnows' /\ ClientsOK' /\ ClientsKnow'
  BY MadeGrows, RequestsSteps, PairingSteps, ClientsSteps
<1>2. TypeOK'
  BY <1>1 DEF TypeOK, DatabaseOK, PairingOK, ClientsOK, RequestsOK, RequestRecord, Made
<1> QED BY <1>1, <1>2 DEF Basic, RequestsOK

(* The account is what it is meant to be: TypeOK.                          *)
THEOREM SessionTyping == Spec => []TypeOK
<1>1. Basic => TypeOK
  BY DEF Basic
<1> QED BY <1>1, BasicInit, BasicStep, PTL DEF Spec
-----------------------------------------------------------------------------
(* How a request may have come to a later block of its handler.            *)
Entered(q) ==
    \/ /\ req[q].op = req'[q].op /\ req[q].sent = req'[q].sent /\ req[q].seen = req'[q].seen
       /\ req[q].code = req'[q].code
       /\ req[q].at \in {"second", req'[q].at}
    \/ /\ At(q, "refresh", "first") /\ req'[q].op = "refresh" /\ req'[q].sent = req[q].sent
       /\ carries[req[q].sent] = version /\ req'[q].seen = version
       /\ UNCHANGED <<database, history>>
    \/ /\ req'[q].op = "approve" /\ req'[q].at = "second" /\ req'[q].code = pairing.code
       /\ pairing.state = "pending" /\ pairing'.state = "approving"
       /\ pairing'.code = pairing.code /\ UNCHANGED <<database, history>>
    \/ req'[q].op \in {"login", "password"}

LEMMA EnteredByOne ==
    ASSUME NEW r \in Requests, \A q \in Requests : q # r => req'[q] = req[q],
           req'[r].at \in {"second", "third"} => Entered(r)
    PROVE  \A q \in Requests : req'[q].at \in {"second", "third"} => Entered(q)
<1> SUFFICES ASSUME NEW q \in Requests, q # r PROVE Entered(q)
  OBVIOUS
<1> QED BY DEF Entered

LEMMA Entering ==
    ASSUME Basic, [Next]_vars
    PROVE  \A q \in Requests : req'[q].at \in {"second", "third"} => Entered(q)
<1>1. TypeOK
  BY DEF Basic
<1>2. ASSUME NEW r \in Requests,
             \/ Becomes(r, "none", "idle", Device, FALSE, None, 1, 0, "none", None)
             \/ \E answer, got : Replied(r, answer, got)
      PROVE  \A q \in Requests : req'[q].at \in {"second", "third"} => Entered(q)
  <2>1. CASE Becomes(r, "none", "idle", Device, FALSE, None, 1, 0, "none", None)
    <3>1. (\A q \in Requests : q # r => req'[q] = req[q]) /\ req'[r].at = "idle"
      BY <2>1 DEF Becomes
    <3> QED BY <3>1, EnteredByOne
  <2>2. CASE \E answer, got : Replied(r, answer, got)
    <3>1. PICK answer, got : Replied(r, answer, got)
      BY <2>2
    <3>2. (\A q \in Requests : q # r => req'[q] = req[q]) /\ req'[r].at \in {"idle", "answered"}
      BY <3>1 DEF Replied, Becomes
    <3> QED BY <3>2, EnteredByOne
  <2> QED BY <1>2, <2>1, <2>2
<1>3. ASSUME NEW r \in Requests, NEW c \in Clients, NEW op \in Ops, Send(r, c, op)
      PROVE  \A q \in Requests : req'[q].at \in {"second", "third"} => Entered(q)
  <2>1. Becomes(r, op, "first", c, TRUE, IF op = "login" THEN None ELSE jar[c],
                IF op \in {"login", "password"} THEN version ELSE 1, 0, "none", None)
    BY <1>1, <1>3, SendBecomes
  <2>2. (\A q \in Requests : q # r => req'[q] = req[q]) /\ req'[r].at = "first"
    BY <2>1 DEF Becomes
  <2> QED BY <2>2, EnteredByOne
<1>4. ASSUME NEW r \in Requests, VerifyPassword(r) \/ ReadUser(r)
      PROVE  \A q \in Requests : req'[q].at \in {"second", "third"} => Entered(q)
  <2>1. CASE \E answer, got : Replied(r, answer, got)
    BY <1>2, <2>1
  <2>2. CASE Proceeds(r, version) /\ VerifyPassword(r)
    BY <2>2, EnteredByOne DEF Proceeds, Becomes, VerifyPassword, At, Entered
  <2>3. CASE Proceeds(r, version) /\ ReadUser(r) /\ carries[req[r].sent] = version
    BY <2>3, EnteredByOne DEF Proceeds, Becomes, ReadUser, At, Entered
  <2> QED BY <1>1, <1>4, <2>1, <2>2, <2>3, VerifyDoes, ReadUserDoes
<1>5. ASSUME NEW r \in Requests, Validate(r)
      PROVE  \A q \in Requests : req'[q].at \in {"second", "third"} => Entered(q)
  <2>1. CASE \E answer, got : Replied(r, answer, got)
    BY <1>2, <2>1
  <2>2. CASE Proceeds(r, req[r].seen) /\ req[r].op = "password"
    BY <2>2, EnteredByOne DEF Proceeds, Becomes, Entered
  <2>3. CASE /\ req[r].op = "approve" /\ pairing.state = "pending"
             /\ pairing' = [code |-> pairing.code, state |-> "approving", session |-> pairing.session]
             /\ Becomes(r, req[r].op, "second", req[r].by, req[r].heard, req[r].sent, req[r].seen,
                        pairing.code, req[r].answer, req[r].got)
    BY <1>5, <2>3, EnteredByOne DEF Becomes, Entered, Validate
  <2> QED BY <1>1, <1>5, <2>1, <2>2, <2>3, ValidateDoes
<1>6. ASSUME NEW r \in Requests, IssuePaired(r)
      PROVE  \A q \in Requests : req'[q].at \in {"second", "third"} => Entered(q)
  <2>1. req[r].op = "approve" /\ req[r].at = "second" /\ req[r].sent \in Made /\ req[r].code # 0
    BY <1>6, BasicFacts DEF Placed, IssuePaired, At
  <2>2. Becomes(r, "approve", "third", req[r].by, req[r].heard, req[r].sent, req[r].seen,
                req[r].code, req[r].answer, made + 1)
    BY <1>1, <1>6, <2>1, IssueDoes
  <2> QED BY <2>1, <2>2, EnteredByOne DEF Becomes, Entered
<1>7. ASSUME NEW r \in Requests,
             \/ StoreSession(r) \/ Rotate(r) \/ Revoke(r) \/ ChangePassword(r) \/ FinishPairing(r)
             \/ Fail(r) \/ Deliver(r) \/ Drop(r)
      PROVE  \A q \in Requests : req'[q].at \in {"second", "third"} => Entered(q)
  <2>1. CASE Deliver(r) \/ Drop(r)
    BY <1>1, <1>2, <2>1, IdleBecomes DEF Deliver, Drop
  <2> QED BY <1>1, <1>2, <1>7, <2>1, StoreDoes, RotateDoes, RevokeDoes, ChangePasswordDoes, FinishDoes, FailDoes
<1>8. ASSUME NEW r \in Requests, GiveUp(r)
      PROVE  \A q \in Requests : req'[q].at \in {"second", "third"} => Entered(q)
  <2>1. CASE req' = [req EXCEPT ![r] = Idle]
    BY <1>1, <1>2, <2>1, IdleBecomes
  <2>2. CASE req' = [req EXCEPT ![r].heard = FALSE]
    BY <1>1, <2>2, UnheardBecomes, EnteredByOne DEF Becomes, Entered
  <2> QED BY <1>8, <2>1, <2>2 DEF GiveUp
<1>9. CASE StartPairing \/ ExpirePairing \/ PairingStatus \/ Expire \/ UNCHANGED vars
  <2>1. UNCHANGED req
    BY <1>9 DEF StartPairing, ExpirePairing, PairingStatus, Expire, vars
  <2> QED BY <2>1 DEF Entered
<1> QED BY <1>3, <1>4, <1>5, <1>6, <1>7, <1>8, <1>9 DEF Next, ServerStep
(* How a session may be made: for a password, for a code, for another one. *)
SignsIn ==
    /\ \E v \in Versions : Makes(v, made + 1, v) /\ v <= version
    /\ rows' = (rows \ expired) \cup {made + 1}
    /\ UNCHANGED pairing
Issues(r) ==
    /\ At(r, "approve", "second")
    /\ \E v \in Versions : Makes(v, Paired(req[r].code), v) /\ v <= version
    /\ req[r].code \in 1 .. pairing.code
    /\ rows' = (rows \ expired) \cup {made + 1}
    /\ req'[r].op = "approve" /\ req'[r].at = "third" /\ req'[r].code = req[r].code
    /\ \A q \in Requests : q # r => req'[q] = req[q]
    /\ UNCHANGED pairing
Renews(s) ==
    /\ Active(s) /\ s \in Made
    /\ \E r \in Requests : Rotate(r) /\ req[r].sent = s
    /\ Makes(carries[s], descent[s], carries[s])
    /\ rows' = ((rows \ {s}) \ expired) \cup {made + 1}
    /\ UNCHANGED pairing

LEMMA Making ==
    ASSUME SessionInv, [Next]_vars
    PROVE  Keeps \/ SignsIn \/ (\E r \in Requests : Issues(r)) \/ (\E s \in Made : Renews(s))
<1>1. Basic /\ TypeOK
  BY DEF SessionInv, Basic
<1>2. CASE Keeps
  BY <1>2
<1>3. ASSUME NEW r \in Requests, StoreSession(r) PROVE SignsIn
  <2>1. /\ Makes(req[r].seen, made + 1, req[r].seen) /\ rows' = (rows \ expired) \cup {made + 1}
        /\ UNCHANGED pairing
    BY <1>1, <1>3, StoreDoes DEF StoreSession
  <2> QED BY <1>1, <2>1, BasicFacts, RequestFields DEF SignsIn
<1>4. ASSUME NEW r \in Requests, Rotate(r) PROVE Keeps \/ \E s \in Made : Renews(s)
  <2>1. CASE UNCHANGED <<database, history>>
    <3>1. TypeOK /\ DatabaseOK /\ version \in Nat /\ old \in Nat /\ made \in Nat
      BY <1>1, OneSeen, TypeOKParts, ConstantsAreNumbers DEF DatabaseOK
    <3> QED BY <2>1, <3>1 DEF Keeps, database, history, DatabaseOK
  <2>2. CASE /\ Active(req[r].sent) /\ req[r].sent \in Made
             /\ Makes(req[r].seen, descent[req[r].sent], proved[req[r].sent])
             /\ rows' = ((rows \ {req[r].sent}) \ expired) \cup {made + 1}
    <3>1. PICK s : s = req[r].sent
      OBVIOUS
    <3>2. req[r].seen = carries[s] /\ proved[s] = carries[s] /\ s \in Made /\ UNCHANGED pairing
      BY <1>4, <2>2, <3>1 DEF SessionInv, SessionsAgree, ReadsAgree, Rotate
    <3>3. Makes(carries[s], descent[s], carries[s])
      BY <2>2, <3>1, <3>2 DEF Makes
    <3> QED BY <1>4, <2>2, <3>1, <3>2, <3>3 DEF Renews
  <2> QED BY <1>1, <1>4, <2>1, <2>2, RotateDoes
<1>5. ASSUME NEW r \in Requests, IssuePaired(r) PROVE Issues(r)
  <2>1. req[r].sent \in Made /\ req[r].code # 0 /\ At(r, "approve", "second")
    BY <1>1, <1>5, BasicFacts DEF Placed, IssuePaired, At
  <2>2. /\ Makes(carries[req[r].sent], Paired(req[r].code), proved[req[r].sent])
        /\ rows' = (rows \ expired) \cup {made + 1}
        /\ Becomes(r, "approve", "third", req[r].by, req[r].heard, req[r].sent, req[r].seen,
                   req[r].code, req[r].answer, made + 1)
        /\ UNCHANGED pairing
    BY <1>1, <1>5, <2>1, IssueDoes DEF IssuePaired
  <2>3. carries[req[r].sent] = proved[req[r].sent] /\ carries[req[r].sent] <= version
        /\ carries[req[r].sent] \in Versions
    BY <1>1, <2>1, TypeOKParts DEF SessionInv, SessionsAgree, DatabaseOK
  <2>4. req[r].code \in 1 .. pairing.code
    BY <1>1, <2>1, RequestFields, ConstantsAreNumbers DEF SessionInv, OriginsKnown, Approving, At, TypeOK
  <2>5. Makes(carries[req[r].sent], Paired(req[r].code), carries[req[r].sent])
    BY <2>2, <2>3
  <2>6. /\ req'[r].op = "approve" /\ req'[r].at = "third" /\ req'[r].code = req[r].code
        /\ \A q \in Requests : q # r => req'[q] = req[q]
    BY <2>2 DEF Becomes
  <2> QED BY <2>1, <2>2, <2>3, <2>4, <2>5, <2>6 DEF Issues
<1>6. CASE MakesOne
  <2>1. made' = made + 1 /\ made \in Nat
    BY <1>1, <1>6, TypeOKParts DEF MakesOne, Makes, DatabaseOK
  <2>2. (\E r \in Requests : StoreSession(r) \/ Rotate(r) \/ IssuePaired(r)) \/ made' = made
    <3>1. ASSUME NEW r \in Requests, ServerStep(r)
          PROVE  StoreSession(r) \/ Rotate(r) \/ IssuePaired(r) \/ made' = made
      <4>1. CASE VerifyPassword(r) \/ ReadUser(r) \/ Revoke(r) \/ Validate(r)
        BY <4>1 DEF VerifyPassword, ReadUser, Revoke, Validate, database
      <4>2. CASE ChangePassword(r) \/ FinishPairing(r) \/ Fail(r)
        BY <4>2 DEF ChangePassword, FinishPairing, Fail, database
      <4> QED BY <3>1, <4>1, <4>2 DEF ServerStep
    <3>2. ASSUME NEW r \in Requests,
                 (\E c \in Clients, op \in Ops : Send(r, c, op)) \/ Deliver(r) \/ GiveUp(r) \/ Drop(r)
          PROVE  made' = made
      BY <3>2 DEF Send, Deliver, GiveUp, Drop, database
    <3>3. StartPairing \/ ExpirePairing \/ PairingStatus \/ Expire \/ UNCHANGED vars => made' = made
      BY DEF StartPairing, ExpirePairing, PairingStatus, Expire, vars, database
    <3> QED BY <3>1, <3>2, <3>3 DEF Next
  <2> QED BY <1>3, <1>4, <1>5, <2>1, <2>2
<1> QED BY <1>1, <1>2, <1>6, DatabaseSteps
(* What a step does to the pairing, and to the request that it serves.     *)
Ends(r) ==
    /\ req'[r].at \in {"idle", "answered"}
    /\ \A q \in Requests : q # r => req'[q] = req[q]
PairingMoves ==
    /\ UNCHANGED <<database, history>>
    /\ \/ /\ pairing'.code = pairing.code + 1 /\ pairing'.state = "pending" /\ UNCHANGED req
       \/ /\ pairing'.code = pairing.code /\ pairing'.state = "none" /\ UNCHANGED req
       \/ /\ pairing'.code = pairing.code /\ pairing.state = "pending" /\ pairing'.state = "approving"
          /\ \E r \in Requests : /\ req'[r].code = pairing.code
                                 /\ \A q \in Requests : q # r => req'[q] = req[q]
       \/ /\ pairing'.code = pairing.code /\ pairing'.state = "approved"
          /\ \E r \in Requests : /\ At(r, "approve", "third") /\ req[r].code = pairing.code /\ Ends(r)
                                 /\ pairing'.session = req[r].got
       \/ /\ pairing'.code = pairing.code /\ pairing'.state = "pending"
          /\ \E r \in Requests : At(r, "approve", "second") /\ req[r].code = pairing.code /\ Ends(r)

LEMMA PairingMoving ==
    ASSUME Basic, [Next]_vars
    PROVE  UNCHANGED pairing \/ PairingMoves
<1>1. TypeOK
  BY DEF Basic
<1>2. ASSUME NEW r \in Requests, NEW answer, NEW got, Replied(r, answer, got)
      PROVE  Ends(r)
  BY <1>2 DEF Replied, Becomes, Ends
<1>3. ASSUME NEW r \in Requests, Validate(r) PROVE UNCHANGED pairing \/ PairingMoves
  <2>1. CASE /\ req[r].op = "approve" /\ pairing.state = "pending"
             /\ pairing' = [code |-> pairing.code, state |-> "approving", session |-> pairing.session]
             /\ Becomes(r, req[r].op, "second", req[r].by, req[r].heard, req[r].sent, req[r].seen,
                        pairing.code, req[r].answer, req[r].got)
    <3>1. req'[r].code = pairing.code /\ \A q \in Requests : q # r => req'[q] = req[q]
      BY <2>1 DEF Becomes
    <3> QED BY <1>3, <2>1, <3>1 DEF PairingMoves, Validate
  <2> QED BY <1>1, <1>3, <2>1, ValidateDoes
<1>4. ASSUME NEW r \in Requests, FinishPairing(r) PROVE UNCHANGED pairing \/ PairingMoves
  <2>1. Ends(r)
    BY <1>1, <1>2, <1>4, FinishDoes
  <2>2. CASE pairing.code = req[r].code
             /\ pairing' = [code |-> pairing.code, state |-> "approved", session |-> req[r].got]
    BY <1>4, <2>1, <2>2 DEF PairingMoves, FinishPairing
  <2> QED BY <1>1, <1>4, <2>2, FinishDoes
<1>5. ASSUME NEW r \in Requests, Fail(r) PROVE UNCHANGED pairing \/ PairingMoves
  <2>1. Ends(r)
    BY <1>1, <1>2, <1>5, FailDoes
  <2>2. CASE /\ At(r, "approve", "second") /\ pairing.code = req[r].code
             /\ pairing' = [code |-> pairing.code, state |-> "pending", session |-> pairing.session]
    BY <1>5, <2>1, <2>2 DEF PairingMoves, Fail
  <2> QED BY <1>1, <1>5, <2>2, FailDoes
<1>6. CASE StartPairing
  BY <1>6 DEF StartPairing, PairingMoves
<1>7. CASE ExpirePairing
  BY <1>1, <1>7, ExpirePairingDoes DEF ExpirePairing, PairingMoves
<1>8. ASSUME NEW r \in Requests,
             \/ VerifyPassword(r) \/ StoreSession(r) \/ ReadUser(r) \/ Rotate(r) \/ Revoke(r)
             \/ ChangePassword(r) \/ IssuePaired(r)
      PROVE  UNCHANGED pairing
  BY <1>8 DEF VerifyPassword, StoreSession, ReadUser, Rotate, Revoke, ChangePassword, IssuePaired
<1>9. ASSUME NEW r \in Requests,
             (\E c \in Clients, op \in Ops : Send(r, c, op)) \/ Deliver(r) \/ GiveUp(r) \/ Drop(r)
      PROVE  UNCHANGED pairing
  BY <1>9 DEF Send, Deliver, GiveUp, Drop
<1>10. PairingStatus \/ Expire \/ UNCHANGED vars => UNCHANGED pairing
  BY DEF PairingStatus, Expire, vars
<1> QED BY <1>3, <1>4, <1>5, <1>6, <1>7, <1>8, <1>9, <1>10 DEF Next, ServerStep

-----------------------------------------------------------------------------
(* SessionInv is preserved.                                                *)
LEMMA CodeGrows ==
    ASSUME Basic, [Next]_vars
    PROVE  /\ pairing.code \in Nat /\ pairing'.code \in {pairing.code, pairing.code + 1}
           /\ pairing'.code \in 0 .. MaxPairing
<1>1. pairing.code \in Nat /\ TypeOK /\ PairingOK'
  BY ConstantsAreNumbers, PairingSteps DEF Basic, TypeOK
<1> QED BY <1>1, PairingMoving DEF PairingMoves, PairingOK

LEMMA UnusedOrigins ==
    ASSUME SessionInv
    PROVE  /\ \A s \in Made : descent[s] # made + 1 \/ made = MaxSession
           /\ \A s \in Made : \A code \in 1 .. MaxPairing :
                descent[s] = Paired(code) => code <= pairing.code /\ descent[s] \notin 1 .. MaxSession
<1>1. /\ made \in Nat /\ made <= MaxSession /\ MaxSession \in Nat /\ pairing.code \in Nat
      /\ MaxPairing \in Nat
  BY ConstantsAreNumbers DEF SessionInv, Basic, TypeOK
<1> QED BY <1>1 DEF SessionInv, OriginsKnown, Made, Paired

LEMMA SessionsAgreeStep ==
    ASSUME SessionInv, [Next]_vars
    PROVE  SessionsAgree' /\ OneSessionPerSignIn'
<1>1. Basic /\ DatabaseOK /\ DatabaseOK' /\ Older /\ TypeOK /\ version \in Nat /\ version' \in Nat
  BY MadeGrows, OneSeen, TypeOKParts DEF SessionInv, DatabaseOK
<1>2. /\ \A s \in Made : carries[s] \in Nat /\ carries[s] <= version
      /\ made \in Nat /\ rows \subseteq Made
  <2>1. \A s \in Made : carries[s] \in Versions
    BY <1>1 DEF DatabaseOK
  <2>2. \A s \in Made : carries[s] <= version
    BY DEF SessionInv, SessionsAgree
  <2>3. made \in Nat /\ rows \subseteq Made
    BY <1>1, ConstantsAreNumbers DEF DatabaseOK
  <2> QED BY <2>1, <2>2, <2>3, OneSeen
<1>3. CASE Keeps
  BY <1>1, <1>2, <1>3 DEF Keeps, SessionInv, SessionsAgree, OneSessionPerSignIn, Made
<1>4. ASSUME NEW v \in Versions, NEW from, Makes(v, from, v), v <= version,
             \A s \in Made : descent[s] # from, rows' \subseteq rows \cup {made + 1}
      PROVE  SessionsAgree' /\ OneSessionPerSignIn'
  <2>1. made' = made + 1 /\ made' \notin Made /\ \A s \in Made' : s \in Made \/ s = made'
    BY <1>2, <1>4 DEF Makes, Made
  <2>2. /\ carries'[made'] = v /\ proved'[made'] = v /\ descent'[made'] = from /\ version' = version
        /\ \A s \in Made : carries'[s] = carries[s] /\ descent'[s] = descent[s] /\ proved'[s] = proved[s]
    BY <1>4 DEF Makes
  <2>3. SessionsAgree'
    BY <1>4, <2>1, <2>2 DEF SessionInv, SessionsAgree
  <2>4. OneSessionPerSignIn'
    BY <1>2, <1>4, <2>1, <2>2 DEF SessionInv, OneSessionPerSignIn
  <2> QED BY <2>3, <2>4
<1>5. CASE SignsIn
  <2>1. PICK v \in Versions : Makes(v, made + 1, v) /\ v <= version
    BY <1>5 DEF SignsIn
  <2>2. PICK n : n = made + 1
    OBVIOUS
  <2>3. \A s \in Made : descent[s] # n
    BY <1>2, <2>1, <2>2, UnusedOrigins, ConstantsAreNumbers DEF Makes
  <2>4. Makes(v, n, v) /\ rows' \subseteq rows \cup {made + 1}
    BY <1>5, <2>1, <2>2 DEF SignsIn, Makes
  <2> QED BY <1>4, <2>1, <2>3, <2>4
<1>6. ASSUME NEW r \in Requests, Issues(r) PROVE SessionsAgree' /\ OneSessionPerSignIn'
  <2>1. PICK v \in Versions : Makes(v, Paired(req[r].code), v) /\ v <= version
    BY <1>6 DEF Issues
  <2>2. PICK n : n = Paired(req[r].code)
    OBVIOUS
  <2>3. \A s \in Made : descent[s] # n
    BY <1>6, <2>2 DEF SessionInv, CodesUsedOnce, Issued, Issues
  <2>4. Makes(v, n, v) /\ rows' \subseteq rows \cup {made + 1}
    BY <1>6, <2>1, <2>2 DEF Issues, Makes
  <2> QED BY <1>4, <2>1, <2>3, <2>4
<1>7. ASSUME NEW s \in Made, Renews(s) PROVE SessionsAgree' /\ OneSessionPerSignIn'
  <2>1. made' = made + 1 /\ made' \notin Made /\ \A t \in Made' : t \in Made \/ t = made'
    BY <1>2, <1>7 DEF Renews, Makes, Made
  <2>2. /\ carries'[made'] = carries[s] /\ proved'[made'] = carries[s] /\ descent'[made'] = descent[s]
        /\ version' = version
        /\ \A t \in Made : carries'[t] = carries[t] /\ descent'[t] = descent[t] /\ proved'[t] = proved[t]
    BY <1>7 DEF Renews, Makes
  <2>3. SessionsAgree'
    BY <1>2, <2>1, <2>2 DEF SessionInv, SessionsAgree
  <2>4. s \in rows /\ rows' \subseteq (rows \ {s}) \cup {made'}
    BY <1>7, <2>1 DEF Renews, Active
  <2>5. \A t \in rows \ {s} : t \in Made /\ descent[t] # descent[s]
    BY <1>2, <2>4 DEF SessionInv, OneSessionPerSignIn
  <2>6. OneSessionPerSignIn'
    BY <1>2, <2>1, <2>2, <2>4, <2>5 DEF SessionInv, OneSessionPerSignIn
  <2> QED BY <2>3, <2>6
<1> QED BY <1>3, <1>5, <1>6, <1>7, Making

LEMMA ReadsAgreeStep ==
    ASSUME SessionInv, [Next]_vars
    PROVE  ReadsAgree'
<1>1. Basic /\ Basic' /\ Older
  BY BasicStep, MadeGrows DEF SessionInv
<1> SUFFICES ASSUME NEW q \in Requests, req'[q].op = "refresh", req'[q].at = "second"
             PROVE  req'[q].seen = carries'[req'[q].sent]
  BY DEF ReadsAgree, At
<1>2. Entered(q) /\ Placed(req[q]) /\ Placed(req'[q])
  BY <1>1, Entering DEF Basic, RequestsInPlace
<1>3. req'[q].sent \in Made' /\ (req[q].sent # None => req[q].sent \in Made)
  BY <1>1, <1>2, BasicFacts DEF Placed, Basic, RequestsKnow
<1>4. CASE req[q].op = "refresh" /\ req[q].sent = req'[q].sent /\ req[q].seen = req'[q].seen /\ req[q].at = "second"
  <2>1. req[q].sent \in Made /\ req[q].seen = carries[req[q].sent]
    BY <1>2, <1>3, <1>4 DEF SessionInv, ReadsAgree, At, Placed
  <2> QED BY <1>1, <1>4, <2>1 DEF Older
<1>5. CASE /\ req'[q].sent = req[q].sent /\ carries[req[q].sent] = version /\ req'[q].seen = version
           /\ UNCHANGED <<database, history>>
  BY <1>5 DEF database
<1> QED BY <1>2, <1>4, <1>5 DEF Entered

LEMMA OriginsKnownStep ==
    ASSUME SessionInv, [Next]_vars
    PROVE  OriginsKnown'
<1>1. Basic /\ Basic' /\ Older /\ TypeOK /\ made \in Nat /\ MaxSession \in Nat
  BY BasicStep, MadeGrows, ConstantsAreNumbers DEF SessionInv, DatabaseOK, TypeOK
<1>2. pairing.code \in Nat /\ pairing'.code \in Nat /\ pairing.code <= pairing'.code
  BY <1>1, CodeGrows
<1>3. ASSUME NEW s \in Made
      PROVE  descent'[s] \in 1 .. s \/ descent'[s] \in MaxSession + 1 .. MaxSession + pairing'.code
  BY <1>1, <1>2 DEF SessionInv, OriginsKnown, Older
<1>4. Made' = Made \/ /\ Made' = Made \cup {made + 1} /\ made' = made + 1
                      /\ \/ descent'[made + 1] = made + 1
                         \/ \E code \in 1 .. pairing.code : descent'[made + 1] = Paired(code)
                         \/ \E s \in Made : descent'[made + 1] = descent[s]
  <2>1. CASE Keeps
    BY <2>1 DEF Keeps, Made
  <2>2. CASE made' = made + 1
    <3>1. Made' = Made \cup {made + 1}
      BY <1>1, <2>2 DEF Made
    <3>2. \/ descent'[made'] = made + 1
          \/ \E code \in 1 .. pairing.code : descent'[made'] = Paired(code)
          \/ \E s \in Made : descent'[made'] = descent[s]
          \/ Keeps
      BY Making DEF SignsIn, Issues, Renews, Makes
    <3> QED BY <2>1, <2>2, <3>1, <3>2
  <2> QED BY <2>1, <2>2, Making DEF SignsIn, Issues, Renews, Makes
<1>5. \A s \in Made' : descent'[s] \in 1 .. s \/ descent'[s] \in MaxSession + 1 .. MaxSession + pairing'.code
  <2>1. \A s \in Made : s \in Nat /\ s <= made + 1
    BY <1>1 DEF Made
  <2>2. \A s \in Made : descent[s] \in 1 .. made + 1
                        \/ descent[s] \in MaxSession + 1 .. MaxSession + pairing'.code
    BY <1>1, <1>2, <2>1 DEF SessionInv, OriginsKnown
  <2>3. made + 1 \in 1 .. made + 1
    BY <1>1
  <2>4. \A code \in 1 .. pairing.code : Paired(code) \in MaxSession + 1 .. MaxSession + pairing'.code
    BY <1>1, <1>2 DEF Paired
  <2> QED BY <1>3, <1>4, <2>2, <2>3, <2>4
<1>6. ASSUME NEW q \in Requests, req'[q].op = "approve", req'[q].at \in {"second", "third"}
      PROVE  req'[q].code <= pairing'.code
  <2>1. Entered(q) /\ (Approving(q) => req[q].code <= pairing.code) /\ req[q].code \in Nat
    BY <1>1, <1>6, Entering, RequestFields, ConstantsAreNumbers DEF SessionInv, OriginsKnown
  <2> QED BY <1>2, <1>6, <2>1 DEF Entered, Approving
<1> QED BY <1>5, <1>6 DEF OriginsKnown, Approving

LEMMA IssuedLater ==
    ASSUME SessionInv, [Next]_vars, NEW code \in 1 .. MaxPairing, NEW s \in Made',
           descent'[s] = Paired(code)
    PROVE  Issued(code) \/ \E r \in Requests : Issues(r) /\ req[r].code = code
<1>1. Basic /\ Older /\ TypeOK /\ made \in Nat /\ MaxSession \in Nat /\ MaxPairing \in Nat
  BY MadeGrows, ConstantsAreNumbers DEF SessionInv, TypeOK
<1>2. CASE s \in Made
  BY <1>1, <1>2 DEF Older, Issued
<1>3. CASE s \notin Made
  <2>1. made' # made
    BY <1>3 DEF Made
  <2>2. CASE SignsIn
    <3>1. made' = made + 1 /\ made' <= MaxSession /\ descent'[made'] = made + 1
      BY <2>2 DEF SignsIn, Makes
    <3>2. s = made'
      BY <1>1, <1>3, <3>1 DEF Made
    <3> QED BY <1>1, <3>1, <3>2 DEF Paired
  <2>3. ASSUME NEW r \in Requests, Issues(r) PROVE req[r].code = code
    <3>1. made' = made + 1 /\ descent'[made'] = Paired(req[r].code) /\ req[r].code \in Nat
      BY <1>1, <2>3, RequestFields DEF Issues, Makes
    <3>2. s = made'
      BY <1>1, <1>3, <3>1 DEF Made
    <3> QED BY <1>1, <3>1, <3>2 DEF Paired
  <2>4. ASSUME NEW t \in Made, Renews(t) PROVE Issued(code)
    <3>1. made' = made + 1 /\ descent'[made'] = descent[t]
      BY <2>4 DEF Renews, Makes
    <3>2. s = made'
      BY <1>1, <1>3, <3>1 DEF Made
    <3> QED BY <3>1, <3>2 DEF Issued
  <2> QED BY <2>1, <2>2, <2>3, <2>4, Making DEF Keeps
<1> QED BY <1>2, <1>3

LEMMA CodesUsedOnceStep ==
    ASSUME SessionInv, [Next]_vars
    PROVE  CodesUsedOnce'
<1>1. Basic /\ Basic' /\ CodesUsedOnce /\ TypeOK
  BY BasicStep DEF SessionInv, Basic
<1>2. /\ pairing.code \in Nat /\ pairing'.code \in Nat /\ pairing.code <= pairing'.code
      /\ \A r \in Requests : req[r].code \in Nat /\ (Approving(r) => req[r].code <= pairing.code)
      /\ pairing'.code \in 0 .. MaxPairing /\ MaxPairing \in Nat /\ MaxSession \in Nat
      /\ pairing.code \in 0 .. MaxPairing
  BY <1>1, CodeGrows, RequestFields, ConstantsAreNumbers DEF SessionInv, OriginsKnown, TypeOK
<1> DEFINE Stayed(q) == /\ Approving(q) /\ req[q].code = req'[q].code
                        /\ req'[q].at = "second" => req[q].at = "second"
           Came(q) == /\ req'[q].at = "second" /\ req'[q].code = pairing.code
                      /\ pairing.state = "pending" /\ pairing'.state = "approving"
                      /\ pairing'.code = pairing.code /\ UNCHANGED <<database, history>>
           Approves(q) == req'[q].op = "approve" /\ req'[q].at \in {"second", "third"}
<1>3. ASSUME NEW q \in Requests, Approves(q) PROVE Stayed(q) \/ Came(q)
  BY <1>1, <1>3, Entering DEF Entered, Approving
<1>4. ASSUME NEW q \in Requests, Approves(q)
      PROVE  req'[q].code \in 1 .. MaxPairing
  <2>1. req'[q].code # 0
    BY <1>1, <1>4 DEF Basic, RequestsInPlace, Placed
  <2> QED BY <1>1, <1>2, <1>3, <1>4, <2>1
<1>5. ASSUME NEW q \in Requests, NEW r \in Requests, Approves(q), Approves(r),
             req'[q].code = req'[r].code
      PROVE  q = r
  <2>1. CASE Stayed(q) /\ Stayed(r)
    BY <1>1, <1>5, <2>1 DEF CodesUsedOnce
  <2>2. CASE pairing.state = "pending" /\ pairing'.state = "approving" /\ req'[q].code = pairing.code
    <3>1. PICK m \in Requests : \A p \in Requests : p # m => req'[p] = req[p]
      BY <1>1, <2>2, PairingMoving DEF PairingMoves
    <3>2. \A p \in Requests : Approving(p) => req[p].code # pairing.code
      BY <1>1, <2>2 DEF CodesUsedOnce
    <3> QED BY <1>5, <2>2, <3>1, <3>2 DEF Approving
  <2> QED BY <1>3, <1>5, <2>1, <2>2
<1>6. ASSUME NEW q \in Requests, Approves(q), req'[q].at = "second",
             NEW s \in Made', descent'[s] = Paired(req'[q].code)
      PROVE  FALSE
  <2>1. PICK code : code = req'[q].code
    OBVIOUS
  <2>2. code \in 1 .. MaxPairing /\ descent'[s] = Paired(code)
    BY <1>4, <1>6, <2>1 DEF Paired
  <2>3. CASE Came(q)
    <3>1. Issued(code)
      BY <1>6, <2>1, <2>3 DEF database, history, Made, Issued, Paired
    <3> QED BY <1>1, <2>1, <2>3, <3>1 DEF CodesUsedOnce, Issued, Paired
  <2>4. CASE Stayed(q)
    <3>1. ~Issued(code)
      BY <1>1, <1>6, <2>1, <2>4 DEF CodesUsedOnce, At, Approving, Issued, Paired
    <3>2. PICK r \in Requests : Issues(r) /\ req[r].code = code
      BY <2>2, <3>1, IssuedLater
    <3>3. r = q
      BY <1>1, <2>1, <2>4, <3>2 DEF CodesUsedOnce, Issues, At, Approving
    <3> QED BY <1>6, <3>2, <3>3 DEF Issues
  <2> QED BY <1>3, <1>6, <2>3, <2>4
<1>7. ASSUME NEW q \in Requests, Approves(q), req'[q].code = pairing'.code
      PROVE  pairing'.state \in {"none", "approving"}
  <2>1. CASE Stayed(q)
    <3>1. req[q].code = pairing'.code /\ Approving(q) /\ req[q].code <= pairing.code
      BY <1>2, <1>7, <2>1
    <3>2. CASE UNCHANGED pairing
      BY <1>1, <3>1, <3>2 DEF CodesUsedOnce
    <3>3. ASSUME NEW r \in Requests, Approving(r), req[r].code = pairing.code, Ends(r),
                 pairing'.code = pairing.code
          PROVE  FALSE
      BY <1>1, <1>7, <3>1, <3>3 DEF CodesUsedOnce, Ends
    <3> QED BY <1>1, <1>2, <3>1, <3>2, <3>3, PairingMoving DEF PairingMoves, At, Approving
  <2> QED BY <1>3, <1>7, <2>1
<1>8. ASSUME pairing'.state = "pending", NEW s \in Made', descent'[s] = Paired(pairing'.code)
      PROVE  FALSE
  <2>1. pairing'.code # 0
    BY <1>1, <1>8 DEF Basic, PairingKnows
  <2>2. CASE UNCHANGED pairing
    <3>1. PICK code : code = pairing.code
      OBVIOUS
    <3>2. code \in 1 .. MaxPairing /\ descent'[s] = Paired(code)
      BY <1>2, <1>8, <2>1, <2>2, <3>1
    <3>3. ~Issued(code)
      BY <1>1, <1>8, <2>2, <3>1 DEF CodesUsedOnce, Issued, Paired
    <3>4. PICK r \in Requests : Issues(r) /\ req[r].code = code
      BY <3>2, <3>3, IssuedLater
    <3> QED BY <1>1, <1>8, <2>2, <3>1, <3>4 DEF CodesUsedOnce, Issues, At, Approving
  <2>3. CASE PairingMoves
    <3>1. s \in Made /\ descent[s] = Paired(pairing'.code)
      BY <1>8, <2>3 DEF PairingMoves, database, history, Made
    <3>2. CASE pairing'.code = pairing.code + 1
      <4>1. pairing'.code \in 1 .. MaxPairing
        BY <1>2, <2>1
      <4> QED BY <1>2, <3>1, <3>2, <4>1, UnusedOrigins
    <3>3. ASSUME NEW r \in Requests, At(r, "approve", "second"), req[r].code = pairing'.code
          PROVE  FALSE
      BY <1>1, <3>1, <3>3 DEF CodesUsedOnce, Issued, Paired
    <3> QED BY <1>8, <2>3, <3>2, <3>3 DEF PairingMoves
  <2> QED BY <1>1, <2>2, <2>3, PairingMoving
<1> QED BY <1>5, <1>6, <1>7, <1>8 DEF CodesUsedOnce, Approving, At, Issued, Paired

LEMMA SessionInitial == Init => SessionInv
<1> SUFFICES ASSUME Init PROVE SessionInv
  OBVIOUS
<1>1. Made = {} /\ rows = {} /\ pairing.state = "none"
  BY DEF Init, Made, NoPairing
<1>2. \A r \in Requests : req[r].op = "none"
  BY DEF Init, Idle
<1> QED
  BY <1>1, <1>2, BasicInit
     DEF SessionInv, SessionsAgree, ReadsAgree, OriginsKnown, CodesUsedOnce, OneSessionPerSignIn,
         Approving, At

LEMMA SessionStep == SessionInv /\ [Next]_vars => SessionInv'
<1> SUFFICES ASSUME SessionInv, [Next]_vars PROVE SessionInv'
  OBVIOUS
<1> QED
  BY BasicStep, SessionsAgreeStep, ReadsAgreeStep, OriginsKnownStep, CodesUsedOnceStep DEF SessionInv

LEMMA SessionInvariant == Spec => []SessionInv
  BY SessionInitial, SessionStep, PTL DEF Spec

(* One sign-in has one session, and so has one approved code, however the  *)
(* requests of the clients are interleaved: OneSessionPerSignIn.           *)
THEOREM OneSession == Spec => []OneSessionPerSignIn
<1>1. SessionInv => OneSessionPerSignIn
  BY DEF SessionInv
<1> QED BY <1>1, SessionInvariant, PTL

(* Nothing that goes back to an older password is accepted:                *)
(* OldPasswordIsCutOff.                                                    *)
THEOREM OldPasswordCutOff == Spec => []OldPasswordIsCutOff
<1>1. SessionInv => OldPasswordIsCutOff
  BY TypeOKParts DEF SessionInv, Basic, SessionsAgree, DatabaseOK, OldPasswordIsCutOff, Usable
<1> QED BY <1>1, SessionInvariant, PTL
-----------------------------------------------------------------------------
(* What becomes of a session, and of all that descend from one origin.     *)
LEMMA SessionFacts ==
    ASSUME SessionInv
    PROVE  /\ Basic /\ TypeOK /\ made \in Nat /\ old \in Nat /\ version \in Nat /\ MaxSession \in Nat
           /\ rows \subseteq Made /\ \A s \in Made : s \in Nat /\ descent[s] \in Origins /\ carries[s] \in Nat
           /\ \A s \in Made : carries[s] <= version
           /\ Device \in Clients /\ None \notin Nat /\ None \notin Made /\ None \notin Origins
           /\ made <= MaxSession
<1>1. Basic /\ TypeOK /\ DatabaseOK /\ MaxSession \in Nat /\ MaxPairing \in Nat
  BY TypeOKParts, ConstantsAreNumbers DEF SessionInv, Basic
<1>2. made \in Nat /\ old \in Nat /\ version \in Nat /\ rows \subseteq Made /\ made <= MaxSession
  BY <1>1, OneSeen DEF DatabaseOK
<1>3. \A s \in Made : s \in Nat /\ descent[s] \in Origins /\ carries[s] \in Versions
  BY <1>1, <1>2 DEF DatabaseOK, Made
<1>4. \A s \in Made : carries[s] <= version
  BY DEF SessionInv, SessionsAgree
<1>5. None \notin Made /\ None \notin Origins /\ None \notin Nat /\ Device \in Clients
  BY <1>1, <1>2, ConstantsAreNumbers DEF Made, Origins
<1> QED BY <1>1, <1>2, <1>3, <1>4, <1>5, OneSeen

\* The two steps that take a row away from those that descend from an origin.
Disturbs(r, s) == (Rotate(r) \/ Revoke(r)) /\ req[r].sent \in Made /\ descent[req[r].sent] = descent[s]

LEMMA DisturbChanges ==
    ASSUME TypeOK, NEW r \in Requests, Rotate(r) \/ Revoke(r)
    PROVE  /\ req'[r].at \in {"answered", "idle"} /\ req[r].at \in {"first", "second"} /\ req[r].op \in Signing
           /\ \A q \in Requests : q # r => req'[q] = req[q]
<1>1. \E answer, got : Replied(r, answer, got)
  BY RotateDoes, RevokeDoes
<1> QED BY <1>1 DEF Replied, Becomes, Rotate, Revoke, At, Signing

\* The steps that make no session, by what they do to the rows.
LEMMA Keeping ==
    ASSUME SessionInv, [Next]_vars, made' = made
    PROVE  \/ rows' = rows
           \/ version' = version + 1 /\ rows' = {}
           \/ \E r \in Requests : Revoke(r) /\ rows' = rows \ {req[r].sent}
<1>1. TypeOK /\ made \in Nat
  BY SessionFacts
<1>2. ASSUME NEW r \in Requests, ServerStep(r)
      PROVE  \/ rows' = rows
             \/ version' = version + 1 /\ rows' = {}
             \/ Revoke(r) /\ rows' = rows \ {req[r].sent}
  <2>1. CASE VerifyPassword(r) \/ ReadUser(r) \/ Validate(r)
    BY <2>1 DEF VerifyPassword, ReadUser, Validate, database
  <2>2. CASE FinishPairing(r) \/ Fail(r)
    BY <2>2 DEF FinishPairing, Fail, database
  <2>3. CASE StoreSession(r) \/ IssuePaired(r)
    BY <1>1, <2>3 DEF StoreSession, IssuePaired, Insert
  <2>4. CASE Rotate(r)
    BY <1>1, <2>4, RotateDoes DEF Makes, database
  <2>5. CASE ChangePassword(r) \/ Revoke(r)
    BY <1>1, <2>5, ChangePasswordDoes, RevokeDoes
  <2> QED BY <1>2, <2>1, <2>2, <2>3, <2>4, <2>5 DEF ServerStep
<1>3. ASSUME NEW r \in Requests,
             (\E c \in Clients, op \in Ops : Send(r, c, op)) \/ Deliver(r) \/ GiveUp(r) \/ Drop(r)
      PROVE  rows' = rows
  BY <1>3 DEF Send, Deliver, GiveUp, Drop, database
<1>4. StartPairing \/ ExpirePairing \/ PairingStatus \/ Expire \/ UNCHANGED vars => rows' = rows
  BY DEF StartPairing, ExpirePairing, PairingStatus, Expire, vars, database
<1> QED BY <1>2, <1>3, <1>4 DEF Next

WholeNext(s) ==
    /\ carries'[s] = version' /\ s \notin expired' => s \in rows'
    /\ \A t \in Made' : descent'[t] = descent'[s] => t <= s

LEMMA WholeStays ==
    ASSUME SessionInv, [Next]_vars, NEW s \in Made, Whole(s),
           \A r \in Requests : ~Disturbs(r, s)
    PROVE  WholeNext(s)
<1>1. Basic /\ Older /\ TypeOK /\ DatabaseOK' /\ made \in Nat /\ old \in Nat /\ s \in Nat
      /\ version \in Nat /\ version' \in Nat /\ old' \in Nat
  BY SessionFacts, MadeGrows, OneSeen, ConstantsAreNumbers DEF DatabaseOK
<1>2. carries[s] \in Nat /\ carries[s] <= version /\ rows \subseteq Made
  BY SessionFacts
<1>3. ASSUME carries'[s] = version', s \notin expired'
      PROVE  version' = version /\ s \notin expired /\ s \in rows
  <2>1. carries'[s] = carries[s] /\ version <= version' /\ old <= old'
    BY <1>1 DEF Older
  <2>2. carries[s] = version /\ version' = version
    BY <1>1, <1>2, <1>3, <2>1
  <2>3. s \notin expired
    BY <1>1, <1>3, <2>1 DEF expired
  <2> QED BY <2>2, <2>3 DEF Whole
<1>4. ASSUME NEW t \in Made PROVE descent'[t] = descent'[s] => t <= s
  BY <1>1 DEF Older, Whole
<1>5. CASE SignsIn \/ \E r \in Requests : Issues(r)
  <2>1. PICK from : descent'[made'] = from /\ made' = made + 1 /\ \A t \in Made : descent[t] # from
    <3>1. CASE SignsIn
      <4>1. descent'[made'] = made + 1 /\ made' = made + 1 /\ made' <= MaxSession
        BY <3>1 DEF SignsIn, Makes
      <4>2. \A t \in Made : descent[t] # made + 1
        BY <1>1, <4>1, UnusedOrigins, ConstantsAreNumbers
      <4> QED BY <4>1, <4>2
    <3>2. ASSUME NEW r \in Requests, Issues(r)
          PROVE  descent'[made'] = Paired(req[r].code) /\ made' = made + 1
                 /\ \A t \in Made : descent[t] # Paired(req[r].code)
      BY <3>2 DEF SessionInv, CodesUsedOnce, Issued, Issues, Makes
    <3> QED BY <1>5, <3>1, <3>2
  <2>2. rows' = (rows \ expired) \cup {made + 1}
    BY <1>5 DEF SignsIn, Issues
  <2>3. \A t \in Made' : t \in Made \/ t = made'
    BY <1>1, <2>1 DEF Made
  <2>4. \A t \in Made' : descent'[t] = descent'[s] => t <= s
    BY <1>1, <1>4, <2>1, <2>3 DEF Older
  <2> QED BY <1>3, <2>2, <2>4 DEF WholeNext
<1>6. ASSUME NEW t \in Made, Renews(t) PROVE WholeNext(s)
  <2>1. descent[t] # descent[s]
    BY <1>6 DEF Renews, Disturbs
  <2>2. made' = made + 1 /\ descent'[made'] = descent[t] /\ rows' = ((rows \ {t}) \ expired) \cup {made + 1}
    BY <1>6 DEF Renews, Makes
  <2>3. \A u \in Made' : u \in Made \/ u = made'
    BY <1>1, <2>2 DEF Made
  <2>4. \A u \in Made' : descent'[u] = descent'[s] => u <= s
    BY <1>1, <1>4, <2>1, <2>2, <2>3 DEF Older
  <2> QED BY <1>3, <2>1, <2>2, <2>4 DEF WholeNext
<1>7. CASE Keeps
  <2>1. Made' = Made
    BY <1>7 DEF Keeps, Made
  <2>2. carries'[s] = version' /\ s \notin expired' => s \in rows'
    <3>1. CASE rows' = rows
      BY <1>3, <3>1
    <3>2. CASE version' = version + 1
      BY <1>1, <1>3, <3>2
    <3>3. ASSUME NEW r \in Requests, Revoke(r), rows' = rows \ {req[r].sent}, s \in rows
          PROVE  s \in rows'
      BY <3>3 DEF Disturbs
    <3> QED BY <1>3, <1>7, <3>1, <3>2, <3>3, Keeping DEF Keeps
  <2> QED BY <1>4, <2>1, <2>2 DEF WholeNext
<1> QED BY <1>5, <1>6, <1>7, Making

\* Nothing comes back to where there is no session that counts.
GoneNext(origin) ==
    \A s \in rows' : s \notin expired' /\ carries'[s] = version' => descent'[s] # origin

LEMMA GoneStays ==
    ASSUME SessionInv, [Next]_vars, NEW origin, Gone(origin),
           origin # None => \E s \in Made : descent[s] = origin
    PROVE  GoneNext(origin)
<1>1. Basic /\ Older /\ TypeOK /\ made \in Nat /\ old \in Nat /\ old' \in Nat
      /\ version \in Nat /\ version' \in Nat /\ rows \subseteq Made /\ DatabaseOK'
  BY SessionFacts, MadeGrows, OneSeen, ConstantsAreNumbers DEF DatabaseOK
<1> SUFFICES ASSUME NEW s \in rows', s \notin expired', carries'[s] = version'
             PROVE  descent'[s] # origin
  BY DEF GoneNext
<1>2. carries'[s] = version' /\ s \notin expired' /\ s \in Made'
  BY <1>1 DEF DatabaseOK
<1>3. CASE s \in Made /\ s \in rows
  <2>1. carries[s] \in Nat /\ carries[s] <= version /\ s \in Nat /\ s # None
    BY <1>3, SessionFacts
  <2>2. carries'[s] = carries[s] /\ version <= version' /\ old <= old' /\ descent'[s] = descent[s]
    BY <1>1, <1>3 DEF Older
  <2>3. carries[s] = version
    BY <1>1, <1>2, <2>1, <2>2
  <2>4. s \notin expired
    BY <1>1, <1>2, <2>1, <2>2 DEF expired
  <2> QED BY <1>3, <2>1, <2>2, <2>3, <2>4 DEF Gone, Usable, Active
<1>4. CASE SignsIn
  <2>1. descent'[made'] = made + 1 /\ made' = made + 1 /\ made' <= MaxSession
        /\ rows' \subseteq rows \cup {made'}
    BY <1>4 DEF SignsIn, Makes
  <2>2. \A t \in Made : descent[t] # made + 1
    BY <1>1, <2>1, UnusedOrigins, ConstantsAreNumbers
  <2>3. made + 1 # None
    BY <1>1, ConstantsAreNumbers
  <2> QED BY <1>1, <1>3, <2>1, <2>2, <2>3
<1>5. ASSUME NEW r \in Requests, Issues(r) PROVE descent'[s] # origin
  <2>1. descent'[made'] = Paired(req[r].code) /\ made' = made + 1 /\ rows' \subseteq rows \cup {made'}
    BY <1>5 DEF Issues, Makes
  <2>2. \A t \in Made : descent[t] # Paired(req[r].code)
    BY <1>5 DEF SessionInv, CodesUsedOnce, Issued, Issues
  <2>3. Paired(req[r].code) # None
    BY <1>1, RequestFields, ConstantsAreNumbers DEF Paired
  <2> QED BY <1>1, <1>3, <2>1, <2>2, <2>3
<1>6. ASSUME NEW t \in Made, Renews(t) PROVE descent'[s] # origin
  <2>1. /\ made' = made + 1 /\ descent'[made'] = descent[t] /\ rows' \subseteq rows \cup {made'}
        /\ carries'[made'] = carries[t] /\ version' = version
    BY <1>6 DEF Renews, Makes
  <2>2. CASE s = made'
    <3>1. Usable(t) /\ t \in rows
      BY <1>2, <1>6, <2>1, <2>2 DEF Usable, Renews, Active
    <3> QED BY <2>1, <2>2, <3>1 DEF Gone
  <2> QED BY <1>1, <1>3, <2>1, <2>2
<1>7. CASE Keeps
  BY <1>1, <1>3, <1>7 DEF Keeps
<1> QED BY <1>4, <1>5, <1>6, <1>7, Making
-----------------------------------------------------------------------------
(* How a client comes to have something of an origin.                      *)
BearsNext(q, origin) ==
    /\ req'[q].op \in Signing
    /\ \/ req'[q].sent # None /\ descent'[req'[q].sent] = origin
       \/ req'[q].got # None /\ descent'[req'[q].got] = origin
CameBy(q, origin) ==
    \/ req'[q].by = req[q].by /\ Bears(q, origin)
    \/ held[req'[q].by] = origin /\ req[q].op = "none"
    \/ StoreSession(q) /\ req'[q].by = req[q].by /\ origin = made + 1 /\ made' = made + 1

LEMMA BearsOfOne ==
    ASSUME Basic, Older, NEW r \in Requests, NEW q \in Requests, NEW origin,
           \A p \in Requests : p # r => req'[p] = req[p],
           BearsNext(r, origin) => CameBy(r, origin), BearsNext(q, origin)
    PROVE  CameBy(q, origin)
<1>1. CASE q = r
  BY <1>1
<1>2. CASE q # r
  BY <1>2 DEF BearsNext, CameBy, Bears, Basic, RequestsKnow, Older
<1> QED BY <1>1, <1>2

LEMMA BearsOfNone ==
    ASSUME Basic, Older, NEW q \in Requests, NEW origin, UNCHANGED req, BearsNext(q, origin)
    PROVE  CameBy(q, origin)
  BY DEF BearsNext, CameBy, Bears, Basic, RequestsKnow, Older

LEMMA BearsLater ==
    ASSUME SessionInv, [Next]_vars, NEW q \in Requests, NEW origin \in Origins, BearsNext(q, origin)
    PROVE  CameBy(q, origin)
<1>1. Basic /\ TypeOK /\ Older
  BY SessionFacts, MadeGrows
<1>2. ASSUME NEW r \in Requests, NEW op, NEW at, NEW by, NEW heard, NEW sent, NEW seen, NEW code,
             NEW answer, NEW got,
             Becomes(r, op, at, by, heard, sent, seen, code, answer, got),
             op \in Signing => /\ op = req[r].op /\ by = req[r].by
                               /\ sent # None => sent = req[r].sent
                               /\ got # None => got = req[r].got
      PROVE  CameBy(q, origin)
  <2>1. \A p \in Requests : p # r => req'[p] = req[p]
    BY <1>2 DEF Becomes
  <2>2. req'[r].op = op /\ req'[r].by = by /\ req'[r].sent = sent /\ req'[r].got = got
    BY <1>2 DEF Becomes
  <2>3. BearsNext(r, origin) => CameBy(r, origin)
    BY <1>1, <1>2, <2>2 DEF BearsNext, CameBy, Bears, Basic, RequestsKnow, Older
  <2> QED BY <1>1, <2>1, <2>3, BearsOfOne
<1>3. ASSUME NEW r \in Requests, NEW answer, Replied(r, answer, None) PROVE CameBy(q, origin)
  <2>1. PICK op, by : op = req[r].op /\ by = req[r].by
    OBVIOUS
  <2>2. \/ Becomes(r, op, "answered", by, TRUE, None, 1, 0, answer, None)
        \/ Becomes(r, "none", "idle", Device, FALSE, None, 1, 0, "none", None)
    BY <1>3, <2>1 DEF Replied
  <2> QED BY <1>2, <2>1, <2>2 DEF Signing
<1>4. ASSUME NEW r \in Requests, NEW seen, Proceeds(r, seen) PROVE CameBy(q, origin)
  <2>1. PICK op, by, heard, sent, code, answer, got :
            /\ op = req[r].op /\ by = req[r].by /\ heard = req[r].heard /\ sent = req[r].sent
            /\ code = req[r].code /\ answer = req[r].answer /\ got = req[r].got
    OBVIOUS
  <2>2. Becomes(r, op, "second", by, heard, sent, seen, code, answer, got)
    BY <1>4, <2>1 DEF Proceeds
  <2> QED BY <1>2, <2>1, <2>2
<1>5. ASSUME NEW r \in Requests, StoreSession(r) PROVE CameBy(q, origin)
  <2>1. made' = made + 1 /\ descent'[made'] = made + 1 /\ Replied(r, "tokens", made + 1)
    BY <1>1, <1>5, StoreDoes DEF Makes
  <2>2. \A p \in Requests : p # r => req'[p] = req[p]
    BY <2>1 DEF Replied, Becomes
  <2>3. \/ req'[r].op = "none"
        \/ req'[r].by = req[r].by /\ req'[r].sent = None /\ req'[r].got = made'
    BY <2>1 DEF Replied, Becomes
  <2>4. BearsNext(r, origin) => CameBy(r, origin)
    BY <1>5, <2>1, <2>3 DEF BearsNext, CameBy, Signing
  <2> QED BY <1>1, <2>2, <2>4, BearsOfOne
<1>6. ASSUME NEW r \in Requests, Rotate(r) PROVE CameBy(q, origin)
  <2>1. CASE Replied(r, "clear", None)
    BY <1>3, <2>1
  <2>2. CASE /\ req[r].sent \in Made /\ Makes(req[r].seen, descent[req[r].sent], proved[req[r].sent])
             /\ Replied(r, "tokens", made + 1)
    <3>1. made' = made + 1 /\ descent'[made'] = descent[req[r].sent] /\ req[r].op = "refresh"
          /\ req[r].sent # None
      BY <1>1, <1>6, <2>2, SessionFacts DEF Makes, Rotate, At
    <3>2. \A p \in Requests : p # r => req'[p] = req[p]
      BY <2>2 DEF Replied, Becomes
    <3>3. \/ req'[r].op = "none"
          \/ req'[r].by = req[r].by /\ req'[r].sent = None /\ req'[r].got = made'
      BY <2>2, <3>1 DEF Replied, Becomes
    <3>4. BearsNext(r, origin) => CameBy(r, origin)
      BY <3>1, <3>3 DEF BearsNext, CameBy, Bears, Signing
    <3> QED BY <1>1, <3>2, <3>4, BearsOfOne
  <2> QED BY <1>1, <1>6, <2>1, <2>2, RotateDoes
<1>7. ASSUME NEW r \in Requests, NEW c \in Clients, NEW op \in Ops, Send(r, c, op)
      PROVE  CameBy(q, origin)
  <2>1. Becomes(r, op, "first", c, TRUE, IF op = "login" THEN None ELSE jar[c],
                IF op \in {"login", "password"} THEN version ELSE 1, 0, "none", None)
    BY <1>1, <1>7, SendBecomes
  <2>2. /\ req'[r].by = c /\ req'[r].got = None /\ req'[r].sent \in {None, jar[c]}
        /\ \A p \in Requests : p # r => req'[p] = req[p]
    BY <2>1 DEF Becomes
  <2>3. req[r].op = "none"
    BY <1>7, <1>1 DEF Send, Basic, RequestsInPlace, Placed
  <2>4. BearsNext(r, origin) => CameBy(r, origin)
    BY <1>1, <2>2, <2>3 DEF BearsNext, CameBy, Basic, ClientsKnow, Older
  <2> QED BY <1>1, <2>2, <2>4, BearsOfOne
<1>8. ASSUME NEW r \in Requests, Validate(r) PROVE CameBy(q, origin)
  <2>1. CASE Proceeds(r, req[r].seen)
    <3>1. PICK seen : seen = req[r].seen
      OBVIOUS
    <3>2. Proceeds(r, seen)
      BY <2>1, <3>1 DEF Proceeds
    <3> QED BY <1>4, <3>2
  <2>2. CASE Becomes(r, req[r].op, "second", req[r].by, req[r].heard, req[r].sent, req[r].seen,
                     pairing.code, req[r].answer, req[r].got)
    <3>1. PICK op, by, heard, sent, seen, code, answer, got :
              /\ op = req[r].op /\ by = req[r].by /\ heard = req[r].heard /\ sent = req[r].sent
              /\ seen = req[r].seen /\ code = pairing.code /\ answer = req[r].answer /\ got = req[r].got
      OBVIOUS
    <3>2. Becomes(r, op, "second", by, heard, sent, seen, code, answer, got)
      BY <2>2, <3>1
    <3> QED BY <1>2, <3>1, <3>2
  <2> QED BY <1>1, <1>3, <1>8, <2>1, <2>2, ValidateDoes
<1>9. ASSUME NEW r \in Requests, VerifyPassword(r) \/ ReadUser(r) PROVE CameBy(q, origin)
  <2>1. PICK seen : seen = version
    OBVIOUS
  <2>2. Proceeds(r, seen) \/ Replied(r, "none", None) \/ Replied(r, "clear", None)
    BY <1>1, <1>9, <2>1, VerifyDoes, ReadUserDoes DEF Proceeds
  <2> QED BY <1>3, <1>4, <2>2
<1>10. ASSUME NEW r \in Requests, IssuePaired(r) PROVE CameBy(q, origin)
  <2>1. req[r].sent \in Made /\ req[r].code # 0
    BY <1>1, <1>10, BasicFacts DEF Placed, IssuePaired, At
  <2>2. Becomes(r, "approve", "third", req[r].by, req[r].heard, req[r].sent, req[r].seen,
                req[r].code, req[r].answer, made + 1)
    BY <1>1, <1>10, <2>1, IssueDoes
  <2>3. PICK by, heard, sent, seen, code, answer, got :
            /\ by = req[r].by /\ heard = req[r].heard /\ sent = req[r].sent
            /\ seen = req[r].seen /\ code = req[r].code /\ answer = req[r].answer /\ got = made + 1
    OBVIOUS
  <2>4. Becomes(r, "approve", "third", by, heard, sent, seen, code, answer, got)
    BY <2>2, <2>3
  <2> QED BY <1>2, <2>4 DEF Signing
<1>11. ASSUME NEW r \in Requests, Revoke(r) \/ ChangePassword(r) \/ FinishPairing(r) \/ Fail(r)
       PROVE  CameBy(q, origin)
  BY <1>1, <1>3, <1>11, RevokeDoes, ChangePasswordDoes, FinishDoes, FailDoes
<1>12. ASSUME NEW r \in Requests, req' = [req EXCEPT ![r] = Idle] PROVE CameBy(q, origin)
  BY <1>1, <1>2, <1>12, IdleBecomes DEF Signing
<1>13. ASSUME NEW r \in Requests, req' = [req EXCEPT ![r].heard = FALSE] PROVE CameBy(q, origin)
  <2>1. PICK op, at, by, sent, seen, code, answer, got :
            /\ op = req[r].op /\ at = req[r].at /\ by = req[r].by /\ sent = req[r].sent
            /\ seen = req[r].seen /\ code = req[r].code /\ answer = req[r].answer /\ got = req[r].got
    OBVIOUS
  <2>2. Becomes(r, op, at, by, FALSE, sent, seen, code, answer, got)
    BY <1>1, <1>13, <2>1, UnheardBecomes
  <2> QED BY <1>2, <2>1, <2>2
<1>14. ASSUME NEW r \in Requests, Deliver(r) \/ GiveUp(r) \/ Drop(r) PROVE CameBy(q, origin)
  BY <1>12, <1>13, <1>14 DEF Deliver, GiveUp, Drop
<1>15. StartPairing \/ ExpirePairing \/ PairingStatus \/ Expire \/ UNCHANGED vars => UNCHANGED req
  BY DEF StartPairing, ExpirePairing, PairingStatus, Expire, vars
<1> QED
  BY <1>1, <1>5, <1>6, <1>7, <1>8, <1>9, <1>10, <1>11, <1>14, <1>15, BearsOfNone
     DEF Next, ServerStep
(* How a request comes to be what it is.                                   *)
CameOn(q) ==
    \/ /\ req[q].op = "none" /\ MaySend(req'[q].by, req'[q].op)
       /\ req'[q].answer = "none" /\ req'[q].at = "first"
    \/ /\ req'[q].op = req[q].op /\ req'[q].by = req[q].by
       /\ req'[q].answer = "tokens" =>
            \/ StoreSession(q) \/ Rotate(q)
            \/ req[q].answer = "tokens" /\ req'[q].got = req[q].got
       /\ req'[q].at = "third" =>
            \/ IssuePaired(q)
            \/ req[q].at = "third" /\ req'[q].got = req[q].got /\ req'[q].code = req[q].code

LEMMA CameOnOfOne ==
    ASSUME NEW r \in Requests, \A p \in Requests : p # r => req'[p] = req[p],
           req'[r].op # "none" => CameOn(r)
    PROVE  \A q \in Requests : req'[q].op # "none" => CameOn(q)
  BY DEF CameOn

LEMMA ComingOn ==
    ASSUME Basic, [Next]_vars
    PROVE  \A q \in Requests : req'[q].op # "none" => CameOn(q)
<1>1. TypeOK
  BY DEF Basic
<1> DEFINE Goal == \A q \in Requests : req'[q].op # "none" => CameOn(q)
<1>2. ASSUME NEW r \in Requests, NEW answer, NEW got, Replied(r, answer, got),
             answer = "tokens" => StoreSession(r) \/ Rotate(r)
      PROVE  Goal
  <2>1. /\ \A p \in Requests : p # r => req'[p] = req[p]
        /\ req'[r].op = "none" \/ /\ req'[r].op = req[r].op /\ req'[r].by = req[r].by
                                  /\ req'[r].answer = answer /\ req'[r].at = "answered"
    BY <1>2 DEF Replied, Becomes
  <2>2. req'[r].op # "none" => CameOn(r)
    BY <1>2, <2>1 DEF CameOn
  <2> QED BY <2>1, <2>2, CameOnOfOne
<1>3. ASSUME NEW r \in Requests, NEW c \in Clients, NEW op \in Ops, Send(r, c, op) PROVE Goal
  <2>1. Becomes(r, op, "first", c, TRUE, IF op = "login" THEN None ELSE jar[c],
                IF op \in {"login", "password"} THEN version ELSE 1, 0, "none", None)
    BY <1>1, <1>3, SendBecomes
  <2>2. /\ req'[r].by = c /\ req'[r].op = op /\ req'[r].answer = "none" /\ req'[r].at = "first"
        /\ \A p \in Requests : p # r => req'[p] = req[p]
    BY <2>1 DEF Becomes
  <2>3. req[r].op = "none" /\ MaySend(c, op)
    BY <1>3 DEF Send, Basic, RequestsInPlace, Placed
  <2> QED BY <2>2, <2>3, CameOnOfOne DEF CameOn
<1>4. ASSUME NEW r \in Requests, \A p \in Requests : p # r => req'[p] = req[p],
             req'[r].op = req[r].op, req'[r].by = req[r].by, req'[r].answer = req[r].answer,
             req'[r].got = req[r].got, req'[r].code = req[r].code,
             req'[r].at \in {"second", req[r].at}
      PROVE  Goal
  <2>1. req'[r].op # "none" => CameOn(r)
    BY <1>4 DEF CameOn
  <2> QED BY <1>4, <2>1, CameOnOfOne
<1>5. ASSUME NEW r \in Requests, VerifyPassword(r) \/ ReadUser(r) PROVE Goal
  <2>1. Proceeds(r, version) \/ Replied(r, "none", None) \/ Replied(r, "clear", None)
    BY <1>1, <1>5, VerifyDoes, ReadUserDoes
  <2>2. CASE Proceeds(r, version)
    BY <1>4, <2>2 DEF Proceeds, Becomes
  <2> QED BY <1>2, <2>1, <2>2
<1>6. ASSUME NEW r \in Requests, StoreSession(r) \/ Rotate(r) PROVE Goal
  <2>1. Replied(r, "tokens", made + 1) \/ Replied(r, "clear", None)
    BY <1>1, <1>6, StoreDoes, RotateDoes
  <2>2. PICK n : n = made + 1
    OBVIOUS
  <2>3. Replied(r, "tokens", n) \/ Replied(r, "clear", None)
    BY <2>1, <2>2
  <2> QED BY <1>2, <1>6, <2>3
<1>7. ASSUME NEW r \in Requests, Validate(r) PROVE Goal
  <2>1. CASE Proceeds(r, req[r].seen)
    BY <1>4, <2>1 DEF Proceeds, Becomes
  <2>2. CASE Becomes(r, req[r].op, "second", req[r].by, req[r].heard, req[r].sent, req[r].seen,
                     pairing.code, req[r].answer, req[r].got)
    <3>1. /\ \A p \in Requests : p # r => req'[p] = req[p]
          /\ req'[r].op = req[r].op /\ req'[r].by = req[r].by /\ req'[r].answer = req[r].answer
          /\ req'[r].at = "second" /\ req[r].at = "first"
      BY <1>7, <2>2 DEF Becomes, Validate
    <3>2. req'[r].answer = "none"
      BY <3>1, BasicFacts DEF Placed
    <3> QED BY <3>1, <3>2, CameOnOfOne DEF CameOn
  <2> QED BY <1>1, <1>2, <1>7, <2>1, <2>2, ValidateDoes
<1>8. ASSUME NEW r \in Requests, IssuePaired(r) PROVE Goal
  <2>1. req[r].sent \in Made /\ req[r].code # 0 /\ req[r].op = "approve" /\ req[r].answer = "none"
    BY <1>8, BasicFacts DEF Placed, IssuePaired, At
  <2>2. Becomes(r, "approve", "third", req[r].by, req[r].heard, req[r].sent, req[r].seen,
                req[r].code, req[r].answer, made + 1)
    BY <1>1, <1>8, <2>1, IssueDoes
  <2>3. /\ \A p \in Requests : p # r => req'[p] = req[p]
        /\ req'[r].op = "approve" /\ req'[r].by = req[r].by /\ req'[r].answer = req[r].answer
    BY <2>2 DEF Becomes
  <2> QED BY <1>8, <2>1, <2>3, CameOnOfOne DEF CameOn
<1>9. ASSUME NEW r \in Requests, Revoke(r) \/ ChangePassword(r) \/ FinishPairing(r) \/ Fail(r)
      PROVE  Goal
  <2>1. Replied(r, "clear", None) \/ Replied(r, "none", None)
    BY <1>1, <1>9, RevokeDoes, ChangePasswordDoes, FinishDoes, FailDoes
  <2> QED BY <1>2, <2>1
<1>10. ASSUME NEW r \in Requests, req' = [req EXCEPT ![r] = Idle] PROVE Goal
  <2>1. Becomes(r, "none", "idle", Device, FALSE, None, 1, 0, "none", None)
    BY <1>1, <1>10, IdleBecomes
  <2>2. req'[r].op = "none" /\ \A p \in Requests : p # r => req'[p] = req[p]
    BY <2>1 DEF Becomes
  <2> QED BY <2>2, CameOnOfOne
<1>11. ASSUME NEW r \in Requests, req' = [req EXCEPT ![r].heard = FALSE] PROVE Goal
  BY <1>1, <1>4, <1>11, UnheardBecomes DEF Becomes
<1>12. ASSUME NEW r \in Requests, Deliver(r) \/ GiveUp(r) \/ Drop(r) PROVE Goal
  BY <1>10, <1>11, <1>12 DEF Deliver, GiveUp, Drop
<1>13. CASE UNCHANGED req
  BY <1>13 DEF CameOn
<1>14. StartPairing \/ ExpirePairing \/ PairingStatus \/ Expire \/ UNCHANGED vars => UNCHANGED req
  BY DEF StartPairing, ExpirePairing, PairingStatus, Expire, vars
<1> QED
  BY <1>3, <1>5, <1>6, <1>7, <1>8, <1>9, <1>12, <1>13, <1>14 DEF Next, ServerStep

(* How a client comes to hold what it does.                                *)
LEMMA HeldLater ==
    ASSUME SessionInv, [Next]_vars, NEW c \in Clients, held'[c] # held[c]
    PROVE  \/ \E r \in Requests : /\ Deliver(r) /\ req[r].by = c /\ req[r].answer = "tokens"
                                  /\ held'[c] = descent[req[r].got] /\ Bears(r, held'[c])
           \/ PairingStatus /\ c = Device /\ held'[c] = descent[pairing.session]
<1>1. Basic /\ TypeOK /\ ClientsKnow
  BY SessionFacts DEF Basic
<1>2. ASSUME NEW r \in Requests, Deliver(r)
      PROVE  /\ req[r].by = c /\ req[r].answer = "tokens"
             /\ held'[c] = descent[req[r].got] /\ Bears(r, held'[c])
  <2>1. HoldsNow(req[r].by, Given(r), IF Alone(r) THEN FALSE ELSE crossed[req[r].by])
    BY <1>1, <1>2, DeliverDoes
  <2>2. c = req[r].by
    BY <2>1 DEF HoldsNow
  <2>3. held'[c] = IF Given(r) = None THEN held[c] ELSE descent[Given(r)]
    BY <2>1, <2>2 DEF HoldsNow
  <2>4. Given(r) # None /\ Given(r) # jar[c]
    BY <1>1, <2>3 DEF ClientsKnow
  <2>5. req[r].answer = "tokens" /\ Given(r) = req[r].got
    BY <1>1, <2>2, <2>4, RequestFields DEF Given, Answers
  <2>6. req[r].op \in Signing
    BY <1>1, <2>5, BasicFacts DEF Placed, Signing
  <2> QED BY <2>2, <2>3, <2>4, <2>5, <2>6 DEF Bears
<1>3. CASE PairingStatus
  BY <1>1, <1>3, PairingStatusDoes DEF HoldsNow, Basic, PairingKnows, PairingStatus, TypeOK
<1>4. ASSUME NEW r \in Requests, ServerStep(r) PROVE UNCHANGED held
  <2>1. CASE VerifyPassword(r) \/ StoreSession(r) \/ ReadUser(r) \/ Rotate(r) \/ Revoke(r)
    BY <2>1 DEF VerifyPassword, StoreSession, ReadUser, Rotate, Revoke, client
  <2>2. CASE Validate(r) \/ ChangePassword(r) \/ IssuePaired(r) \/ FinishPairing(r) \/ Fail(r)
    BY <2>2 DEF Validate, ChangePassword, IssuePaired, FinishPairing, Fail, client
  <2> QED BY <1>4, <2>1, <2>2 DEF ServerStep
<1>5. ASSUME NEW r \in Requests, (\E d \in Clients, op \in Ops : Send(r, d, op)) \/ GiveUp(r) \/ Drop(r)
      PROVE  UNCHANGED held
  BY <1>5 DEF Send, GiveUp, Drop, client
<1>6. StartPairing \/ ExpirePairing \/ Expire \/ UNCHANGED vars => UNCHANGED held
  BY DEF StartPairing, ExpirePairing, Expire, vars
<1> QED BY <1>2, <1>3, <1>4, <1>5, <1>6 DEF Next
-----------------------------------------------------------------------------
(* Who has what stays apart.                                               *)
HasNext(c, origin) ==
    held'[c] = origin \/ \E q \in Requests : req'[q].by = c /\ BearsNext(q, origin)

LEMMA HasIsMade ==
    ASSUME SessionInv, NEW c \in Clients, NEW origin \in Origins, Has(c, origin)
    PROVE  \E s \in Made : descent[s] = origin
<1>1. ClientsKnow /\ RequestsKnow /\ origin # None
  BY SessionFacts DEF Basic
<1> QED BY <1>1 DEF Has, Bears, ClientsKnow, RequestsKnow

LEMMA HasLater ==
    ASSUME SessionInv, PairedWhole, [Next]_vars, NEW c \in Clients, NEW origin \in Origins,
           HasNext(c, origin)
    PROVE  \/ Has(c, origin)
           \/ \E q \in Requests : StoreSession(q) /\ req[q].by = c /\ origin = made + 1 /\ made' = made + 1
           \/ c = Device /\ PairingStatus /\ origin = Paired(pairing.code)
<1>1. CASE held'[c] = origin /\ held'[c] # held[c]
  BY <1>1, HeldLater DEF Has, PairedWhole, PairingStatus
<1>2. CASE held'[c] = origin /\ held'[c] = held[c]
  BY <1>2 DEF Has
<1>3. ASSUME NEW q \in Requests, req'[q].by = c, BearsNext(q, origin)
      PROVE  \/ Has(c, origin)
             \/ StoreSession(q) /\ req[q].by = c /\ origin = made + 1 /\ made' = made + 1
  BY <1>3, BearsLater DEF CameBy, Has
<1> QED BY <1>1, <1>2, <1>3 DEF HasNext

\* The origin of a sign-in that is stored is new, and no code.
LEMMA StoreIsNew ==
    ASSUME SessionInv, NEW r \in Requests, StoreSession(r)
    PROVE  /\ made + 1 \in Origins /\ made + 1 <= MaxSession
           /\ \A s \in Made : descent[s] # made + 1
           /\ req'[r].at \in {"answered", "idle"} /\ req[r].at = "second"
           /\ \A q \in Requests : q # r => req'[q] = req[q]
<1>1. TypeOK /\ made \in Nat /\ MaxSession \in Nat /\ MaxPairing \in Nat
  BY SessionFacts, ConstantsAreNumbers
<1>2. made < MaxSession /\ req[r].at = "second"
  BY DEF StoreSession, Insert, At
<1>3. Replied(r, "tokens", made + 1)
  BY <1>1, StoreDoes
<1> QED BY <1>1, <1>2, <1>3, UnusedOrigins DEF Origins, Replied, Becomes

LEMMA ApartStep ==
    ASSUME SessionInv, ClientsApart, DeviceHasCodes, PairedWhole, [Next]_vars,
           NEW c \in Clients, NEW d \in Clients, NEW origin \in Origins,
           HasNext(c, origin), HasNext(d, origin)
    PROVE  c = d
<1>1. MaxSession \in Nat /\ pairing.code \in Nat /\ made \in Nat
  BY SessionFacts, ConstantsAreNumbers DEF TypeOK
<1>2. PairingStatus => pairing.code # 0 /\ UNCHANGED made
  BY SessionFacts DEF PairingStatus, Basic, PairingKnows, database
<1>3. CASE \E q \in Requests : StoreSession(q) /\ made' = made + 1
  <2>1. PICK q \in Requests : StoreSession(q) /\ made' = made + 1
    BY <1>3
  <2>2. \A p \in Requests : StoreSession(p) => p = q
    BY <2>1, StoreIsNew
  <2>3. ~PairingStatus
    BY <1>1, <1>2, <2>1
  <2>4. origin = made + 1 => ~Has(c, origin) /\ ~Has(d, origin)
    BY <2>1, StoreIsNew, HasIsMade
  <2> QED BY <2>1, <2>2, <2>3, <2>4, HasLater DEF ClientsApart
<1>4. CASE PairingStatus /\ origin = Paired(pairing.code)
  <2>1. origin > MaxSession
    BY <1>1, <1>2, <1>4 DEF Paired
  <2>2. \A e \in Clients : Has(e, origin) => e = Device
    BY <1>1, <2>1 DEF DeviceHasCodes, Origins
  <2>3. \A q \in Requests : ~(StoreSession(q) /\ made' = made + 1)
    BY <1>1, <1>2, <1>4
  <2> QED BY <2>2, <2>3, HasLater
<1> QED BY <1>3, <1>4, HasLater DEF ClientsApart

\* The device is told for a code; what its requests bring it has already.
LEMMA DeviceHeld ==
    ASSUME SessionInv, DeviceHasCodes, [Next]_vars, held'[Device] # held[Device]
    PROVE  PairingStatus /\ held'[Device] = descent[pairing.session]
<1>1. Device \in Clients /\ Basic
  BY SessionFacts
<1>2. ASSUME NEW r \in Requests, Deliver(r), req[r].by = Device, req[r].answer = "tokens",
             held'[Device] = descent[req[r].got], Bears(r, held'[Device])
      PROVE  FALSE
  <2>1. req[r].got \in Made
    BY <1>1, <1>2, BasicFacts DEF Placed
  <2>2. held'[Device] \in Origins /\ Has(Device, held'[Device])
    BY <1>2, <2>1, SessionFacts DEF Has
  <2> QED BY <2>2 DEF DeviceHasCodes
<1> QED BY <1>1, <1>2, HeldLater

LEMMA DeviceStep ==
    ASSUME SessionInv, DeviceHasCodes, PairedWhole, [Next]_vars
    PROVE  /\ \A origin \in Origins :
               /\ HasNext(Device, origin) => origin = held'[Device] /\ origin > MaxSession
               /\ \A c \in Clients : c # Device /\ HasNext(c, origin) => origin <= MaxSession
           /\ \A r \in Requests : req'[r].op = "login" => req'[r].by # Device
<1>1. /\ MaxSession \in Nat /\ pairing.code \in Nat /\ made \in Nat /\ Device \in Clients /\ Basic
      /\ ClientsKnow /\ Origins \subseteq Nat /\ None \notin Origins
  BY SessionFacts, ConstantsAreNumbers DEF TypeOK, Basic, Origins
<1>2. PairingStatus => pairing.code # 0 /\ UNCHANGED <<made, req>>
  BY SessionFacts DEF PairingStatus, Basic, PairingKnows, database
<1>3. ASSUME NEW origin \in Origins, HasNext(Device, origin)
      PROVE  origin = held'[Device] /\ origin > MaxSession
  <2>1. \A q \in Requests : StoreSession(q) => req[q].by # Device
    BY DEF DeviceHasCodes, StoreSession, At
  <2>2. CASE PairingStatus
    <3>2. held'[Device] = descent[pairing.session]
      BY <1>1, <2>2, PairingStatusDoes, SessionFacts DEF HoldsNow
    <3>3. descent[pairing.session] = Paired(pairing.code) /\ Under(Device) = {}
      BY <2>2 DEF PairingStatus, PairedWhole
    <3>4. \A q \in Requests : ~(req'[q].by = Device /\ BearsNext(q, origin))
      BY <1>2, <2>2, <3>3 DEF BearsNext, Under
    <3>5. origin = Paired(pairing.code)
      BY <1>3, <3>2, <3>3, <3>4 DEF HasNext
    <3> QED BY <1>1, <1>2, <2>2, <3>2, <3>3, <3>5 DEF Paired
  <2>3. CASE ~PairingStatus
    <3>1. Has(Device, origin)
      BY <1>1, <1>3, <2>1, <2>3, HasLater
    <3>2. origin = held[Device] /\ origin > MaxSession
      BY <3>1 DEF DeviceHasCodes
    <3> QED BY <2>3, <3>2, DeviceHeld
  <2> QED BY <2>2, <2>3
<1>4. ASSUME NEW origin \in Origins, NEW c \in Clients, c # Device, HasNext(c, origin)
      PROVE  origin <= MaxSession
  BY <1>4, HasLater, StoreIsNew DEF DeviceHasCodes
<1>5. ASSUME NEW r \in Requests, req'[r].op = "login" PROVE req'[r].by # Device
  BY <1>1, <1>5, ComingOn DEF CameOn, MaySend, DeviceHasCodes
<1> QED BY <1>3, <1>4, <1>5

\* A session that has just been made is whole.
LEMMA NewIsWhole ==
    ASSUME SessionInv, [Next]_vars, made' = made + 1
    PROVE  WholeNext(made')
<1>1. made \in Nat
  BY SessionFacts
<1>2. made' \in rows'
  BY <1>1, Making DEF Keeps, SignsIn, Issues, Renews
<1>3. \A t \in Made' : t <= made'
  BY <1>1 DEF Made
<1> QED BY <1>2, <1>3 DEF WholeNext

LEMMA DeliverEnds ==
    ASSUME TypeOK, NEW r \in Requests, Deliver(r)
    PROVE  req'[r].op = "none" /\ req'[r].at = "idle" /\ req[r].at = "answered"
<1>1. Becomes(r, "none", "idle", Device, FALSE, None, 1, 0, "none", None)
  BY IdleBecomes DEF Deliver
<1> QED BY <1>1 DEF Becomes, Deliver

LEMMA FirstStep ==
    ASSUME SessionInv, PairedWhole, FirstAnswersWhole, [Next]_vars,
           NEW r \in Requests, req'[r].op = "login", req'[r].answer = "tokens"
    PROVE  LET s == req'[r].got IN
           /\ WholeNext(s) /\ descent'[s] = s
           /\ \A c \in Clients : held'[c] # s
           /\ \A q \in Requests : BearsNext(q, s) => q = r
<1>1. Basic /\ TypeOK /\ Older /\ made \in Nat /\ MaxSession \in Nat
      /\ \A s \in Made : s \in Nat /\ s <= made /\ s <= MaxSession /\ s \in Origins /\ s # made + 1
  <2>1. Basic /\ TypeOK /\ made \in Nat /\ MaxSession \in Nat /\ made <= MaxSession /\ MaxPairing \in Nat
    BY SessionFacts, ConstantsAreNumbers
  <2> QED BY <2>1, MadeGrows DEF Made, Origins
<1>2. CASE StoreSession(r)
  <2>1. PICK s : s = made + 1
    OBVIOUS
  <2>2. made' = s /\ descent'[s] = s /\ Replied(r, "tokens", s) /\ s \in Origins
    BY <1>1, <1>2, <2>1, StoreDoes, StoreIsNew DEF Makes, Replied, Becomes
  <2>3. req'[r].got = s
    BY <2>2 DEF Replied, Becomes
  <2>4. WholeNext(s)
    BY <2>1, <2>2, NewIsWhole
  <2>5. \A c \in Clients : ~Has(c, s)
    BY <1>2, <2>1, <2>2, StoreIsNew, HasIsMade
  <2>6. \A c \in Clients : held'[c] # s
    BY <1>2, <2>5 DEF StoreSession, client, Has
  <2>7. ASSUME NEW q \in Requests, BearsNext(q, s) PROVE q = r
    <3>1. CameBy(q, s)
      BY <2>2, <2>7, BearsLater
    <3>2. req'[q].by \in Clients /\ req[q].by \in Clients
      BY <1>1, RequestFields, RequestsSteps DEF RequestsOK, RequestRecord
    <3>3. StoreSession(q)
      BY <2>5, <3>1, <3>2 DEF CameBy, Has
    <3> QED BY <1>2, <3>3, StoreIsNew
  <2> QED BY <2>2, <2>3, <2>4, <2>6, <2>7
<1>3. CASE req[r].op = "login" /\ req[r].answer = "tokens" /\ req'[r].got = req[r].got
  <2>1. PICK s : s = req[r].got
    OBVIOUS
  <2>2. /\ s \in Made /\ Whole(s) /\ descent[s] = s /\ req[r].at = "answered"
        /\ \A c \in Clients : held[c] # s
        /\ \A q \in Requests : Bears(q, s) => q = r
    BY <1>1, <1>3, <2>1, BasicFacts DEF FirstAnswersWhole, Placed
  <2>3. s \in Origins /\ s <= MaxSession /\ s # made + 1
    BY <1>1, <2>2
  <2>4. \A q \in Requests : ~Disturbs(q, s)
    <3> SUFFICES ASSUME NEW q \in Requests, Disturbs(q, s) PROVE FALSE
      OBVIOUS
    <3>1. req[q].at \in {"first", "second"} /\ Bears(q, s)
      BY <1>1, <2>2, DisturbChanges, SessionFacts DEF Disturbs, Bears
    <3> QED BY <2>2, <3>1
  <2>5. WholeNext(s) /\ descent'[s] = s
    BY <1>1, <2>2, <2>4, WholeStays DEF Older
  <2>6. ASSUME NEW c \in Clients, held'[c] = s PROVE FALSE
    <3>1. held'[c] # held[c]
      BY <2>2, <2>6
    <3>2. CASE PairingStatus
      <4>1. descent[pairing.session] = Paired(pairing.code) /\ pairing.code \in Nat /\ pairing.code # 0
        BY <1>1, <3>2, ConstantsAreNumbers DEF PairedWhole, PairingStatus, TypeOK, Basic, PairingKnows
      <4>2. ~\E q \in Requests : Deliver(q)
        BY <1>1, <3>2, DeliverEnds DEF PairingStatus
      <4> QED BY <1>1, <2>3, <2>6, <3>1, <4>1, <4>2, HeldLater DEF Paired
    <3>3. ASSUME NEW q \in Requests, Deliver(q), Bears(q, s) PROVE FALSE
      <4>1. q = r
        BY <2>2, <3>3
      <4>2. req'[r].op = "none"
        BY <1>1, <3>3, <4>1, DeliverEnds
      <4> QED BY <4>2
    <3> QED BY <2>6, <3>1, <3>2, <3>3, HeldLater
  <2>7. ASSUME NEW q \in Requests, BearsNext(q, s) PROVE q = r
    <3>1. CameBy(q, s)
      BY <2>3, <2>7, BearsLater
    <3>2. req'[q].by \in Clients
      BY <1>1, RequestsSteps DEF RequestsOK, RequestRecord
    <3> QED BY <2>2, <2>3, <3>1, <3>2 DEF CameBy
  <2> QED BY <1>3, <2>1, <2>5, <2>6, <2>7
<1> QED BY <1>1, <1>2, <1>3, ComingOn DEF CameOn, Rotate, At

LEMMA PairedStep ==
    ASSUME SessionInv, DeviceHasCodes, PairedWhole, [Next]_vars
    PROVE  /\ \A r \in Requests : req'[r].op = "approve" /\ req'[r].at = "third" =>
               /\ WholeNext(req'[r].got) /\ descent'[req'[r].got] = Paired(req'[r].code)
               /\ held'[Device] # Paired(req'[r].code)
           /\ pairing'.state = "approved" =>
               /\ descent'[pairing'.session] = Paired(pairing'.code)
               /\ held'[Device] # Paired(pairing'.code) => WholeNext(pairing'.session)
<1>1. Basic /\ TypeOK /\ Older /\ made \in Nat /\ MaxSession \in Nat /\ pairing.code \in Nat
      /\ Device \in Clients /\ \A r \in Requests : req[r].code \in Nat
  BY SessionFacts, RequestFields, MadeGrows, ConstantsAreNumbers DEF TypeOK
<1>2. ASSUME NEW s \in Made, NEW code \in Nat, code # 0, descent[s] = Paired(code), Whole(s),
             held[Device] # Paired(code)
      PROVE  WholeNext(s) /\ descent'[s] = Paired(code)
  <2>1. \A r \in Requests : ~Disturbs(r, s)
    <3> SUFFICES ASSUME NEW r \in Requests, Disturbs(r, s) PROVE FALSE
      OBVIOUS
    <3>1. Bears(r, Paired(code)) /\ Paired(code) \in Origins /\ Paired(code) > MaxSession
          /\ req[r].by \in Clients
      BY <1>1, <1>2, DisturbChanges, RequestFields, SessionFacts DEF Disturbs, Bears, Paired
    <3>2. Has(req[r].by, Paired(code))
      BY <3>1 DEF Has
    <3> QED BY <1>1, <1>2, <3>1, <3>2 DEF DeviceHasCodes, Origins
  <2> QED BY <1>1, <1>2, <2>1, WholeStays DEF Older
<1>3. ASSUME NEW r \in Requests, req'[r].op = "approve", req'[r].at = "third"
      PROVE  /\ WholeNext(req'[r].got) /\ descent'[req'[r].got] = Paired(req'[r].code)
             /\ held'[Device] # Paired(req'[r].code)
  <2>1. CASE IssuePaired(r)
    <3>1. req[r].sent \in Made /\ req[r].code # 0
      BY <1>1, <2>1, BasicFacts DEF Placed, IssuePaired, At
    <3>2. /\ made' = made + 1 /\ descent'[made'] = Paired(req[r].code)
          /\ Becomes(r, "approve", "third", req[r].by, req[r].heard, req[r].sent, req[r].seen,
                     req[r].code, req[r].answer, made + 1)
      BY <1>1, <2>1, <3>1, IssueDoes DEF Makes
    <3>3. req'[r].got = made' /\ req'[r].code = req[r].code
      BY <3>2 DEF Becomes
    <3>4. \A s \in Made : descent[s] # Paired(req[r].code)
      BY <2>1 DEF SessionInv, CodesUsedOnce, Issued, IssuePaired
    <3>5. held[Device] # Paired(req[r].code) /\ held' = held
      <4>1. Paired(req[r].code) # None
        BY <1>1, ConstantsAreNumbers DEF Paired
      <4> QED BY <1>1, <2>1, <3>4, <4>1 DEF Basic, ClientsKnow, IssuePaired, client
    <3>6. WholeNext(made')
      BY <3>2, NewIsWhole
    <3> QED BY <3>2, <3>3, <3>5, <3>6
  <2>2. CASE req[r].op = "approve" /\ req[r].at = "third" /\ req'[r].got = req[r].got /\ req'[r].code = req[r].code
    <3>1. PICK s, code : s = req[r].got /\ code = req[r].code
      OBVIOUS
    <3>2. /\ s \in Made /\ code \in Nat /\ code # 0 /\ descent[s] = Paired(code) /\ Whole(s)
          /\ held[Device] # Paired(code)
      BY <1>1, <2>2, <3>1, BasicFacts DEF Placed, PairedWhole, At
    <3>3. held'[Device] # Paired(code)
      <4>1. CASE held'[Device] # held[Device]
        <5>1. pairing.state = "approved" /\ held'[Device] = Paired(pairing.code)
          BY <1>1, <4>1, DeviceHeld DEF PairingStatus, PairedWhole
        <5>2. code # pairing.code
          BY <2>2, <3>1, <5>1 DEF SessionInv, CodesUsedOnce, Approving
        <5> QED BY <1>1, <3>2, <5>1, <5>2 DEF Paired
      <4> QED BY <3>2, <4>1
    <3> QED BY <1>2, <2>2, <3>1, <3>2, <3>3
  <2> QED BY <1>1, <1>3, <2>1, <2>2, ComingOn DEF CameOn
<1>4. ASSUME pairing'.state = "approved"
      PROVE  /\ descent'[pairing'.session] = Paired(pairing'.code)
             /\ held'[Device] # Paired(pairing'.code) => WholeNext(pairing'.session)
  <2>1. CASE UNCHANGED pairing
    <3>1. PICK s, code : s = pairing.session /\ code = pairing.code
      OBVIOUS
    <3>2. /\ s \in Made /\ code \in Nat /\ code # 0 /\ descent[s] = Paired(code)
          /\ held[Device] # Paired(code) => Whole(s)
      BY <1>1, <1>4, <2>1, <3>1 DEF PairedWhole, Basic, PairingKnows, TypeOK
    <3>3. held'[Device] # Paired(code) => held[Device] # Paired(code)
      BY <3>1, <3>2, DeviceHeld
    <3>4. descent'[s] = descent[s]
      BY <1>1, <3>2 DEF Older
    <3> QED BY <1>2, <2>1, <3>1, <3>2, <3>3, <3>4
  <2>2. CASE PairingMoves
    <3>1. PICK r \in Requests : /\ At(r, "approve", "third") /\ req[r].code = pairing.code
                                /\ pairing'.session = req[r].got
      BY <1>4, <2>2 DEF PairingMoves
    <3>2. pairing'.code = pairing.code
      BY <1>4, <2>2 DEF PairingMoves
    <3>3. /\ Whole(req[r].got) /\ descent[req[r].got] = Paired(pairing.code)
      BY <3>1 DEF PairedWhole
    <3>4. UNCHANGED <<database, history>>
      BY <2>2 DEF PairingMoves
    <3>5. WholeNext(req[r].got)
      BY <3>3, <3>4 DEF WholeNext, Whole, database, history, Made, expired
    <3> QED BY <3>1, <3>2, <3>3, <3>4, <3>5 DEF history
  <2> QED BY <1>1, <2>1, <2>2, PairingMoving
<1> QED BY <1>3, <1>4
-----------------------------------------------------------------------------
(* A client whose requests do not cross is told the truth.                 *)
UnderNext(c) == {r \in Requests : req'[r].op \in Signing /\ req'[r].by = c}
HoldsNext(c) == IF jar'[c] # None THEN WholeNext(jar'[c]) ELSE GoneNext(held'[c])
ToldNext(c) ==
    /\ \A r, q \in UnderNext(c) : r = q
    /\ \A r \in UnderNext(c) :
        /\ req'[r].heard
        /\ req'[r].op \in {"refresh", "logout"} /\ req'[r].at \in {"first", "second"}
            => req'[r].sent = jar'[c]
        /\ req'[r].answer = "tokens" => WholeNext(req'[r].got)
        /\ req'[r].answer = "clear" => GoneNext(held'[c])
    /\ (\A r \in UnderNext(c) : req'[r].answer = "none") => HoldsNext(c)

LEMMA SameDatabase ==
    ASSUME SessionInv, UNCHANGED <<database, history>>
    PROVE  /\ \A s : Whole(s) => WholeNext(s)
           /\ \A origin : Gone(origin) => GoneNext(origin)
<1>1. None \notin rows
  BY SessionFacts
<1>2. /\ version' = version /\ rows' = rows /\ made' = made /\ carries' = carries /\ old' = old
      /\ descent' = descent
  BY DEF database, history
<1> QED BY <1>1, <1>2 DEF Whole, WholeNext, Gone, GoneNext, Usable, Active, expired, Made

\* What a client has is disturbed by its own requests only.
LEMMA Undisturbed ==
    ASSUME SessionInv, ClientsApart, [Next]_vars, NEW c \in Clients, NEW s \in Made, Whole(s),
           Has(c, descent[s]), \A q \in Under(c) : ~(Rotate(q) \/ Revoke(q))
    PROVE  WholeNext(s)
<1>1. ASSUME NEW q \in Requests, Disturbs(q, s) PROVE FALSE
  <2>1. Bears(q, descent[s]) /\ descent[s] \in Origins /\ req[q].by \in Clients
    BY <1>1, DisturbChanges, RequestFields, SessionFacts DEF Disturbs, Bears
  <2>2. Has(req[q].by, descent[s])
    BY <2>1 DEF Has
  <2>3. q \in Under(c)
    BY <2>1, <2>2 DEF ClientsApart, Bears, Under
  <2> QED BY <1>1, <2>3 DEF Disturbs
<1> QED BY <1>1, WholeStays

LEMMA HoldsStays ==
    ASSUME SessionInv, ClientsApart, [Next]_vars, NEW c \in Clients, Holds(c),
           \A q \in Under(c) : ~(Rotate(q) \/ Revoke(q)), jar'[c] = jar[c], held'[c] = held[c]
    PROVE  HoldsNext(c)
<1>1. ClientsKnow
  BY SessionFacts DEF Basic
<1>2. CASE jar[c] # None
  BY <1>1, <1>2, Undisturbed DEF Holds, HoldsNext, ClientsKnow, Has
<1>3. CASE jar[c] = None
  <2>1. PICK origin : origin = held[c]
    OBVIOUS
  <2>2. Gone(origin) /\ (origin # None => \E s \in Made : descent[s] = origin)
    BY <1>1, <1>3, <2>1 DEF Holds, ClientsKnow, Gone
  <2>3. GoneNext(origin)
    BY <2>2, GoneStays
  <2> QED BY <1>3, <2>1, <2>3 DEF HoldsNext, GoneNext
<1> QED BY <1>2, <1>3

\* One to which the step has nothing to say.
LEMMA Bystander ==
    ASSUME SessionInv, ClientsApart, [Next]_vars, NEW c \in Clients, Told(c),
           \A q \in Requests : q \in Under(c) \/ q \in UnderNext(c) => req'[q] = req[q],
           jar'[c] = jar[c], held'[c] = held[c]
    PROVE  ToldNext(c)
<1>1. Basic /\ TypeOK /\ ClientsKnow
  BY SessionFacts DEF Basic
<1>2. \A q \in Under(c) : ~(Rotate(q) \/ Revoke(q))
  BY <1>1, DisturbChanges DEF Under
<1>3. \A q \in Requests : q \in UnderNext(c) => q \in Under(c)
  BY DEF UnderNext, Under
<1>4. ASSUME NEW r \in Under(c), req[r].answer = "tokens" PROVE WholeNext(req[r].got)
  <2>1. PICK s : s = req[r].got
    OBVIOUS
  <2>2. r \in Requests /\ Whole(s) /\ s \in Made /\ s # None /\ req[r].op \in Signing /\ req[r].by = c
    BY <1>1, <1>4, <2>1, BasicFacts DEF Told, Under, Placed
  <2>3. Has(c, descent[s])
    BY <2>1, <2>2 DEF Has, Bears
  <2> QED BY <1>2, <2>1, <2>2, <2>3, Undisturbed
<1>5. ASSUME NEW r \in Under(c), req[r].answer = "clear" PROVE GoneNext(held[c])
  <2>1. PICK origin : origin = held[c]
    OBVIOUS
  <2>2. Gone(origin) /\ (origin # None => \E s \in Made : descent[s] = origin)
    BY <1>1, <1>5, <2>1 DEF Told, ClientsKnow, Gone
  <2> QED BY <2>1, <2>2, GoneStays
<1>6. UnderNext(c) \subseteq Requests /\ \A r \in UnderNext(c) : r \in Under(c) /\ req'[r] = req[r]
  BY <1>3 DEF UnderNext
<1>7. (\A r \in UnderNext(c) : req'[r].answer = "none") => HoldsNext(c)
  <2> SUFFICES ASSUME \A r \in UnderNext(c) : req'[r].answer = "none" PROVE HoldsNext(c)
    OBVIOUS
  <2>1. ASSUME NEW r \in Under(c) PROVE req[r].answer = "none"
    <3>1. r \in Requests /\ req'[r] = req[r] /\ r \in UnderNext(c)
      BY DEF Under, UnderNext
    <3> QED BY <3>1
  <2>2. Holds(c)
    BY <2>1 DEF Told
  <2> QED BY <1>2, <2>2, HoldsStays
<1>8. \A r, q \in UnderNext(c) : r = q
  BY <1>6 DEF Told
<1>9. ASSUME NEW r \in UnderNext(c)
      PROVE  /\ req'[r].heard
             /\ req'[r].op \in {"refresh", "logout"} /\ req'[r].at \in {"first", "second"}
                 => req'[r].sent = jar'[c]
             /\ req'[r].answer = "tokens" => WholeNext(req'[r].got)
             /\ req'[r].answer = "clear" => GoneNext(held'[c])
  <2>1. r \in Under(c) /\ req'[r] = req[r]
    BY <1>6
  <2>2. /\ req[r].heard
        /\ req[r].op \in {"refresh", "logout"} /\ req[r].at \in {"first", "second"} => req[r].sent = jar[c]
    BY <2>1 DEF Told
  <2> QED BY <1>4, <1>5, <2>1, <2>2
<1> QED BY <1>7, <1>8, <1>9 DEF ToldNext

\* The server serves one request.
LEMMA ServerMoves ==
    ASSUME Basic, NEW r \in Requests, ServerStep(r)
    PROVE  /\ \A q \in Requests : q # r => req'[q] = req[q]
           /\ req'[r].op # "none" => req'[r].op = req[r].op /\ req'[r].by = req[r].by
           /\ UNCHANGED client
<1>1. TypeOK
  BY DEF Basic
<1>2. ASSUME NEW answer, NEW got, Replied(r, answer, got)
      PROVE  /\ \A q \in Requests : q # r => req'[q] = req[q]
             /\ req'[r].op # "none" => req'[r].op = req[r].op /\ req'[r].by = req[r].by
  BY <1>2 DEF Replied, Becomes
<1>3. ASSUME NEW seen, Proceeds(r, seen)
      PROVE  /\ \A q \in Requests : q # r => req'[q] = req[q]
             /\ req'[r].op # "none" => req'[r].op = req[r].op /\ req'[r].by = req[r].by
  BY <1>3 DEF Proceeds, Becomes
<1>4. CASE VerifyPassword(r) \/ ReadUser(r)
  <2>1. PICK seen : seen = version
    OBVIOUS
  <2>2. Proceeds(r, seen) \/ \E answer, got : Replied(r, answer, got)
    BY <1>1, <1>4, <2>1, VerifyDoes, ReadUserDoes DEF Proceeds
  <2>3. UNCHANGED client
    BY <1>4 DEF VerifyPassword, ReadUser
  <2> QED BY <1>2, <1>3, <2>2, <2>3
<1>5. CASE StoreSession(r) \/ Rotate(r)
  <2>1. PICK n : n = made + 1
    OBVIOUS
  <2>2. Replied(r, "tokens", n) \/ Replied(r, "clear", None)
    BY <1>1, <1>5, <2>1, StoreDoes, RotateDoes DEF Replied, Becomes
  <2>3. UNCHANGED client
    BY <1>5 DEF StoreSession, Rotate
  <2> QED BY <1>2, <2>2, <2>3
<1>6. CASE Revoke(r) \/ ChangePassword(r) \/ FinishPairing(r) \/ Fail(r)
  <2>1. UNCHANGED client
    BY <1>6 DEF Revoke, ChangePassword, FinishPairing, Fail
  <2> QED BY <1>1, <1>2, <1>6, <2>1, RevokeDoes, ChangePasswordDoes, FinishDoes, FailDoes
<1>7. CASE Validate(r)
  <2>1. UNCHANGED client
    BY <1>7 DEF Validate
  <2>2. CASE Replied(r, "none", None)
    BY <1>2, <2>1, <2>2
  <2>3. CASE Proceeds(r, req[r].seen)
    BY <2>1, <2>3 DEF Proceeds, Becomes
  <2>4. CASE Becomes(r, req[r].op, "second", req[r].by, req[r].heard, req[r].sent, req[r].seen,
                     pairing.code, req[r].answer, req[r].got)
    BY <2>1, <2>4 DEF Becomes
  <2> QED BY <1>1, <1>7, <2>2, <2>3, <2>4, ValidateDoes
<1>8. CASE IssuePaired(r)
  <2>1. req[r].sent \in Made /\ req[r].code # 0 /\ req[r].op = "approve"
    BY <1>8, BasicFacts DEF Placed, IssuePaired, At
  <2>2. Becomes(r, "approve", "third", req[r].by, req[r].heard, req[r].sent, req[r].seen,
                req[r].code, req[r].answer, made + 1)
    BY <1>1, <1>8, <2>1, IssueDoes
  <2>3. UNCHANGED client
    BY <1>8 DEF IssuePaired
  <2> QED BY <2>1, <2>2, <2>3 DEF Becomes
<1> QED BY <1>4, <1>5, <1>6, <1>7, <1>8 DEF ServerStep

\* How the only request of a client may go on.
LEMMA Actor ==
    ASSUME SessionInv, NEW c \in Clients, NEW r \in Under(c), Told(c),
           \A q \in Requests : q # r => req'[q] = req[q],
           req'[r].heard, req'[r].op = req[r].op, req'[r].by = req[r].by,
           jar'[c] = jar[c], held'[c] = held[c],
           req'[r].at # "answered" => req'[r].sent = req[r].sent /\ req[r].at \in {"first", "second"},
           req'[r].answer \in Answers,
           req'[r].answer = "tokens" => WholeNext(req'[r].got),
           req'[r].answer = "clear" => GoneNext(held[c]),
           req'[r].answer = "none" => HoldsNext(c)
    PROVE  ToldNext(c)
<1>1. r \in Requests /\ req[r].op \in Signing /\ req[r].by = c
  BY DEF Under
<1>2. UnderNext(c) = {r}
  <2>1. r \in UnderNext(c)
    BY <1>1 DEF UnderNext
  <2>2. ASSUME NEW q \in UnderNext(c), q # r PROVE FALSE
    <3>1. q \in Under(c)
      BY <2>2 DEF UnderNext, Under
    <3> QED BY <2>2, <3>1 DEF Told
  <2> QED BY <2>1, <2>2
<1>3. req'[r].op \in {"refresh", "logout"} /\ req'[r].at \in {"first", "second"} => req'[r].sent = jar'[c]
  BY DEF Told
<1> QED BY <1>2, <1>3 DEF ToldNext

\* With a session gone, so is all that descends from the same origin.
LEMMA ReplacedIsGone ==
    ASSUME SessionInv, NEW s \in Made, Whole(s), ~Usable(s)
    PROVE  Gone(descent[s])
<1>1. /\ old \in Nat /\ rows \subseteq Made /\ None \notin Made
      /\ \A t \in Made : t \in Nat /\ 1 <= t
  BY SessionFacts DEF Made
<1> SUFFICES ASSUME NEW t \in rows, Usable(t), descent[t] = descent[s] PROVE FALSE
  BY DEF Gone
<1>2. carries[s] = version /\ t <= s /\ t \notin expired
  BY <1>1 DEF SessionInv, SessionsAgree, Whole, Usable, Active
<1>3. s \in expired
  BY <1>1, <1>2 DEF Usable, Active, Whole
<1> QED BY <1>1, <1>2, <1>3 DEF expired

\* What the server does for the only request of a client.
LEMMA ServerTells ==
    ASSUME SessionInv, ClientsApart, [Next]_vars, NEW c \in Clients, Told(c),
           NEW r \in Under(c), ServerStep(r)
    PROVE  ToldNext(c)
<1>1. Basic /\ TypeOK /\ ClientsKnow /\ made \in Nat /\ None \notin Made /\ rows \subseteq Made
  BY SessionFacts DEF Basic
<1>2. /\ r \in Requests /\ req[r].op \in Signing /\ req[r].by = c /\ req[r].heard
      /\ req[r].op \in {"refresh", "logout"} /\ req[r].at \in {"first", "second"} => req[r].sent = jar[c]
  BY DEF Under, Told
<1>3. /\ \A q \in Requests : q # r => req'[q] = req[q]
      /\ jar' = jar /\ held' = held
  BY <1>1, <1>2, ServerMoves DEF client
<1>4. req[r].answer = "none" => Holds(c)
  <2>1. \A q \in Under(c) : q = r
    BY DEF Told
  <2> QED BY <2>1 DEF Told
<1>5. jar[c] # None => jar[c] \in Made /\ held[c] = descent[jar[c]]
  BY <1>1 DEF ClientsKnow
<1>6. UNCHANGED <<database, history>> =>
        /\ Holds(c) => HoldsNext(c)
        /\ Gone(held[c]) => GoneNext(held[c])
  BY <1>3, SameDatabase DEF Holds, HoldsNext

\* It is answered.
<1>7. ASSUME NEW answer \in Answers, NEW got, Replied(r, answer, got), req[r].answer = "none",
             answer = "tokens" => WholeNext(got),
             answer = "clear" => GoneNext(held[c]),
             answer = "none" => HoldsNext(c)
      PROVE  ToldNext(c)
  <2>1. Becomes(r, req[r].op, "answered", req[r].by, TRUE, None, 1, 0, answer, got)
    BY <1>2, <1>7 DEF Replied
  <2>2. /\ req'[r].at = "answered" /\ req'[r].op = req[r].op /\ req'[r].by = req[r].by
        /\ req'[r].heard /\ req'[r].answer = answer /\ req'[r].got = got
    BY <2>1 DEF Becomes
  <2> QED BY <1>2, <1>3, <1>7, <2>2, Actor
\* It goes on to its next block.
<1>8. ASSUME NEW seen, Proceeds(r, seen), req[r].at = "first", req[r].answer = "none", HoldsNext(c)
      PROVE  ToldNext(c)
  <2>1. /\ req'[r].op = req[r].op /\ req'[r].by = req[r].by /\ req'[r].sent = req[r].sent
        /\ req'[r].answer = "none" /\ req'[r].heard = req[r].heard
    BY <1>8 DEF Proceeds, Becomes
  <2>2. req'[r].heard
    BY <1>2, <2>1
  <2> QED BY <1>2, <1>3, <1>8, <2>1, <2>2, Actor DEF Answers
\* A refused session has no other to go on with.
<1>9. ASSUME jar[c] # None, Holds(c), ~Usable(jar[c]) PROVE Gone(held[c])
  <2>1. PICK s : s = jar[c]
    OBVIOUS
  <2>2. s \in Made /\ Whole(s) /\ ~Usable(s) /\ held[c] = descent[s]
    BY <1>5, <1>9, <2>1 DEF Holds, Usable, Active
  <2> QED BY <2>2, ReplacedIsGone DEF Gone
<1>10. CASE VerifyPassword(r)
  <2>1. PICK seen : seen = version
    OBVIOUS
  <2>2. Proceeds(r, seen) \/ Replied(r, "none", None)
    BY <1>1, <1>2, <1>10, <2>1, VerifyDoes DEF Proceeds
  <2>3. req[r].at = "first" /\ req[r].answer = "none" /\ UNCHANGED <<database, history>>
    BY <1>1, <1>2, <1>10, BasicFacts DEF VerifyPassword, At, Placed
  <2>4. HoldsNext(c)
    BY <1>4, <1>6, <2>3
  <2> QED BY <1>7, <1>8, <2>2, <2>3, <2>4 DEF Answers
<1>11. CASE ReadUser(r)
  <2>1. PICK seen : seen = version
    OBVIOUS
  <2>2. \/ Proceeds(r, seen)
        \/ /\ Replied(r, "clear", None)
           /\ ~(carries[req[r].sent] = version /\ req[r].sent \notin expired)
    BY <1>1, <1>2, <1>11, <2>1, ReadUserDoes DEF Proceeds
  <2>3. /\ req[r].at = "first" /\ req[r].answer = "none" /\ UNCHANGED <<database, history>>
        /\ req[r].sent = jar[c] /\ jar[c] # None
    BY <1>1, <1>2, <1>11, BasicFacts DEF ReadUser, At, Placed
  <2>4. Holds(c) /\ HoldsNext(c)
    BY <1>4, <1>6, <2>3
  <2>5. CASE ~(carries[req[r].sent] = version /\ req[r].sent \notin expired)
    <3>1. ~Usable(jar[c])
      BY <2>3, <2>5 DEF Usable, Active
    <3>2. GoneNext(held[c])
      BY <1>6, <1>9, <2>3, <2>4, <3>1
    <3> QED BY <1>7, <1>8, <2>2, <2>3, <2>4, <3>2 DEF Answers
  <2> QED BY <1>8, <2>2, <2>3, <2>4, <2>5
<1>12. CASE StoreSession(r)
  <2>1. PICK n : n = made + 1
    OBVIOUS
  <2>2. Replied(r, "tokens", n) /\ made' = n
    BY <1>1, <1>2, <1>12, <2>1, StoreDoes DEF Replied, Becomes, Makes
  <2>3. req[r].answer = "none" /\ WholeNext(n)
    BY <1>1, <1>2, <1>12, <2>1, <2>2, BasicFacts, NewIsWhole DEF StoreSession, At, Placed
  <2> QED BY <1>7, <2>2, <2>3 DEF Answers
<1>13. CASE Rotate(r)
  <2>1. /\ req[r].answer = "none" /\ req[r].sent = jar[c] /\ jar[c] # None
    BY <1>1, <1>2, <1>13, BasicFacts DEF Rotate, At, Placed
  <2>2. CASE made' = made + 1 /\ Replied(r, "tokens", made + 1)
    <3>1. PICK n : n = made + 1
      OBVIOUS
    <3>2. Replied(r, "tokens", n) /\ WholeNext(n)
      BY <2>2, <3>1, NewIsWhole DEF Replied, Becomes
    <3> QED BY <1>7, <2>1, <3>2 DEF Answers
  <2>3. CASE ~Active(req[r].sent) /\ Replied(r, "clear", None) /\ UNCHANGED <<database, history>>
    <3>1. ~Usable(jar[c])
      BY <2>1, <2>3 DEF Usable
    <3>2. GoneNext(held[c])
      BY <1>4, <1>6, <1>9, <2>1, <2>3, <3>1
    <3> QED BY <1>7, <2>1, <2>3, <3>2 DEF Answers
  <2> QED BY <1>1, <1>2, <1>13, <2>2, <2>3, RotateDoes DEF Makes
<1>14. CASE Revoke(r)
  <2>1. /\ Replied(r, "clear", None) /\ rows' = rows \ {req[r].sent}
    BY <1>1, <1>2, <1>14, RevokeDoes
  <2>2. req[r].answer = "none" /\ req[r].sent = jar[c]
    BY <1>1, <1>2, <1>14, BasicFacts DEF Revoke, At, Placed
  <2>3. /\ version' = version /\ made' = made /\ carries' = carries /\ old' = old /\ descent' = descent
    BY <1>14 DEF Revoke, history
  <2>4. GoneNext(held[c])
    <3>1. CASE Gone(held[c])
      BY <1>1, <2>1, <2>3, <3>1 DEF Gone, GoneNext, Usable, Active, expired
    <3>2. CASE jar[c] # None /\ Usable(jar[c])
      <4>1. \A t \in rows : descent[t] = held[c] => t = jar[c]
        BY <1>5, <3>2 DEF SessionInv, OneSessionPerSignIn, Usable, Active
      <4> QED BY <2>1, <2>2, <2>3, <4>1 DEF GoneNext
    <3>3. CASE jar[c] = None
      BY <1>4, <2>2, <3>1, <3>3 DEF Holds
    <3> QED BY <1>4, <1>9, <2>2, <3>1, <3>2, <3>3
  <2> QED BY <1>7, <2>1, <2>2, <2>4 DEF Answers
<1>15. CASE Fail(r)
  <2>1. Replied(r, "none", None) /\ req[r].answer = "none" /\ UNCHANGED <<database, history>>
    BY <1>1, <1>2, <1>15, FailDoes, BasicFacts DEF Fail, Placed
  <2>2. HoldsNext(c)
    BY <1>4, <1>6, <2>1
  <2> QED BY <1>7, <2>1, <2>2 DEF Answers
<1> QED
  BY <1>2, <1>10, <1>11, <1>12, <1>13, <1>14, <1>15
     DEF ServerStep, Validate, ChangePassword, IssuePaired, FinishPairing, At, Signing

\* A client sends its only request.
LEMMA SendTells ==
    ASSUME SessionInv, ClientInv, [Next]_vars, NEW c \in Clients, ~crossed'[c],
           NEW r \in Requests, NEW d \in Clients, NEW op \in Ops, Send(r, d, op)
    PROVE  ToldNext(c)
<1>1. Basic /\ TypeOK /\ ClientsKnow /\ ClientsApart
  BY SessionFacts DEF Basic, ClientInv
<1>2. /\ req'[r].op = op /\ req'[r].at = "first" /\ req'[r].by = d /\ req'[r].heard
      /\ req'[r].sent = (IF op = "login" THEN None ELSE jar[d]) /\ req'[r].answer = "none"
      /\ \A q \in Requests : q # r => req'[q] = req[q]
  <2>1. Becomes(r, op, "first", d, TRUE, IF op = "login" THEN None ELSE jar[d],
                IF op \in {"login", "password"} THEN version ELSE 1, 0, "none", None)
    BY <1>1, SendBecomes
  <2> QED BY <2>1 DEF Becomes
<1>3. jar' = jar /\ held' = held /\ UNCHANGED <<database, history>>
  BY DEF Send
<1>4. req[r].op = "none"
  BY <1>1, BasicFacts DEF Send, Placed
<1>5. /\ ~crossed[c]
      /\ c = d /\ op \in Signing => Under(c) = {}
  <2> HIDE DEF Signing
  <2>1. crossed \in [Clients -> BOOLEAN]
    BY <1>1, TypeOKParts DEF ClientsOK
  <2>2. crossed' = [crossed EXCEPT ![d] = crossed[d] \/ (op \in Signing /\ Under(d) # {})]
    BY DEF Send
  <2> QED BY <2>1, <2>2
<1>6. Told(c)
  BY <1>5 DEF ClientInv, ToldInv
<1>7. CASE c = d /\ op \in Signing
  <2>1. UnderNext(c) = {r}
    <3>1. r \in UnderNext(c)
      BY <1>2, <1>7 DEF UnderNext
    <3>2. ASSUME NEW q \in UnderNext(c), q # r PROVE FALSE
      <4>1. q \in Under(c)
        BY <1>2, <3>2 DEF UnderNext, Under
      <4> QED BY <1>5, <1>7, <4>1
    <3> QED BY <3>1, <3>2
  <2>2. Holds(c)
    BY <1>5, <1>6, <1>7 DEF Told
  <2>3. HoldsNext(c)
    BY <1>3, <2>2, SameDatabase DEF Holds, HoldsNext
  <2> QED BY <1>2, <1>3, <1>7, <2>1, <2>3 DEF ToldNext
<1>8. CASE ~(c = d /\ op \in Signing)
  <2>1. r \notin Under(c) /\ r \notin UnderNext(c)
    BY <1>2, <1>4, <1>8 DEF Under, UnderNext, Signing
  <2> QED BY <1>1, <1>2, <1>3, <1>6, <2>1, Bystander
<1> QED BY <1>7, <1>8

\* The answer to its only request reaches it.
LEMMA DeliverTells ==
    ASSUME SessionInv, ClientInv, [Next]_vars, NEW c \in Clients, ~crossed'[c],
           NEW r \in Requests, Deliver(r)
    PROVE  ToldNext(c)
<1>1. Basic /\ TypeOK /\ ClientsKnow /\ ClientsApart
  BY SessionFacts DEF Basic, ClientInv
<1>2. /\ req'[r].op = "none" /\ req'[r].by = Device
      /\ \A q \in Requests : q # r => req'[q] = req[q]
  <2>1. Becomes(r, "none", "idle", Device, FALSE, None, 1, 0, "none", None)
    BY <1>1, DeliverDoes
  <2> QED BY <2>1 DEF Becomes
<1>9. HoldsNow(req[r].by, Given(r), IF Alone(r) THEN FALSE ELSE crossed[req[r].by])
  BY <1>1, DeliverDoes
<1>3. r \notin UnderNext(c) /\ UNCHANGED <<database, history>>
  BY <1>2 DEF UnderNext, Signing, Deliver
<1>4. ASSUME c # req[r].by \/ ~Alone(r) PROVE Told(c)
  BY <1>4, <1>9 DEF HoldsNow, ClientInv, ToldInv
<1>5. jar[c] # None => held[c] = descent[jar[c]]
  BY <1>1 DEF ClientsKnow
<1>6. CASE c # req[r].by
  <2>1. r \notin Under(c)
    BY <1>6 DEF Under
  <2>2. jar'[c] = jar[c] /\ held'[c] = held[c]
    BY <1>6, <1>9 DEF HoldsNow
  <2> QED BY <1>1, <1>2, <1>3, <1>4, <1>6, <2>1, <2>2, Bystander
<1>7. CASE c = req[r].by /\ req[r].op \notin Signing
  <2>1. r \notin Under(c) /\ ~Alone(r)
    BY <1>7 DEF Under, Alone, Signing
  <2>2. Given(r) = jar[c]
    BY <1>1, <1>7, BasicFacts, RequestFields DEF Placed, Given, Signing, Answers
  <2>3. jar'[c] = jar[c] /\ held'[c] = held[c]
    BY <1>5, <1>7, <1>9, <2>2 DEF HoldsNow
  <2> QED BY <1>1, <1>2, <1>3, <1>4, <2>1, <2>3, Bystander
<1>8. CASE c = req[r].by /\ req[r].op \in Signing
  <2>1. r \in Under(c)
    BY <1>8 DEF Under
  <2>2. Under(c) = {r}
    <3>1. CASE Alone(r)
      BY <1>8, <3>1 DEF Alone
    <3>2. CASE ~Alone(r)
      BY <1>4, <2>1, <3>2 DEF Told
    <3> QED BY <3>1, <3>2
  <2>3. UnderNext(c) = {}
    BY <1>2, <1>3, <2>2 DEF Under, UnderNext
  <2>4. jar'[c] = Given(r) /\ held'[c] = (IF Given(r) = None THEN held[c] ELSE descent[Given(r)])
    BY <1>8, <1>9 DEF HoldsNow
  <2>5. HoldsNext(c)
    <3>1. CASE req[r].answer = "none"
      <4>1. Holds(c)
        BY <1>4, <2>2, <3>1 DEF Told, Alone
      <4>2. jar'[c] = jar[c] /\ held'[c] = held[c]
        BY <1>5, <1>8, <2>4, <3>1 DEF Given
      <4> QED BY <1>3, <4>1, <4>2, SameDatabase DEF Holds, HoldsNext
    <3>2. CASE req[r].answer = "clear"
      <4>1. Gone(held[c])
        BY <1>4, <2>1, <3>2 DEF Told, Alone
      <4>2. jar'[c] = None /\ held'[c] = held[c]
        BY <2>4, <3>2 DEF Given
      <4> QED BY <1>3, <4>1, <4>2, SameDatabase DEF HoldsNext
    <3>3. CASE req[r].answer = "tokens"
      <4>1. Whole(req[r].got)
        BY <1>4, <2>1, <3>3 DEF Told, Alone, ClientInv, FirstAnswersWhole
      <4>2. jar'[c] = req[r].got /\ req[r].got # None
        BY <1>1, <2>4, <3>3, BasicFacts DEF Given, Placed
      <4> QED BY <1>3, <4>1, <4>2, SameDatabase DEF HoldsNext
    <3> QED BY <1>1, <3>1, <3>2, <3>3, RequestFields DEF Answers
  <2> QED BY <2>3, <2>5 DEF ToldNext
<1> QED BY <1>6, <1>7, <1>8

\* The device is given the session of a code, and nobody else has it.
LEMMA PairingTells ==
    ASSUME SessionInv, ClientInv, [Next]_vars, NEW c \in Clients, ~crossed'[c], PairingStatus
    PROVE  ToldNext(c)
<1>1. Basic /\ TypeOK /\ ClientsApart /\ None \notin Made
  BY SessionFacts DEF Basic, ClientInv
<1>2. HoldsNow(Device, pairing.session, FALSE) /\ pairing.session # None
  BY <1>1, PairingStatusDoes
<1>3. req' = req /\ UNCHANGED <<database, history>>
  BY DEF PairingStatus
<1>4. CASE c = Device
  <2>1. UnderNext(c) = {}
    BY <1>3, <1>4 DEF PairingStatus, Under, UnderNext
  <2>2. Whole(pairing.session)
    BY DEF ClientInv, PairedWhole, PairingStatus
  <2>3. jar'[c] = pairing.session
    BY <1>2, <1>4 DEF HoldsNow
  <2>4. HoldsNext(c)
    BY <1>2, <1>3, <2>2, <2>3, SameDatabase DEF HoldsNext
  <2> QED BY <2>1, <2>4 DEF ToldNext
<1>5. CASE c # Device
  <2>1. jar'[c] = jar[c] /\ held'[c] = held[c] /\ ~crossed[c]
    BY <1>2, <1>5 DEF HoldsNow
  <2>2. Told(c)
    BY <2>1 DEF ClientInv, ToldInv
  <2> QED BY <1>1, <1>3, <2>1, <2>2, Bystander
<1> QED BY <1>4, <1>5

LEMMA ToldStep ==
    ASSUME SessionInv, ClientInv, [Next]_vars, NEW c \in Clients, ~crossed'[c]
    PROVE  ToldNext(c)
<1>1. Basic /\ TypeOK /\ ClientsApart /\ crossed \in [Clients -> BOOLEAN]
  BY SessionFacts, TypeOKParts DEF ClientInv, ClientsOK
<1>2. ~crossed[c] => Told(c)
  BY DEF ClientInv, ToldInv
<1>3. ASSUME NEW r \in Requests, ServerStep(r) PROVE ToldNext(c)
  <2>1. /\ \A q \in Requests : q # r => req'[q] = req[q]
        /\ req'[r].op # "none" => req'[r].op = req[r].op /\ req'[r].by = req[r].by
        /\ jar' = jar /\ held' = held /\ crossed' = crossed
    BY <1>1, <1>3, ServerMoves DEF client
  <2>2. CASE r \in Under(c)
    BY <1>1, <1>2, <1>3, <2>1, <2>2, ServerTells
  <2>3. CASE r \notin Under(c)
    <3>1. r \notin UnderNext(c)
      BY <2>1, <2>3 DEF Under, UnderNext, Signing
    <3> QED BY <1>1, <1>2, <2>1, <2>3, <3>1, Bystander
  <2> QED BY <2>2, <2>3
<1>4. ASSUME NEW r \in Requests, GiveUp(r) PROVE ToldNext(c)
  <2>1. ~crossed[c] /\ r \notin Under(c) /\ jar' = jar /\ held' = held
    <3> HIDE DEF Signing
    <3>1. crossed' = [crossed EXCEPT ![req[r].by] = crossed[req[r].by] \/ req[r].op \in Signing]
      BY <1>4 DEF GiveUp
    <3>2. ~crossed[c] /\ r \notin Under(c)
      BY <1>1, <3>1 DEF Under
    <3> QED BY <1>4, <3>2 DEF GiveUp
  <2>2. /\ \A q \in Requests : q # r => req'[q] = req[q]
        /\ r \notin UnderNext(c)
    <3>1. CASE req' = [req EXCEPT ![r] = Idle]
      <4>1. Becomes(r, "none", "idle", Device, FALSE, None, 1, 0, "none", None)
        BY <1>1, <3>1, IdleBecomes
      <4> QED BY <4>1 DEF Becomes, UnderNext, Signing
    <3>2. CASE req' = [req EXCEPT ![r].heard = FALSE]
      BY <1>1, <2>1, <3>2, UnheardBecomes DEF Becomes, Under, UnderNext
    <3> QED BY <1>4, <3>1, <3>2 DEF GiveUp
  <2> QED BY <1>1, <1>2, <2>1, <2>2, Bystander
<1>5. ASSUME NEW r \in Requests, Drop(r) PROVE ToldNext(c)
  <2>1. jar' = jar /\ held' = held /\ crossed' = crossed /\ ~req[r].heard
    BY <1>5 DEF Drop, client
  <2>2. Told(c) /\ r \notin Under(c)
    BY <1>2, <2>1 DEF Told
  <2>3. /\ \A q \in Requests : q # r => req'[q] = req[q]
        /\ r \notin UnderNext(c)
    <3>1. Becomes(r, "none", "idle", Device, FALSE, None, 1, 0, "none", None)
      BY <1>1, <1>5, IdleBecomes DEF Drop
    <3> QED BY <3>1 DEF Becomes, UnderNext, Signing
  <2> QED BY <1>1, <2>1, <2>2, <2>3, Bystander
<1>6. CASE StartPairing \/ ExpirePairing \/ Expire \/ UNCHANGED vars
  <2>1. req' = req /\ jar' = jar /\ held' = held /\ crossed' = crossed
    BY <1>6 DEF StartPairing, ExpirePairing, Expire, vars
  <2> QED BY <1>1, <1>2, <2>1, Bystander
<1> QED BY <1>3, <1>4, <1>5, <1>6, SendTells, DeliverTells, PairingTells DEF Next
-----------------------------------------------------------------------------
LEMMA ClientInitial == Init => ClientInv
<1> SUFFICES ASSUME Init PROVE ClientInv
  OBVIOUS
<1>1. /\ \A r \in Requests : req[r] = Idle
      /\ \A c \in Clients : held[c] = None /\ jar[c] = None
      /\ rows = {} /\ pairing.state = "none" /\ None \notin Origins
  <2>1. None \notin Origins
    BY ConstantsAreNumbers DEF Origins
  <2> QED BY <2>1 DEF Init, NoPairing
<1>2. \A r \in Requests : req[r].op = "none"
  BY <1>1 DEF Idle
<1>3. \A c \in Clients : Under(c) = {} /\ \A origin \in Origins : ~Has(c, origin)
  BY <1>1, <1>2 DEF Under, Has, Bears, Signing
<1>4. \A c \in Clients : Told(c)
  BY <1>1, <1>3 DEF Told, Holds, Gone
<1> QED
  BY <1>1, <1>2, <1>3, <1>4, ConstantsAreNumbers
     DEF ClientInv, ClientsApart, DeviceHasCodes, FirstAnswersWhole, PairedWhole, ToldInv, At

LEMMA ClientStep == SessionInv /\ ClientInv /\ [Next]_vars => ClientInv'
<1> SUFFICES ASSUME SessionInv, ClientInv, [Next]_vars PROVE ClientInv'
  OBVIOUS
<1> USE DEF ClientInv
<1>1. ClientsApart'
  BY ApartStep DEF ClientsApart, Has, HasNext, Bears, BearsNext
<1>2. DeviceHasCodes'
  BY DeviceStep DEF DeviceHasCodes, Has, HasNext, Bears, BearsNext
<1>3. FirstAnswersWhole'
  BY FirstStep DEF FirstAnswersWhole, Bears, BearsNext, Whole, WholeNext
<1>4. PairedWhole'
  BY PairedStep DEF PairedWhole, At, Whole, WholeNext
<1>5. ToldInv'
  <2>1. None \notin rows'
    <3>1. rows' \subseteq Made' /\ made' \in 0 .. MaxSession
      <4>1. TypeOK'
        BY SessionFacts, BasicStep DEF Basic
      <4> QED BY <4>1 DEF TypeOK, Made
    <3>2. \A s \in Made' : s \in Nat
      BY <3>1 DEF Made
    <3> QED BY <3>1, <3>2, ConstantsAreNumbers
  <2>2. ASSUME NEW c \in Clients, ~crossed'[c] PROVE Told(c)'
    <3>1. ToldNext(c)
      BY <2>2, ToldStep
    <3>2. \A s \in rows' : s # None
      BY <2>1
    <3> QED
      BY <3>1, <3>2
         DEF Told, ToldNext, Under, UnderNext, Holds, HoldsNext, Whole, WholeNext, Gone, GoneNext, Usable,
             Active
  <2> QED BY <2>2 DEF ToldInv
<1> QED BY <1>1, <1>2, <1>3, <1>4, <1>5

LEMMA ClientInvariant == Spec => [](SessionInv /\ ClientInv)
  BY SessionInitial, SessionStep, ClientInitial, ClientStep, PTL DEF Spec

(* A client at rest whose requests have not crossed and whose answers      *)
(* arrived has what it was told: its tokens are good until they expire or  *)
(* the password is changed, and after a refusal or a logout no session of  *)
(* its sign-in is left: ClientIsAsTold.                                    *)
THEOREM ClientTold == Spec => []ClientIsAsTold
<1>1. ASSUME SessionInv, ClientInv PROVE ClientIsAsTold
  <2> SUFFICES ASSUME NEW c \in Clients, Under(c) = {}, ~crossed[c]
               PROVE  IF jar[c] # None
                      THEN carries[jar[c]] = version /\ jar[c] \notin expired => jar[c] \in rows
                      ELSE \A s \in rows : Usable(s) => descent[s] # held[c]
    BY DEF ClientIsAsTold
  <2>1. Told(c)
    BY <1>1 DEF ClientInv, ToldInv
  <2>2. Holds(c)
    BY <2>1 DEF Told
  <2> QED BY <2>2 DEF Holds, Whole, Gone
<1> QED BY <1>1, ClientInvariant, PTL
===============================================================================
