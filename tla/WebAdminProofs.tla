--------------------------- MODULE WebAdminProofs ---------------------------
(***************************************************************************)
(* For any number of users, requests, tickets, starts and connections: the *)
(* web admin keeps a superadmin, its saves amount to what they would one   *)
(* after the other, and no stale row undoes a commit; each with the        *)
(* exceptions that the property names.                                     *)
(***************************************************************************)
EXTENDS WebAdmin, TLAPS

UserKinds == {"role", "activate", "deactivate", "password"}
TicketKinds == {"message", "reply", "close"}
Steps == {"idle", "done", "allowed", "open", "missing"} \cup ReplySteps
RequestRows ==
    [at : Steps, actor : Users \cup {None}, op : Ops \cup {None},
     seen : UserRows \cup ConfigRows \cup TicketRows \cup {None}, lacks : Keys \cup {None}]

Types ==
    /\ users \in [Users -> UserRows]
    /\ sessions \subseteq Users
    /\ store \in [Keys -> ConfigRows \cup {None}]
    /\ tickets \in [Tickets -> TicketRows]
    /\ req \in [Requests -> RequestRows]
    /\ starts \in 0..MaxStarts
    /\ saved \in [Keys -> ConfigRows \cup {None}]
    /\ overlapped \subseteq Keys
    /\ outdated \in BOOLEAN

\* What a request has passed on its way: the guard against locking oneself out, and
\* the first statement, which has found its row.
Admitted(r) ==
    /\ req[r].actor \in Users
    /\ req[r].op \in Ops
    /\ ~LocksOneselfOut(req[r].actor, req[r].op)
    /\ req[r].at = "missing" <=> req[r].lacks \in Keys
    /\ req[r].at \in ReplySteps => req[r].op.kind = "reply"
    /\ req[r].at = "open" /\ req[r].op.kind \in UserKinds =>
        /\ req[r].seen \in UserRows
        /\ req[r].seen.role # "NOBODY"
        /\ users[req[r].op.user].role # "NOBODY"
    /\ req[r].at = "open" /\ req[r].op.kind \in {"save", "use"} => req[r].seen \in ConfigRows \cup {None}
    /\ req[r].at # "allowed" /\ req[r].op.kind \in TicketKinds =>
        tickets[req[r].op.ticket].status # "none"

\* A ticket that is being created is nobody else's business.
Reserved(r) ==
    req[r].op.kind = "ticket" =>
        /\ tickets[req[r].op.ticket].status = "none"
        /\ \A q \in Requests : q # r /\ InProgress(q) => req[q].op # req[r].op

RequestsSound ==
    \A r \in Requests :
        IF InProgress(r) THEN Admitted(r) /\ Reserved(r) ELSE req[r] \in {Idle, Done}

\* What an operation has: TLC's sets of records, taken apart.
LEMMA OpShape ==
  ASSUME NEW op \in Ops
  PROVE  /\ op.kind \in UserKinds \cup TicketKinds \cup {"create", "save", "use", "ticket"}
         /\ op.kind \in UserKinds \cup {"create"} => op.user \in Users
         /\ op.kind \in {"create", "role"} => op.role \in Assignable
         /\ op.kind \in {"create", "password"} => op.password \in Passwords
         /\ op.kind \in {"save", "use"} => op.key \in Keys
         /\ op.kind = "save" => op.text \in Texts
         /\ op.kind = "save" /\ op.key = "settings" => op.model \in Models \cup {None}
         /\ op.kind \in TicketKinds \cup {"ticket"} => op.ticket \in Tickets
<1>1. CASE op \in UserOps
  BY <1>1 DEF UserOps, UserKinds, TicketKinds
<1>2. CASE op \in SaveOps
  BY <1>2 DEF SaveOps, UserKinds, TicketKinds, Keys
<1>3. CASE op \in UseOps
  BY <1>3 DEF UseOps, UserKinds, TicketKinds
<1>4. CASE op \in TicketOps
  BY <1>4 DEF TicketOps, UserKinds, TicketKinds
<1> QED
  BY <1>1, <1>2, <1>3, <1>4 DEF Ops

LEMMA InitSound == Init => Types /\ RequestsSound
<1> SUFFICES ASSUME Init PROVE Types /\ RequestsSound
  OBVIOUS
<1> USE WebAdminAssumption DEF Init
<1>1. users \in [Users -> UserRows]
  BY DEF UserRows, Roles
<1>2. store \in [Keys -> ConfigRows \cup {None}]
  BY DEF DefaultRow, ConfigRows
<1>3. NoTicket \in TicketRows /\ NewTicket \in TicketRows
  BY DEF NoTicket, NewTicket, TicketRows
<1>4. tickets \in [Tickets -> TicketRows]
  BY <1>3
<1>5. req \in [Requests -> RequestRows]
  BY DEF Idle, Request, RequestRows, Steps
<1>6. RequestsSound
  BY DEF RequestsSound, InProgress, Idle, Request
<1>7. starts \in 0..MaxStarts
  OBVIOUS
<1> HIDE DEF Init
<1>8. sessions \subseteq Users /\ saved = store /\ overlapped \subseteq Keys /\ outdated \in BOOLEAN
  BY DEF Init
<1> QED
  BY <1>1, <1>2, <1>4, <1>5, <1>6, <1>7, <1>8 DEF Types

\* Requests end, and the others find the rows that they rely on.
LEMMA Ends ==
  ASSUME Types, RequestsSound, NEW R \in SUBSET Requests,
         req' = [q \in Requests |-> IF q \in R THEN Done ELSE req[q]],
         \A u \in Users : users[u].role # "NOBODY" => users'[u].role # "NOBODY",
         \A t \in Tickets : tickets[t].status # "none" => tickets'[t].status # "none",
         \A q \in Requests \ R :
            InProgress(q) /\ req[q].op.kind = "ticket" /\ tickets[req[q].op.ticket].status = "none"
                => tickets'[req[q].op.ticket].status = "none"
  PROVE  req' \in [Requests -> RequestRows] /\ RequestsSound'
<1>1. Done \in RequestRows
  BY DEF Done, Request, RequestRows, Steps
<1>2. req' \in [Requests -> RequestRows]
  BY <1>1 DEF Types
<1>3. ASSUME NEW q \in Requests, InProgress(q)'
      PROVE  q \notin R /\ InProgress(q) /\ req'[q] = req[q]
  BY <1>3 DEF InProgress, Done, Request
<1>4. ASSUME NEW q \in Requests, InProgress(q)'
      PROVE  Admitted(q)'
  <2>1. Admitted(q) /\ req'[q] = req[q]
    BY <1>3, <1>4 DEF RequestsSound
  <2>2. req[q].op \in Ops
    BY <2>1 DEF Admitted
  <2>3. req[q].op.kind \in UserKinds => req[q].op.user \in Users
    BY <2>2, OpShape
  <2>4. req[q].op.kind \in TicketKinds => req[q].op.ticket \in Tickets
    BY <2>2, OpShape
  <2> QED
    BY <2>1, <2>3, <2>4 DEF Admitted
<1>5. ASSUME NEW q \in Requests, InProgress(q)'
      PROVE  Reserved(q)'
  BY <1>3, <1>5 DEF RequestsSound, Reserved
<1>6. ASSUME NEW q \in Requests, ~InProgress(q)'
      PROVE  req'[q] \in {Idle, Done}
  BY <1>6 DEF InProgress, RequestsSound
<1> QED
  BY <1>2, <1>4, <1>5, <1>6 DEF RequestsSound

\* A request goes on, and has found what its next step relies on.
LEMMA Moves ==
  ASSUME Types, RequestsSound, NEW r \in Requests, InProgress(r), NEW row \in RequestRows,
         req' = [req EXCEPT ![r] = row], users' = users, tickets' = tickets,
         row.at \in {"allowed", "open", "missing"} \cup ReplySteps,
         row.actor = req[r].actor, row.op = req[r].op,
         row.at = "missing" <=> row.lacks \in Keys,
         row.at \in ReplySteps => row.op.kind = "reply",
         row.at = "open" /\ row.op.kind \in UserKinds =>
            /\ row.seen \in UserRows
            /\ row.seen.role # "NOBODY"
            /\ users[row.op.user].role # "NOBODY",
         row.at = "open" /\ row.op.kind \in {"save", "use"} => row.seen \in ConfigRows \cup {None},
         row.at # "allowed" /\ row.op.kind \in TicketKinds => tickets[row.op.ticket].status # "none"
  PROVE  req' \in [Requests -> RequestRows] /\ RequestsSound'
<1>1. req' \in [Requests -> RequestRows]
  BY DEF Types
<1>2. /\ req'[r] = row
      /\ \A q \in Requests : q # r => req'[q] = req[q]
  BY DEF Types
<1>3. \A q \in Requests : InProgress(q)' = InProgress(q)
  BY <1>2 DEF InProgress, ReplySteps
<1>4. ASSUME NEW q \in Requests, InProgress(q)
      PROVE  Admitted(q)'
  <2>1. Admitted(q)
    BY <1>4 DEF RequestsSound
  <2>2. CASE q = r
    BY <1>2, <2>1, <2>2 DEF Admitted
  <2>3. CASE q # r
    BY <1>2, <2>1, <2>3 DEF Admitted
  <2> QED
    BY <2>2, <2>3
<1>5. ASSUME NEW q \in Requests, InProgress(q)
      PROVE  Reserved(q)'
  BY <1>2, <1>3, <1>5 DEF RequestsSound, Reserved
<1> QED
  BY <1>1, <1>2, <1>3, <1>4, <1>5 DEF RequestsSound

\* The end of one request.
LEMMA EndsOne ==
  ASSUME Types, RequestsSound, NEW r \in Requests, req' = [req EXCEPT ![r] = Done],
         \A u \in Users : users[u].role # "NOBODY" => users'[u].role # "NOBODY",
         \A t \in Tickets : tickets[t].status # "none" => tickets'[t].status # "none",
         \A q \in Requests \ {r} :
            InProgress(q) /\ req[q].op.kind = "ticket" /\ tickets[req[q].op.ticket].status = "none"
                => tickets'[req[q].op.ticket].status = "none"
  PROVE  req' \in [Requests -> RequestRows] /\ RequestsSound'
<1>1. req' = [q \in Requests |-> IF q \in {r} THEN Done ELSE req[q]]
  BY DEF Types
<1> QED
  BY <1>1, Ends

LEMMA StartSound ==
  ASSUME Types, RequestsSound, NEW name \in Bootstraps, Start(name)
  PROVE  Types' /\ RequestsSound'
<1> USE DEF Start
<1>0. name \in Users
  BY WebAdminAssumption
<1>1. users' \in [Users -> UserRows]
  BY <1>0, WebAdminAssumption DEF Types, UserRows, Roles
<1>2. \A u \in Users : users[u].role # "NOBODY" => users'[u].role # "NOBODY"
  BY <1>0 DEF Types
<1>3. starts' \in 0..MaxStarts
  BY WebAdminAssumption DEF Types
<1> DEFINE R == {q \in Requests : InProgress(q)}
<1>4. req' = [q \in Requests |-> IF q \in R THEN Done ELSE req[q]]
  OBVIOUS
<1> HIDE DEF R, Start
<1>5. R \in SUBSET Requests /\ tickets' = tickets
  BY DEF R, Start
<1>6. req' \in [Requests -> RequestRows] /\ RequestsSound'
  BY <1>2, <1>4, <1>5, Ends
<1>7. UNCHANGED <<sessions, store, tickets, saved, overlapped>> /\ outdated' = FALSE
  BY DEF Start
<1> QED
  BY <1>1, <1>3, <1>6, <1>7 DEF Types

LEMMA ArriveSound ==
  ASSUME Types, RequestsSound, NEW r \in Requests, NEW u \in Users, NEW op \in Ops, Arrive(r, u, op)
  PROVE  Types' /\ RequestsSound'
<1> DEFINE row == Request("allowed", u, op, None, None)
<1>1. /\ req' = [req EXCEPT ![r] = row]
      /\ ~LocksOneselfOut(u, op)
      /\ FreshId(op)
      /\ ~InProgress(r)
      /\ UNCHANGED <<users, sessions, store, tickets, starts, saved, overlapped, outdated>>
  BY DEF Arrive, InProgress
<1>2. row \in RequestRows
  BY DEF Request, RequestRows, Steps
<1>3. row.at = "allowed" /\ row.actor = u /\ row.op = op /\ row.lacks = None
  BY DEF Request
<1> HIDE DEF row
<1>4. req' \in [Requests -> RequestRows]
  BY <1>1, <1>2 DEF Types
<1>5. /\ req'[r] = row
      /\ \A q \in Requests : q # r => req'[q] = req[q]
  BY <1>1 DEF Types
<1>6. InProgress(r)' /\ \A q \in Requests : q # r => InProgress(q)' = InProgress(q)
  BY <1>3, <1>5 DEF InProgress
<1>7. Admitted(r)' /\ Reserved(r)'
  BY <1>1, <1>3, <1>5, <1>6, WebAdminAssumption DEF Admitted, Reserved, FreshId, ReplySteps
<1>8. ASSUME NEW q \in Requests, q # r, InProgress(q)
      PROVE  Admitted(q)' /\ Reserved(q)'
  <2>1. Admitted(q) /\ Reserved(q) /\ req'[q] = req[q]
    BY <1>5, <1>8 DEF RequestsSound
  <2>2. Admitted(q)'
    BY <1>1, <2>1 DEF Admitted
  <2>3. op.kind = "ticket" => req[q].op # op
    BY <1>1, <1>8 DEF FreshId
  <2>4. Reserved(q)'
    BY <1>1, <1>3, <1>5, <1>6, <2>1, <2>3 DEF Reserved
  <2> QED
    BY <2>2, <2>4
<1>9. RequestsSound'
  BY <1>5, <1>6, <1>7, <1>8 DEF RequestsSound
<1> QED
  BY <1>1, <1>4, <1>9 DEF Types

\* The first statement finds the row of the request, or the request is answered.
LEMMA ReadSound ==
  ASSUME Types, RequestsSound, NEW r \in Requests, Read(r)
  PROVE  Types' /\ RequestsSound'
<1> DEFINE op == req[r].op
<1>1. /\ req[r].at = "allowed" /\ InProgress(r)
      /\ UNCHANGED <<users, sessions, store, tickets, starts, saved, overlapped, outdated>>
  BY DEF Read, InProgress
<1>2. op \in Ops /\ Admitted(r)
  BY <1>1 DEF RequestsSound, Admitted
<1>3. req[r] \in RequestRows
  BY DEF Types
<1>4. CASE req' = [req EXCEPT ![r] = Done]
  BY <1>1, <1>4, EndsOne DEF Types
<1>5. CASE LacksDefault(op) /\ req' = [req EXCEPT ![r] = [@ EXCEPT !.at = "missing", !.lacks = op.key]]
  <2> DEFINE row == [req[r] EXCEPT !.at = "missing", !.lacks = op.key]
  <2>1. op.key \in Keys
    BY <1>2, <1>5, OpShape DEF LacksDefault
  <2>2. row \in RequestRows /\ row.at = "missing" /\ row.lacks \in Keys
        /\ row.actor = req[r].actor /\ row.op = op /\ op.kind = "use"
    BY <1>3, <1>5, <2>1 DEF LacksDefault, RequestRows, Steps
  <2>3. req' = [req EXCEPT ![r] = row]
    BY <1>5 DEF Types
  <2> HIDE DEF row
  <2> QED
    BY <1>1, <2>2, <2>3, Moves DEF Types, TicketKinds, ReplySteps
<1>6. CASE ~NotFound(op) /\ req' = [req EXCEPT ![r] = [@ EXCEPT !.at = "open", !.seen = Found(op)]]
  <2> DEFINE row == [req[r] EXCEPT !.at = "open", !.seen = Found(op)]
  <2>1. op.kind \in UserKinds => Found(op) \in UserRows /\ Found(op).role # "NOBODY"
                                 /\ users[op.user].role # "NOBODY"
    BY <1>2, <1>6, OpShape DEF Found, UserKinds, NotFound, Types
  <2>2. op.kind \in TicketKinds => tickets[op.ticket].status # "none" /\ Found(op) \in TicketRows
    BY <1>2, <1>6, OpShape DEF Found, TicketKinds, NotFound, Types
  <2>3. op.kind \in {"save", "use"} => Found(op) \in ConfigRows \cup {None}
    BY <1>2, OpShape DEF Found, Types
  <2>4. Found(op) \in UserRows \cup ConfigRows \cup TicketRows \cup {None}
    <3>1. op.kind \in {"create", "ticket"} => Found(op) = None
      BY DEF Found
    <3> QED
      BY <1>2, <2>1, <2>2, <2>3, <3>1, OpShape
  <2>5. /\ row \in RequestRows /\ row.at = "open" /\ row.actor = req[r].actor
        /\ row.op = op /\ row.seen = Found(op) /\ row.lacks = req[r].lacks
    BY <1>3, <2>4 DEF RequestRows, Steps
  <2>6. row.lacks \notin Keys
    BY <1>1, <1>2, <2>5 DEF Admitted
  <2>7. req' = [req EXCEPT ![r] = row]
    BY <1>6 DEF Types
  <2> HIDE DEF row
  <2>8. req' \in [Requests -> RequestRows] /\ RequestsSound'
    BY <1>1, <2>1, <2>2, <2>3, <2>5, <2>6, <2>7, Moves DEF ReplySteps
  <2> QED
    BY <1>1, <2>8 DEF Types
<1>7. \/ req' = [req EXCEPT ![r] = Done]
      \/ LacksDefault(op) /\ req' = [req EXCEPT ![r] = [@ EXCEPT !.at = "missing", !.lacks = op.key]]
      \/ ~NotFound(op) /\ req' = [req EXCEPT ![r] = [@ EXCEPT !.at = "open", !.seen = Found(op)]]
  BY DEF Read
<1> QED
  BY <1>4, <1>5, <1>6, <1>7

\* A request that has looked at its row still finds a user there, and a request for a
\* ticket finds it.
LEMMA OpenRequest ==
  ASSUME Types, RequestsSound, NEW r \in Requests, req[r].at = "open"
  PROVE  /\ InProgress(r) /\ Admitted(r) /\ Reserved(r)
         /\ req[r] \in RequestRows /\ req[r].op \in Ops
  BY DEF InProgress, RequestsSound, Admitted, Types

LEMMA UpdateUserSound ==
  ASSUME Types, RequestsSound, NEW r \in Requests, UpdateUser(r)
  PROVE  Types' /\ RequestsSound'
<1> DEFINE op == req[r].op
           row == Updated(users[op.user], req[r].seen, op)
<1>1. /\ req[r].at = "open" /\ op.kind \in UserKinds
      /\ users' = [users EXCEPT ![op.user] = row]
      /\ outdated' \in BOOLEAN
      /\ req' = [req EXCEPT ![r] = Done]
      /\ UNCHANGED <<sessions, store, tickets, starts, saved, overlapped>>
  BY DEF UpdateUser, UserKinds, Types
<1>2. Admitted(r) /\ op \in Ops
  BY <1>1, OpenRequest
<1>3. op.user \in Users
  BY <1>1, <1>2, OpShape
<1>4. users[op.user] \in UserRows
  BY <1>3 DEF Types
<1>5. row \in UserRows
  <2>1. CASE op.kind = "role"
    BY <1>2, <1>4, <2>1, OpShape DEF Updated, Flush, Column, Written, UserRows, Assignable, Roles
  <2>2. CASE op.kind = "password"
    BY <1>2, <1>4, <2>2, OpShape DEF Updated, Flush, Column, Written, UserRows
  <2>3. CASE op.kind \in {"activate", "deactivate"}
    BY <1>4, <2>3 DEF Updated, Flush, Column, Written, UserRows
  <2> QED
    BY <1>1, <2>1, <2>2, <2>3 DEF UserKinds
<1>6. users[op.user].role # "NOBODY" => row.role # "NOBODY"
  <2>1. CASE op.kind = "role"
    BY <1>2, <1>4, <2>1, OpShape DEF Updated, Flush, Column, Written, UserRows, Assignable
  <2>2. CASE op.kind = "password"
    BY <1>2, <1>4, <2>2, OpShape DEF Updated, Flush, Column, Written, UserRows
  <2>3. CASE op.kind \in {"activate", "deactivate"}
    BY <1>4, <2>3 DEF Updated, Flush, Column, Written, UserRows
  <2> QED
    BY <1>1, <2>1, <2>2, <2>3 DEF UserKinds
<1> HIDE DEF row
<1>7. users' \in [Users -> UserRows]
  BY <1>1, <1>3, <1>5 DEF Types
<1>8. \A u \in Users : users[u].role # "NOBODY" => users'[u].role # "NOBODY"
  BY <1>1, <1>3, <1>6 DEF Types
<1>9. req' \in [Requests -> RequestRows] /\ RequestsSound'
  BY <1>1, <1>8, EndsOne
<1> QED
  BY <1>1, <1>7, <1>9 DEF Types

LEMMA CreateUserSound ==
  ASSUME Types, RequestsSound, NEW r \in Requests, CreateUser(r)
  PROVE  Types' /\ RequestsSound'
<1> DEFINE op == req[r].op
           new == [role |-> op.role, active |-> TRUE, password |-> op.password]
<1>1. /\ req[r].at = "open" /\ op.kind = "create"
      /\ users' = IF users[op.user].role # "NOBODY" THEN users ELSE [users EXCEPT ![op.user] = new]
      /\ req' = [req EXCEPT ![r] = Done]
      /\ UNCHANGED <<sessions, store, tickets, starts, saved, overlapped, outdated>>
  BY DEF CreateUser
<1>2. op \in Ops
  BY <1>1, OpenRequest
<1>3. op.user \in Users /\ new \in UserRows
  BY <1>1, <1>2, OpShape DEF UserRows, Assignable, Roles
<1> HIDE DEF new
<1>4. users' \in [Users -> UserRows]
  BY <1>1, <1>3 DEF Types
<1>5. \A u \in Users : users[u].role # "NOBODY" => users'[u].role # "NOBODY"
  BY <1>1, <1>3 DEF Types
<1>6. req' \in [Requests -> RequestRows] /\ RequestsSound'
  BY <1>1, <1>5, EndsOne
<1> QED
  BY <1>1, <1>4, <1>6 DEF Types

LEMMA DefaultTyped == DefaultRow \in ConfigRows
  BY WebAdminAssumption DEF DefaultRow, ConfigRows

\* What is written into the rows of settings.
LEMMA DefaultWritten ==
  ASSUME Types, NEW key \in Keys, WriteDefault(key)
  PROVE  /\ store' \in [Keys -> ConfigRows \cup {None}]
         /\ saved' \in [Keys -> ConfigRows \cup {None}]
         /\ overlapped' \subseteq Keys
  BY DefaultTyped DEF WriteDefault, Types

LEMMA InsertDefaultSound ==
  ASSUME Types, RequestsSound, NEW r \in Requests, InsertDefault(r)
  PROVE  Types' /\ RequestsSound'
<1>1. /\ req[r].at = "open" /\ req[r].op.kind = "use"
      /\ UNCHANGED <<store, saved, overlapped>> \/ WriteDefault(req[r].op.key)
      /\ req' = [req EXCEPT ![r] = Done]
      /\ UNCHANGED <<users, sessions, tickets, starts, outdated>>
  BY DEF InsertDefault
<1>2. req[r].op.key \in Keys
  BY <1>1, OpenRequest, OpShape
<1>3. /\ store' \in [Keys -> ConfigRows \cup {None}]
      /\ saved' \in [Keys -> ConfigRows \cup {None}]
      /\ overlapped' \subseteq Keys
  BY <1>1, <1>2, DefaultWritten DEF Types
<1>4. req' \in [Requests -> RequestRows] /\ RequestsSound'
  BY <1>1, EndsOne
<1> QED
  BY <1>1, <1>3, <1>4 DEF Types

LEMMA SaveDefaultSound ==
  ASSUME Types, RequestsSound, NEW r \in Requests, SaveDefault(r)
  PROVE  Types' /\ RequestsSound'
<1>1. /\ req[r].at = "missing" /\ InProgress(r)
      /\ WriteDefault(req[r].lacks)
      /\ UNCHANGED <<users, sessions, tickets, starts, outdated>>
  BY DEF SaveDefault, InProgress
<1>2. Admitted(r) /\ req[r] \in RequestRows
  BY <1>1 DEF RequestsSound, Types
<1>3. req[r].lacks \in Keys
  BY <1>1, <1>2 DEF Admitted
<1>4. /\ store' \in [Keys -> ConfigRows \cup {None}]
      /\ saved' \in [Keys -> ConfigRows \cup {None}]
      /\ overlapped' \subseteq Keys
  BY <1>1, <1>3, DefaultWritten
<1>5. CASE req[r].op.kind # "reply" /\ req' = [req EXCEPT ![r] = Done]
  <2>1. req' \in [Requests -> RequestRows] /\ RequestsSound'
    BY <1>1, <1>5, EndsOne
  <2> QED
    BY <1>1, <1>4, <2>1 DEF Types
<1>6. CASE req[r].op.kind = "reply"
           /\ req' = [req EXCEPT ![r] = [@ EXCEPT !.at = Having(req[r].lacks), !.lacks = None]]
  <2> DEFINE step == Having(req[r].lacks)
             row == [req[r] EXCEPT !.at = step, !.lacks = None]
  <2>0. step \in {"prompted", "settled"}
    BY DEF Having
  <2> HIDE DEF step
  <2>1. /\ row \in RequestRows /\ row.at = step /\ row.lacks = None
        /\ row.actor = req[r].actor /\ row.op = req[r].op
    BY <1>2, <2>0 DEF RequestRows, Steps, ReplySteps
  <2>2. req' = [req EXCEPT ![r] = row]
    BY <1>6 DEF Types, step
  <2> HIDE DEF row
  <2>3. row.lacks \notin Keys
    BY <2>1, WebAdminAssumption
  <2>4. tickets[row.op.ticket].status # "none"
    BY <1>1, <1>2, <1>6, <2>1 DEF Admitted, TicketKinds
  <2>5. req' \in [Requests -> RequestRows] /\ RequestsSound'
    BY <1>1, <1>6, <2>0, <2>1, <2>2, <2>3, <2>4, Moves DEF ReplySteps
  <2> QED
    BY <1>1, <1>4, <2>5 DEF Types
<1> QED
  BY <1>5, <1>6 DEF SaveDefault

\* The row that a save writes, and the row that it stands for.
LEMMA SavesTyped ==
  ASSUME NEW op \in Ops, op.kind = "save", NEW row \in ConfigRows \cup {None}
  PROVE  Patched(row, op) \in ConfigRows /\ Meant(row, op) \in ConfigRows
<1>1. op.text \in Texts /\ (op.key = "settings" => op.model \in Models \cup {None})
  BY OpShape
<1>2. Patched(row, op) \in ConfigRows
  BY <1>1 DEF Patched, ConfigRows
<1>3. "text" \in DOMAIN op /\ ("model" \in DOMAIN op <=> op.key = "settings")
  BY DEF Ops, UserOps, SaveOps, UseOps, TicketOps
<1>4. Meant(row, op) \in ConfigRows
  BY <1>1, <1>3, WebAdminAssumption DEF Meant, ConfigRows, DefaultRow
<1> QED
  BY <1>2, <1>4

LEMMA SaveConfigSound ==
  ASSUME Types, RequestsSound, NEW r \in Requests, SaveConfig(r)
  PROVE  Types' /\ RequestsSound'
<1> DEFINE op == req[r].op
           key == op.key
<1>1. /\ req[r].at = "open" /\ op.kind = "save"
      /\ req' = [req EXCEPT ![r] = Done]
      /\ UNCHANGED <<users, sessions, tickets, starts, outdated>>
  BY DEF SaveConfig
<1>2. op \in Ops /\ req[r] \in RequestRows
  BY <1>1, OpenRequest
<1>3. key \in Keys /\ op.text \in Texts /\ (key = "settings" => op.model \in Models \cup {None})
  BY <1>1, <1>2, OpShape
<1>4. CASE UNCHANGED <<store, saved, overlapped>>
  <2>1. req' \in [Requests -> RequestRows] /\ RequestsSound'
    BY <1>1, EndsOne
  <2> QED
    BY <1>1, <1>4, <2>1 DEF Types
<1>5. CASE /\ store' = [store EXCEPT ![key] = Patched(req[r].seen, op)]
           /\ saved' = [saved EXCEPT ![key] = Meant(saved[key], op)]
           /\ Overlaps(r, key)
  <2>1. Patched(req[r].seen, op) \in ConfigRows
    BY <1>1, <1>2, OpenRequest, SavesTyped DEF Admitted
  <2>2. Meant(saved[key], op) \in ConfigRows
    BY <1>1, <1>2, <1>3, SavesTyped DEF Types
  <2>3. store' \in [Keys -> ConfigRows \cup {None}] /\ saved' \in [Keys -> ConfigRows \cup {None}]
    BY <1>3, <1>5, <2>1, <2>2 DEF Types
  <2>4. overlapped' \subseteq Keys
    BY <1>3, <1>5 DEF Overlaps, Types
  <2>5. req' \in [Requests -> RequestRows] /\ RequestsSound'
    BY <1>1, EndsOne
  <2> QED
    BY <1>1, <2>3, <2>4, <2>5 DEF Types
<1>6. \/ UNCHANGED <<store, saved, overlapped>>
      \/ /\ store' = [store EXCEPT ![key] = Patched(req[r].seen, op)]
         /\ saved' = [saved EXCEPT ![key] = Meant(saved[key], op)]
         /\ Overlaps(r, key)
  BY <1>3 DEF SaveConfig, Types
<1> QED
  BY <1>4, <1>5, <1>6

LEMMA CreateTicketSound ==
  ASSUME Types, RequestsSound, NEW r \in Requests, CreateTicket(r)
  PROVE  Types' /\ RequestsSound'
<1> DEFINE op == req[r].op
<1>1. /\ req[r].at = "open" /\ op.kind = "ticket"
      /\ tickets' = [tickets EXCEPT ![op.ticket] = NewTicket]
      /\ req' = [req EXCEPT ![r] = Done]
      /\ UNCHANGED <<users, sessions, store, starts, saved, overlapped, outdated>>
  BY DEF CreateTicket
<1>2. op \in Ops /\ Reserved(r)
  BY <1>1, OpenRequest
<1>3. op.ticket \in Tickets
  BY <1>1, <1>2, OpShape
<1>4. NewTicket \in TicketRows /\ NewTicket.status = "open"
  BY DEF NewTicket, TicketRows
<1>5. tickets' \in [Tickets -> TicketRows]
  BY <1>1, <1>3, <1>4 DEF Types
<1>6. \A t \in Tickets : tickets[t].status # "none" => tickets'[t].status # "none"
  BY <1>1, <1>4 DEF Types
<1>7. ASSUME NEW q \in Requests \ {r}, InProgress(q), req[q].op.kind = "ticket"
      PROVE  req[q].op.ticket # op.ticket
  <2>1. req[q].op # op /\ req[q].op \in Ops
    BY <1>1, <1>2, <1>7 DEF Reserved, RequestsSound, Admitted
  <2>2. req[q].op \in TicketOps /\ op \in TicketOps
    BY <1>1, <1>2, <1>7, <2>1 DEF Ops, UserOps, SaveOps, UseOps, TicketOps
  <2> QED
    BY <1>1, <1>7, <2>1, <2>2 DEF TicketOps
<1>8. req' \in [Requests -> RequestRows] /\ RequestsSound'
  <2>1. ASSUME NEW q \in Requests \ {r}, InProgress(q), req[q].op.kind = "ticket",
               tickets[req[q].op.ticket].status = "none"
        PROVE  tickets'[req[q].op.ticket].status = "none"
    <3>1. req[q].op.ticket \in Tickets
      BY <2>1, OpShape DEF RequestsSound, Admitted
    <3> QED
      BY <1>1, <1>7, <2>1, <3>1 DEF Types
  <2> QED
    BY <1>1, <1>6, <2>1, EndsOne
<1> QED
  BY <1>1, <1>5, <1>8 DEF Types

\* A row of a ticket that exists changes, and its status is some status still.
LEMMA TicketRowSound ==
  ASSUME Types, RequestsSound, NEW r \in Requests, NEW t \in Tickets, NEW row \in TicketRows,
         tickets[t].status # "none", row.status # "none",
         tickets' = [tickets EXCEPT ![t] = row], req' = [req EXCEPT ![r] = Done],
         UNCHANGED <<users, sessions, store, starts, saved, overlapped, outdated>>
  PROVE  Types' /\ RequestsSound'
<1>1. tickets' \in [Tickets -> TicketRows]
  BY DEF Types
<1>2. \A u \in Tickets : tickets[u].status # "none" => tickets'[u].status # "none"
  BY DEF Types
<1>3. \A u \in Tickets : tickets[u].status = "none" => tickets'[u].status = "none"
  BY DEF Types
<1>4. ASSUME NEW q \in Requests \ {r}, InProgress(q), req[q].op.kind = "ticket"
      PROVE  req[q].op.ticket \in Tickets
  BY <1>4, OpShape DEF RequestsSound, Admitted
<1>5. req' \in [Requests -> RequestRows] /\ RequestsSound'
  BY <1>2, <1>3, <1>4, EndsOne
<1> QED
  BY <1>1, <1>5 DEF Types

\* The three writers of a ticket's row, and what they leave as it was.
Kept(old, new) ==
    /\ old.status = "closed" => new.status = "closed"
    /\ \A i \in DOMAIN old.messages : i \in DOMAIN new.messages /\ new.messages[i] = old.messages[i]
    /\ Len(old.runs) <= Len(new.runs)

LEMMA MessageKept ==
  ASSUME NEW row \in TicketRows, NEW role \in {"user", "assistant"}
  PROVE  /\ AddMessage(row, role) \in TicketRows
         /\ AddMessage(row, role).status = row.status
         /\ AddMessage(row, role).runs = row.runs
         /\ Kept(row, AddMessage(row, role))
<1>1. AddMessage(row, role) = [row EXCEPT !.messages = Append(row.messages, role)]
  BY DEF AddMessage
<1>2. row.messages \in Seq({"user", "assistant"}) /\ row.runs \in Seq({"generated", "failed"})
  BY DEF TicketRows
<1>3. Append(row.messages, role) \in Seq({"user", "assistant"})
  BY <1>2
<1>4. \A i \in DOMAIN row.messages :
        i \in DOMAIN Append(row.messages, role) /\ Append(row.messages, role)[i] = row.messages[i]
  BY <1>2
<1>5. Len(row.runs) \in Nat
  BY <1>2
<1> DEFINE new == AddMessage(row, role)
<1>6. /\ new \in TicketRows /\ new.status = row.status /\ new.runs = row.runs
      /\ new.messages = Append(row.messages, role)
  BY <1>1, <1>3 DEF TicketRows
<1> HIDE DEF new
<1>7. Kept(row, new)
  BY <1>4, <1>5, <1>6 DEF Kept
<1> QED
  BY <1>6, <1>7 DEF new

\* The ticket that a request of an open transaction, or of the LLM, is about.
LEMMA TicketInHand ==
  ASSUME Types, RequestsSound, NEW r \in Requests, req[r].at \in {"open"} \cup ReplySteps,
         req[r].op.kind \in TicketKinds
  PROVE  /\ InProgress(r) /\ req[r].op.ticket \in Tickets
         /\ tickets[req[r].op.ticket] \in TicketRows
         /\ tickets[req[r].op.ticket].status # "none"
<1>1. InProgress(r) /\ Admitted(r)
  BY DEF InProgress, RequestsSound, ReplySteps
<1>2. req[r].op.ticket \in Tickets
  BY <1>1, OpShape DEF Admitted
<1> QED
  BY <1>1, <1>2 DEF Admitted, Types, ReplySteps

\* What each writer makes of the row.
LEMMA MessageRow ==
  ASSUME Types, RequestsSound, NEW r \in Requests, AddCustomerMessage(r)
  PROVE  \E t \in Tickets, row \in TicketRows :
            /\ tickets[t].status # "none" /\ row.status # "none" /\ Kept(tickets[t], row)
            /\ tickets' = [tickets EXCEPT ![t] = row]
<1> DEFINE t == req[r].op.ticket
           row == AddMessage(tickets[t], "user")
<1>1. t \in Tickets /\ tickets[t] \in TicketRows /\ tickets[t].status # "none"
  BY TicketInHand DEF AddCustomerMessage, TicketKinds
<1>2. row \in TicketRows /\ row.status = tickets[t].status /\ Kept(tickets[t], row)
  BY <1>1, MessageKept
<1>3. tickets' = [tickets EXCEPT ![t] = row]
  BY DEF AddCustomerMessage
<1> QED
  BY <1>1, <1>2, <1>3

LEMMA ClosedRow ==
  ASSUME Types, RequestsSound, NEW r \in Requests, CloseTicket(r)
  PROVE  \E t \in Tickets, row \in TicketRows :
            /\ tickets[t].status # "none" /\ row.status # "none" /\ Kept(tickets[t], row)
            /\ tickets' = [tickets EXCEPT ![t] = row]
<1> DEFINE t == req[r].op.ticket
           row == Flush(tickets[t], req[r].seen, "status", "closed")
<1>1. t \in Tickets /\ tickets[t] \in TicketRows /\ tickets[t].status # "none"
  BY TicketInHand DEF CloseTicket, TicketKinds
<1>2. row \in {tickets[t], [tickets[t] EXCEPT !.status = "closed"]}
  BY <1>1 DEF Flush, TicketRows
<1>3. row \in TicketRows /\ row.status # "none" /\ row.messages = tickets[t].messages
      /\ row.runs = tickets[t].runs /\ (tickets[t].status = "closed" => row.status = "closed")
  BY <1>1, <1>2 DEF TicketRows
<1>4. tickets' = [tickets EXCEPT ![t] = row]
  BY DEF CloseTicket
<1>5. Len(tickets[t].runs) \in Nat
  BY <1>1 DEF TicketRows
<1> HIDE DEF row
<1>6. Kept(tickets[t], row)
  BY <1>3, <1>5 DEF Kept
<1> QED
  BY <1>1, <1>3, <1>4, <1>6

LEMMA AppendTyped ==
  ASSUME NEW S, NEW s \in Seq(S), NEW e \in S
  PROVE  Append(s, e) \in Seq(S) /\ Len(s) <= Len(Append(s, e))
  OBVIOUS

LEMMA RunKept ==
  ASSUME NEW row \in TicketRows, NEW status \in {"generated", "failed"}
  PROVE  /\ WithRun(row, status) \in TicketRows
         /\ WithRun(row, status).status = row.status
         /\ Kept(row, WithRun(row, status))
<1> DEFINE ran == [row EXCEPT !.runs = Append(row.runs, status)]
           new == AddMessage(ran, "assistant")
<1>1. WithRun(row, status) = IF status = "generated" THEN new ELSE ran
  BY DEF WithRun
<1>2. row.runs \in Seq({"generated", "failed"}) /\ row.messages \in Seq({"user", "assistant"})
  BY DEF TicketRows
<1>3. Append(row.runs, status) \in Seq({"generated", "failed"})
      /\ Len(row.runs) <= Len(Append(row.runs, status))
  BY <1>2, AppendTyped
<1>4. /\ ran \in TicketRows /\ ran.status = row.status /\ ran.messages = row.messages
      /\ ran.runs = Append(row.runs, status)
  BY <1>3 DEF TicketRows
<1> HIDE DEF ran
<1>5. Kept(row, ran)
  BY <1>3, <1>4 DEF Kept
<1>6. new \in TicketRows /\ new.status = ran.status /\ new.runs = ran.runs /\ Kept(ran, new)
  BY <1>4, MessageKept
<1> HIDE DEF new
<1>7. Kept(row, new)
  BY <1>4, <1>5, <1>6 DEF Kept
<1> QED
  BY <1>1, <1>4, <1>5, <1>6, <1>7

LEMMA ReplyRow ==
  ASSUME Types, RequestsSound, NEW r \in Requests, StoreReply(r) \/ AskInVain(r)
  PROVE  \E t \in Tickets, row \in TicketRows :
            /\ tickets[t].status # "none" /\ row.status # "none" /\ Kept(tickets[t], row)
            /\ tickets' = [tickets EXCEPT ![t] = row]
<1> DEFINE t == req[r].op.ticket
<1>0. req[r].at \in ReplySteps
  BY DEF StoreReply, AskInVain, ReplySteps
<1>1. req[r].op.kind = "reply"
  BY <1>0 DEF InProgress, RequestsSound, Admitted, ReplySteps
<1>2. t \in Tickets /\ tickets[t] \in TicketRows /\ tickets[t].status # "none"
  BY <1>0, <1>1, TicketInHand DEF TicketKinds
<1>3. PICK status \in {"generated", "failed"} :
        tickets' = [tickets EXCEPT ![t] = WithRun(tickets[t], status)]
  BY DEF StoreReply, AskInVain, Store
<1> QED
  BY <1>2, <1>3, RunKept

LEMMA TicketWriterSound ==
  ASSUME Types, RequestsSound, NEW r \in Requests,
         AddCustomerMessage(r) \/ CloseTicket(r) \/ StoreReply(r) \/ AskInVain(r)
  PROVE  Types' /\ RequestsSound'
<1>1. PICK t \in Tickets, row \in TicketRows :
        /\ tickets[t].status # "none" /\ row.status # "none" /\ Kept(tickets[t], row)
        /\ tickets' = [tickets EXCEPT ![t] = row]
  BY MessageRow, ClosedRow, ReplyRow
<1>2. /\ req' = [req EXCEPT ![r] = Done]
      /\ UNCHANGED <<users, sessions, store, starts, saved, overlapped, outdated>>
  BY DEF AddCustomerMessage, CloseTicket, StoreReply, AskInVain, Store
<1> QED
  BY <1>1, <1>2, TicketRowSound

\* A reply goes on: it finds what it reads, or the default has to be written.
LEMMA ReplyMoves ==
  ASSUME Types, RequestsSound, NEW r \in Requests,
         req[r].at \in {"open"} \cup ReplySteps, req[r].op.kind = "reply",
         \/ \E step \in ReplySteps : req' = [req EXCEPT ![r] = [req[r] EXCEPT !.at = step]]
         \/ \E key \in Keys :
                req' = [req EXCEPT ![r] = [req[r] EXCEPT !.at = "missing", !.lacks = key]],
         UNCHANGED <<users, sessions, store, tickets, starts, saved, overlapped, outdated>>
  PROVE  Types' /\ RequestsSound'
<1>2. InProgress(r) /\ Admitted(r) /\ req[r] \in RequestRows
  BY DEF InProgress, RequestsSound, Types, ReplySteps
<1>3. req[r].lacks \notin Keys
  BY <1>2 DEF Admitted, ReplySteps
<1>4. tickets[req[r].op.ticket].status # "none"
  BY TicketInHand DEF TicketKinds
<1>5. ASSUME NEW key \in Keys, req' = [req EXCEPT ![r] = [req[r] EXCEPT !.at = "missing", !.lacks = key]]
      PROVE  Types' /\ RequestsSound'
  <2> DEFINE row == [req[r] EXCEPT !.at = "missing", !.lacks = key]
  <2>1. /\ row \in RequestRows /\ row.at = "missing" /\ row.lacks = key
        /\ row.actor = req[r].actor /\ row.op = req[r].op
    BY <1>2 DEF RequestRows, Steps
  <2>2. req' = [req EXCEPT ![r] = row]
    BY <1>5
  <2> HIDE DEF row
  <2>3. req' \in [Requests -> RequestRows] /\ RequestsSound'
    BY <1>2, <1>4, <2>1, <2>2, Moves DEF ReplySteps
  <2> QED
    BY <2>3 DEF Types
<1>6. ASSUME NEW step \in ReplySteps, req' = [req EXCEPT ![r] = [req[r] EXCEPT !.at = step]]
      PROVE  Types' /\ RequestsSound'
  <2> DEFINE row == [req[r] EXCEPT !.at = step]
  <2>1. /\ row \in RequestRows /\ row.at = step /\ row.lacks = req[r].lacks
        /\ row.actor = req[r].actor /\ row.op = req[r].op
    BY <1>2 DEF RequestRows, Steps
  <2>2. req' = [req EXCEPT ![r] = row]
    BY <1>6
  <2> HIDE DEF row
  <2>3. req' \in [Requests -> RequestRows] /\ RequestsSound'
    BY <1>2, <1>3, <1>4, <2>1, <2>2, Moves DEF ReplySteps
  <2> QED
    BY <2>3 DEF Types
<1> QED
  BY <1>5, <1>6

LEMMA ReplyStepSound ==
  ASSUME Types, RequestsSound, NEW r \in Requests,
         ReadPrompt(r) \/ ReadSettings(r) \/ Ask(r) \/ LLMHangs(r)
  PROVE  Types' /\ RequestsSound'
<1>1. UNCHANGED <<users, sessions, store, tickets, starts, saved, overlapped, outdated>>
  BY DEF ReadPrompt, ReadSettings, Looks, Ask, LLMHangs
<1>2. CASE ReadPrompt(r) \/ ReadSettings(r)
  <2>1. req[r].at \in {"open"} \cup ReplySteps /\ req[r].op.kind = "reply"
    BY <1>2 DEF ReadPrompt, ReadSettings, Looks, ReplySteps
  <2>2. \/ \E step \in ReplySteps : req' = [req EXCEPT ![r] = [req[r] EXCEPT !.at = step]]
        \/ \E key \in Keys :
                req' = [req EXCEPT ![r] = [req[r] EXCEPT !.at = "missing", !.lacks = key]]
    BY <1>2 DEF ReadPrompt, ReadSettings, Looks, Having, ReplySteps, Keys
  <2> QED
    BY <1>1, <2>1, <2>2, ReplyMoves
<1>3. CASE Ask(r) \/ LLMHangs(r)
  <2>1. req[r].at \in ReplySteps
    BY <1>3 DEF Ask, LLMHangs, ReplySteps
  <2>2. req[r].op.kind = "reply"
    BY <2>1 DEF InProgress, RequestsSound, Admitted, ReplySteps
  <2>3. \E step \in ReplySteps : req' = [req EXCEPT ![r] = [req[r] EXCEPT !.at = step]]
    BY <1>3 DEF Ask, LLMHangs, ReplySteps
  <2> QED
    BY <1>1, <2>1, <2>2, <2>3, ReplyMoves
<1> QED
  BY <1>2, <1>3

LEMMA PoolTimeoutSound ==
  ASSUME Types, RequestsSound, NEW r \in Requests, PoolTimeout(r)
  PROVE  Types' /\ RequestsSound'
<1>1. /\ req' = [req EXCEPT ![r] = Done]
      /\ UNCHANGED <<users, sessions, store, tickets, starts, saved, overlapped, outdated>>
  BY DEF PoolTimeout
<1>2. req' \in [Requests -> RequestRows] /\ RequestsSound'
  BY <1>1, EndsOne
<1> QED
  BY <1>1, <1>2 DEF Types

LEMMA UntouchedSound ==
  ASSUME Types, RequestsSound, sessions' \subseteq Users,
         UNCHANGED <<users, store, tickets, req, starts, saved, overlapped, outdated>>
  PROVE  Types' /\ RequestsSound'
BY DEF Types, RequestsSound, InProgress, Admitted, Reserved

LEMMA NextSound ==
  ASSUME Types, RequestsSound, [Next]_vars
  PROVE  Types' /\ RequestsSound'
<1>1. ASSUME NEW u \in Users, NEW p \in Passwords, Login(u, p)
      PROVE  Types' /\ RequestsSound'
  BY <1>1, UntouchedSound DEF Login, Types
<1>2. ASSUME NEW u \in Users, Logout(u)
      PROVE  Types' /\ RequestsSound'
  BY <1>2, UntouchedSound DEF Logout, Types
<1>3. CASE UNCHANGED vars
  BY <1>3, UntouchedSound DEF vars, Types
<1>4. ASSUME NEW r \in Requests, Work(r)
      PROVE  Types' /\ RequestsSound'
  BY <1>4, ReadSound, UpdateUserSound, CreateUserSound, SaveConfigSound, InsertDefaultSound,
     SaveDefaultSound, CreateTicketSound, TicketWriterSound, ReplyStepSound, PoolTimeoutSound DEF Work
<1> QED
  BY <1>1, <1>2, <1>3, <1>4, StartSound, ArriveSound, ReplyStepSound DEF Next

THEOREM RequestsInvariant == Spec => [](Types /\ RequestsSound)
<1>1. Init => Types /\ RequestsSound
  BY InitSound
<1>2. Types /\ RequestsSound /\ [Next]_vars => (Types /\ RequestsSound)'
  BY NextSound
<1> QED
  BY <1>1, <1>2, PTL DEF Spec

-----------------------------------------------------------------------------
\* The state of the web admin is well typed, and every request has found its row.
THEOREM TypeCorrect == Spec => []TypeOK
<1>1. Types /\ RequestsSound => TypeOK
  <2> SUFFICES ASSUME Types, RequestsSound PROVE TypeOK
    OBVIOUS
  <2>1. ASSUME NEW r \in Requests, InProgress(r)
        PROVE  /\ req[r].at \in {"allowed", "open", "missing"} \cup ReplySteps
               /\ req[r].actor \in Users
               /\ req[r].op \in Ops
               /\ req[r].seen \in UserRows \cup ConfigRows \cup TicketRows \cup {None}
               /\ req[r].at = "missing" <=> req[r].lacks \in Keys
               /\ req[r].at \in ReplySteps => req[r].op.kind = "reply"
               /\ req[r].at = "open" /\ "user" \in DOMAIN req[r].op /\ req[r].op.kind # "create"
                    => req[r].seen.role # "NOBODY"
    <3>1. Admitted(r) /\ req[r] \in RequestRows
      BY <2>1 DEF RequestsSound, Types
    <3>2. "user" \in DOMAIN req[r].op /\ req[r].op.kind # "create" => req[r].op.kind \in UserKinds
      BY <3>1 DEF Admitted, Ops, UserOps, SaveOps, UseOps, TicketOps, UserKinds
    <3> QED
      BY <2>1, <3>1, <3>2 DEF Admitted, InProgress, RequestRows, Steps
  <2>2. ASSUME NEW r \in Requests, ~InProgress(r)
        PROVE  req[r] \in {Idle, Done}
    BY <2>2 DEF RequestsSound
  <2> QED
    BY <2>1, <2>2 DEF Types, TypeOK
<1> QED
  BY <1>1, RequestsInvariant, PTL

-----------------------------------------------------------------------------
\* Whoever has lost nothing by a step is as much of a superadmin as before.
LEMMA StillSuperadmin ==
  ASSUME NEW u \in Superadmins, users'[u] = users[u]
  PROVE  u \in Superadmins'
  BY DEF Superadmins

LEMMA SuperadminStep ==
  ASSUME Types, RequestsSound, SuperadminRemains, [Next]_vars
  PROVE  SuperadminRemains'
<1>1. CASE UNCHANGED <<users, starts, outdated>>
  BY <1>1 DEF SuperadminRemains, Superadmins
<1>2. ASSUME NEW name \in Bootstraps, Start(name)
      PROVE  SuperadminRemains'
  <2>1. name \in Users /\ users'[name].role = "SUPERADMIN" /\ users'[name].active
    BY <1>2, WebAdminAssumption DEF Start, Types
  <2> QED
    BY <2>1 DEF SuperadminRemains, Superadmins
<1>3. ASSUME NEW r \in Requests, UpdateUser(r)
      PROVE  SuperadminRemains'
  <2> DEFINE op == req[r].op
             row == Updated(users[op.user], req[r].seen, op)
  <2>1. /\ req[r].at = "open" /\ op.kind \in UserKinds /\ starts' = starts
        /\ users' = [users EXCEPT ![op.user] = row]
        /\ outdated' = (outdated \/ (TakesRights(op) /\ req[r].actor \notin Superadmins))
    BY <1>3 DEF UpdateUser, UserKinds
  <2>2. Admitted(r) /\ op \in Ops
    BY <2>1, OpenRequest
  <2>3. op.user \in Users /\ users[op.user] \in UserRows
    BY <2>1, <2>2, OpShape DEF Types
  <2>4. CASE TakesRights(op) /\ req[r].actor \in Superadmins
    <3>1. op.user # req[r].actor
      BY <2>2, <2>4 DEF Admitted, LocksOneselfOut, TakesRights
    <3>2. users'[req[r].actor] = users[req[r].actor]
      BY <2>1, <2>2, <3>1 DEF Types, Admitted
    <3> QED
      BY <2>4, <3>2, StillSuperadmin DEF SuperadminRemains
  <2>5. CASE TakesRights(op) /\ req[r].actor \notin Superadmins
    BY <2>1, <2>5 DEF SuperadminRemains
  <2>6. CASE op.kind \in {"activate", "password"}
    <3>1. row.role = users[op.user].role /\ (users[op.user].active => row.active)
      <4>1. CASE op.kind = "activate"
        BY <2>3, <4>1 DEF Updated, Flush, Column, Written, UserRows
      <4>2. CASE op.kind = "password"
        BY <2>3, <4>2 DEF Updated, Flush, Column, Written, UserRows
      <4> QED
        BY <2>6, <4>1, <4>2
    <3> HIDE DEF row
    <3>2. \A u \in Superadmins : u \in Superadmins'
      BY <2>1, <2>3, <3>1 DEF Superadmins, Types
    <3> QED
      BY <2>1, <2>6, <3>2 DEF SuperadminRemains, TakesRights
  <2> QED
    BY <2>1, <2>4, <2>5, <2>6 DEF TakesRights, UserKinds
<1>4. ASSUME NEW r \in Requests, CreateUser(r)
      PROVE  SuperadminRemains'
  <2>1. \A u \in Users : users[u].role # "NOBODY" => users'[u] = users[u]
    BY <1>4 DEF CreateUser, Types
  <2>2. \A u \in Superadmins : u \in Superadmins'
    BY <2>1 DEF Superadmins
  <2> QED
    BY <1>4, <2>2 DEF SuperadminRemains, CreateUser
<1>5. ASSUME NEW r \in Requests, Work(r), ~UpdateUser(r), ~CreateUser(r)
      PROVE  UNCHANGED <<users, starts, outdated>>
  BY <1>5 DEF Work, Read, SaveConfig, InsertDefault, SaveDefault, CreateTicket, AddCustomerMessage,
              CloseTicket,
              ReadPrompt, ReadSettings, Looks, Ask, AskInVain, Store, StoreReply, PoolTimeout
<1>6. ASSUME \/ \E u \in Users, p \in Passwords : Login(u, p)
             \/ \E u \in Users : Logout(u)
             \/ \E r \in Requests, u \in Users, op \in Ops : Arrive(r, u, op)
             \/ \E r \in Requests : LLMHangs(r)
             \/ UNCHANGED vars
      PROVE  UNCHANGED <<users, starts, outdated>>
  BY <1>6 DEF Login, Logout, Arrive, LLMHangs, vars
<1> QED
  BY <1>1, <1>2, <1>3, <1>4, <1>5, <1>6 DEF Next

\* Once the process has started a superadmin remains, unless a right was taken by
\* somebody who had lost his own in the meantime.
THEOREM SuperadminStays == Spec => []SuperadminRemains
<1>1. Init => SuperadminRemains
  BY DEF Init, SuperadminRemains
<1>2. Types /\ RequestsSound /\ SuperadminRemains /\ [Next]_vars => SuperadminRemains'
  BY SuperadminStep
<1> QED
  BY <1>1, <1>2, RequestsInvariant, PTL DEF Spec

-----------------------------------------------------------------------------
\* Prompts and the mode have no model.
ModelsBelongToSettings ==
    \A k \in Keys \ {"settings"} : store[k] # None => store[k].model = None

\* A save makes of the row that it has seen what is meant, if the row is that one still.
LEMMA PatchedAsMeant ==
  ASSUME NEW op \in Ops, op.kind = "save", NEW row \in ConfigRows \cup {None},
         NEW seen \in ConfigRows \cup {None}, seen = row \/ op.key = "prompt",
         op.key # "settings" /\ row # None => row.model = None
  PROVE  Patched(seen, op) = Meant(row, op)
<1>1. op.text \in Texts /\ op.key \in Keys /\ (op.key = "settings" => op.model \in Models \cup {None})
  BY OpShape
<1>2. "text" \in DOMAIN op /\ ("model" \in DOMAIN op <=> op.key = "settings")
  BY DEF Ops, UserOps, SaveOps, UseOps, TicketOps
<1>3. Meant(row, op).text = op.text
  BY <1>2 DEF Meant
<1>4. Meant(row, op).model =
        IF op.key = "settings" /\ op.model # None THEN op.model
        ELSE IF row = None THEN None ELSE row.model
  BY <1>2 DEF Meant, DefaultRow
<1>5. Patched(seen, op).text = op.text
  BY DEF Patched
<1>6. Patched(seen, op).model = Meant(row, op).model
  <2>1. CASE op.key = "settings"
    BY <1>4, <2>1 DEF Patched
  <2>2. CASE op.key # "settings"
    BY <1>4, <2>2 DEF Patched
  <2> QED
    BY <2>1, <2>2
<1>7. Patched(seen, op) \in ConfigRows /\ Meant(row, op) \in ConfigRows
  BY SavesTyped
<1> QED
  BY <1>3, <1>5, <1>6, <1>7 DEF ConfigRows

LEMMA WriteDefaultKeeps ==
  ASSUME Types, ModelsBelongToSettings, SavesAreKept, NEW key \in Keys, WriteDefault(key)
  PROVE  ModelsBelongToSettings' /\ SavesAreKept'
<1>1. DefaultRow.model = None
  BY DEF DefaultRow
<1>2. ModelsBelongToSettings'
  BY <1>1 DEF WriteDefault, ModelsBelongToSettings, Types
<1>3. ASSUME NEW k \in Keys \ overlapped'
      PROVE  store'[k] = saved'[k]
  <2>1. k \notin overlapped
    BY <1>3 DEF WriteDefault
  <2>2. store[k] = saved[k]
    BY <2>1 DEF SavesAreKept
  <2> QED
    BY <1>3, <2>2 DEF WriteDefault, Types
<1> QED
  BY <1>2, <1>3 DEF SavesAreKept

LEMMA SaveConfigKeeps ==
  ASSUME Types, RequestsSound, ModelsBelongToSettings, SavesAreKept,
         NEW r \in Requests, SaveConfig(r)
  PROVE  ModelsBelongToSettings' /\ SavesAreKept'
<1> DEFINE op == req[r].op
           key == op.key
           seen == req[r].seen
<1>1. req[r].at = "open" /\ op.kind = "save"
  BY DEF SaveConfig
<1>2. op \in Ops /\ seen \in ConfigRows \cup {None}
  BY <1>1, OpenRequest DEF Admitted
<1>3. key \in Keys
  BY <1>1, <1>2, OpShape
<1>4. CASE UNCHANGED <<store, saved, overlapped>>
  BY <1>4 DEF ModelsBelongToSettings, SavesAreKept
<1>5. CASE /\ store' = [store EXCEPT ![key] = Patched(seen, op)]
           /\ saved' = [saved EXCEPT ![key] = Meant(saved[key], op)]
           /\ Overlaps(r, key)
  <2>1. key # "settings" => Patched(seen, op).model = None
    BY DEF Patched
  <2>2. ModelsBelongToSettings'
    BY <1>3, <1>5, <2>1 DEF ModelsBelongToSettings, Types
  <2>3. ASSUME NEW k \in Keys \ overlapped', k # key
        PROVE  store'[k] = saved'[k]
    BY <1>5, <2>3 DEF SavesAreKept, Overlaps, Types
  <2>4. ASSUME key \notin overlapped'
        PROVE  store'[key] = saved'[key]
    <3>1. key \notin overlapped /\ (store[key] = seen \/ key = "prompt")
      BY <1>5, <2>4 DEF Overlaps, Unchanged
    <3>2. saved[key] = store[key] /\ store[key] \in ConfigRows \cup {None}
      BY <1>3, <3>1 DEF SavesAreKept, Types
    <3>3. Patched(seen, op) = Meant(saved[key], op)
      BY <1>1, <1>2, <1>3, <3>1, <3>2, PatchedAsMeant DEF ModelsBelongToSettings
    <3> QED
      BY <1>3, <1>5, <3>3 DEF Types
  <2> QED
    BY <2>2, <2>3, <2>4 DEF SavesAreKept
<1>6. \/ UNCHANGED <<store, saved, overlapped>>
      \/ /\ store' = [store EXCEPT ![key] = Patched(seen, op)]
         /\ saved' = [saved EXCEPT ![key] = Meant(saved[key], op)]
         /\ Overlaps(r, key)
  BY <1>3 DEF SaveConfig, Types
<1> QED
  BY <1>4, <1>5, <1>6

LEMMA StoreStep ==
  ASSUME Types, RequestsSound, ModelsBelongToSettings, SavesAreKept, [Next]_vars
  PROVE  ModelsBelongToSettings' /\ SavesAreKept'
<1>1. CASE UNCHANGED <<store, saved, overlapped>>
  BY <1>1 DEF ModelsBelongToSettings, SavesAreKept
<1>2. ASSUME NEW r \in Requests, InsertDefault(r)
      PROVE  ModelsBelongToSettings' /\ SavesAreKept'
  <2>1. req[r].at = "open" /\ req[r].op.kind = "use"
    BY <1>2 DEF InsertDefault
  <2>2. req[r].op.key \in Keys
    BY <2>1, OpenRequest, OpShape
  <2>3. UNCHANGED <<store, saved, overlapped>> \/ WriteDefault(req[r].op.key)
    BY <1>2 DEF InsertDefault
  <2> QED
    BY <1>1, <2>2, <2>3, WriteDefaultKeeps
<1>3. ASSUME NEW r \in Requests, SaveDefault(r)
      PROVE  ModelsBelongToSettings' /\ SavesAreKept'
  <2>1. req[r].lacks \in Keys
    BY <1>3 DEF SaveDefault, RequestsSound, Admitted, InProgress
  <2> QED
    BY <1>3, <2>1, WriteDefaultKeeps DEF SaveDefault
<1>4. ASSUME NEW r \in Requests, Work(r), ~SaveConfig(r), ~InsertDefault(r), ~SaveDefault(r)
      PROVE  UNCHANGED <<store, saved, overlapped>>
  BY <1>4 DEF Work, Read, UpdateUser, CreateUser, CreateTicket, AddCustomerMessage, CloseTicket,
              ReadPrompt, ReadSettings, Looks, Ask, AskInVain, Store, StoreReply, PoolTimeout
<1>5. ASSUME \/ \E name \in Bootstraps : Start(name)
             \/ \E u \in Users, p \in Passwords : Login(u, p)
             \/ \E u \in Users : Logout(u)
             \/ \E r \in Requests, u \in Users, op \in Ops : Arrive(r, u, op)
             \/ \E r \in Requests : LLMHangs(r)
             \/ UNCHANGED vars
      PROVE  UNCHANGED <<store, saved, overlapped>>
  BY <1>5 DEF Start, Login, Logout, Arrive, LLMHangs, vars
<1> QED
  BY <1>1, <1>2, <1>3, <1>4, <1>5, SaveConfigKeeps DEF Next

\* Settings, prompts and the mode are what their saves amount to, unless one went over a
\* row that it had not seen.
THEOREM SavesStay == Spec => []SavesAreKept
<1>1. Init => ModelsBelongToSettings /\ SavesAreKept
  BY DEF Init, ModelsBelongToSettings, SavesAreKept, DefaultRow
<1>2. Types /\ RequestsSound /\ ModelsBelongToSettings /\ SavesAreKept /\ [Next]_vars
        => (ModelsBelongToSettings /\ SavesAreKept)'
  BY StoreStep
<1> QED
  BY <1>1, <1>2, RequestsInvariant, PTL DEF Spec

-----------------------------------------------------------------------------
\* A ticket that has not been created has no conversation.
MissingTicketsAreEmpty ==
    \A t \in Tickets : tickets[t].status = "none" => tickets[t] = NoTicket

LEMMA KeptAsItWas ==
  ASSUME NEW row \in TicketRows
  PROVE  Kept(row, row)
<1>1. Len(row.runs) \in Nat
  BY DEF TicketRows
<1> QED
  BY <1>1 DEF Kept

LEMMA TicketStep ==
  ASSUME Types, RequestsSound, MissingTicketsAreEmpty, [Next]_vars
  PROVE  MissingTicketsAreEmpty' /\ \A t \in Tickets : Kept(tickets[t], tickets'[t])
<1>1. CASE UNCHANGED tickets
  BY <1>1, KeptAsItWas DEF MissingTicketsAreEmpty, Types
<1>2. ASSUME NEW r \in Requests, CreateTicket(r)
      PROVE  MissingTicketsAreEmpty' /\ \A t \in Tickets : Kept(tickets[t], tickets'[t])
  <2> DEFINE t == req[r].op.ticket
  <2>1. req[r].at = "open" /\ req[r].op.kind = "ticket" /\ tickets' = [tickets EXCEPT ![t] = NewTicket]
    BY <1>2 DEF CreateTicket
  <2>2. t \in Tickets /\ tickets[t] = NoTicket
    BY <2>1, OpenRequest, OpShape DEF Reserved, MissingTicketsAreEmpty
  <2>3. Kept(NoTicket, NewTicket)
    BY DEF Kept, NoTicket, NewTicket
  <2>4. NewTicket.status # "none"
    BY DEF NewTicket
  <2> HIDE DEF t
  <2>5. \A u \in Tickets : tickets'[u] = IF u = t THEN NewTicket ELSE tickets[u]
    BY <2>1 DEF Types
  <2> QED
    BY <2>2, <2>3, <2>4, <2>5, KeptAsItWas DEF MissingTicketsAreEmpty, Types
<1>3. ASSUME NEW r \in Requests, AddCustomerMessage(r) \/ CloseTicket(r) \/ StoreReply(r) \/ AskInVain(r)
      PROVE  MissingTicketsAreEmpty' /\ \A t \in Tickets : Kept(tickets[t], tickets'[t])
  <2>1. PICK t \in Tickets, row \in TicketRows :
          /\ tickets[t].status # "none" /\ row.status # "none" /\ Kept(tickets[t], row)
          /\ tickets' = [tickets EXCEPT ![t] = row]
    BY <1>3, MessageRow, ClosedRow, ReplyRow
  <2>2. \A u \in Tickets : tickets'[u] = IF u = t THEN row ELSE tickets[u]
    BY <2>1 DEF Types
  <2> QED
    BY <2>1, <2>2, KeptAsItWas DEF MissingTicketsAreEmpty, Types
<1>4. ASSUME NEW r \in Requests, Work(r),
             ~CreateTicket(r), ~(AddCustomerMessage(r) \/ CloseTicket(r) \/ StoreReply(r) \/ AskInVain(r))
      PROVE  UNCHANGED tickets
  BY <1>4 DEF Work, Read, UpdateUser, CreateUser, SaveConfig, InsertDefault, SaveDefault,
              ReadPrompt, ReadSettings, Looks, Ask, PoolTimeout
<1>5. ASSUME \/ \E name \in Bootstraps : Start(name)
             \/ \E u \in Users, p \in Passwords : Login(u, p)
             \/ \E u \in Users : Logout(u)
             \/ \E r \in Requests, u \in Users, op \in Ops : Arrive(r, u, op)
             \/ \E r \in Requests : LLMHangs(r)
             \/ UNCHANGED vars
      PROVE  UNCHANGED tickets
  BY <1>5 DEF Start, Login, Logout, Arrive, LLMHangs, vars
<1> QED
  BY <1>1, <1>2, <1>3, <1>4, <1>5 DEF Next

\* Nobody who was deactivated is active again but by the start or on purpose.
LEMMA ActivationStep ==
  ASSUME Types, RequestsSound, [Next]_vars, NEW u \in Users,
         users[u].role # "NOBODY", ~users[u].active, users'[u].active
  PROVE  \/ starts' # starts
         \/ \E r \in Requests : req[r].op = [kind |-> "activate", user |-> u] /\ req'[r] = Done
<1>1. users' # users
  OBVIOUS
<1>2. ASSUME NEW name \in Bootstraps, Start(name)
      PROVE  starts' # starts
  BY <1>2, WebAdminAssumption DEF Start, Types
<1>3. ASSUME NEW r \in Requests, CreateUser(r)
      PROVE  FALSE
  BY <1>3 DEF CreateUser, Types
<1>4. ASSUME NEW r \in Requests, UpdateUser(r)
      PROVE  req[r].op = [kind |-> "activate", user |-> u] /\ req'[r] = Done
  <2> DEFINE op == req[r].op
             row == Updated(users[op.user], req[r].seen, op)
  <2>1. /\ req[r].at = "open" /\ op.kind \in UserKinds
        /\ users' = [users EXCEPT ![op.user] = row] /\ req' = [req EXCEPT ![r] = Done]
    BY <1>4 DEF UpdateUser, UserKinds
  <2>2. op \in Ops
    BY <2>1, OpenRequest
  <2>3. op.user = u /\ row.active
    BY <2>1 DEF Types
  <2>4. users[u] \in UserRows
    BY DEF Types
  <2>5. op.kind = "activate"
    <3>1. CASE op.kind = "role"
      BY <2>3, <2>4, <3>1 DEF Updated, Flush, Column, Written, UserRows
    <3>2. CASE op.kind = "password"
      BY <2>3, <2>4, <3>2 DEF Updated, Flush, Column, Written, UserRows
    <3>3. CASE op.kind = "deactivate"
      BY <2>3, <2>4, <3>3 DEF Updated, Flush, Column, Written, UserRows
    <3> QED
      BY <2>1, <3>1, <3>2, <3>3 DEF UserKinds
  <2>6. op \in [kind : {"activate", "deactivate"}, user : Users]
    BY <2>2, <2>5 DEF Ops, UserOps, SaveOps, UseOps, TicketOps
  <2>7. op = [kind |-> "activate", user |-> u]
    BY <2>3, <2>5, <2>6
  <2>8. req'[r] = Done
    BY <2>1 DEF Types
  <2> QED
    BY <2>7, <2>8
<1>5. ASSUME NEW r \in Requests, Work(r), ~UpdateUser(r), ~CreateUser(r)
      PROVE  users' = users
  BY <1>5 DEF Work, Read, SaveConfig, InsertDefault, SaveDefault, CreateTicket, AddCustomerMessage,
              CloseTicket,
              ReadPrompt, ReadSettings, Looks, Ask, AskInVain, Store, StoreReply, PoolTimeout
<1>6. ASSUME \/ \E v \in Users, p \in Passwords : Login(v, p)
             \/ \E v \in Users : Logout(v)
             \/ \E r \in Requests, v \in Users, op \in Ops : Arrive(r, v, op)
             \/ \E r \in Requests : LLMHangs(r)
             \/ UNCHANGED vars
      PROVE  users' = users
  BY <1>6 DEF Login, Logout, Arrive, LLMHangs, vars
<1> QED
  BY <1>1, <1>2, <1>3, <1>4, <1>5, <1>6 DEF Next

\* No row read before a commit takes back what that commit has changed.
THEOREM CommitsStand == Spec => StaleRowsUndoNothing
<1>1. Init => MissingTicketsAreEmpty
  BY DEF Init, MissingTicketsAreEmpty, NewTicket
<1>2. Types /\ RequestsSound /\ MissingTicketsAreEmpty /\ [Next]_vars => MissingTicketsAreEmpty'
  BY TicketStep
<1> DEFINE Step ==
        /\ \A u \in Users :
            /\ users[u].role # "NOBODY"
            /\ ~users[u].active
            /\ users'[u].active
            => \/ starts' # starts
               \/ \E r \in Requests : req[r].op = [kind |-> "activate", user |-> u] /\ req'[r] = Done
        /\ \A t \in Tickets :
            LET old == tickets[t]
                new == tickets'[t] IN
            /\ old.status = "closed" => new.status = "closed"
            /\ \A i \in DOMAIN old.messages : i \in DOMAIN new.messages /\ new.messages[i] = old.messages[i]
            /\ Len(old.runs) <= Len(new.runs)
<1>3. Types /\ RequestsSound /\ MissingTicketsAreEmpty /\ [Next]_vars => [Step]_vars
  <2> SUFFICES ASSUME Types, RequestsSound, MissingTicketsAreEmpty, [Next]_vars
               PROVE  Step
    OBVIOUS
  <2>1. \A t \in Tickets : Kept(tickets[t], tickets'[t])
    BY TicketStep
  <2> QED
    BY <2>1, ActivationStep DEF Kept
<1> QED
  BY <1>1, <1>2, <1>3, RequestsInvariant, PTL DEF Spec, StaleRowsUndoNothing
=============================================================================
