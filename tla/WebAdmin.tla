------------------------------ MODULE WebAdmin ------------------------------
(***************************************************************************)
(* The pages of the web admin that change admin users, runtime settings    *)
(* and the playground.  A request is let in by require_role, which reads   *)
(* the user's row in a session of its own; it then reads and writes in one *)
(* transaction at read committed isolation, or in two.  What lies between  *)
(* is where other requests commit.                                         *)
(*                                                                         *)
(* A row that SQLAlchemy has loaded writes the columns that differ from    *)
(* what was loaded; settings and prompts are upserted as a whole.  A       *)
(* transaction holds a connection of the pool until it ends, and whoever   *)
(* finds the pool empty waits for 30 seconds and then fails.               *)
(***************************************************************************)
EXTENDS Integers, FiniteSets, Sequences

CONSTANTS
    Users,         \* usernames, each with a row or not
    Bootstraps,    \* the values of WEB__BOOTSTRAP_USERNAME
    Passwords,
    Bootstrap,     \* the password of WEB__BOOTSTRAP_PASSWORD
    Tickets,       \* ids of playground tickets
    Texts,         \* contents of a row of settings: a prompt, numbers, a channel
    Default,       \* the content that the code writes into a missing row
    Models,        \* models that a form may name
    None,          \* no row, or a blank field
    MaxRequests,   \* bound: requests that get past require_role
    MaxStarts,     \* bound: starts of the process
    PoolSize       \* pool_size + max_overflow

Requests == 1..MaxRequests

Roles == {"NOBODY", "USER", "ADMIN", "SUPERADMIN"}
Assignable == {"ADMIN", "USER"}
Level(role) == CASE role = "USER" -> 1 [] role = "ADMIN" -> 2 [] role = "SUPERADMIN" -> 3
                 [] OTHER -> 0

\* "settings" stands for a row of llm_runtime_settings, "prompt" for one of llm_prompts,
\* "mode" for the one row of zendesk_runtime_settings
Keys == {"settings", "prompt", "mode"}

UserOps ==
    [kind : {"create"}, user : Users, role : Assignable, password : Passwords]
        \cup [kind : {"role"}, user : Users, role : Assignable]
        \cup [kind : {"activate", "deactivate"}, user : Users]
        \cup [kind : {"password"}, user : Users, password : Passwords]
SaveOps ==
    [kind : {"save"}, key : {"settings"}, text : Texts, model : Models \cup {None}]
        \cup [kind : {"save"}, key : {"prompt", "mode"}, text : Texts]
UseOps == [kind : {"use"}, key : Keys]
TicketOps == [kind : {"ticket", "message", "reply", "close"}, ticket : Tickets]
Ops == UserOps \cup SaveOps \cup UseOps \cup TicketOps

UserRows == [role : Roles, active : BOOLEAN, password : Passwords]
ConfigRows == [text : Texts, model : Models \cup {None}]
TicketRows == [status : {"none", "open", "closed"},
               messages : Seq({"user", "assistant"}), runs : Seq({"generated", "failed"})]

ASSUME WebAdminAssumption ==
    /\ Bootstraps \subseteq Users
    /\ MaxRequests \in Nat
    /\ MaxStarts \in Nat
    /\ PoolSize \in Nat \ {0}
    /\ Default \in Texts
    /\ None \notin Models
    /\ None \notin UserRows \cup ConfigRows \cup TicketRows \cup Users \cup Ops \cup Keys
    /\ Bootstrap \in Passwords

VARIABLES
    users,        \* rows of admin_users; the role of a missing row is "NOBODY"
    sessions,     \* users whose browser holds a session cookie
    store,        \* rows of settings, prompts and the mode
    tickets,      \* playground tickets with their messages and runs
    req,          \* requests
    starts,       \* starts of the process so far
    saved,        \* history: what the saves amount to, one after the other
    overlapped,   \* history: keys of which a row was written that had changed since it was read
    outdated      \* history: since the start, one who was no superadmin any more took a user's rights

vars == <<users, sessions, store, tickets, req, starts, saved, overlapped, outdated>>

Request(at, actor, op, seen, lacks) ==
    [at |-> at, actor |-> actor, op |-> op, seen |-> seen, lacks |-> lacks]
Idle == Request("idle", None, None, None, None)
Done == Request("done", None, None, None, None)
InProgress(r) == req[r].at \notin {"idle", "done"}
ReplySteps == {"prompted", "settled", "asking", "hung"}

DefaultRow == [text |-> Default, model |-> None]

NoTicket == [status |-> "none", messages |-> <<>>, runs |-> <<>>]
NewTicket == [status |-> "open", messages |-> <<"user">>, runs |-> <<>>]

\* No process has been started with these users; settings and the playground may have been used.
Init ==
    /\ users = [u \in Users |-> [role |-> "NOBODY", active |-> FALSE, password |-> Bootstrap]]
    /\ sessions = {}
    /\ \E row \in {None, DefaultRow} : store = [k \in Keys |-> row]
    /\ \E row \in {NoTicket, NewTicket} : tickets = [t \in Tickets |-> row]
    /\ req = [r \in Requests |-> Idle]
    /\ starts = 0
    /\ saved = store
    /\ overlapped = {}
    /\ outdated = FALSE

Superadmins == {u \in Users : users[u].role = "SUPERADMIN" /\ users[u].active}

-----------------------------------------------------------------------------
(* The pool. *)

\* A transaction has its connection from its first statement to its end; a reply keeps
\* its connection while it looks for a second one, three times, and while the LLM writes.
Holds(r) ==
    \/ req[r].at \in {"open", "prompted", "settled", "asking", "hung"}
    \/ req[r].at = "missing" /\ req[r].op.kind = "reply"
FreeConnection == Cardinality({r \in Requests : Holds(r)}) < PoolSize

\* What a request needs next takes a connection.
WaitsForPool(r) ==
    \/ req[r].at \in {"allowed", "missing", "prompted"}
    \/ req[r].at = "open" /\ req[r].op.kind = "reply"

GivesUpNever == FALSE

GivesUp == ~FreeConnection

\* QueuePool raises TimeoutError: the transaction, if there is one, is rolled back.
PoolTimeout(r) ==
    /\ WaitsForPool(r)
    /\ GivesUp
    /\ req' = [req EXCEPT ![r] = Done]
    /\ UNCHANGED <<users, sessions, store, tickets, starts, saved, overlapped, outdated>>

-----------------------------------------------------------------------------
(* The process, sessions, and who is let in. *)

FlushWholeRow(row, seen, c, value) == [seen EXCEPT ![c] = value]

\* What a loaded row writes to column c: nothing if it was loaded with that value.
Flush(row, seen, c, value) == IF seen[c] = value THEN row ELSE [row EXCEPT ![c] = value]

\* The process starts, after a crash perhaps: what was under way is rolled back.
\* A row that bootstrap_superadmin finds keeps its password.
Start(name) ==
    /\ starts < MaxStarts
    /\ starts' = starts + 1
    /\ req' = [r \in Requests |-> IF InProgress(r) THEN Done ELSE req[r]]
    /\ users' = [users EXCEPT ![name] =
                    [role |-> "SUPERADMIN", active |-> TRUE,
                     password |-> IF @.role = "NOBODY" THEN Bootstrap ELSE @.password]]
    /\ outdated' = FALSE
    /\ UNCHANGED <<sessions, store, tickets, saved, overlapped>>

Login(u, password) ==
    /\ starts > 0
    /\ users[u].active
    /\ users[u].password = password
    /\ sessions' = sessions \cup {u}
    /\ UNCHANGED <<users, store, tickets, req, starts, saved, overlapped, outdated>>

\* Logging out, and the end of the cookie's twelve hours.
Logout(u) ==
    /\ u \in sessions
    /\ sessions' = sessions \ {u}
    /\ UNCHANGED <<users, store, tickets, req, starts, saved, overlapped, outdated>>

Needed(op) ==
    CASE op.kind = "use" -> "USER"
      [] op.kind \in {"save", "ticket", "message", "reply", "close"} -> "ADMIN"
      [] OTHER -> "SUPERADMIN"

LocksOneselfOutByRole(u, op) == op.kind = "role" /\ op.user = u

LocksOneselfOut(u, op) == op.kind \in {"role", "deactivate"} /\ op.user = u

\* The id of a new ticket comes from a sequence.
FreshId(op) ==
    op.kind = "ticket" =>
        /\ tickets[op.ticket].status = "none"
        /\ \A q \in Requests : InProgress(q) => req[q].op # op

\* Requests are numbered in the order in which they arrive.
Arrive(r, u, op) ==
    /\ starts > 0
    /\ req[r].at = "idle"
    /\ \A q \in Requests : q < r => req[q].at # "idle"
    /\ FreeConnection
    /\ u \in sessions
    /\ users[u].active
    /\ Level(users[u].role) >= Level(Needed(op))
    /\ ~LocksOneselfOut(u, op)
    /\ FreshId(op)
    /\ req' = [req EXCEPT ![r] = Request("allowed", u, op, None, None)]
    /\ UNCHANGED <<users, sessions, store, tickets, starts, saved, overlapped, outdated>>

-----------------------------------------------------------------------------
(* Transactions. *)

\* Row that the first statement of a request finds.
Found(op) ==
    CASE op.kind \in {"role", "activate", "deactivate", "password"} -> users[op.user]
      [] op.kind \in {"save", "use"} -> store[op.key]
      [] op.kind \in {"message", "reply", "close"} -> tickets[op.ticket]
      [] OTHER -> None

NotFoundTicket(op) ==
    op.kind \in {"message", "reply", "close"} /\ tickets[op.ticket].status = "none"

NotFound(op) ==
    \/ op.kind \in {"role", "activate", "deactivate", "password"} /\ users[op.user].role = "NOBODY"
    \/ op.kind \in {"message", "reply", "close"} /\ tickets[op.ticket].status = "none"
IsClosed(op) == op.kind \in {"message", "reply"} /\ tickets[op.ticket].status = "closed"
NothingToDo(op) ==
    \/ op.kind = "use" /\ store[op.key] # None
    \/ op.kind = "save" /\ op.key = "mode" /\ store["mode"] # None /\ store["mode"].text = op.text

\* The page of the prompts writes a missing prompt in a second transaction, the other pages
\* write what is missing in the first.
LacksDefault(op) == op.kind = "use" /\ op.key = "prompt"

Read(r) ==
    LET op == req[r].op IN
    /\ req[r].at = "allowed"
    /\ FreeConnection
    /\ req' = [req EXCEPT ![r] =
                IF NotFound(op) \/ IsClosed(op) \/ NothingToDo(op) THEN Done
                ELSE IF LacksDefault(op) THEN [@ EXCEPT !.at = "missing", !.lacks = op.key]
                ELSE [@ EXCEPT !.at = "open", !.seen = Found(op)]]
    /\ UNCHANGED <<users, sessions, store, tickets, starts, saved, overlapped, outdated>>

Column(kind) == IF kind = "role" THEN "role" ELSE "active"
Written(op) == IF op.kind = "role" THEN op.role ELSE op.kind = "activate"

\* A hash is salted: a password is written even if it is the one that was there.
Updated(row, seen, op) ==
    IF op.kind = "password" THEN [row EXCEPT !.password = op.password]
    ELSE Flush(row, seen, Column(op.kind), Written(op))

TakesRights(op) == op.kind \in {"role", "deactivate"}

UpdateUser(r) ==
    LET op == req[r].op IN
    /\ req[r].at = "open"
    /\ op.kind \in {"role", "activate", "deactivate", "password"}
    /\ users' = [users EXCEPT ![op.user] = Updated(@, req[r].seen, op)]
    /\ outdated' = (outdated \/ (TakesRights(op) /\ req[r].actor \notin Superadmins))
    /\ req' = [req EXCEPT ![r] = Done]
    /\ UNCHANGED <<sessions, store, tickets, starts, saved, overlapped>>

\* A second user of the name is an IntegrityError.
CreateUser(r) ==
    LET op == req[r].op IN
    /\ req[r].at = "open"
    /\ op.kind = "create"
    /\ users' = IF users[op.user].role # "NOBODY" THEN users
                ELSE [users EXCEPT ![op.user] =
                        [role |-> op.role, active |-> TRUE, password |-> op.password]]
    /\ req' = [req EXCEPT ![r] = Done]
    /\ UNCHANGED <<sessions, store, tickets, starts, saved, overlapped, outdated>>

PatchedWithBlanks(row, op) ==
    [text |-> op.text, model |-> IF op.key = "settings" THEN op.model ELSE None]

\* The row that a save makes of an earlier one: a blank model leaves the model as it was.
Patched(row, op) ==
    IF op.key # "settings" THEN [text |-> op.text, model |-> None]
    ELSE [text |-> op.text,
          model |-> IF op.model # None \/ row = None THEN op.model ELSE row.model]

\* History: of each column the last save that named it.
Meant(row, op) ==
    [c \in {"text", "model"} |->
        IF c \in DOMAIN op /\ (c = "model" => op.model # None) THEN op[c]
        ELSE IF row = None THEN DefaultRow[c] ELSE row[c]]

\* Two transactions that insert the row of the mode: the second fails.
InsertConflict(r, key) == key = "mode" /\ req[r].seen = None /\ store[key] # None

\* Is the row still the one that the write of a key starts from?  A prompt is saved blindly.
Unchanged(r, key) == store[key] = req[r].seen \/ (req[r].op.kind = "save" /\ key = "prompt")

Overlaps(r, key) == overlapped' = IF Unchanged(r, key) THEN overlapped ELSE overlapped \cup {key}

SaveConfig(r) ==
    LET op == req[r].op
        key == op.key IN
    /\ req[r].at = "open"
    /\ op.kind = "save"
    /\ IF InsertConflict(r, key) THEN UNCHANGED <<store, saved, overlapped>>
       ELSE /\ store' = [store EXCEPT ![key] = Patched(req[r].seen, op)]
            /\ saved' = [saved EXCEPT ![key] = Meant(@, op)]
            /\ Overlaps(r, key)
    /\ req' = [req EXCEPT ![r] = Done]
    /\ UNCHANGED <<users, sessions, tickets, starts, outdated>>

\* The default of a key goes over what was saved meanwhile, too.
WriteDefault(key) ==
    /\ store' = [store EXCEPT ![key] = DefaultRow]
    /\ saved' = [saved EXCEPT ![key] = IF @ = None THEN DefaultRow ELSE @]
    /\ overlapped' = IF store[key] = None THEN overlapped ELSE overlapped \cup {key}

\* get_mode and get_settings have found no row.
InsertDefault(r) ==
    LET key == req[r].op.key IN
    /\ req[r].at = "open"
    /\ req[r].op.kind = "use"
    /\ IF InsertConflict(r, key) THEN UNCHANGED <<store, saved, overlapped>>
       ELSE WriteDefault(key)
    /\ req' = [req EXCEPT ![r] = Done]
    /\ UNCHANGED <<users, sessions, tickets, starts, outdated>>

\* What a reply has when it has read a key, or written its default.
Having(key) == IF key = "prompt" THEN "prompted" ELSE "settled"

\* The storages write a default in a transaction of its own.
SaveDefault(r) ==
    /\ req[r].at = "missing"
    /\ FreeConnection
    /\ WriteDefault(req[r].lacks)
    /\ req' = [req EXCEPT ![r] = IF @.op.kind = "reply"
                                 THEN [@ EXCEPT !.at = Having(req[r].lacks), !.lacks = None]
                                 ELSE Done]
    /\ UNCHANGED <<users, sessions, tickets, starts, outdated>>

-----------------------------------------------------------------------------
(* The playground. *)

CreateTicket(r) ==
    LET op == req[r].op IN
    /\ req[r].at = "open"
    /\ op.kind = "ticket"
    /\ tickets' = [tickets EXCEPT ![op.ticket] = NewTicket]
    /\ req' = [req EXCEPT ![r] = Done]
    /\ UNCHANGED <<users, sessions, store, starts, saved, overlapped, outdated>>

AddMessage(row, role) == [row EXCEPT !.messages = Append(@, role)]

AddCustomerMessage(r) ==
    LET op == req[r].op IN
    /\ req[r].at = "open"
    /\ op.kind = "message"
    /\ tickets' = [tickets EXCEPT ![op.ticket] = AddMessage(@, "user")]
    /\ req' = [req EXCEPT ![r] = Done]
    /\ UNCHANGED <<users, sessions, store, starts, saved, overlapped, outdated>>

CloseTicket(r) ==
    LET op == req[r].op IN
    /\ req[r].at = "open"
    /\ op.kind = "close"
    /\ tickets' = [tickets EXCEPT ![op.ticket] = Flush(@, req[r].seen, "status", "closed")]
    /\ req' = [req EXCEPT ![r] = Done]
    /\ UNCHANGED <<users, sessions, store, starts, saved, overlapped, outdated>>

\* A reply reads its prompt and then its settings, each over a second connection.
Looks(r, key) ==
    /\ req[r].op.kind = "reply"
    /\ FreeConnection
    /\ req' = [req EXCEPT ![r] =
                IF store[key] = None THEN [@ EXCEPT !.at = "missing", !.lacks = key]
                ELSE [@ EXCEPT !.at = Having(key)]]
    /\ UNCHANGED <<users, sessions, store, tickets, starts, saved, overlapped, outdated>>

ReadPrompt(r) == req[r].at = "open" /\ Looks(r, "prompt")
ReadSettings(r) == req[r].at = "prompted" /\ Looks(r, "settings")

\* The generator reads the settings once more before it asks the LLM.
Ask(r) ==
    /\ req[r].at = "settled"
    /\ FreeConnection
    /\ req' = [req EXCEPT ![r].at = "asking"]
    /\ UNCHANGED <<users, sessions, store, tickets, starts, saved, overlapped, outdated>>

\* The client has no timeout: a call may stay unanswered until the process ends.
LLMHangs(r) ==
    /\ req[r].at = "asking"
    /\ req' = [req EXCEPT ![r].at = "hung"]
    /\ UNCHANGED <<users, sessions, store, tickets, starts, saved, overlapped, outdated>>

WithRun(row, status) ==
    LET ran == [row EXCEPT !.runs = Append(@, status)] IN
    IF status = "generated" THEN AddMessage(ran, "assistant") ELSE ran

\* The run, and the message if there is a reply, are committed at once; the ticket's row
\* gets its updated_at and nothing else, closed meanwhile or not.
Store(r, status) ==
    /\ tickets' = [tickets EXCEPT ![req[r].op.ticket] = WithRun(@, status)]
    /\ req' = [req EXCEPT ![r] = Done]
    /\ UNCHANGED <<users, sessions, store, starts, saved, overlapped, outdated>>

StoreReply(r) ==
    /\ req[r].at = "asking"
    /\ \E status \in {"generated", "failed"} : Store(r, status)

\* The generator's connection is the one whose lack is caught, and stored as a failed run.
AskInVain(r) ==
    /\ req[r].at = "settled"
    /\ GivesUp
    /\ Store(r, "failed")

-----------------------------------------------------------------------------
\* The next step of a request.
Work(r) ==
    \/ Read(r)
    \/ UpdateUser(r)
    \/ CreateUser(r)
    \/ SaveConfig(r)
    \/ InsertDefault(r)
    \/ SaveDefault(r)
    \/ CreateTicket(r)
    \/ AddCustomerMessage(r)
    \/ CloseTicket(r)
    \/ ReadPrompt(r)
    \/ ReadSettings(r)
    \/ Ask(r)
    \/ AskInVain(r)
    \/ StoreReply(r)
    \/ PoolTimeout(r)

Next ==
    \/ \E name \in Bootstraps : Start(name)
    \/ \E u \in Users, p \in Passwords : Login(u, p)
    \/ \E u \in Users : Logout(u)
    \/ \E r \in Requests, u \in Users, op \in Ops : Arrive(r, u, op)
    \/ \E r \in Requests : Work(r)
    \/ \E r \in Requests : LLMHangs(r)

\* A handler goes on until it answers: statements end, with an error if not otherwise, and
\* so does a call of the LLM that does not hang.  Nobody has to log in or to send a request.
Spec == Init /\ [][Next]_vars /\ \A r \in Requests : WF_vars(Work(r))

-----------------------------------------------------------------------------
(* Properties *)

\* Rows, requests and histories have their types; a request in a transaction has found the
\* row it is about (repositories/admin_users.py get_by_id, repositories/llm_playground.py
\* get_ticket), and only replies ask the LLM.
TypeOK ==
    /\ users \in [Users -> UserRows]
    /\ sessions \subseteq Users
    /\ store \in [Keys -> ConfigRows \cup {None}]
    /\ tickets \in [Tickets -> TicketRows]
    /\ starts \in 0..MaxStarts
    /\ saved \in [Keys -> ConfigRows \cup {None}]
    /\ overlapped \subseteq Keys
    /\ outdated \in BOOLEAN
    /\ \A r \in Requests :
        \/ req[r] \in {Idle, Done}
        \/ /\ req[r].at \in {"allowed", "open", "missing"} \cup ReplySteps
           /\ req[r].actor \in Users
           /\ req[r].op \in Ops
           /\ req[r].seen \in UserRows \cup ConfigRows \cup TicketRows \cup {None}
           /\ req[r].at = "missing" <=> req[r].lacks \in Keys
           /\ req[r].at \in ReplySteps => req[r].op.kind = "reply"
           /\ req[r].at = "open" /\ "user" \in DOMAIN req[r].op /\ req[r].op.kind # "create"
                => req[r].seen.role # "NOBODY"

\* Once the process has started there is an active superadmin, who can undo what others did
\* to users (web_admin/bootstrap.py, the guards of routes/users.py 171 and 207); unless,
\* since the start, a demotion or deactivation was committed for somebody who had ceased to
\* be a superadmin since require_role looked.
SuperadminRemains == starts > 0 => outdated \/ Superadmins # {}

\* A row of settings, a prompt and the mode are what the saves amount to when they are done
\* one after the other (admin/services/llm.py 84-116, admin/services/prompts.py 70-92,
\* admin/services/zendesk.py 41-58); unless a save, or the writing of a default, has gone
\* over a row that was written after it had looked.
SavesAreKept == \A k \in Keys \ overlapped : store[k] = saved[k]

\* A row read before another request's commit does not bring back what that commit has
\* changed (SQLAlchemy's flush, repositories/admin_users.py, repositories/llm_playground.py
\* 255-257): nobody is reactivated but by a request to do so or by the start, a closed
\* ticket stays closed, and its conversation keeps what it had.
StaleRowsUndoNothing ==
    [][ /\ \A u \in Users :
            /\ users[u].role # "NOBODY"
            /\ ~users[u].active
            /\ users'[u].active
            => \/ starts' # starts
               \/ \E r \in Requests : req[r].op = [kind |-> "activate", user |-> u] /\ req'[r] = Done
        /\ \A t \in Tickets :
            LET old == tickets[t]
                new == tickets'[t] IN
            /\ old.status = "closed" => new.status = "closed"
            /\ \A i \in DOMAIN old.messages : i \in DOMAIN new.messages /\ new.messages[i] = old.messages[i]
            /\ Len(old.runs) <= Len(new.runs) ]_vars

\* Every request is answered, though a reply holds one connection of the pool while it looks
\* for a second (routes/playground.py 310-342, db/sa.py 23-30), and all those who hold one
\* may be looking, or wait for an LLM that keeps them for ever: the pool's timeout ends the
\* wait.  The request whose own call of the LLM hangs is not (llm_clients/google.py 22, 91).
RequestsFinish ==
    \A r \in Requests : InProgress(r) ~> ~InProgress(r) \/ req[r].at = "hung"
=============================================================================
