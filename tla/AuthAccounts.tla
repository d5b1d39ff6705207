----------------------------- MODULE AuthAccounts -----------------------------
(***************************************************************************)
(* Accounts in auth-api: registration, password login and Google login in  *)
(* several pods over one PostgreSQL database.                              *)
(*                                                                         *)
(* The handlers are coroutines that call the database synchronously and    *)
(* never really suspend (the publisher they are bound to is the in-memory  *)
(* one), so a pod serves one request at a time; requests interleave across *)
(* pods, between one database transaction and the next.  A pod that cannot *)
(* reach the database when it starts keeps accounts in its own memory.     *)
(*                                                                         *)
(* An account row is named by the request that inserted it: row r has the  *)
(* username cur[r], and r's e-mail, password and Google subject.  A Google *)
(* account and its row in the federated table are added together, so the   *)
(* federated table is given by the Google rows in linked.                  *)
(***************************************************************************)
EXTENDS Integers

CONSTANTS
    Pods,
    N,          \* bound: requests, numbered in the order they begin
    Bases,      \* what usernames are made of: <<base, suffix>>
    Mails,      \* e-mail addresses; none of them is a username
    Passwords,
    Subjects,   \* Google's user ids
    Inputs,     \* what requests may carry
    MaxFaults   \* bound: transactions that raise, lost acknowledgements, pod crashes

Requests == 1..N

Usernames == Bases \X Nat

Registrations == [op : {"register"}, name : Usernames, mail : Mails, pass : Passwords]
Logins        == [op : {"login"}, key : Usernames \cup Mails, pass : Passwords]
GoogleLogins  == [op : {"google"}, sub : Subjects, base : Bases, mail : Mails]

\* What a request has before it begins.
NoInput == [op |-> "none"]
NoName  == <<>>
Nowhere == "none"

ASSUME InputAssumption ==
    /\ Inputs \subseteq Registrations \cup Logins \cup GoogleLogins
    /\ N \in Nat
    /\ MaxFaults \in Nat
    /\ {"db", Nowhere} \cap Pods = {}
    /\ Usernames \cap Mails = {}

VARIABLES
    backend,    \* each pod: "down", or up with "db" or "memory"
    users,      \* users[s]: the account rows in store s
    linked,     \* linked[s]: those of them with a row in the federated table
    tokens,     \* refresh_tokens: the logins whose token is stored
    announced,  \* requests that have published UserCreated
    input,      \* what each request carries
    pod,        \* the pod that serves it
    store,      \* the store that pod uses
    pc,
    cur,        \* the username a request is working on
    seen,       \* did it find a refresh token row to update?
    faults

vars == <<backend, users, linked, tokens, announced, input, pod, store, pc,
          cur, seen, faults>>
accounts == <<users, linked>>
request  == <<input, pod, store>>

Stores == {"db"} \cup Pods

InFlight == {"check", "read", "commit", "publish", "find", "pick",
             "byName", "byMail", "tokenRead", "tokenCommit", "answer"}
\* 200, 409, 401, 500, and no answer at all
Ended == {"done", "conflict", "unauthorized", "error", "lost"}

IsGoogle(r) == input[r].op = "google"

\* The pods have come up together, with or without a database.
Init ==
    /\ \E b \in {"db", "memory"} : backend = [p \in Pods |-> b]
    /\ users = [s \in Stores |-> {}]
    /\ linked = [s \in Stores |-> {}]
    /\ tokens = {}
    /\ announced = {}
    /\ input = [r \in Requests |-> NoInput]
    /\ pod = [r \in Requests |-> Nowhere]
    /\ store = [r \in Requests |-> Nowhere]
    /\ pc = [r \in Requests |-> "idle"]
    /\ cur = [r \in Requests |-> NoName]
    /\ seen = [r \in Requests |-> FALSE]
    /\ faults = 0

Goto(r, where) == pc' = [pc EXCEPT ![r] = where]
Rows(r) == users[store[r]]

Named(r, n) == {q \in Rows(r) : cur[q] = n}

Fault == faults < MaxFaults /\ faults' = faults + 1

-----------------------------------------------------------------------------
(* Pods *)

\* lifespan: init_db() finds the database or falls back.
StartPod(p) ==
    /\ backend[p] = "down"
    /\ \E b \in {"db", "memory"} : backend' = [backend EXCEPT ![p] = b]
    /\ UNCHANGED <<accounts, tokens, announced, request, pc, cur, seen, faults>>

CrashPod(p) ==
    /\ Fault
    /\ backend[p] # "down"
    /\ backend' = [backend EXCEPT ![p] = "down"]
    /\ users' = [users EXCEPT ![p] = {}]
    /\ linked' = [linked EXCEPT ![p] = {}]
    /\ pc' = [r \in Requests |->
                IF pod[r] = p /\ pc[r] \in InFlight THEN "lost" ELSE pc[r]]
    /\ UNCHANGED <<tokens, announced, request, cur, seen>>

\* The next request reaches a pod whose event loop is free.
Begin(r, p, i) ==
    /\ pc[r] = "idle"
    /\ \A q \in Requests : q < r => pc[q] # "idle"
    /\ backend[p] # "down"
    /\ \A q \in Requests : pod[q] = p => pc[q] \notin InFlight
    /\ input' = [input EXCEPT ![r] = i]
    /\ pod' = [pod EXCEPT ![r] = p]
    /\ store' = [store EXCEPT ![r] = IF backend[p] = "db" THEN "db" ELSE p]
    /\ \/ /\ i.op = "register"
          /\ cur' = [cur EXCEPT ![r] = i.name]
          /\ Goto(r, "check")
       \/ i.op = "login" /\ Goto(r, "byName") /\ UNCHANGED cur
       \/ i.op = "google" /\ Goto(r, "find") /\ UNCHANGED cur
    /\ UNCHANGED <<backend, accounts, tokens, announced, seen, faults>>

-----------------------------------------------------------------------------
(* Creating an account *)

\* register: username_exists()
CheckUsername(r) ==
    /\ pc[r] = "check"
    /\ Goto(r, IF Named(r, cur[r]) # {} THEN "conflict" ELSE "read")
    /\ UNCHANGED <<backend, accounts, tokens, announced, request, cur, seen, faults>>

\* get_by_federated(): an account there is used, otherwise one is created.
FindFederated(r) ==
    /\ pc[r] = "find"
    /\ \/ \E q \in linked[store[r]] :
             /\ input[q].sub = input[r].sub
             /\ cur' = [cur EXCEPT ![r] = cur[q]]
             /\ Goto(r, "tokenRead")
       \/ /\ \A q \in linked[store[r]] : input[q].sub # input[r].sub
          /\ cur' = [cur EXCEPT ![r] = <<input[r].base, 0>>]
          /\ Goto(r, "pick")
    /\ UNCHANGED <<backend, accounts, tokens, announced, request, seen, faults>>

\* Mutant: the suffix is not counted up.
PickSameUsername(r) ==
    /\ pc[r] = "pick"
    /\ IF Named(r, cur[r]) # {}
       THEN UNCHANGED <<pc, cur>>
       ELSE Goto(r, "read") /\ UNCHANGED cur
    /\ UNCHANGED <<backend, accounts, tokens, announced, request, seen, faults>>

\* while username_exists(username): try the next suffix
PickUsername(r) ==
    /\ pc[r] = "pick"
    /\ IF Named(r, cur[r]) # {}
       THEN cur' = [cur EXCEPT ![r] = <<@[1], @[2] + 1>>] /\ UNCHANGED pc
       ELSE Goto(r, "read") /\ UNCHANGED cur
    /\ UNCHANGED <<backend, accounts, tokens, announced, request, seen, faults>>

\* Mutant: UserCreated is published ahead of the INSERT.
CreateReadPublishes(r) ==
    /\ pc[r] = "read"
    /\ Goto(r, IF Named(r, cur[r]) # {} THEN "error" ELSE "commit")
    /\ announced' = announced \cup {r}
    /\ UNCHANGED <<backend, accounts, tokens, request, cur, seen, faults>>

\* create_user, create_federated_user: the SELECT of their transaction.  The
\* ValueError of a username taken meanwhile is not an AppError.
CreateRead(r) ==
    /\ pc[r] = "read"
    /\ Goto(r, IF Named(r, cur[r]) # {} THEN "error" ELSE "commit")
    /\ UNCHANGED <<backend, accounts, tokens, announced, request, cur, seen, faults>>

AddRow(r) ==
    /\ users' = [users EXCEPT ![store[r]] = @ \cup {r}]
    /\ linked' = IF IsGoogle(r) THEN [linked EXCEPT ![store[r]] = @ \cup {r}] ELSE linked

\* A primary key, of users or of federated, that has been taken since.
Duplicate(r) ==
    \/ Named(r, cur[r]) # {}
    \/ IsGoogle(r) /\ \E q \in linked[store[r]] : input[q].sub = input[r].sub

\* Mutant: session.merge() instead of session.add().
CreateCommitMerges(r) ==
    /\ pc[r] = "commit"
    /\ users' = [users EXCEPT ![store[r]] = (@ \ Named(r, cur[r])) \cup {r}]
    /\ linked' = IF IsGoogle(r) THEN [linked EXCEPT ![store[r]] = @ \cup {r}] ELSE linked
    /\ Goto(r, "publish")
    /\ UNCHANGED <<backend, tokens, announced, request, cur, seen, faults>>

\* Mutant: the IntegrityError is swallowed.
CreateCommitSwallows(r) ==
    /\ pc[r] = "commit"
    /\ IF Duplicate(r) THEN UNCHANGED accounts ELSE AddRow(r)
    /\ Goto(r, "publish")
    /\ UNCHANGED <<backend, tokens, announced, request, cur, seen, faults>>

\* Mutant: an existing federated row is left as it is (ON CONFLICT DO NOTHING).
CreateCommitKeepsLink(r) ==
    /\ pc[r] = "commit"
    /\ \/ /\ Named(r, cur[r]) # {}
          /\ Goto(r, "error")
          /\ UNCHANGED accounts
       \/ /\ Named(r, cur[r]) = {}
          /\ users' = [users EXCEPT ![store[r]] = @ \cup {r}]
          /\ linked' = IF IsGoogle(r) /\ ~Duplicate(r)
                       THEN [linked EXCEPT ![store[r]] = @ \cup {r}] ELSE linked
          /\ Goto(r, "publish")
    /\ UNCHANGED <<backend, tokens, announced, request, cur, seen, faults>>

\* session.commit(): all rows of the transaction, or an IntegrityError.
CreateCommit(r) ==
    /\ pc[r] = "commit"
    /\ \/ Duplicate(r) /\ Goto(r, "error") /\ UNCHANGED accounts
       \/ ~Duplicate(r) /\ AddRow(r) /\ Goto(r, "publish")
    /\ UNCHANGED <<backend, tokens, announced, request, cur, seen, faults>>

Publish(r) ==
    /\ pc[r] = "publish"
    /\ announced' = announced \cup {r}
    /\ Goto(r, IF IsGoogle(r) THEN "tokenRead" ELSE "answer")
    /\ UNCHANGED <<backend, accounts, tokens, request, cur, seen, faults>>

-----------------------------------------------------------------------------
(* Logging in *)

\* verify_password on the row of account q.  The hash of a Google account is
\* the empty string, which passlib cannot identify: it raises.
Verified(r, q) ==
    CASE IsGoogle(q) -> "error"
      [] ~IsGoogle(q) /\ input[q].pass = input[r].pass -> "tokenRead"
      [] OTHER -> "unauthorized"

\* authenticate_user: get_by_username()
LoginByName(r) ==
    /\ pc[r] = "byName"
    /\ \/ \E q \in Named(r, input[r].key) :
             /\ cur' = [cur EXCEPT ![r] = cur[q]]
             /\ Goto(r, Verified(r, q))
       \/ Named(r, input[r].key) = {} /\ Goto(r, "byMail") /\ UNCHANGED cur
    /\ UNCHANGED <<backend, accounts, tokens, announced, request, seen, faults>>

\* authenticate_user: get_by_email(), any one of the rows with that address
LoginByMail(r) ==
    LET matches == {q \in Rows(r) : input[q].mail = input[r].key}
    IN  /\ pc[r] = "byMail"
        /\ \/ \E q \in matches :
                 /\ cur' = [cur EXCEPT ![r] = cur[q]]
                 /\ Goto(r, Verified(r, q))
           \/ matches = {} /\ Goto(r, "unauthorized") /\ UNCHANGED cur
        /\ UNCHANGED <<backend, accounts, tokens, announced, request, seen, faults>>

StoredFor(r) == {q \in tokens : cur[q] = cur[r]}

\* save_refresh_token: the SELECT of its transaction; nothing in memory.
TokenRead(r) ==
    /\ pc[r] = "tokenRead"
    /\ \/ store[r] = "db" /\ seen' = [seen EXCEPT ![r] = StoredFor(r) # {}]
                          /\ Goto(r, "tokenCommit")
       \/ store[r] # "db" /\ Goto(r, "answer") /\ UNCHANGED seen
    /\ UNCHANGED <<backend, accounts, tokens, announced, request, cur, faults>>

\* Mutant: refresh_tokens has no primary key on the user.
TokenCommitAdds(r) ==
    /\ pc[r] = "tokenCommit"
    /\ tokens' = (IF seen[r] THEN tokens \ StoredFor(r) ELSE tokens) \cup {r}
    /\ Goto(r, "answer")
    /\ UNCHANGED <<backend, accounts, announced, request, cur, seen, faults>>

\* The UPDATE of the row that was found, or an INSERT.
StoreToken(r) == tokens' = (tokens \ StoredFor(r)) \cup {r}

\* The primary key is taken: another login of the same user has inserted its row
\* since.
TokenTaken(r) == ~seen[r] /\ StoredFor(r) # {}

\* session.commit() of that transaction, or an IntegrityError.
TokenCommit(r) ==
    /\ pc[r] = "tokenCommit"
    /\ \/ TokenTaken(r) /\ Goto(r, "error") /\ UNCHANGED tokens
       \/ ~TokenTaken(r) /\ StoreToken(r) /\ Goto(r, "answer")
    /\ UNCHANGED <<backend, accounts, announced, request, cur, seen, faults>>

\* The response, with the tokens of a login.
Respond(r) ==
    /\ pc[r] = "answer"
    /\ Goto(r, "done")
    /\ UNCHANGED <<backend, accounts, tokens, announced, request, cur, seen, faults>>

\* A transaction raises and is rolled back.
TransactionFails(r) ==
    /\ Fault
    /\ store[r] = "db"
    /\ pc[r] \in InFlight \ {"publish", "answer"}
    /\ Goto(r, "error")
    /\ UNCHANGED <<backend, accounts, tokens, announced, request, cur, seen>>

\* session.commit() raises although the database has committed: the connection
\* broke before its acknowledgement.
CommitUnacknowledged(r) ==
    /\ Fault
    /\ store[r] = "db"
    /\ \/ pc[r] = "commit" /\ ~Duplicate(r) /\ AddRow(r) /\ UNCHANGED tokens
       \/ pc[r] = "tokenCommit" /\ ~TokenTaken(r) /\ StoreToken(r) /\ UNCHANGED accounts
    /\ Goto(r, "error")
    /\ UNCHANGED <<backend, announced, request, cur, seen>>

-----------------------------------------------------------------------------
Step(r) ==
    \/ CheckUsername(r) \/ FindFederated(r) \/ PickUsername(r)
    \/ CreateRead(r) \/ CreateCommit(r) \/ Publish(r)
    \/ LoginByName(r) \/ LoginByMail(r)
    \/ TokenRead(r) \/ TokenCommit(r) \/ Respond(r)

Next ==
    \/ \E p \in Pods : StartPod(p) \/ CrashPod(p)
    \/ \E r \in Requests :
          \/ \E p \in Pods, i \in Inputs : Begin(r, p, i)
          \/ Step(r) \/ TransactionFails(r) \/ CommitUnacknowledged(r)

\* A handler that has begun runs on.  Nobody need come, no pod need start.
Fairness == \A r \in Requests : WF_vars(Step(r))

Spec     == Init /\ [][Next]_vars
FairSpec == Spec /\ Fairness

-----------------------------------------------------------------------------
TypeOK ==
    /\ backend \in [Pods -> {"down", "db", "memory"}]
    /\ users \in [Stores -> SUBSET Requests]
    /\ linked \in [Stores -> SUBSET Requests]
    /\ tokens \subseteq Requests
    /\ announced \subseteq Requests
    /\ input \in [Requests -> {NoInput} \cup Inputs]
    /\ pod \in [Requests -> {Nowhere} \cup Pods]
    /\ store \in [Requests -> {Nowhere} \cup Stores]
    /\ pc \in [Requests -> {"idle"} \cup InFlight \cup Ended]
    /\ cur \in [Requests -> {NoName} \cup Usernames]
    /\ seen \in [Requests -> BOOLEAN]
    /\ faults \in 0..MaxFaults

(* Properties *)

\* A registration that was answered with success is the account of that name in
\* the database, with its password, however many others asked for the name.
RegistrationsKept ==
    \A r \in Requests :
        pc[r] = "done" /\ input[r].op = "register" /\ store[r] = "db" =>
            /\ r \in users["db"]
            /\ \A q \in users["db"] : cur[q] = input[r].name => q = r

\* A Google identity has at most one account in a store, and an account without
\* a password is always reachable through its identity: two first logins that
\* race never leave an account behind that nobody can log in to.
OneAccountPerIdentity ==
    \A s \in Stores : \A q \in users[s] :
        IsGoogle(q) =>
            /\ q \in linked[s]
            /\ \A r \in linked[s] : input[r].sub = input[q].sub => r = q

\* UserCreated is published by the request that inserted the account and by no
\* other.  It is left out only when the pod goes down after the commit, or when the
\* acknowledgement of the commit is lost: then the account is there, and nobody was
\* told so but, by a conflict, whoever asks for the name again.
EventsMatchAccounts ==
    /\ \A r \in announced : store[r] = "db" => r \in users["db"]
    /\ \A r \in users["db"] : r \notin announced => pc[r] \in {"publish", "lost", "error"}

\* The refresh_tokens table has one row per user, of an existing account, and
\* whoever was told to be logged in has a row there.  (It may hold the token of
\* another login, one whose answer was lost included.)
TokensFit ==
    /\ \A q \in tokens : /\ \E a \in users["db"] : cur[a] = cur[q]
                         /\ StoredFor(q) = {q}
    /\ \A r \in Requests :
          pc[r] = "done" /\ input[r].op # "register" /\ store[r] = "db"
              => StoredFor(r) # {}

\* Every request that has begun is answered or dies with its pod; in particular
\* the search for a free username ends although other pods keep taking names.
RequestsEnd == \A r \in Requests : pc[r] \in InFlight ~> pc[r] \in Ended

\* The names that registrations ask for, and those that the search for a free name
\* may try: it has seen an account for each suffix that it has passed.
Names == {i.name : i \in {i \in Inputs : i.op = "register"}} \cup Bases \X (0..N)

\* The tables as a directory has them.
Accounts == [s \in Stores |-> {[name |-> cur[q], owner |-> q] : q \in users[s]}]
Links == [s \in Stores |-> {[sub |-> input[q].sub, name |-> cur[q]] : q \in linked[s]}]

\* The tables, and the dictionaries of each pod, are an AccountDirectory.
Directory == INSTANCE AccountDirectory WITH
    Durable <- {"db"}, Usernames <- Names, Owners <- Requests,
    accounts <- Accounts, links <- Links
RefinesDirectory == Directory!Spec
===============================================================================
