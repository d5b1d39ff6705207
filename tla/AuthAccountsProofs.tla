-------------------------- MODULE AuthAccountsProofs --------------------------
(***************************************************************************)
(* Proofs about AuthAccounts, for any number of pods, requests, inputs and *)
(* failures.                                                               *)
(***************************************************************************)
EXTENDS AuthAccounts, FiniteSetTheorems, TLAPS

(* The inductive invariant *)

\* The steps at which a request has not inserted an account yet, those at which
\* it stores a refresh token, those that a registration goes through, and those
\* of a request that has done all it was asked to.
Before  == {"check", "read", "commit", "find", "pick", "byName", "byMail"}
InToken == {"tokenRead", "tokenCommit"}
Creates == {"check", "read", "commit", "publish", "answer"}
Settled == {"answer", "done"}

\* A request that has begun has an input and a store, of which it goes through
\* the steps; a registration works on the name it was given.
Phases ==
    \A r \in Requests :
        /\ pc[r] = "idle" <=> input[r] = NoInput
        /\ pc[r] # "idle" => pod[r] \in Pods /\ store[r] \in {"db", pod[r]}
        /\ input[r].op = "register" =>
              pc[r] \in Creates \cup Ended /\ cur[r] = input[r].name
        /\ input[r].op = "login" =>
              pc[r] \in {"byName", "byMail", "answer"} \cup InToken \cup Ended
        /\ input[r].op = "google" => pc[r] # "check"
        /\ pc[r] \in {"pick", "read", "commit"} => cur[r] \in Usernames

\* A row was inserted by a request that has committed it, in its own store.
Placed ==
    \A s \in Stores : \A q \in users[s] :
        /\ store[q] = s
        /\ pc[q] \notin {"idle"} \cup Before
        /\ input[q].op # "login"

\* The row is there when the request publishes it.
Inserted == \A r \in Requests : pc[r] = "publish" => r \in users[store[r]]

\* The Google accounts are those with a row in the federated table.
LinksFit == \A s \in Stores : linked[s] = {q \in users[s] : IsGoogle(q)}

\* The primary keys of the two tables.
NamesUnique == \A s \in Stores : \A q, r \in users[s] : cur[q] = cur[r] => q = r
SubjectsUnique ==
    \A s \in Stores : \A q, r \in linked[s] : input[q].sub = input[r].sub => q = r

\* A login gets to its token with the username of an account, and only the
\* database stores tokens.
LoginsFit ==
    \A r \in Requests :
        /\ pc[r] = "tokenCommit" => store[r] = "db"
        /\ pc[r] \in InToken /\ store[r] = "db" => \E a \in users["db"] : cur[a] = cur[r]

Types == TypeOK /\ Phases

\* What was answered and announced, and what became of it in the database.
BegunBeforeAnnounced == \A r \in announced : pc[r] # "idle"
SuccessIsThere ==
    \A r \in Requests :
        pc[r] \in Settled /\ input[r].op = "register" /\ store[r] = "db"
            => r \in users["db"]
TokenIsThere ==
    \A r \in Requests :
        pc[r] \in Settled /\ input[r].op # "register" /\ store[r] = "db"
            => StoredFor(r) # {}

\* Who has stored a token has nothing left to do but to answer, if it lives to.
TokensPlaced == \A q \in tokens : pc[q] \in Settled \cup {"error", "lost"}

AccountInv == Placed /\ Inserted /\ LinksFit /\ NamesUnique /\ SubjectsUnique

HistoryInv ==
    /\ BegunBeforeAnnounced /\ EventsMatchAccounts /\ SuccessIsThere
    /\ LoginsFit /\ TokensFit /\ TokenIsThere /\ TokensPlaced

-----------------------------------------------------------------------------
(* Types and phases *)

\* What requests carry.
LEMMA InputFacts ==
    \A i \in Inputs :
        /\ i.op \in {"register", "login", "google"}
        /\ i.op = "register" => i.name \in Usernames
        /\ i.op = "google" => i.base \in Bases
        /\ i # NoInput
  BY InputAssumption DEF Registrations, Logins, GoogleLogins, NoInput

\* The initial states are typed, and no request has begun in them.
LEMMA InitTypes == Init => Types
  BY InputAssumption, InputFacts
     DEF Init, Types, TypeOK, Phases, Requests, Stores, NoInput, InFlight, Ended

\* A step of one request that is past its beginning keeps the types.
LEMMA OneGoesOn ==
    ASSUME Types, NEW r \in Requests, pc[r] # "idle", NEW n \in InFlight \cup Ended,
           Goto(r, n), UNCHANGED <<backend, accounts, request, faults>>,
           tokens' \subseteq Requests, announced' \subseteq Requests,
           seen' \in [Requests -> BOOLEAN],
           \A q \in Requests : q # r => cur'[q] = cur[q],
           cur' \in [Requests -> {NoName} \cup Usernames],
           input[r].op = "register" => n \in Creates \cup Ended /\ cur'[r] = cur[r],
           input[r].op = "login" =>
               n \in {"byName", "byMail", "answer"} \cup InToken \cup Ended,
           n # "check",
           n \in {"pick", "read", "commit"} => cur'[r] \in Usernames
    PROVE  Types'
<1>1. TypeOK'
  BY DEF Types, TypeOK, Goto, accounts, request
<1>2. \A q \in Requests : pc'[q] = IF q = r THEN n ELSE pc[q]
  BY DEF Types, TypeOK, Goto
<1>3. n # "idle"
  BY DEF InFlight, Ended
<1>4. Phases'
  BY <1>2, <1>3 DEF Types, Phases, request
<1>5. QED
  BY <1>1, <1>4 DEF Types

\* A request that has begun carries one of the inputs, and its steps tell which.
LEMMA WhoIsWhere ==
    ASSUME Types, NEW r \in Requests, pc[r] # "idle"
    PROVE  /\ input[r] \in Inputs
           /\ pc[r] = "check" => input[r].op = "register"
           /\ pc[r] \in {"find", "pick"} => input[r].op = "google"
           /\ pc[r] \in {"read", "commit", "publish"} => input[r].op # "login"
           /\ pc[r] \in {"byName", "byMail"} => input[r].op # "register"
           /\ pc[r] \in InToken => input[r].op # "register"
<1>1. input[r] \in Inputs
  BY DEF Types, TypeOK, Phases
<1>2. QED
  BY <1>1, InputFacts DEF Types, Phases, Creates, InToken, Ended

\* Every step of the system keeps types and phases.
LEMMA StepTypes == Types /\ [Next]_vars => Types'
<1> SUFFICES ASSUME Types, [Next]_vars PROVE Types'
  OBVIOUS
<1>1. ASSUME NEW p \in Pods, StartPod(p) PROVE Types'
  BY <1>1 DEF StartPod, accounts, request, Types, TypeOK, Phases
<1>2. ASSUME NEW p \in Pods, CrashPod(p) PROVE Types'
  <2>1. \A r \in Requests : \/ pc'[r] = pc[r]
                            \/ pc[r] # "idle" /\ pc'[r] = "lost"
    BY <1>2 DEF CrashPod, InFlight
  <2>2. TypeOK'
    <3>1. pc' \in [Requests -> {"idle"} \cup InFlight \cup Ended]
      BY <1>2 DEF CrashPod, Types, TypeOK, Ended
    <3>2. faults' \in 0..MaxFaults
      BY <1>2, InputAssumption DEF CrashPod, Fault, Types, TypeOK
    <3>3. /\ users' \in [Stores -> SUBSET Requests]
          /\ linked' \in [Stores -> SUBSET Requests]
          /\ backend' \in [Pods -> {"down", "db", "memory"}]
      BY <1>2 DEF CrashPod, Types, TypeOK
    <3>4. QED
      BY <1>2, <3>1, <3>2, <3>3 DEF CrashPod, request, Types, TypeOK
  <2>3. Phases'
    BY <1>2, <2>1 DEF CrashPod, request, Types, Phases, Ended
  <2>4. QED
    BY <2>2, <2>3 DEF Types
<1>3. ASSUME NEW r \in Requests, NEW p \in Pods, NEW i \in Inputs, Begin(r, p, i) PROVE Types'
  <2>1. TypeOK'
    <3>1. pc' \in [Requests -> {"idle"} \cup InFlight \cup Ended]
      BY <1>3 DEF Begin, Goto, Types, TypeOK, InFlight
    <3>2. cur' \in [Requests -> {NoName} \cup Usernames]
      BY <1>3, InputFacts DEF Begin, Types, TypeOK
    <3>3. store' \in [Requests -> {Nowhere} \cup Stores]
      BY <1>3 DEF Begin, Types, TypeOK, Stores
    <3>4. QED
      BY <1>3, <3>1, <3>2, <3>3 DEF Begin, accounts, Types, TypeOK
  <2>2. \A q \in Requests : q # r =>
           /\ pc'[q] = pc[q] /\ input'[q] = input[q] /\ pod'[q] = pod[q]
           /\ store'[q] = store[q] /\ cur'[q] = cur[q]
    BY <1>3 DEF Begin, Goto, Types, TypeOK
  <2>3. /\ input'[r] = i /\ pod'[r] = p /\ store'[r] \in {"db", p}
        /\ \/ i.op = "register" /\ pc'[r] = "check" /\ cur'[r] = i.name
           \/ i.op = "login" /\ pc'[r] = "byName"
           \/ i.op = "google" /\ pc'[r] = "find"
    BY <1>3 DEF Begin, Goto, Types, TypeOK
  <2>4. Phases'
    BY <2>2, <2>3, InputFacts DEF Types, Phases, Creates
  <2>5. QED
    BY <2>1, <2>4 DEF Types
<1>4. ASSUME NEW r \in Requests, CheckUsername(r) PROVE Types'
  <2>1. pc[r] = "check" /\ input[r].op = "register" /\ cur[r] \in Usernames
    BY <1>4, WhoIsWhere, InputFacts DEF CheckUsername, Types, Phases
  <2>2. PICK n \in {"conflict", "read"} : Goto(r, n)
    BY <1>4 DEF CheckUsername
  <2>3. QED
    BY <1>4, <2>1, <2>2, OneGoesOn
       DEF CheckUsername, Types, TypeOK, InFlight, Ended, Creates
<1>5. ASSUME NEW r \in Requests, FindFederated(r) PROVE Types'
  <2>1. pc[r] = "find" /\ input[r].op = "google" /\ input[r].base \in Bases
    BY <1>5, WhoIsWhere, InputFacts DEF FindFederated
  <2>2. store[r] \in Stores
    BY <2>1 DEF Types, Phases, Stores
  <2>3. \A q \in linked[store[r]] : cur[q] \in {NoName} \cup Usernames
    BY <2>2 DEF Types, TypeOK
  <2>4. PICK n \in {"tokenRead", "pick"}, u \in {NoName} \cup Usernames :
           /\ Goto(r, n)
           /\ cur' = [cur EXCEPT ![r] = u]
           /\ n = "pick" => u \in Usernames
    <3>1. <<input[r].base, 0>> \in Usernames
      BY <2>1 DEF Usernames
    <3>2. QED
      BY <1>5, <2>3, <3>1 DEF FindFederated
  <2>5. QED
    BY <1>5, <2>1, <2>4, OneGoesOn
       DEF FindFederated, Types, TypeOK, InFlight, Ended, Creates
<1>6. ASSUME NEW r \in Requests, PickUsername(r) PROVE Types'
  <2>1. pc[r] = "pick" /\ input[r].op = "google" /\ cur[r] \in Usernames
    BY <1>6, WhoIsWhere DEF PickUsername, Types, Phases
  <2>2. PICK n \in {"pick", "read"}, u \in Usernames :
           Goto(r, n) /\ cur' = [cur EXCEPT ![r] = u]
    <3>1. <<cur[r][1], cur[r][2] + 1>> \in Usernames
      BY <2>1 DEF Usernames
    <3>2. pc = [pc EXCEPT ![r] = "pick"] /\ cur = [cur EXCEPT ![r] = cur[r]]
      BY <2>1 DEF Types, TypeOK
    <3>3. QED
      BY <1>6, <2>1, <3>1, <3>2 DEF PickUsername, Goto
  <2>3. QED
    BY <1>6, <2>1, <2>2, OneGoesOn
       DEF PickUsername, Types, TypeOK, InFlight, Ended, Creates
<1>7. ASSUME NEW r \in Requests, CreateRead(r) PROVE Types'
  <2>1. pc[r] = "read" /\ input[r].op # "login" /\ cur[r] \in Usernames
    BY <1>7, WhoIsWhere DEF CreateRead, Types, Phases
  <2>2. PICK n \in {"error", "commit"} : Goto(r, n)
    BY <1>7 DEF CreateRead
  <2>3. QED
    BY <1>7, <2>1, <2>2, OneGoesOn
       DEF CreateRead, Types, TypeOK, InFlight, Ended, Creates
<1>8. ASSUME NEW r \in Requests, CreateCommit(r) PROVE Types'
  <2>1. pc[r] = "commit" /\ input[r].op # "login" /\ cur[r] \in Usernames
    BY <1>8, WhoIsWhere DEF CreateCommit, Types, Phases
  <2>2. PICK n \in {"error", "publish"} : Goto(r, n)
    BY <1>8 DEF CreateCommit
  <2>3. \A q \in Requests : pc'[q] = IF q = r THEN n ELSE pc[q]
    BY <2>2 DEF Goto, Types, TypeOK
  <2>4. users' \in [Stores -> SUBSET Requests] /\ linked' \in [Stores -> SUBSET Requests]
    BY <1>8 DEF CreateCommit, AddRow, accounts, Types, TypeOK
  <2>5. pc' \in [Requests -> {"idle"} \cup InFlight \cup Ended]
    BY <2>2 DEF Goto, Types, TypeOK, InFlight, Ended
  <2>6. TypeOK'
    BY <1>8, <2>4, <2>5 DEF CreateCommit, request, Types, TypeOK
  <2>7. Phases'
    BY <1>8, <2>1, <2>3 DEF CreateCommit, request, Types, Phases, Creates, Ended
  <2>8. QED
    BY <2>6, <2>7 DEF Types
<1>9. ASSUME NEW r \in Requests, Publish(r) PROVE Types'
  <2>1. pc[r] = "publish" /\ input[r].op # "login"
    BY <1>9, WhoIsWhere DEF Publish
  <2>2. PICK n \in {"tokenRead", "answer"} :
           Goto(r, n) /\ (n = "tokenRead" => input[r].op = "google")
    BY <1>9 DEF Publish, IsGoogle
  <2>3. QED
    BY <1>9, <2>1, <2>2, OneGoesOn
       DEF Publish, Types, TypeOK, InFlight, Ended, Creates
<1>10. ASSUME NEW r \in Requests, LoginByName(r) \/ LoginByMail(r) PROVE Types'
  <2>1. pc[r] \in {"byName", "byMail"} /\ input[r].op # "register"
    BY <1>10, WhoIsWhere DEF LoginByName, LoginByMail
  <2>2. store[r] \in Stores
    BY <2>1 DEF Types, Phases, Stores
  <2>3. \A q \in Rows(r) : cur[q] \in {NoName} \cup Usernames
    BY <2>2 DEF Rows, Types, TypeOK
  <2>4. cur[r] \in {NoName} \cup Usernames /\ cur = [cur EXCEPT ![r] = cur[r]]
    BY DEF Types, TypeOK
  <2>5. PICK n \in {"error", "tokenRead", "unauthorized", "byMail"},
             u \in {NoName} \cup Usernames :
           Goto(r, n) /\ cur' = [cur EXCEPT ![r] = u]
    <3>1. \A q \in Requests : Verified(r, q) \in {"error", "tokenRead", "unauthorized"}
      BY DEF Verified
    <3>2. Rows(r) \subseteq Requests
      BY <2>2 DEF Rows, Types, TypeOK
    <3>3. QED
      BY <1>10, <2>3, <2>4, <3>1, <3>2 DEF LoginByName, LoginByMail, Named
  <2>6. QED
    BY <1>10, <2>1, <2>5, OneGoesOn
       DEF LoginByName, LoginByMail, Types, TypeOK, InFlight, Ended, Creates, InToken
<1>11. ASSUME NEW r \in Requests, TokenRead(r) \/ TokenCommit(r) \/ Respond(r) PROVE Types'
  <2>1. /\ pc[r] \in InToken \cup {"answer"}
        /\ pc[r] \in InToken => input[r].op # "register"
    BY <1>11, WhoIsWhere DEF TokenRead, TokenCommit, Respond, InToken
  <2>2. PICK n \in {"tokenCommit", "answer", "done", "error"} :
           Goto(r, n) /\ (pc[r] = "answer" => n = "done")
    BY <1>11 DEF TokenRead, TokenCommit, Respond
  <2>3. tokens' \subseteq Requests /\ seen' \in [Requests -> BOOLEAN]
    BY <1>11 DEF TokenRead, TokenCommit, Respond, StoreToken, StoredFor, Types, TypeOK
  <2>4. QED
    BY <1>11, <2>1, <2>2, <2>3, OneGoesOn
       DEF TokenRead, TokenCommit, Respond, Types, TypeOK, InFlight, Ended, Creates, InToken
<1>12. ASSUME NEW r \in Requests, TransactionFails(r) PROVE Types'
  <2>1. pc[r] # "idle"
    BY <1>12 DEF TransactionFails, InFlight
  <2>2. \A q \in Requests : pc'[q] = IF q = r THEN "error" ELSE pc[q]
    BY <1>12 DEF TransactionFails, Goto, Types, TypeOK
  <2>3. TypeOK'
    BY <1>12, InputAssumption
       DEF TransactionFails, Fault, Goto, accounts, request, Types, TypeOK, Ended
  <2>4. Phases'
    BY <1>12, <2>1, <2>2 DEF TransactionFails, request, Types, Phases, Ended
  <2>5. QED
    BY <2>3, <2>4 DEF Types
<1>13. ASSUME NEW r \in Requests, CommitUnacknowledged(r) PROVE Types'
  <2>1. pc[r] # "idle"
    BY <1>13 DEF CommitUnacknowledged
  <2>2. \A q \in Requests : pc'[q] = IF q = r THEN "error" ELSE pc[q]
    BY <1>13 DEF CommitUnacknowledged, Goto, Types, TypeOK
  <2>3. users' \in [Stores -> SUBSET Requests] /\ linked' \in [Stores -> SUBSET Requests]
    BY <1>13 DEF CommitUnacknowledged, AddRow, accounts, Types, TypeOK
  <2>4. tokens' \subseteq Requests
    BY <1>13 DEF CommitUnacknowledged, StoreToken, Types, TypeOK
  <2>5. pc' \in [Requests -> {"idle"} \cup InFlight \cup Ended] /\ faults' \in 0..MaxFaults
    BY <1>13, InputAssumption DEF CommitUnacknowledged, Fault, Goto, Types, TypeOK, Ended
  <2>6. TypeOK'
    BY <1>13, <2>3, <2>4, <2>5 DEF CommitUnacknowledged, request, Types, TypeOK
  <2>7. Phases'
    BY <1>13, <2>1, <2>2 DEF CommitUnacknowledged, request, Types, Phases, Ended
  <2>8. QED
    BY <2>6, <2>7 DEF Types
<1>14. CASE UNCHANGED vars
  BY <1>14 DEF vars, Types, TypeOK, Phases
<1>15. QED
  BY <1>1, <1>2, <1>3, <1>4, <1>5, <1>6, <1>7, <1>8, <1>9, <1>10, <1>11, <1>12, <1>13, <1>14
     DEF Next, Step

-----------------------------------------------------------------------------
(* The account tables *)

\* No accounts, no requests.
LEMMA InitAccounts == Init => AccountInv
  BY DEF Init, AccountInv, Placed, Inserted, LinksFit, NamesUnique, SubjectsUnique

\* A step that leaves the tables alone, of a request that has no account or
\* does not change its name.
LEMMA TablesStay ==
    ASSUME Types, AccountInv, NEW r \in Requests,
           users' = users, linked' = linked,
           \A q \in Requests : q # r =>
               /\ pc'[q] = pc[q] /\ cur'[q] = cur[q]
               /\ input'[q] = input[q] /\ store'[q] = store[q],
           \/ \A s \in Stores : r \notin users[s]
           \/ /\ pc'[r] \notin {"idle"} \cup Before
              /\ cur'[r] = cur[r] /\ input'[r] = input[r] /\ store'[r] = store[r],
           pc'[r] # "publish"
    PROVE  AccountInv'
<1>1. \A s \in Stores : users[s] \subseteq Requests /\ linked[s] \subseteq users[s]
  BY DEF Types, TypeOK, AccountInv, LinksFit
<1>2. \A s \in Stores : \A q \in users[s] :
         /\ cur'[q] = cur[q] /\ input'[q] = input[q] /\ store'[q] = store[q]
         /\ pc'[q] \notin {"idle"} \cup Before
  BY <1>1 DEF AccountInv, Placed
<1>3. Placed' /\ LinksFit'
  BY <1>2 DEF AccountInv, Placed, LinksFit, IsGoogle
<1>4. Inserted'
  BY DEF AccountInv, Inserted
<1>5. NamesUnique' /\ SubjectsUnique'
  BY <1>1, <1>2 DEF AccountInv, NamesUnique, SubjectsUnique
<1>6. QED
  BY <1>3, <1>4, <1>5 DEF AccountInv

\* Who has not committed has no account.
LEMMA NotYetThere ==
    ASSUME Types, AccountInv, NEW r \in Requests, pc[r] \in {"idle"} \cup Before
    PROVE  \A s \in Stores : r \notin users[s]
  BY DEF AccountInv, Placed

\* A commit, acknowledged or not, adds the one row that the check of the primary
\* keys has let in.
LEMMA CommitKeepsTables ==
    ASSUME Types, AccountInv, NEW r \in Requests, pc[r] = "commit", ~Duplicate(r), AddRow(r),
           NEW n \in {"publish", "error"}, Goto(r, n), UNCHANGED <<request, cur>>
    PROVE  AccountInv'
<1>1. /\ pc[r] = "commit" /\ input[r].op # "login" /\ store[r] \in Stores
      /\ AddRow(r) /\ cur' = cur /\ input' = input /\ store' = store
  BY WhoIsWhere DEF request, Types, Phases, Stores
<1>2. \A q \in Requests : pc'[q] = IF q = r THEN n ELSE pc[q]
  BY <1>1 DEF Goto, Types, TypeOK
<1>3. \A s \in Stores : r \notin users[s]
  BY <1>1, NotYetThere DEF Before
<1>4. \A s \in Stores : \A q :
         /\ q \in users[s] => q \in Requests
         /\ q \in users'[s] <=> q \in users[s] \/ (s = store[r] /\ q = r)
         /\ q \in linked'[s] <=> q \in linked[s] \/ (s = store[r] /\ q = r /\ IsGoogle(r))
  <2>1. ASSUME NEW s \in Stores
        PROVE  /\ users[s] \subseteq Requests
               /\ users'[s] = IF s = store[r] THEN users[s] \cup {r} ELSE users[s]
               /\ linked'[s] = IF s = store[r] /\ IsGoogle(r)
                              THEN linked[s] \cup {r} ELSE linked[s]
    BY <1>1 DEF AddRow, Types, TypeOK
  <2>2. QED
    BY <2>1
<1>5. Placed'
  <2>1. ASSUME NEW s \in Stores, NEW q \in users'[s]
        PROVE  /\ store'[q] = s
               /\ pc'[q] \notin {"idle"} \cup Before
               /\ input'[q].op # "login"
    <3>1. CASE q = r
      BY <1>1, <1>2, <1>3, <1>4, <2>1, <3>1 DEF Before
    <3>2. CASE q # r
      <4>1. q \in users[s] /\ q \in Requests
        BY <1>4, <2>1, <3>2
      <4>2. QED
        BY <1>1, <1>2, <3>2, <4>1 DEF AccountInv, Placed
    <3>3. QED
      BY <3>1, <3>2
  <2>2. QED
    BY <2>1 DEF Placed
<1>6. Inserted'
  <2>1. ASSUME NEW q \in Requests, pc'[q] = "publish" PROVE q \in users'[store'[q]]
    <3>1. store[q] \in Stores
      BY <1>1, <1>2, <2>1 DEF Types, Phases, Stores
    <3>2. QED
      BY <1>1, <1>2, <1>4, <2>1, <3>1 DEF AccountInv, Inserted
  <2>2. QED
    BY <2>1 DEF Inserted
<1>7. LinksFit'
  <2>1. ASSUME NEW s \in Stores, NEW q
        PROVE  q \in linked'[s] <=> q \in users'[s] /\ IsGoogle(q)'
    <3>1. IsGoogle(q)' <=> IsGoogle(q)
      BY <1>1 DEF IsGoogle
    <3>2. q \in linked[s] <=> q \in users[s] /\ IsGoogle(q)
      BY DEF AccountInv, LinksFit
    <3>3. CASE s = store[r] /\ q = r
      BY <1>3, <1>4, <3>1, <3>2, <3>3
    <3>4. CASE ~(s = store[r] /\ q = r)
      BY <1>4, <3>1, <3>2, <3>4
    <3>5. QED
      BY <3>3, <3>4
  <2>2. QED
    BY <2>1 DEF LinksFit
<1>8. NamesUnique'
  <2>1. \A q \in users[store[r]] : cur[q] # cur[r]
    BY <1>1 DEF Duplicate, Named, Rows
  <2>2. QED
    <3>1. ASSUME NEW s \in Stores, NEW q \in users'[s], NEW t \in users'[s], cur[q] = cur[t]
          PROVE  q = t
      <4>1. q \in users[s] \/ (s = store[r] /\ q = r)
        BY <1>4, <3>1
      <4>2. t \in users[s] \/ (s = store[r] /\ t = r)
        BY <1>4, <3>1
      <4>3. QED
        BY <2>1, <3>1, <4>1, <4>2 DEF AccountInv, NamesUnique
    <3>2. QED
      BY <1>1, <3>1 DEF NamesUnique
<1>9. SubjectsUnique'
  <2>1. IsGoogle(r) => \A q \in linked[store[r]] : input[q].sub # input[r].sub
    BY <1>1 DEF Duplicate
  <2>2. QED
    <3>1. ASSUME NEW s \in Stores, NEW q \in linked'[s], NEW t \in linked'[s],
                 input[q].sub = input[t].sub
          PROVE  q = t
      <4>1. q \in linked[s] \/ (s = store[r] /\ IsGoogle(r) /\ q = r)
        BY <1>4, <3>1
      <4>2. t \in linked[s] \/ (s = store[r] /\ IsGoogle(r) /\ t = r)
        BY <1>4, <3>1
      <4>3. QED
        BY <2>1, <3>1, <4>1, <4>2 DEF AccountInv, SubjectsUnique
    <3>2. QED
      BY <1>1, <3>1 DEF SubjectsUnique
<1>10. QED
  BY <1>5, <1>6, <1>7, <1>8, <1>9 DEF AccountInv

\* Every step keeps the account tables in order.
LEMMA StepAccounts == Types /\ AccountInv /\ [Next]_vars => AccountInv'
<1> SUFFICES ASSUME Types, AccountInv, [Next]_vars PROVE AccountInv'
  OBVIOUS
<1>1. ASSUME NEW p \in Pods, StartPod(p) PROVE AccountInv'
  BY <1>1 DEF StartPod, accounts, request, AccountInv, Placed, Inserted, LinksFit,
     NamesUnique, SubjectsUnique, IsGoogle
<1>2. ASSUME NEW p \in Pods, CrashPod(p) PROVE AccountInv'
  <2>1. /\ cur' = cur /\ input' = input /\ store' = store /\ pod' = pod
        /\ \A s \in Stores : /\ users'[s] = IF s = p THEN {} ELSE users[s]
                             /\ linked'[s] = IF s = p THEN {} ELSE linked[s]
    BY <1>2 DEF CrashPod, request, Types, TypeOK
  <2>2. \A q \in Requests : \/ pc'[q] = pc[q] /\ ~(pod[q] = p /\ pc[q] \in InFlight)
                            \/ pc'[q] = "lost"
    BY <1>2 DEF CrashPod
  <2>3. \A s \in Stores : users[s] \subseteq Requests /\ linked[s] \subseteq users[s]
    BY DEF Types, TypeOK, AccountInv, LinksFit
  <2>4. Placed'
    BY <2>1, <2>2, <2>3 DEF AccountInv, Placed, Before
  <2>5. Inserted'
    <3>1. ASSUME NEW q \in Requests, pc'[q] = "publish" PROVE q \in users'[store'[q]]
      <4>1. pc[q] = "publish" /\ pod[q] # p
        BY <2>2, <3>1 DEF InFlight
      <4>2. store[q] \in {"db", pod[q]} /\ store[q] \in Stores /\ store[q] # p
        BY <4>1, InputAssumption DEF Types, Phases, Stores
      <4>3. QED
        BY <2>1, <4>1, <4>2 DEF AccountInv, Inserted
    <3>2. QED
      BY <3>1 DEF Inserted
  <2>6. LinksFit' /\ NamesUnique' /\ SubjectsUnique'
    BY <2>1 DEF AccountInv, LinksFit, NamesUnique, SubjectsUnique, IsGoogle
  <2>7. QED
    BY <2>4, <2>5, <2>6 DEF AccountInv
<1>3. ASSUME NEW r \in Requests, NEW p \in Pods, NEW i \in Inputs, Begin(r, p, i) PROVE AccountInv'
  <2>1. \A s \in Stores : r \notin users[s]
    BY <1>3, NotYetThere DEF Begin
  <2>2. \A q \in Requests : q # r =>
           /\ pc'[q] = pc[q] /\ cur'[q] = cur[q]
           /\ input'[q] = input[q] /\ store'[q] = store[q]
    BY <1>3 DEF Begin, Goto, Types, TypeOK
  <2>3. pc'[r] # "publish"
    BY <1>3 DEF Begin, Goto, Types, TypeOK
  <2>4. QED
    BY <1>3, <2>1, <2>2, <2>3, TablesStay DEF Begin, accounts
<1>4. ASSUME NEW r \in Requests,
             \/ CheckUsername(r) \/ FindFederated(r) \/ PickUsername(r) \/ CreateRead(r)
             \/ LoginByName(r) \/ LoginByMail(r)
      PROVE  AccountInv'
  <2>1. \A s \in Stores : r \notin users[s]
    <3>1. pc[r] \in Before
      BY <1>4 DEF CheckUsername, FindFederated, PickUsername, CreateRead, LoginByName,
         LoginByMail, Before
    <3>2. QED
      BY <3>1, NotYetThere
  <2>2. \A q \in Requests : q # r => pc'[q] = pc[q] /\ cur'[q] = cur[q]
    BY <1>4 DEF CheckUsername, FindFederated, PickUsername, CreateRead, LoginByName,
       LoginByMail, Goto, Types, TypeOK
  <2>3. pc'[r] # "publish"
    BY <1>4 DEF CheckUsername, FindFederated, PickUsername, CreateRead, LoginByName,
       LoginByMail, Verified, Goto, Types, TypeOK
  <2>4. users' = users /\ linked' = linked /\ input' = input /\ store' = store
    BY <1>4 DEF CheckUsername, FindFederated, PickUsername, CreateRead, LoginByName,
       LoginByMail, accounts, request
  <2>5. QED
    BY <2>1, <2>2, <2>3, <2>4, TablesStay
<1>5. ASSUME NEW r \in Requests,
             \/ Publish(r) \/ TokenRead(r) \/ TokenCommit(r) \/ Respond(r)
             \/ TransactionFails(r)
             \/ CommitUnacknowledged(r) /\ UNCHANGED accounts
      PROVE  AccountInv'
  <2>1. pc'[r] \in InToken \cup {"answer", "done", "error"}
    BY <1>5 DEF Publish, TokenRead, TokenCommit, Respond, TransactionFails,
       CommitUnacknowledged, Goto, Types, TypeOK, InToken
  <2>2. \A q \in Requests : q # r => pc'[q] = pc[q]
    BY <1>5 DEF Publish, TokenRead, TokenCommit, Respond, TransactionFails,
       CommitUnacknowledged, Goto, Types, TypeOK
  <2>3. users' = users /\ linked' = linked /\ input' = input /\ store' = store /\ cur' = cur
    BY <1>5 DEF Publish, TokenRead, TokenCommit, Respond, TransactionFails,
       CommitUnacknowledged, accounts, request
  <2>4. pc'[r] \notin {"idle", "publish"} \cup Before
    BY <2>1 DEF InToken, Before
  <2>5. QED
    BY <2>2, <2>3, <2>4, TablesStay
<1>6. ASSUME NEW r \in Requests, CreateCommit(r) PROVE AccountInv'
  <2>1. CASE ~Duplicate(r)
    BY <1>6, <2>1, CommitKeepsTables DEF CreateCommit
  <2>2. CASE Duplicate(r)
    <3>1. \A s \in Stores : r \notin users[s]
      BY <1>6, NotYetThere DEF CreateCommit, Before
    <3>2. /\ users' = users /\ linked' = linked /\ input' = input /\ store' = store
          /\ cur' = cur /\ \A q \in Requests : pc'[q] = IF q = r THEN "error" ELSE pc[q]
      BY <1>6, <2>2 DEF CreateCommit, accounts, request, Goto, Types, TypeOK
    <3>3. QED
      BY <3>1, <3>2, TablesStay
  <2>3. QED
    BY <2>1, <2>2
<1>7. ASSUME NEW r \in Requests, CommitUnacknowledged(r) PROVE AccountInv'
  BY <1>5, <1>7, CommitKeepsTables DEF CommitUnacknowledged
<1>8. CASE UNCHANGED vars
  BY <1>8 DEF vars, accounts, request, AccountInv, Placed, Inserted, LinksFit, NamesUnique,
     SubjectsUnique, IsGoogle
<1>9. QED
  BY <1>1, <1>2, <1>3, <1>4, <1>5, <1>6, <1>7, <1>8 DEF Next, Step

-----------------------------------------------------------------------------
(* What was answered, announced and stored *)

\* Nothing has been answered, announced or stored.
LEMMA InitHistory == Init => HistoryInv
  BY DEF Init, HistoryInv, BegunBeforeAnnounced, EventsMatchAccounts, SuccessIsThere,
     LoginsFit, TokensFit, TokenIsThere, TokensPlaced, InToken, Settled, Stores

\* A store keeps its accounts and their names, unless its pod goes down.
LEMMA StoreKeeps ==
    ASSUME Types, AccountInv, [Next]_vars, NEW s \in Stores, s \in Pods => ~CrashPod(s),
           NEW q \in users[s]
    PROVE  q \in users'[s] /\ cur'[q] = cur[q] /\ input'[q] = input[q] /\ q \in Requests
<1> DEFINE Kept == q \in users'[s] /\ cur'[q] = cur[q] /\ input'[q] = input[q]
<1>1. q \in Requests /\ pc[q] \notin {"idle"} \cup Before
  BY DEF Types, TypeOK, AccountInv, Placed
<1>2. ASSUME NEW p \in Pods, StartPod(p) \/ CrashPod(p) PROVE Kept
  BY <1>1, <1>2 DEF StartPod, CrashPod, accounts, request, Types, TypeOK
<1>3. ASSUME NEW r \in Requests, NEW p \in Pods, NEW i \in Inputs, Begin(r, p, i)
      PROVE  Kept
  BY <1>1, <1>3 DEF Begin, accounts, Types, TypeOK
<1>4. ASSUME NEW r \in Requests,
             \/ CheckUsername(r) \/ FindFederated(r) \/ PickUsername(r) \/ CreateRead(r)
             \/ LoginByName(r) \/ LoginByMail(r)
      PROVE  Kept
  BY <1>1, <1>4 DEF CheckUsername, FindFederated, PickUsername, CreateRead, LoginByName,
     LoginByMail, accounts, request, Before, Types, TypeOK
<1>5. ASSUME NEW r \in Requests,
             \/ Publish(r) \/ TokenRead(r) \/ TokenCommit(r) \/ Respond(r)
             \/ TransactionFails(r) \/ CreateCommit(r) \/ CommitUnacknowledged(r)
      PROVE  Kept
  BY <1>1, <1>5 DEF Publish, TokenRead, TokenCommit, Respond, TransactionFails, CreateCommit,
     CommitUnacknowledged, AddRow, accounts, request, Types, TypeOK
<1>6. CASE UNCHANGED vars
  <2>1. users' = users /\ cur' = cur /\ input' = input
    BY <1>6 DEF vars
  <2>2. QED
    BY <1>1, <2>1
<1>7. QED
  BY <1>1, <1>2, <1>3, <1>4, <1>5, <1>6 DEF Next, Step

\* The database keeps its accounts and their names.
LEMMA DatabaseKeeps ==
    ASSUME Types, AccountInv, [Next]_vars, NEW q \in users["db"]
    PROVE  q \in users'["db"] /\ cur'[q] = cur[q] /\ q \in Requests
<1>1. "db" \in Stores /\ "db" \notin Pods
  BY InputAssumption DEF Stores
<1>2. QED
  BY <1>1, StoreKeeps

\* A step that stores no token and announces nothing, of one request that has not
\* stored a token either; if it has an account, it has announced that.
LEMMA HistoryStays ==
    ASSUME Types, AccountInv, HistoryInv, [Next]_vars, NEW r \in Requests,
           tokens' = tokens, announced' = announced, users'["db"] = users["db"],
           \A q \in Requests : q # r =>
               /\ pc'[q] = pc[q] /\ cur'[q] = cur[q]
               /\ input'[q] = input[q] /\ store'[q] = store[q],
           pc'[r] # "idle", pc[r] \notin Settled \cup {"error", "lost"},
           r \in announced => store'[r] = store[r],
           r \in users["db"] => pc[r] # "publish",
           pc'[r] \in Settled => store'[r] # "db",
           pc'[r] = "tokenCommit" => store'[r] = "db",
           pc'[r] \in InToken /\ store'[r] = "db" => \E a \in users["db"] : cur[a] = cur'[r]
    PROVE  HistoryInv'
<1>1. \A a \in users["db"] : cur'[a] = cur[a] /\ a \in Requests
  BY DatabaseKeeps
<1>2. tokens \subseteq Requests /\ announced \subseteq Requests
  BY DEF Types, TypeOK
<1>3. \A q \in tokens : q # r
  BY DEF HistoryInv, TokensPlaced
<1>4. BegunBeforeAnnounced'
  BY <1>2 DEF HistoryInv, BegunBeforeAnnounced
<1>5. EventsMatchAccounts'
  <2>1. ASSUME NEW q \in announced, store'[q] = "db" PROVE q \in users["db"]
    BY <1>2, <2>1 DEF HistoryInv, EventsMatchAccounts
  <2>2. ASSUME NEW q \in users["db"], q \notin announced
        PROVE  pc'[q] \in {"publish", "lost", "error"}
    BY <1>1, <2>2 DEF HistoryInv, EventsMatchAccounts
  <2>3. QED
    BY <2>1, <2>2 DEF EventsMatchAccounts
<1>6. SuccessIsThere'
  BY DEF HistoryInv, SuccessIsThere
<1>7. LoginsFit'
  BY <1>1 DEF HistoryInv, LoginsFit
<1>8. \A q \in Requests : q # r => StoredFor(q)' = StoredFor(q)
  BY <1>2, <1>3 DEF StoredFor
<1>9. TokenIsThere'
  BY <1>8 DEF HistoryInv, TokenIsThere
<1>10. TokensFit'
  BY <1>1, <1>2, <1>3, <1>8, <1>9 DEF HistoryInv, TokensFit, TokenIsThere, Settled
<1>11. TokensPlaced'
  BY <1>2, <1>3 DEF HistoryInv, TokensPlaced
<1>12. QED
  BY <1>4, <1>5, <1>6, <1>7, <1>9, <1>10, <1>11 DEF HistoryInv

\* The token that a login stores becomes the only one of its user.
LEMMA TokenStored ==
    ASSUME Types, AccountInv, HistoryInv, [Next]_vars, NEW r \in Requests,
           pc[r] = "tokenCommit", StoreToken(r), NEW n \in {"answer", "error"}, Goto(r, n),
           UNCHANGED <<accounts, announced, request, cur>>
    PROVE  HistoryInv'
<1>1. /\ users' = users /\ announced' = announced /\ input' = input /\ store' = store
      /\ cur' = cur /\ pc[r] = "tokenCommit" /\ tokens' = (tokens \ StoredFor(r)) \cup {r}
      /\ \A q \in Requests : pc'[q] = IF q = r THEN n ELSE pc[q]
  BY DEF StoreToken, accounts, request, Goto, Types, TypeOK
<1>2. /\ tokens \subseteq Requests /\ announced \subseteq Requests
      /\ users["db"] \subseteq Requests
  BY DEF Types, TypeOK, Stores
<1>3. input[r].op # "register"
  BY <1>1, WhoIsWhere DEF InToken
<1>4. store[r] = "db" /\ \E a \in users["db"] : cur[a] = cur[r]
  BY <1>1 DEF HistoryInv, LoginsFit, InToken
<1>5. BegunBeforeAnnounced'
  BY <1>1, <1>2 DEF HistoryInv, BegunBeforeAnnounced
<1>6. EventsMatchAccounts'
  <2>1. r \in users["db"] => r \in announced
    BY DEF HistoryInv, EventsMatchAccounts
  <2>2. QED
    BY <1>1, <1>2, <2>1 DEF HistoryInv, EventsMatchAccounts
<1>7. SuccessIsThere'
  BY <1>1, <1>3 DEF HistoryInv, SuccessIsThere
<1>8. LoginsFit'
  BY <1>1 DEF HistoryInv, LoginsFit, InToken
<1>9. \A q : q \in tokens' <=> q = r \/ (q \in tokens /\ cur[q] # cur[r])
  BY <1>1, <1>2 DEF StoredFor
<1>10. TokensPlaced'
  BY <1>1, <1>2, <1>9 DEF HistoryInv, TokensPlaced, Settled
<1>11. TokenIsThere'
  <2>1. ASSUME NEW q \in Requests, pc'[q] \in Settled, input'[q].op # "register",
               store'[q] = "db"
        PROVE  StoredFor(q)' # {}
    <3>1. CASE cur[q] = cur[r]
      BY <1>1, <1>9, <3>1 DEF StoredFor
    <3>2. CASE cur[q] # cur[r]
      <4>1. StoredFor(q) # {}
        BY <1>1, <2>1, <3>2 DEF HistoryInv, TokenIsThere
      <4>2. PICK t \in tokens : cur[t] = cur[q]
        BY <4>1 DEF StoredFor
      <4>3. t \in tokens'
        BY <1>9, <3>2, <4>2
      <4>4. QED
        BY <1>1, <4>2, <4>3 DEF StoredFor
    <3>3. QED
      BY <3>1, <3>2
  <2>2. QED
    BY <2>1 DEF TokenIsThere
<1>12. TokensFit'
  <2>1. ASSUME NEW q \in tokens'
        PROVE  /\ \E a \in users'["db"] : cur'[a] = cur'[q]
               /\ StoredFor(q)' = {q}
    <3>1. \E a \in users'["db"] : cur'[a] = cur'[q]
      BY <1>1, <1>4, <1>9, <2>1 DEF HistoryInv, TokensFit
    <3>2. ASSUME NEW t \in tokens', cur[t] = cur[q] PROVE t = q
      <4>1. CASE q = r
        BY <1>9, <3>2, <4>1
      <4>2. CASE q # r
        <5>1. q \in tokens /\ t \in tokens
          BY <1>9, <2>1, <3>2, <4>2
        <5>2. StoredFor(q) = {q}
          BY <5>1 DEF HistoryInv, TokensFit
        <5>3. QED
          BY <3>2, <5>1, <5>2 DEF StoredFor
      <4>3. QED
        BY <4>1, <4>2
    <3>3. StoredFor(q)' = {q}
      BY <1>1, <2>1, <3>2 DEF StoredFor
    <3>4. QED
      BY <3>1, <3>3
  <2>2. QED
    BY <1>11, <2>1 DEF TokensFit, TokenIsThere, Settled
<1>13. QED
  BY <1>5, <1>6, <1>7, <1>8, <1>10, <1>11, <1>12 DEF HistoryInv

\* Every step keeps what was answered, announced and stored in order.
LEMMA StepHistory == Types /\ AccountInv /\ HistoryInv /\ [Next]_vars => HistoryInv'
<1> SUFFICES ASSUME Types, AccountInv, HistoryInv, [Next]_vars PROVE HistoryInv'
  OBVIOUS
<1>0. /\ tokens \subseteq Requests /\ announced \subseteq Requests
      /\ "db" \in Stores /\ "db" \notin Pods
      /\ \A q \in users["db"] : q \in Requests /\ q \in users'["db"] /\ cur'[q] = cur[q]
  BY InputAssumption, DatabaseKeeps DEF Types, TypeOK, Stores
<1>1. ASSUME NEW p \in Pods, StartPod(p) \/ CrashPod(p) PROVE HistoryInv'
  <2>1. /\ users'["db"] = users["db"] /\ tokens' = tokens /\ announced' = announced
        /\ input' = input /\ store' = store /\ cur' = cur
    BY <1>0, <1>1 DEF StartPod, CrashPod, accounts, request, Types, TypeOK
  <2>2. \A q \in Requests : \/ pc'[q] = pc[q]
                            \/ pc[q] \in InFlight /\ pc'[q] = "lost"
    BY <1>1 DEF StartPod, CrashPod
  <2>3. \A q \in Requests : StoredFor(q)' = StoredFor(q)
    BY <2>1 DEF StoredFor
  <2>4. BegunBeforeAnnounced' /\ SuccessIsThere' /\ LoginsFit'
    BY <1>0, <2>1, <2>2 DEF HistoryInv, BegunBeforeAnnounced, SuccessIsThere, LoginsFit,
       InToken, Settled
  <2>5. EventsMatchAccounts'
    BY <1>0, <2>1, <2>2 DEF HistoryInv, EventsMatchAccounts
  <2>6. TokenIsThere' /\ TokensPlaced'
    BY <1>0, <2>1, <2>2, <2>3 DEF HistoryInv, TokenIsThere, TokensPlaced, Settled
  <2>7. TokensFit'
    BY <1>0, <2>1, <2>3, <2>6 DEF HistoryInv, TokensFit, TokenIsThere, Settled
  <2>8. QED
    BY <2>4, <2>5, <2>6, <2>7 DEF HistoryInv
<1>2. ASSUME NEW r \in Requests, NEW p \in Pods, NEW i \in Inputs, Begin(r, p, i) PROVE HistoryInv'
  <2>1. pc[r] = "idle" /\ r \notin announced /\ r \notin users["db"]
    BY <1>0, <1>2, NotYetThere DEF Begin, HistoryInv, BegunBeforeAnnounced
  <2>2. \A q \in Requests : q # r =>
           /\ pc'[q] = pc[q] /\ cur'[q] = cur[q]
           /\ input'[q] = input[q] /\ store'[q] = store[q]
    BY <1>2 DEF Begin, Goto, Types, TypeOK
  <2>3. pc'[r] \in {"check", "byName", "find"}
    BY <1>2 DEF Begin, Goto, Types, TypeOK
  <2>4. tokens' = tokens /\ announced' = announced /\ users'["db"] = users["db"]
    BY <1>2 DEF Begin, accounts
  <2>5. QED
    BY <2>1, <2>2, <2>3, <2>4, HistoryStays DEF InToken, Settled
<1>3. ASSUME NEW r \in Requests,
             \/ CheckUsername(r) \/ FindFederated(r) \/ PickUsername(r) \/ CreateRead(r)
             \/ LoginByName(r) \/ LoginByMail(r)
      PROVE  HistoryInv'
  <2>1. pc[r] \in Before
    BY <1>3 DEF CheckUsername, FindFederated, PickUsername, CreateRead, LoginByName,
       LoginByMail, Before
  <2>2. r \notin users["db"]
    BY <1>0, <2>1, NotYetThere
  <2>3. \A q \in Requests : q # r => pc'[q] = pc[q] /\ cur'[q] = cur[q]
    BY <1>3 DEF CheckUsername, FindFederated, PickUsername, CreateRead, LoginByName,
       LoginByMail, Goto, Types, TypeOK
  <2>4. /\ users' = users /\ linked' = linked /\ input' = input /\ store' = store
        /\ tokens' = tokens /\ announced' = announced
    BY <1>3 DEF CheckUsername, FindFederated, PickUsername, CreateRead, LoginByName,
       LoginByMail, accounts, request
  <2>5. /\ pc'[r] \notin {"idle", "tokenCommit"} \cup Settled
        /\ pc'[r] \in InToken => \E a \in users[store[r]] : cur'[r] = cur[a]
    <3>1. CASE FindFederated(r)
      <4>1. store[r] \in Stores
        BY <2>1 DEF Types, Phases, Stores, Before
      <4>2. linked[store[r]] \subseteq users[store[r]]
        BY <4>1 DEF AccountInv, LinksFit
      <4>3. QED
        BY <3>1, <4>2 DEF FindFederated, Goto, Types, TypeOK, InToken, Settled
    <3>2. CASE LoginByName(r) \/ LoginByMail(r)
      BY <3>2 DEF LoginByName, LoginByMail, Named, Rows, Verified, Goto, Types, TypeOK, InToken,
         Settled
    <3>3. CASE CheckUsername(r) \/ PickUsername(r) \/ CreateRead(r)
      BY <3>3 DEF CheckUsername, PickUsername, CreateRead, Goto, Types, TypeOK, InToken, Settled
    <3>4. QED
      BY <1>3, <3>1, <3>2, <3>3
  <2>6. pc[r] \notin Settled \cup {"error", "lost"}
    BY <2>1 DEF Before, Settled
  <2>7. QED
    BY <2>2, <2>3, <2>4, <2>5, <2>6, HistoryStays
<1>4. ASSUME NEW r \in Requests,
             CreateCommit(r) \/ (CommitUnacknowledged(r) /\ pc[r] = "commit")
      PROVE  HistoryInv'
  <2>1. /\ pc[r] = "commit" /\ input' = input /\ store' = store /\ cur' = cur
        /\ tokens' = tokens /\ announced' = announced
        /\ \A q \in Requests : q # r => pc'[q] = pc[q]
        /\ pc'[r] \in {"error", "publish"}
    BY <1>4 DEF CreateCommit, CommitUnacknowledged, request, Goto, Types, TypeOK
  <2>2. r \notin users["db"]
    BY <1>0, <2>1, NotYetThere DEF Before
  <2>3. \A q : q \in users'["db"] => q \in users["db"] \/ q = r
    BY <1>0, <1>4 DEF CreateCommit, CommitUnacknowledged, AddRow, accounts, Types, TypeOK
  <2>4. \A q \in tokens : q # r
    BY <2>1 DEF HistoryInv, TokensPlaced, Settled
  <2>5. \A q \in Requests : StoredFor(q)' = StoredFor(q)
    BY <2>1 DEF StoredFor
  <2>6. BegunBeforeAnnounced' /\ SuccessIsThere' /\ LoginsFit'
    BY <1>0, <2>1 DEF HistoryInv, BegunBeforeAnnounced, SuccessIsThere, LoginsFit, InToken,
       Settled
  <2>7. EventsMatchAccounts'
    BY <1>0, <2>1, <2>3 DEF HistoryInv, EventsMatchAccounts
  <2>8. TokenIsThere' /\ TokensPlaced'
    BY <1>0, <2>1, <2>4, <2>5 DEF HistoryInv, TokenIsThere, TokensPlaced, Settled
  <2>9. TokensFit'
    BY <1>0, <2>1, <2>5, <2>8 DEF HistoryInv, TokensFit, TokenIsThere, Settled
  <2>10. QED
    BY <2>6, <2>7, <2>8, <2>9 DEF HistoryInv
<1>5. ASSUME NEW r \in Requests, Publish(r) PROVE HistoryInv'
  <2>1. /\ pc[r] = "publish" /\ input' = input /\ store' = store /\ cur' = cur
        /\ users' = users /\ tokens' = tokens /\ announced' = announced \cup {r}
        /\ \A q \in Requests : q # r => pc'[q] = pc[q]
        /\ pc'[r] = IF IsGoogle(r) THEN "tokenRead" ELSE "answer"
    BY <1>5 DEF Publish, accounts, request, Goto, Types, TypeOK
  <2>2. r \in users[store[r]] /\ input[r].op \in {"register", "google"}
    BY <2>1, WhoIsWhere, InputFacts DEF AccountInv, Inserted
  <2>3. \A q \in tokens : q # r
    BY <2>1 DEF HistoryInv, TokensPlaced, Settled
  <2>4. \A q \in Requests : StoredFor(q)' = StoredFor(q)
    BY <2>1 DEF StoredFor
  <2>5. BegunBeforeAnnounced' /\ SuccessIsThere'
    BY <1>0, <2>1, <2>2 DEF HistoryInv, BegunBeforeAnnounced, SuccessIsThere
  <2>6. LoginsFit'
    BY <1>0, <2>1, <2>2 DEF HistoryInv, LoginsFit, InToken
  <2>7. EventsMatchAccounts'
    BY <1>0, <2>1, <2>2 DEF HistoryInv, EventsMatchAccounts
  <2>8. TokenIsThere' /\ TokensPlaced'
    <3>1. pc'[r] \in Settled => input[r].op = "register"
      BY <2>1, <2>2 DEF IsGoogle, Settled
    <3>2. QED
      BY <1>0, <2>1, <2>3, <2>4, <3>1 DEF HistoryInv, TokenIsThere, TokensPlaced
  <2>9. TokensFit'
    BY <1>0, <2>1, <2>4, <2>8 DEF HistoryInv, TokensFit, TokenIsThere, Settled
  <2>10. QED
    BY <2>5, <2>6, <2>7, <2>8, <2>9 DEF HistoryInv
<1>6. ASSUME NEW r \in Requests, TokenRead(r) \/ TransactionFails(r) PROVE HistoryInv'
  <2>1. /\ input' = input /\ store' = store /\ cur' = cur /\ users' = users
        /\ tokens' = tokens /\ announced' = announced
        /\ \A q \in Requests : q # r => pc'[q] = pc[q]
    BY <1>6 DEF TokenRead, TransactionFails, accounts, request, Goto, Types, TypeOK
  <2>2. pc[r] \notin {"error", "lost", "publish"} \cup Settled
    BY <1>6 DEF TokenRead, TransactionFails, InFlight, Settled
  <2>3. \/ pc'[r] = "tokenCommit" /\ pc[r] = "tokenRead" /\ store[r] = "db"
        \/ pc'[r] = "answer" /\ store[r] # "db"
        \/ pc'[r] = "error"
    BY <1>6 DEF TokenRead, TransactionFails, Goto, Types, TypeOK
  <2>4. pc'[r] \in InToken /\ store'[r] = "db" => \E a \in users["db"] : cur[a] = cur'[r]
    BY <2>1, <2>3 DEF HistoryInv, LoginsFit, InToken
  <2>5. QED
    <3>1. pc'[r] # "idle" /\ (pc'[r] \in Settled => store'[r] # "db")
      BY <2>1, <2>3 DEF Settled
    <3>2. QED
      BY <2>1, <2>2, <2>3, <2>4, <3>1, HistoryStays
<1>7. ASSUME NEW r \in Requests, TokenCommit(r) PROVE HistoryInv'
  <2>1. CASE ~TokenTaken(r)
    BY <1>7, <2>1, TokenStored DEF TokenCommit
  <2>2. CASE TokenTaken(r)
    <3>1. /\ input' = input /\ store' = store /\ cur' = cur /\ users' = users
          /\ tokens' = tokens /\ announced' = announced /\ pc[r] = "tokenCommit"
          /\ \A q \in Requests : pc'[q] = IF q = r THEN "error" ELSE pc[q]
      BY <1>7, <2>2 DEF TokenCommit, accounts, request, Goto, Types, TypeOK
    <3>2. QED
      BY <3>1, HistoryStays DEF InToken, Settled
  <2>3. QED
    BY <2>1, <2>2
<1>8. ASSUME NEW r \in Requests, CommitUnacknowledged(r) PROVE HistoryInv'
  <2>1. CASE pc[r] = "commit"
    BY <1>4, <1>8, <2>1
  <2>2. CASE pc[r] = "tokenCommit"
    BY <1>8, <2>2, TokenStored DEF CommitUnacknowledged
  <2>3. QED
    BY <1>8, <2>1, <2>2 DEF CommitUnacknowledged
<1>9. ASSUME NEW r \in Requests, Respond(r) PROVE HistoryInv'
  <2>1. /\ users' = users /\ tokens' = tokens /\ announced' = announced
        /\ input' = input /\ store' = store /\ cur' = cur /\ pc[r] = "answer"
        /\ \A q \in Requests : pc'[q] = IF q = r THEN "done" ELSE pc[q]
    BY <1>9 DEF Respond, accounts, request, Goto, Types, TypeOK
  <2>2. \A q \in Requests : StoredFor(q)' = StoredFor(q)
    BY <2>1 DEF StoredFor
  <2>3. BegunBeforeAnnounced' /\ SuccessIsThere' /\ LoginsFit'
    BY <1>0, <2>1 DEF HistoryInv, BegunBeforeAnnounced, SuccessIsThere, LoginsFit, InToken,
       Settled
  <2>4. EventsMatchAccounts'
    BY <1>0, <2>1 DEF HistoryInv, EventsMatchAccounts
  <2>5. TokenIsThere' /\ TokensPlaced'
    BY <1>0, <2>1, <2>2 DEF HistoryInv, TokenIsThere, TokensPlaced, Settled
  <2>6. TokensFit'
    BY <1>0, <2>1, <2>2, <2>5 DEF HistoryInv, TokensFit, TokenIsThere, Settled
  <2>7. QED
    BY <2>3, <2>4, <2>5, <2>6 DEF HistoryInv
<1>10. CASE UNCHANGED vars
  <2>1. \A q \in Requests : StoredFor(q)' = StoredFor(q)
    BY <1>10 DEF vars, StoredFor
  <2>2. QED
    BY <1>0, <1>10, <2>1 DEF vars, HistoryInv, BegunBeforeAnnounced, EventsMatchAccounts,
       SuccessIsThere, LoginsFit, TokensFit, TokenIsThere, TokensPlaced
<1>11. QED
  BY <1>1, <1>2, <1>3, <1>4, <1>5, <1>6, <1>7, <1>8, <1>9, <1>10 DEF Next, Step

-----------------------------------------------------------------------------
(* The search for a free username *)

\* What a Google login that creates an account has passed on its way to the name
\* in hand: an account for each smaller suffix, which is still there.
Passed(r, b, k) == /\ cur[r] = <<b, k>>
                   /\ \A j \in 0..(k - 1) : Named(r, <<b, j>>) # {}

SuffixesTaken ==
    \A r \in Requests :
        pc[r] \in {"pick", "read", "commit"} /\ IsGoogle(r) =>
            \E b \in Bases, k \in Nat : Passed(r, b, k)

\* There are no more suffixes taken than accounts.
LEMMA SuffixBound ==
    ASSUME Types, NEW r \in Requests, pc[r] # "idle", NEW b \in Bases, NEW k \in Nat,
           \A j \in 0..(k - 1) : Named(r, <<b, j>>) # {}
    PROVE  k <= N
<1> DEFINE f == [j \in 0..(k - 1) |-> CHOOSE q \in Named(r, <<b, j>>) : TRUE]
<1>1. Rows(r) \subseteq 1..N
  BY DEF Rows, Types, TypeOK, Phases, Stores, Requests
<1>2. \A j \in 0..(k - 1) : f[j] \in 1..N /\ cur[f[j]] = <<b, j>>
  BY <1>1 DEF Named
<1>3. f \in Injection(0..(k - 1), 1..N)
  <2>1. f \in [0..(k - 1) -> 1..N]
    BY <1>2
  <2>2. \A i, j \in 0..(k - 1) : f[i] = f[j] => i = j
    <3> HIDE DEF f
    <3> QED
      BY <1>2
  <2> HIDE DEF f
  <2> QED
    BY <2>1, <2>2 DEF Injection, IsInjective
<1> HIDE DEF f
<1>4. IsFiniteSet(1..N) /\ Cardinality(1..N) = N /\ Cardinality(0..(k - 1)) = k
  <2>1. N \in Nat /\ k \in Nat
    BY InputAssumption
  <2>2. IsFiniteSet(1..N) /\ Cardinality(1..N) = N
    <3>1. 1 \in Int /\ N \in Int /\ (1 > N => N = 0)
      BY <2>1
    <3>2. IsFiniteSet(1..N) /\ Cardinality(1..N) = IF 1 > N THEN 0 ELSE N - 1 + 1
      BY <3>1, FS_Interval
    <3> QED
      BY <2>1, <3>2
  <2>3. Cardinality(0..(k - 1)) = k
    <3>1. 0 \in Int /\ k - 1 \in Int /\ (0 > k - 1 => k = 0)
      BY <2>1
    <3>2. Cardinality(0..(k - 1)) = IF 0 > k - 1 THEN 0 ELSE (k - 1) - 0 + 1
      BY <3>1, FS_Interval
    <3> QED
      BY <2>1, <3>2
  <2> QED
    BY <2>2, <2>3
<1> QED
  BY <1>3, <1>4, FS_Injection

\* A step leaves what a request under way has passed in place.
LEMMA PassedStays ==
    ASSUME Types, AccountInv, [Next]_vars, NEW r \in Requests, NEW b, NEW k,
           Passed(r, b, k), pc[r] # "idle", pc'[r] \in InFlight,
           cur'[r] = cur[r], store'[r] = store[r]
    PROVE  Passed(r, b, k)'
<1>1. store[r] \in Stores /\ (store[r] \in Pods => pod[r] = store[r])
  BY InputAssumption DEF Types, Phases, Stores
<1>2. store[r] \in Pods => ~CrashPod(store[r])
  <2> SUFFICES ASSUME store[r] \in Pods, CrashPod(store[r]) PROVE FALSE
    OBVIOUS
  <2>1. pc'[r] = IF pc[r] \in InFlight THEN "lost" ELSE pc[r]
    BY <1>1 DEF CrashPod
  <2> QED
    BY <2>1 DEF InFlight
<1>3. \A q \in Rows(r) : q \in Rows(r)' /\ cur'[q] = cur[q]
  BY <1>1, <1>2, StoreKeeps DEF Rows
<1>4. ASSUME NEW j, Named(r, <<b, j>>) # {} PROVE Named(r, <<b, j>>)' # {}
  <2>1. PICK q \in Rows(r) : cur[q] = <<b, j>>
    BY <1>4 DEF Named
  <2> QED
    BY <1>3, <2>1 DEF Named
<1> QED
  BY <1>4 DEF Passed

\* How a request comes to be creating a Google account.
LEMMA WhoCreates ==
    ASSUME Types, [Next]_vars, NEW r \in Requests,
           pc'[r] \in {"pick", "read", "commit"}, IsGoogle(r)'
    PROVE  /\ pc[r] # "idle" /\ IsGoogle(r) /\ store'[r] = store[r]
           /\ \/ pc[r] \in {"pick", "read", "commit"} /\ cur'[r] = cur[r]
              \/ FindFederated(r) /\ pc[r] = "find" /\ cur'[r] = <<input[r].base, 0>>
              \/ /\ pc[r] = "pick" /\ cur'[r] = <<cur[r][1], cur[r][2] + 1>>
                 /\ Named(r, cur[r]) # {}
<1> DEFINE Way == /\ pc[r] # "idle" /\ IsGoogle(r) /\ store'[r] = store[r]
                  /\ \/ pc[r] \in {"pick", "read", "commit"} /\ cur'[r] = cur[r]
                     \/ FindFederated(r) /\ pc[r] = "find" /\ cur'[r] = <<input[r].base, 0>>
                     \/ /\ pc[r] = "pick" /\ cur'[r] = <<cur[r][1], cur[r][2] + 1>>
                        /\ Named(r, cur[r]) # {}
<1>1. CASE UNCHANGED vars
  BY <1>1 DEF vars, IsGoogle
<1>2. ASSUME NEW p \in Pods, StartPod(p) \/ CrashPod(p) PROVE Way
  BY <1>2 DEF StartPod, CrashPod, request, IsGoogle, Types, TypeOK
<1>3. ASSUME NEW q \in Requests, NEW p \in Pods, NEW i \in Inputs, Begin(q, p, i) PROVE Way
  BY <1>3 DEF Begin, Goto, IsGoogle, Types, TypeOK
<1>4. ASSUME NEW q \in Requests, q # r,
             Step(q) \/ TransactionFails(q) \/ CommitUnacknowledged(q)
      PROVE  Way
  <2>1. pc'[r] = pc[r] /\ cur'[r] = cur[r] /\ UNCHANGED request
    BY <1>4 DEF Step, CheckUsername, FindFederated, PickUsername, CreateRead, CreateCommit, Publish,
       LoginByName, LoginByMail, TokenRead, TokenCommit, Respond, TransactionFails,
       CommitUnacknowledged, Goto, Types, TypeOK
  <2> QED
    BY <2>1 DEF request, IsGoogle
<1>5. ASSUME CheckUsername(r) PROVE FALSE
  BY <1>5, WhoIsWhere DEF CheckUsername, request, IsGoogle
<1>6. ASSUME FindFederated(r) PROVE Way
  BY <1>6 DEF FindFederated, Goto, request, IsGoogle, Types, TypeOK
<1>7. ASSUME PickUsername(r) PROVE Way
  BY <1>7 DEF PickUsername, Goto, request, IsGoogle, Types, TypeOK
<1>8. ASSUME CreateRead(r) PROVE Way
  BY <1>8 DEF CreateRead, Goto, request, IsGoogle, Types, TypeOK
<1>9. ASSUME \/ CreateCommit(r) \/ Publish(r) \/ LoginByName(r) \/ LoginByMail(r)
             \/ TokenRead(r) \/ TokenCommit(r) \/ Respond(r) \/ TransactionFails(r)
             \/ CommitUnacknowledged(r)
      PROVE  FALSE
  BY <1>9 DEF CreateCommit, Publish, LoginByName, LoginByMail, Verified, TokenRead, TokenCommit,
     Respond, TransactionFails, CommitUnacknowledged, Goto, Types, TypeOK
<1> QED
  BY <1>1, <1>2, <1>3, <1>4, <1>5, <1>6, <1>7, <1>8, <1>9 DEF Next, Step

LEMMA StepSuffixes ==
    Types /\ AccountInv /\ SuffixesTaken /\ [Next]_vars => SuffixesTaken'
<1> SUFFICES ASSUME Types, AccountInv, SuffixesTaken, [Next]_vars, NEW r \in Requests,
                    pc'[r] \in {"pick", "read", "commit"}, IsGoogle(r)'
             PROVE  \E b \in Bases, k \in Nat : Passed(r, b, k)'
  BY DEF SuffixesTaken
<1>1. pc[r] # "idle" /\ IsGoogle(r) /\ store'[r] = store[r] /\ pc'[r] \in InFlight
  BY WhoCreates DEF InFlight
<1>2. CASE pc[r] \in {"pick", "read", "commit"} /\ cur'[r] = cur[r]
  <2>1. PICK b \in Bases, k \in Nat : Passed(r, b, k)
    BY <1>1, <1>2 DEF SuffixesTaken
  <2> QED
    BY <1>1, <1>2, <2>1, PassedStays
<1>3. CASE cur'[r] = <<input[r].base, 0>>
  <2>1. PICK b \in Bases : b = input[r].base
    BY <1>1, WhoIsWhere, InputFacts DEF IsGoogle
  <2>2. cur'[r] = <<b, 0>>
    BY <1>3, <2>1
  <2>3. 0..(0 - 1) = {}
    OBVIOUS
  <2>4. Passed(r, b, 0)'
    BY <2>2, <2>3 DEF Passed
  <2> QED
    BY <2>4
<1>4. CASE /\ pc[r] = "pick" /\ cur'[r] = <<cur[r][1], cur[r][2] + 1>>
           /\ Named(r, cur[r]) # {}
  <2>1. PICK b \in Bases, k \in Nat : Passed(r, b, k)
    BY <1>1, <1>4 DEF SuffixesTaken
  <2>2. cur'[r] = <<b, k + 1>> /\ \A j \in 0..k : Named(r, <<b, j>>) # {}
    <3>1. cur[r] = <<b, k>> /\ \A j \in 0..(k - 1) : Named(r, <<b, j>>) # {}
      BY <2>1 DEF Passed
    <3> QED
      BY <1>4, <3>1
  <2>3. \A q \in Rows(r) : q \in Rows(r)' /\ cur'[q] = cur[q]
    <3>1. store[r] \in Stores
      BY <1>1 DEF Types, Phases, Stores
    <3>2. store[r] \in Pods => pod[r] = store[r]
      BY <1>1, InputAssumption DEF Types, Phases
    <3>3. store[r] \in Pods => ~CrashPod(store[r])
      BY <1>4, <3>2 DEF CrashPod, InFlight
    <3> QED
      BY <1>1, <3>1, <3>3, StoreKeeps DEF Rows
  <2>4. \A j \in 0..k : Named(r, <<b, j>>)' # {}
    <3>1. ASSUME NEW j \in 0..k PROVE Named(r, <<b, j>>)' # {}
      <4>1. PICK q \in Rows(r) : cur[q] = <<b, j>>
        BY <2>2 DEF Named
      <4> QED
        BY <2>3, <4>1 DEF Named
    <3> QED
      BY <3>1
  <2>5. Passed(r, b, k + 1)'
    <3>1. 0..((k + 1) - 1) = 0..k
      OBVIOUS
    <3> QED
      BY <2>2, <2>4, <3>1 DEF Passed
  <2> QED
    BY <2>5
<1> QED
  BY <1>2, <1>3, <1>4, WhoCreates

-----------------------------------------------------------------------------
(* The directory *)

\* Who adds a row adds it under a name that the directory knows.
LEMMA AddedName ==
    ASSUME Types, SuffixesTaken, NEW r \in Requests, pc[r] = "commit"
    PROVE  cur[r] \in Names
<1>1. input[r] \in Inputs /\ input[r].op \in {"register", "google"}
  BY WhoIsWhere, InputFacts
<1>2. CASE input[r].op = "register"
  <2>1. cur[r] = input[r].name
    BY <1>2 DEF Types, Phases
  <2> QED
    BY <1>1, <1>2, <2>1 DEF Names
<1>3. CASE input[r].op = "google"
  <2>1. PICK b \in Bases, k \in Nat : Passed(r, b, k)
    BY <1>3 DEF SuffixesTaken, IsGoogle
  <2>2. k \in 0..N
    BY <2>1, SuffixBound, InputAssumption DEF Passed
  <2> QED
    BY <2>1, <2>2 DEF Passed, Names
<1> QED
  BY <1>1, <1>2, <1>3

\* A step that adds and removes no rows is one in which the directory stands still.
LEMMA RowsStay ==
    ASSUME Types, AccountInv, [Next]_vars, UNCHANGED accounts,
           \A p \in Pods : ~CrashPod(p)
    PROVE  UNCHANGED <<Accounts, Links>>
<1>1. \A s \in Stores : \A q \in users[s] : cur'[q] = cur[q] /\ input'[q] = input[q]
  BY StoreKeeps
<1>2. \A s \in Stores : linked[s] \subseteq users[s]
  BY DEF AccountInv, LinksFit
<1>3. Accounts' = Accounts
  BY <1>1 DEF Accounts, accounts
<1>4. Links' = Links
  BY <1>1, <1>2 DEF Links, accounts
<1> QED
  BY <1>3, <1>4

\* A pod that goes down takes its dictionaries with it, both of them.
LEMMA CrashLoses ==
    ASSUME Types, NEW p \in Pods, CrashPod(p)
    PROVE  Directory!Lose(p)
<1>1. /\ users' = [users EXCEPT ![p] = {}] /\ linked' = [linked EXCEPT ![p] = {}]
      /\ cur' = cur /\ input' = input
  BY DEF CrashPod, request
<1>2. p \in Stores /\ p \notin {"db"}
  BY InputAssumption DEF Stores
<1>3. Accounts' = [Accounts EXCEPT ![p] = {}]
  BY <1>1, <1>2 DEF Accounts, Types, TypeOK
<1>4. Links' = [Links EXCEPT ![p] = {}]
  BY <1>1, <1>2 DEF Links, Types, TypeOK
<1> QED
  BY <1>2, <1>3, <1>4 DEF Directory!Lose

\* A transaction that adds an account finds its name free, and its identity too.
LEMMA CommitAdds ==
    ASSUME Types, AccountInv, SuffixesTaken, NEW r \in Requests, pc[r] = "commit",
           ~Duplicate(r), AddRow(r), UNCHANGED <<request, cur>>
    PROVE  Directory!Next
<1>1. pc[r] = "commit" /\ cur' = cur /\ input' = input /\ AddRow(r)
  BY DEF request
<1>2. PICK s \in Stores : s = store[r]
  BY <1>1 DEF Types, Phases, Stores
<1>3. PICK n \in Names : n = cur[r]
  BY <1>1, AddedName
<1>4. ~Directory!Taken(s, n)
  <2>1. \A q \in users[s] : cur[q] # n
    BY <1>2, <1>3 DEF Duplicate, Named, Rows
  <2>2. Accounts[s] = {[name |-> cur[q], owner |-> q] : q \in users[s]}
    BY DEF Accounts
  <2>3. \A a \in Accounts[s] : a.name # n
    BY <2>1, <2>2
  <2> QED
    BY <2>3 DEF Directory!Taken
<1>5. Accounts' = [Accounts EXCEPT ![s] = @ \cup {[name |-> n, owner |-> r]}]
  <2>1. users' = [users EXCEPT ![s] = @ \cup {r}]
    BY <1>1, <1>2 DEF AddRow
  <2>2. \A t \in Stores : Accounts'[t] = IF t = s THEN Accounts[t] \cup {[name |-> n, owner |-> r]}
                                                  ELSE Accounts[t]
    BY <1>1, <1>3, <2>1 DEF Accounts, Types, TypeOK
  <2> QED
    BY <2>2 DEF Accounts
<1>6. CASE IsGoogle(r)
  <2>1. PICK g \in Subjects : g = input[r].sub
    BY <1>1, <1>6, WhoIsWhere, InputAssumption
       DEF IsGoogle, Registrations, Logins, GoogleLogins
  <2>2. ~Directory!Linked(s, g)
    <3>1. \A q \in linked[s] : input[q].sub # g
      BY <1>2, <1>6, <2>1 DEF Duplicate
    <3>2. Links[s] = {[sub |-> input[q].sub, name |-> cur[q]] : q \in linked[s]}
      BY DEF Links
    <3>3. \A l \in Links[s] : l.sub # g
      BY <3>1, <3>2
    <3> QED
      BY <3>3 DEF Directory!Linked
  <2>3. Links' = [Links EXCEPT ![s] = @ \cup {[sub |-> g, name |-> n]}]
    <3>1. linked' = [linked EXCEPT ![s] = @ \cup {r}]
      BY <1>1, <1>2, <1>6 DEF AddRow
    <3>2. \A t \in Stores : Links'[t] = IF t = s THEN Links[t] \cup {[sub |-> g, name |-> n]}
                                                 ELSE Links[t]
      BY <1>1, <1>3, <2>1, <3>1 DEF Links, Types, TypeOK
    <3> QED
      BY <3>2 DEF Links
  <2> QED
    BY <1>4, <1>5, <2>2, <2>3 DEF Directory!Next, Directory!Federate
<1>7. CASE ~IsGoogle(r)
  <2>1. Links' = Links
    BY <1>1, <1>7 DEF AddRow, Links
  <2> QED
    BY <1>4, <1>5, <2>1 DEF Directory!Next, Directory!Register
<1> QED
  BY <1>6, <1>7

\* Every step is one of the directory, or leaves it alone.
LEMMA DirectoryStep ==
    Types /\ AccountInv /\ SuffixesTaken /\ [Next]_vars => [Directory!Next]_<<Accounts, Links>>
<1> SUFFICES ASSUME Types, AccountInv, SuffixesTaken, [Next]_vars
             PROVE  Directory!Next \/ UNCHANGED <<Accounts, Links>>
  OBVIOUS
<1>1. ASSUME NEW p \in Pods, CrashPod(p) PROVE Directory!Next
  BY <1>1, CrashLoses DEF Directory!Next, Stores
<1>2. ASSUME NEW r \in Requests,
             \/ CreateCommit(r) /\ ~Duplicate(r)
             \/ CommitUnacknowledged(r) /\ pc[r] = "commit"
      PROVE  Directory!Next
  BY <1>2, CommitAdds DEF CreateCommit, CommitUnacknowledged
<1>3. ASSUME \A p \in Pods : ~CrashPod(p),
             \A r \in Requests :
                 /\ CreateCommit(r) => Duplicate(r)
                 /\ ~(CommitUnacknowledged(r) /\ pc[r] = "commit")
      PROVE  UNCHANGED accounts
  <2>1. CASE UNCHANGED vars
    BY <2>1 DEF vars, accounts
  <2>2. ASSUME NEW p \in Pods, StartPod(p) PROVE UNCHANGED accounts
    BY <2>2 DEF StartPod
  <2>3. ASSUME NEW r \in Requests, NEW p \in Pods, NEW i \in Inputs, Begin(r, p, i)
        PROVE  UNCHANGED accounts
    BY <2>3 DEF Begin
  <2>4. ASSUME NEW r \in Requests, CreateCommit(r) PROVE UNCHANGED accounts
    BY <1>3, <2>4 DEF CreateCommit
  <2>5. ASSUME NEW r \in Requests,
               \/ CheckUsername(r) \/ FindFederated(r) \/ PickUsername(r) \/ CreateRead(r)
               \/ Publish(r) \/ LoginByName(r) \/ LoginByMail(r) \/ TokenRead(r)
               \/ TokenCommit(r) \/ Respond(r) \/ TransactionFails(r)
               \/ CommitUnacknowledged(r)
        PROVE  UNCHANGED accounts
    BY <1>3, <2>5 DEF CheckUsername, FindFederated, PickUsername, CreateRead, Publish,
       LoginByName, LoginByMail, TokenRead, TokenCommit, Respond, TransactionFails,
       CommitUnacknowledged
  <2> QED
    BY <1>3, <2>1, <2>2, <2>3, <2>4, <2>5 DEF Next, Step
<1> QED
  BY <1>1, <1>2, <1>3, RowsStay

-----------------------------------------------------------------------------
(* Theorems *)

\* Every variable of pods, tables and requests stays in its range.
THEOREM TypeCorrect == Spec => []TypeOK
<1>1. Types => TypeOK
  BY DEF Types
<1>2. QED
  BY <1>1, InitTypes, StepTypes, PTL DEF Spec

\* The inductive invariant holds throughout.
THEOREM AccountInvariant == Spec => [](Types /\ AccountInv /\ HistoryInv)
<1>1. Init => Types /\ AccountInv /\ HistoryInv
  BY InitTypes, InitAccounts, InitHistory
<1>2. Types /\ AccountInv /\ HistoryInv /\ [Next]_vars => (Types /\ AccountInv /\ HistoryInv)'
  BY StepTypes, StepAccounts, StepHistory
<1>3. QED
  BY <1>1, <1>2, PTL DEF Spec

\* register answers success only for the request whose account the database
\* holds under that name, whatever races with it on other pods.
THEOREM RegistrationsAreKept == Spec => []RegistrationsKept
<1>1. ASSUME Types, AccountInv, HistoryInv PROVE RegistrationsKept
  <2> SUFFICES ASSUME NEW r \in Requests, pc[r] = "done", input[r].op = "register",
                      store[r] = "db"
               PROVE  /\ r \in users["db"]
                      /\ \A q \in users["db"] : cur[q] = input[r].name => q = r
    BY DEF RegistrationsKept
  <2>1. r \in users["db"]
    BY <1>1 DEF HistoryInv, SuccessIsThere, Settled
  <2>2. cur[r] = input[r].name
    BY <1>1 DEF Types, Phases
  <2>3. QED
    BY <1>1, <2>1, <2>2 DEF AccountInv, NamesUnique, Stores
<1>2. QED
  BY <1>1, AccountInvariant, PTL

\* login_or_register_oidc never leaves two accounts of one Google identity, nor
\* one that its identity does not lead to.
THEOREM IdentitiesHaveOneAccount == Spec => []OneAccountPerIdentity
<1>1. ASSUME AccountInv PROVE OneAccountPerIdentity
  <2> SUFFICES ASSUME NEW s \in Stores, NEW q \in users[s], IsGoogle(q)
               PROVE  /\ q \in linked[s]
                      /\ \A r \in linked[s] : input[r].sub = input[q].sub => r = q
    BY DEF OneAccountPerIdentity
  <2>1. q \in linked[s]
    BY <1>1 DEF AccountInv, LinksFit
  <2>2. QED
    BY <1>1, <2>1 DEF AccountInv, SubjectsUnique
<1>2. QED
  BY <1>1, AccountInvariant, PTL

\* publish_user_created is called for an account that is there, and skipped
\* only by a pod that goes down or by a commit whose acknowledgement is lost.
THEOREM EventsAreOfAccounts == Spec => []EventsMatchAccounts
<1>1. HistoryInv => EventsMatchAccounts
  BY DEF HistoryInv
<1>2. QED
  BY <1>1, AccountInvariant, PTL

\* save_refresh_token keeps one row per user, of an account that exists, and a
\* login that succeeded finds a row there, whatever crashes between the commits
\* and the answers.
THEOREM TokensAlwaysFit == Spec => []TokensFit
<1>1. HistoryInv => TokensFit
  BY DEF HistoryInv
<1>2. QED
  BY <1>1, AccountInvariant, PTL

\* login_or_register_oidc has found a name for each smaller suffix taken when it
\* tries a suffix: it never gets further than the number of requests.
THEOREM SearchIsBounded ==
    Spec => [](\A r \in Requests :
                  pc[r] \in {"pick", "read", "commit"} /\ IsGoogle(r) =>
                      \E b \in Bases, k \in 0..N : Passed(r, b, k))
<1>1. Init => SuffixesTaken
  BY DEF Init, SuffixesTaken, Requests
<1>2. ASSUME Types, SuffixesTaken, NEW r \in Requests,
             pc[r] \in {"pick", "read", "commit"}, IsGoogle(r)
      PROVE  \E b \in Bases, k \in 0..N : Passed(r, b, k)
  <2>1. PICK b \in Bases, k \in Nat : Passed(r, b, k)
    BY <1>2 DEF SuffixesTaken
  <2>2. k \in 0..N
    BY <1>2, <2>1, SuffixBound, InputAssumption DEF Passed
  <2> QED
    BY <2>1, <2>2
<1>3. Types /\ SuffixesTaken =>
         \A r \in Requests :
            pc[r] \in {"pick", "read", "commit"} /\ IsGoogle(r) =>
                \E b \in Bases, k \in 0..N : Passed(r, b, k)
  BY <1>2
<1>4. QED
  BY <1>1, <1>3, StepSuffixes, AccountInvariant, PTL DEF Spec

\* The tables of auth-api, and each pod's dictionaries, are an account directory:
\* a name goes to one owner for good, and a Google account appears with its link.
THEOREM DirectoryImplemented == Spec => RefinesDirectory
<1>1. Init => SuffixesTaken
  BY DEF Init, SuffixesTaken, Requests
<1>2. Init => Directory!Init
  BY DEF Init, Directory!Init, Accounts, Links
<1>3. QED
  BY <1>1, <1>2, StepSuffixes, DirectoryStep, AccountInvariant, PTL
     DEF Spec, RefinesDirectory, Directory!Spec
===============================================================================
