---------------------------- MODULE MysqlManager ----------------------------
(***************************************************************************)
(* CMysqlManager::init (mysqlmgr/MysqlManager.cpp) in several processes    *)
(* against one server: look for the database, create it, connect to it,    *)
(* read the columns of the table, add those that are missing or create the *)
(* table.  Under it CDatabaseMysql (mysqlapi/), which connects once more   *)
(* and repeats a statement when the server has gone.                       *)
(*                                                                         *)
(* The server works on one statement at a time.  It may refuse any of      *)
(* them, may drop a connection, and may carry a statement out and lose the *)
(* answer.  createTable is taken as the member MysqlManager.h:53 declares. *)
(***************************************************************************)
EXTENDS SequencesExt, SelectedSeq

CONSTANTS Manager,      \* processes, each with a CMysqlManager
          Fields,       \* map_field_ of the table, in the order of the map
          AutoIncrement, \* those that are AUTO_INCREMENT, which the server only takes
                        \* together with a key: `create table' has it, `add column' not
          OtherColumn,  \* a column the program does not know
          MaxInits,     \* bound: calls of init() together
          MaxFaults     \* bound: what the server fails to do, together

ASSUME ManagerAssumption ==
    /\ Fields \in Seq(ToSet(Fields)) /\ IsInjective(Fields) /\ Fields # <<>>
    /\ OtherColumn \notin ToSet(Fields)
    /\ AutoIncrement \subseteq ToSet(Fields)
    /\ Manager # {} /\ MaxInits \in Nat \ {0} /\ MaxFaults \in Nat

VARIABLES server,     \* the server: is there the database, and the table's columns;
                      \* a table that does not exist has none
          link,       \* conn_->mysql_: "none" (null), "up", or "gone" at the server
          pc,         \* the statement or connection init() is at, or what it returned
          retried,    \* the statement is being sent again after a reconnect
          todo,       \* checkTable: the fields still to be added
          inits, faults,
          disturbed,  \* history: whose init() met a fault or another's change
          misread     \* history: whose `desc' failed although the table exists

vars == <<server, link, pc, retried, todo, inits, faults, disturbed, misread>>

Query == {"show", "desc"}
Execute == {"create", "create_table", "alter"}
Statement == Query \cup Execute
Returned == {"true", "false"}

\* Tables the server may already have: complete, incomplete, somebody else's, none.
OldTables == {t \in UNION {[1 .. n -> ToSet(Fields) \cup {OtherColumn}] :
                             n \in 0 .. Len(Fields) + 1} : IsInjective(t)}

Init ==
    /\ server \in [db : BOOLEAN, table : OldTables]
    /\ ~server.db => server.table = <<>>
    /\ link = [m \in Manager |-> "none"]
    /\ pc = [m \in Manager |-> "idle"]
    /\ retried = [m \in Manager |-> FALSE]
    /\ todo = [m \in Manager |-> <<>>]
    /\ inits = 0 /\ faults = 0
    /\ disturbed = {} /\ misread = {}

(***************************************************************************)
(* The server: does it accept m's statement, and what comes of it.         *)
(***************************************************************************)
accepts(m) ==
    CASE pc[m] = "create" -> ~server.db
      [] pc[m] = "desc"   -> server.table # <<>>
      [] pc[m] = "alter"  -> Head(todo[m]) \notin ToSet(server.table) \cup AutoIncrement
      [] OTHER            -> TRUE

\* The table with the program's columns, if there is none.
createTable == IF server.table = <<>> THEN [server EXCEPT !.table = Fields] ELSE server

after(m) ==
    CASE pc[m] = "create" -> [server EXCEPT !.db = TRUE]
      [] pc[m] = "create_table" -> createTable
      [] pc[m] = "alter"  -> [server EXCEPT !.table = Append(@, Head(todo[m]))]
      [] OTHER            -> server

(***************************************************************************)
(* What init() does with the answer.                                       *)
(***************************************************************************)
\* The name of the database is among those that the server returns.
isDBExist == server.db

\* Mutant of rows: the row that query() has fetched already is skipped.
rowsFromSecond(t) == ToSet(Tail(t))

\* The rows the fetch loops see: query() has moved to the first one already.
rows(t) == ToSet(t)

missing == selected(Fields, ToSet(Fields) \ rows(server.table))

\* A query that failed is a null result, and init() goes on: no database, no table.
onFailure(m) ==
    CASE pc[m] = "show" -> "create"
      [] pc[m] = "desc" -> "create_table"
      [] OTHER          -> "false"

\* Mutant of onSuccess: a table that exists is taken for correct.
comparesNothing(m) ==
    CASE pc[m] = "show"         -> IF isDBExist THEN "use" ELSE "create"
      [] pc[m] = "create"       -> "use"
      [] OTHER                  -> "true"

\* Mutant of onSuccess: the name of the database is not found among the rows.
findsNoDatabase(m) ==
    CASE pc[m] = "show"         -> "create"
      [] pc[m] = "create"       -> "use"
      [] pc[m] = "desc"         -> IF missing = <<>> THEN "true" ELSE "alter"
      [] pc[m] = "create_table" -> "true"
      [] pc[m] = "alter"        -> IF Len(todo[m]) = 1 THEN "true" ELSE "alter"

\* Mutant of onSuccess: the loop over the missing fields goes one round too far.
addsOnceMore(m) ==
    CASE pc[m] = "show"         -> IF isDBExist THEN "use" ELSE "create"
      [] pc[m] = "create"       -> "use"
      [] pc[m] = "desc"         -> IF missing = <<>> THEN "true" ELSE "alter"
      [] pc[m] = "create_table" -> "true"
      [] pc[m] = "alter"        -> "alter"

onSuccess(m) ==
    CASE pc[m] = "show"         -> IF isDBExist THEN "use" ELSE "create"
      [] pc[m] = "create"       -> "use"
      [] pc[m] = "desc"         -> IF missing = <<>> THEN "true" ELSE "alter"
      [] pc[m] = "create_table" -> "true"
      [] pc[m] = "alter"        -> IF Len(todo[m]) = 1 THEN "true" ELSE "alter"

todoAfter(m) ==
    CASE pc[m] = "desc"  -> missing
      [] pc[m] = "alter" -> Tail(todo[m])
      [] OTHER           -> todo[m]

goTo(m, s) ==
    /\ pc' = [pc EXCEPT ![m] = s]
    /\ retried' = [retried EXCEPT ![m] = FALSE]

\* History: m met a fault.
faulty(m) ==
    /\ faults < MaxFaults
    /\ faults' = faults + 1
    /\ disturbed' = disturbed \cup {m}
                      \cup (IF server' = server THEN {} ELSE Manager)

\* History: m's `desc' failed.
misreads(m) ==
    misread' = IF pc[m] = "desc" /\ server.table # <<>> THEN misread \cup {m} ELSE misread

(***************************************************************************)
(* Connections: CDatabaseMysql::initialize.                                *)
(***************************************************************************)
InitCall(m) ==
    /\ pc[m] \in {"idle"} \cup Returned
    /\ inits < MaxInits
    /\ inits' = inits + 1
    /\ goTo(m, "connect")
    /\ link' = [link EXCEPT ![m] = "none"]
    /\ disturbed' = disturbed \ {m}
    /\ misread' = misread \ {m}
    /\ UNCHANGED <<server, todo, faults>>

\* The first connection has no database, the second needs it.
Connects(m) ==
    /\ \/ pc[m] = "connect" /\ goTo(m, "show")
       \/ pc[m] = "use" /\ server.db /\ goTo(m, "desc")
    /\ link' = [link EXCEPT ![m] = "up"]
    /\ UNCHANGED <<server, todo, inits, faults, disturbed, misread>>

ConnectFails(m) ==
    /\ pc[m] \in {"connect", "use"}
    /\ goTo(m, "false")
    /\ link' = [link EXCEPT ![m] = "none"]
    /\ UNCHANGED server
    /\ faulty(m)
    /\ UNCHANGED <<todo, inits, misread>>

\* mysql_.reset(mysql_real_connect(mysql_.get(), ...)) frees the very handle it goes on
\* to use, so that any later use may end the process.
HandleFaults(m) ==
    /\ pc[m] \in Statement
    /\ link[m] # "none"
    /\ goTo(m, "crashed")
    /\ disturbed' = disturbed \cup {m}
    /\ UNCHANGED <<server, link, todo, inits, faults, misread>>

(***************************************************************************)
(* Statements: CDatabaseMysql::query and execute.                          *)
(***************************************************************************)
\* execute returns false for a statement it had to repeat, even if that succeeded.
Accepted(m) ==
    /\ pc[m] \in Statement /\ link[m] = "up"
    /\ accepts(m)
    /\ server' = after(m)
    /\ IF pc[m] \in Execute /\ retried[m]
         THEN goTo(m, "false") /\ UNCHANGED todo
         ELSE /\ goTo(m, onSuccess(m))
              /\ todo' = [todo EXCEPT ![m] = todoAfter(m)]
    /\ disturbed' = IF server' = server THEN disturbed
                                        ELSE disturbed \cup (Manager \ {m})
    /\ UNCHANGED <<link, inits, faults, misread>>

\* The server says no because of what it holds.
Rejected(m) ==
    /\ pc[m] \in Statement /\ link[m] = "up"
    /\ ~accepts(m)
    /\ goTo(m, onFailure(m))
    /\ UNCHANGED <<server, link, todo, inits, faults, disturbed, misread>>

\* Another error than CR_SERVER_GONE_ERROR; with a lost answer the work may be done.
Refused(m) ==
    /\ pc[m] \in Statement /\ link[m] = "up"
    /\ server' \in {server} \cup (IF accepts(m) THEN {after(m)} ELSE {})
    /\ goTo(m, onFailure(m))
    /\ faulty(m)
    /\ misreads(m)
    /\ UNCHANGED <<link, todo, inits>>

\* The server drops an idle connection.
Drops(m) ==
    /\ pc[m] \in Statement /\ link[m] = "up"
    /\ link' = [link EXCEPT ![m] = "gone"]
    /\ UNCHANGED server
    /\ faulty(m)
    /\ UNCHANGED <<pc, retried, todo, inits, misread>>

\* CR_SERVER_GONE_ERROR, and initialize succeeds: the statement goes out again.
Reconnects(m) ==
    /\ pc[m] \in Statement /\ link[m] = "gone" /\ ~retried[m]
    /\ link' = [link EXCEPT ![m] = "up"]
    /\ retried' = [retried EXCEPT ![m] = TRUE]
    /\ UNCHANGED <<server, pc, todo, inits, faults, disturbed, misread>>

ReconnectFails(m) ==
    /\ pc[m] \in Statement /\ link[m] = "gone" /\ ~retried[m]
    /\ link' = [link EXCEPT ![m] = "none"]
    /\ goTo(m, onFailure(m))
    /\ UNCHANGED server
    /\ faulty(m)
    /\ misreads(m)
    /\ UNCHANGED <<todo, inits>>

\* Gone again while the statement is repeated: there is no third attempt.
GoneAgain(m) ==
    /\ pc[m] \in Statement /\ link[m] = "gone" /\ retried[m]
    /\ goTo(m, onFailure(m))
    /\ misreads(m)
    /\ UNCHANGED <<server, link, todo, inits, faults, disturbed>>

\* execute without a handle.
NoHandle(m) ==
    /\ pc[m] \in Execute /\ link[m] = "none"
    /\ goTo(m, "false")
    /\ UNCHANGED <<server, link, todo, inits, faults, disturbed, misread>>

Next ==
    \E m \in Manager :
        \/ InitCall(m) \/ Connects(m) \/ ConnectFails(m) \/ HandleFaults(m)
        \/ Accepted(m) \/ Rejected(m) \/ Refused(m) \/ Drops(m)
        \/ Reconnects(m) \/ ReconnectFails(m) \/ GoneAgain(m) \/ NoHandle(m)

Spec == Init /\ [][Next]_vars

(***************************************************************************)
(* Properties.                                                             *)
(***************************************************************************)
TypeOK ==
    /\ server \in [db : BOOLEAN, table : OldTables]
    /\ ~server.db => server.table = <<>>
    /\ link \in [Manager -> {"none", "up", "gone"}]
    /\ pc \in [Manager -> {"idle", "connect", "use", "crashed"} \cup Statement \cup Returned]
    /\ retried \in [Manager -> BOOLEAN]
    /\ todo \in [Manager -> {t \in OldTables : ToSet(t) \subseteq ToSet(Fields)}]
    /\ \A m \in Manager : pc[m] = "alter" => todo[m] # <<>>
    /\ inits \in 0 .. MaxInits /\ faults \in 0 .. MaxFaults
    /\ disturbed \subseteq Manager /\ misread \subseteq Manager

complete == ToSet(Fields) \subseteq ToSet(server.table)

\* When init() returns true the table has the columns of the program, whoever created
\* or altered it in the meantime and however often statements were repeated, provided
\* the answer to `desc' was not lost on an existing table.
TrueMeansColumns ==
    \A m \in Manager : pc[m] = "true" /\ m \notin misread => complete

\* The table has the columns that cannot be added.
addable == AutoIncrement \subseteq ToSet(server.table)

\* init() returns false only when the server failed at something, another process
\* changed the schema meanwhile, or an existing table lacks an AUTO_INCREMENT column: a
\* database that is missing, other columns that are missing, a table with columns of
\* its own or one that was just created are no reason.
FalseHasCause ==
    \A m \in Manager : pc[m] = "false" => m \in disturbed \/ ~addable

\* Processes that start together get in each other's way (`create database' and `add
\* column' fail the second time), but with a server that does its work at least one
\* of them succeeds.
SomeoneSucceeds ==
    faults = 0 /\ addable /\ (\A m \in Manager : pc[m] \in Returned)
        => \E m \in Manager : pc[m] = "true"

\* What the comment in init() announces, `check correctness of table': true means that
\* the table is correct.
TableChecked == \A m \in Manager : pc[m] = "true" => complete
=============================================================================
