------------------------------ MODULE Migrate ------------------------------
(***************************************************************************)
(* Servers that boot on one database.  Each applies the migrations its     *)
(* binary ships, in the order of their names, a transaction for each, and  *)
(* only then serves; a boot that fails ends the process, which its         *)
(* container restarts.  Two of them boot together whenever a new version   *)
(* is deployed next to the old one.                                        *)
(*                                                                         *)
(* The n-th file in the order of names is the number n, and an older       *)
(* binary ships the first few.  A file's contents are statements that fail *)
(* on a schema they have already changed (CREATE TABLE, ADD COLUMN).       *)
(***************************************************************************)
EXTENDS Naturals, Sequences

CONSTANTS
    Server,
    Files,      \* how many migrations there are in the newest binary
    Ships,      \* Ships[s]: how many of them the binary of server s has
    Null,       \* no transaction
    MaxFaults   \* BOUND: processes that die, or boots whose database fails

ASSUME MigrateAssumption ==
    /\ Files \in Nat /\ Ships \in [Server -> 0 .. Files]
    /\ Null \notin Server /\ MaxFaults \in Nat

VARIABLES
    boot,      \* boot[s]: where server s stands, and the file it is at
    table,     \* whether schema_migrations exists
    schema,    \* the files whose contents are committed, in the order they were
    recorded,  \* schema_migrations.filename
    writer,    \* the server whose transaction has written and is open
    faults

disk == <<table, schema, recorded>>
migrateVars == <<boot, disk, writer, faults>>

Down == [at |-> "down", file |-> 0]

MigrateInit ==
    /\ boot = [s \in Server |-> Down]
    /\ table = FALSE /\ schema = <<>> /\ recorded = {}
    /\ writer = Null
    /\ faults = 0

-----------------------------------------------------------------------------

At(s, point) == boot[s].at = point

Goto(s, point, file) == boot' = [boot EXCEPT ![s] = [at |-> point, file |-> file]]

Quit(s) == boot' = [boot EXCEPT ![s] = Down]

Boot(s) ==
    /\ At(s, "down")
    /\ Goto(s, "create", 0)
    /\ UNCHANGED <<disk, writer, faults>>

\* CREATE TABLE IF NOT EXISTS: a write if it does not.
Create(s) ==
    /\ At(s, "create") /\ (table \/ writer = Null)
    /\ table' = TRUE
    /\ Goto(s, "lookup", 1)
    /\ UNCHANGED <<schema, recorded, writer, faults>>

\* Mutation: whether the file has been applied is not looked up.
LookupSkipped(s) ==
    /\ At(s, "lookup") /\ boot[s].file <= Ships[s]
    /\ Goto(s, "apply", boot[s].file)
    /\ UNCHANGED <<disk, writer, faults>>

Lookup(s) ==
    /\ At(s, "lookup") /\ boot[s].file <= Ships[s]
    /\ IF boot[s].file \in recorded
       THEN Goto(s, "lookup", boot[s].file + 1)
       ELSE Goto(s, "apply", boot[s].file)
    /\ UNCHANGED <<disk, writer, faults>>

\* Mutation: a server listens as soon as it has a database.
ServeAtOnce(s) ==
    /\ At(s, "lookup")
    /\ Goto(s, "serving", boot[s].file)
    /\ UNCHANGED <<disk, writer, faults>>

Serve(s) ==
    /\ At(s, "lookup") /\ boot[s].file > Ships[s]
    /\ Goto(s, "serving", boot[s].file)
    /\ UNCHANGED <<disk, writer, faults>>

Applied(file) == \E i \in 1 .. Len(schema) : schema[i] = file

\* The transaction begins to write, when no other one has: the file's contents
\* fail if another server has applied them since the lookup.
Apply(s) ==
    /\ At(s, "apply") /\ writer = Null
    /\ IF Applied(boot[s].file)
       THEN Quit(s) /\ UNCHANGED writer
       ELSE Goto(s, "record", boot[s].file) /\ writer' = s
    /\ UNCHANGED <<disk, faults>>

\* Mutation: the row is inserted outside the transaction.
RecordApart(s) ==
    /\ At(s, "record")
    /\ recorded' = recorded \cup {boot[s].file}
    /\ Goto(s, "commit", boot[s].file)
    /\ UNCHANGED <<table, schema, writer, faults>>

\* The row's primary key refuses a second one of the same name.
Record(s) ==
    /\ At(s, "record")
    /\ IF boot[s].file \in recorded
       THEN Quit(s) /\ writer' = Null
       ELSE Goto(s, "commit", boot[s].file) /\ UNCHANGED writer
    /\ UNCHANGED <<disk, faults>>

Committed(s) ==
    /\ schema' = Append(schema, boot[s].file)
    /\ recorded' = recorded \cup {boot[s].file}
    /\ writer' = Null
    /\ UNCHANGED table

Commit(s) ==
    /\ At(s, "commit")
    /\ Committed(s)
    /\ Goto(s, "lookup", boot[s].file + 1)
    /\ UNCHANGED faults

\* The database has committed, its answer does not arrive, and the boot fails.
CommitUnanswered(s) ==
    /\ faults < MaxFaults /\ faults' = faults + 1
    /\ At(s, "commit")
    /\ Committed(s)
    /\ Quit(s)

\* A statement fails, waits too long for the other server's transaction, or the
\* process is killed: the database rolls its transaction back.
Stop(s) ==
    /\ faults < MaxFaults /\ faults' = faults + 1
    /\ ~At(s, "down")
    /\ Quit(s)
    /\ writer' = IF writer = s THEN Null ELSE writer
    /\ UNCHANGED disk

Advance(s) ==
    \/ Boot(s) \/ Create(s) \/ Lookup(s) \/ Apply(s) \/ Record(s) \/ Commit(s) \/ Serve(s)

-----------------------------------------------------------------------------

MigrateTypeOK ==
    /\ boot \in [Server -> [at : {"down", "create", "lookup", "apply", "record",
                                  "commit", "serving"},
                            file : Nat]]
    /\ table \in BOOLEAN
    /\ schema \in Seq(1 .. Files) /\ recorded \subseteq 1 .. Files
    /\ writer \in Server \cup {Null}
    /\ faults \in Nat

\* However many servers boot at once, and die at whatever statement, the schema is
\* that of a single boot: the files in the order of their names, none left out and
\* none applied twice.
SchemaInOrder == \A i \in 1 .. Len(schema) : schema[i] = i

\* Whoever serves finds every table and column its binary was written for, whoever
\* created them.
ServersFindSchema ==
    \A s \in Server : At(s, "serving") => \A file \in 1 .. Ships[s] : Applied(file)

\* Once no more processes die every server comes up: a boot that failed because
\* another one was ahead of it finds that one's work done when it is restarted.
AllServe == <>[](\A s \in Server : At(s, "serving"))

=============================================================================
