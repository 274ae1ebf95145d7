----------------------------- MODULE Migrations -----------------------------
(***************************************************************************)
(* What the service does to its database each time it starts (init_db in   *)
(* casper_service/db.py), on a database that any earlier version left      *)
(* behind, when it may be stopped between any two statements.              *)
(*                                                                         *)
(* sqlite commits every statement here on its own: Python opens no         *)
(* transaction for DDL, and executescript commits what is open.  A table   *)
(* is the set of its columns.  Indexes are part of the statement that      *)
(* makes the table; dropping the old ones is left out.                     *)
(***************************************************************************)
EXTENDS Naturals, Sequences

CONSTANTS
    Renames,        \* tables to rename, each with the column that follows
    Created,        \* the tables of SCHEMA, in its order
    Layout,         \* and the columns it gives each
    Indexed,        \* those it puts an index on
    Additions,      \* columns added one by one, in order
    Eras,           \* databases an earlier version may have left
    MaxCrashes      \* bound: times the service is stopped while it starts

Added(name) ==
    {Additions[a].column : a \in {b \in DOMAIN Additions : Additions[b].table = name}}

\* What the service expects of a table.
Wanted(name) == Layout[name] \union Added(name)

\* A table that has at least what SCHEMA gives it, or will still be added.
Fits(columns, name) == Layout[name] \subseteq columns \union Added(name)

\* SCHEMA makes every table, with the key of those that were renamed; only
\* columns of those are added.
SchemaAssumption ==
    /\ Renames # <<>> /\ Renames \in Seq([from : STRING, to : STRING, key : STRING, newkey : STRING])
    /\ \A r, s \in DOMAIN Renames :
        /\ Renames[r].from # Renames[s].to
        /\ r # s => Renames[r].from # Renames[s].from /\ Renames[r].to # Renames[s].to
    /\ Created \in Seq(DOMAIN Layout)
    /\ \A name \in DOMAIN Layout : \E t \in DOMAIN Created : Created[t] = name
    /\ DOMAIN Layout \subseteq STRING
    /\ \A name \in DOMAIN Layout : Layout[name] \subseteq STRING
    /\ Additions \in Seq([table : DOMAIN Layout, column : STRING])
    /\ \A r \in DOMAIN Renames :
        /\ Renames[r].from \notin DOMAIN Layout /\ Renames[r].to \in DOMAIN Layout
        /\ Renames[r].newkey \in Layout[Renames[r].to] \ Added(Renames[r].to)

\* An earlier version has none of its tables renamed, or all.
EraAssumption ==
    \A era \in Eras :
        /\ DOMAIN era \subseteq STRING /\ era \in [DOMAIN era -> SUBSET STRING]
        /\ \A name \in DOMAIN era \intersect DOMAIN Layout : Fits(era[name], name)
        /\ \/ \A r \in DOMAIN Renames : Renames[r].from \notin DOMAIN era
           \/ \A r \in DOMAIN Renames :
                /\ Renames[r].from \in DOMAIN era /\ Renames[r].to \notin DOMAIN era
                /\ Renames[r].key \in era[Renames[r].from]
                /\ Fits((era[Renames[r].from] \ {Renames[r].key}) \union {Renames[r].newkey}, Renames[r].to)

ASSUME MigrationsAssumption == SchemaAssumption /\ EraAssumption /\ MaxCrashes \in Nat

VARIABLES
    tables,         \* the columns of every table that is there
    holds,          \* the table that has the rows each rename is about
    at,             \* which part of init_db is running, "down" or "serving"
    n,              \* the statement that is next in it
    crashes,        \* how often the service was stopped so far
    torn            \* whether once among the renames

vars == <<tables, holds, at, n, crashes, torn>>

TypeOK ==
    /\ DOMAIN tables \subseteq STRING /\ tables \in [DOMAIN tables -> SUBSET STRING]
    /\ holds \in [DOMAIN Renames -> STRING]
    /\ at \in {"down", "renaming", "rekeying", "creating", "adding", "serving"}
    /\ n \in Nat \ {0} /\ (at \in {"renaming", "rekeying"} => n \in DOMAIN Renames)
    /\ crashes \in 0 .. MaxCrashes
    /\ torn \in BOOLEAN

Init ==
    /\ tables \in Eras
    /\ holds = [r \in DOMAIN Renames |->
            IF Renames[r].from \in DOMAIN tables THEN Renames[r].from ELSE Renames[r].to]
    /\ at = "down" /\ n = 1
    /\ crashes = 0
    /\ torn = FALSE

----------------------------------------------------------------------------
Here == DOMAIN tables

Go(part, next) == at' = part /\ n' = next

\* sqlite refuses the statement, and the exception ends the service.
Refused == Go("down", 1) /\ UNCHANGED <<tables, holds>>

Legacy == Renames[1].from \in Here /\ Renames[1].to \notin Here

\* The script first: what it makes then hides the old tables.
Start_SchemaFirst ==
    /\ at = "down"
    /\ Go("creating", 1)
    /\ UNCHANGED <<tables, holds, crashes, torn>>

\* One look at two of the names decides whether anything is renamed.
Start ==
    /\ at = "down"
    /\ IF Legacy THEN Go("renaming", 1) ELSE Go("creating", 1)
    /\ UNCHANGED <<tables, holds, crashes, torn>>

AfterRename == IF n < Len(Renames) THEN Go("renaming", n + 1) ELSE Go("creating", 1)

RenameTable ==
    LET r == Renames[n] IN
    /\ at = "renaming"
    /\ IF r.to \in Here \/ r.from \notin Here
       THEN Refused
       ELSE /\ tables' = [name \in (Here \ {r.from}) \union {r.to} |->
                    IF name = r.to THEN tables[r.from] ELSE tables[name]]
            /\ holds' = [holds EXCEPT ![n] = r.to]
            /\ IF r.key = r.newkey THEN AfterRename ELSE Go("rekeying", n)
    /\ UNCHANGED <<crashes, torn>>

RenameColumn ==
    LET r == Renames[n] IN
    /\ at = "rekeying"
    /\ IF r.key \notin tables[r.to]
       THEN Refused
       ELSE /\ tables' = [tables EXCEPT ![r.to] = (@ \ {r.key}) \union {r.newkey}]
            /\ AfterRename
            /\ UNCHANGED holds
    /\ UNCHANGED <<crashes, torn>>

\* CREATE TABLE IF NOT EXISTS leaves a table as it is; the index on it is
\* refused when the column is not there.
CreateTable ==
    LET name == Created[n]
        columns == IF name \in Here THEN tables[name] ELSE Layout[name]
    IN  /\ at = "creating" /\ n <= Len(Created)
        /\ IF Indexed[name] \subseteq columns
           THEN /\ tables' = [t \in Here \union {name} |-> IF t = name THEN columns ELSE tables[t]]
                /\ Go("creating", n + 1)
                /\ UNCHANGED holds
           ELSE Refused
        /\ UNCHANGED <<crashes, torn>>

Created_All ==
    /\ at = "creating" /\ n > Len(Created)
    /\ Go("adding", 1)
    /\ UNCHANGED <<tables, holds, crashes, torn>>

Missing_Anyway(a) == TRUE

\* Each column is looked for on its own, right before it is added.
Missing(a) == a.column \notin tables[a.table]

AddColumn ==
    LET a == Additions[n] IN
    /\ at = "adding" /\ n <= Len(Additions)
    /\ IF Missing(a) /\ a.column \in tables[a.table]
       THEN Refused
       ELSE /\ tables' = IF Missing(a) THEN [tables EXCEPT ![a.table] = @ \union {a.column}] ELSE tables
            /\ Go("adding", n + 1)
            /\ UNCHANGED holds
    /\ UNCHANGED <<crashes, torn>>

Serve ==
    /\ at = "adding" /\ n > Len(Additions)
    /\ Go("serving", 1)
    /\ UNCHANGED <<tables, holds, crashes, torn>>

\* The container is stopped, killed or replaced: nothing is undone.
Crash ==
    /\ at # "down" /\ crashes < MaxCrashes
    /\ crashes' = crashes + 1
    /\ torn' = (torn \/ at = "rekeying" \/ (at = "renaming" /\ n > 1))
    /\ Go("down", 1)
    /\ UNCHANGED <<tables, holds>>

InitDb == RenameTable \/ RenameColumn \/ CreateTable \/ Created_All \/ AddColumn \/ Serve

Next == Start \/ InitDb \/ Crash

\* The container is started again whenever it ends (restart: unless-stopped).
Fairness == WF_vars(Start) /\ WF_vars(InitDb)

Spec == Init /\ [][Next]_vars /\ Fairness

----------------------------------------------------------------------------
(* Safety *)

\* _rename_legacy_rule_chain_tables says that it must run before the script,
\* which would otherwise be "silently stranding the real data under the old
\* name": people's layers, hosts and rules are where the service looks.
RowsReachable ==
    at = "serving" =>
        \A r \in DOMAIN Renames :
            /\ holds[r] = Renames[r].to
            /\ Renames[r].newkey \in tables[Renames[r].to]

\* Whichever version left the database, and however often the service was
\* stopped before it finished (but for a stop among the renames), a service
\* that runs finds every table, every column, and every row of the tables that
\* were renamed.
ServesWhole ==
    at = "serving" /\ ~torn =>
        /\ \A t \in DOMAIN Created :
            Created[t] \in Here /\ Wanted(Created[t]) \subseteq tables[Created[t]]
        /\ RowsReachable

----------------------------------------------------------------------------
(* Liveness *)

\* No database keeps the service from starting in the end: what was done
\* before a stop never makes a statement fail for ever, but for a stop among
\* the renames.
ComesUp == []<>(at = "serving") \/ <>torn
=============================================================================
