------------------------- MODULE PolicyTablesProofs -------------------------
(***************************************************************************)
(* What holds of the tables of the policy layers, for any values of the    *)
(* constants: first that they survive what init_db does to them each time  *)
(* the service starts (Migrations, whose renamed tables are theirs), then  *)
(* what requests, `casper policy apply` and a machine's daemon make of     *)
(* them (Policy).                                                          *)
(*                                                                         *)
(* Migrations.  The invariant that carries it, Shape: wherever init_db is, *)
(* the renames before the current one are done and those after it have not *)
(* begun; no table that is there lacks a column that nothing will add; and *)
(* the tables and columns up to the current statement are there.  A stop   *)
(* among the renames breaks it, and only such a stop: from anywhere else,  *)
(* "down" is a database that an earlier version might have left.           *)
(*                                                                         *)
(* Policy.  It rests on what ORDER BY makes of a finite set (InOrder) and  *)
(* on three invariants.  OrderInv: no two rules of a layer share a         *)
(* position, a rule about to be added goes behind all there are, and an    *)
(* order about to be written has all of them; two requests at the same     *)
(* time on one layer break it, and raced remembers them.  FreshInv: what a *)
(* current fetch has got, with what the layers it has still to read say    *)
(* now, is all there is.  ApplyInv: an apply that has its layer for itself *)
(* has sent off the first rules of its file, in their places.              *)
(***************************************************************************)
EXTENDS Migrations, Policy, SequenceTheorems, FiniteSetTheorems, TLAPS

----------------------------------------------------------------------------
(* MIGRATIONS *)

\* A rename that has not begun, is done but for its column, or is done.
Unnamed(r) ==
    /\ Renames[r].from \in Here /\ Renames[r].to \notin Here
    /\ holds[r] = Renames[r].from
    /\ Renames[r].key \in tables[Renames[r].from]
    /\ Fits((tables[Renames[r].from] \ {Renames[r].key}) \union {Renames[r].newkey}, Renames[r].to)
HalfNamed(r) ==
    /\ Renames[r].from \notin Here /\ Renames[r].to \in Here
    /\ holds[r] = Renames[r].to
    /\ Renames[r].key \in tables[Renames[r].to]
    /\ Fits((tables[Renames[r].to] \ {Renames[r].key}) \union {Renames[r].newkey}, Renames[r].to)
FullyNamed(r) == Renames[r].from \notin Here /\ holds[r] = Renames[r].to

NoneNamed == \A r \in DOMAIN Renames : Unnamed(r)
AllNamed == \A r \in DOMAIN Renames : FullyNamed(r)
NamedBefore == \A r \in DOMAIN Renames : r < n => FullyNamed(r)
UnnamedFrom(m) == \A r \in DOMAIN Renames : r >= m => Unnamed(r)

FitBut(names) == \A name \in (Here \intersect DOMAIN Layout) \ names : Fits(tables[name], name)

Made == \A t \in DOMAIN Created : Created[t] \in Here
MadeBefore == \A t \in DOMAIN Created : t < n => Created[t] \in Here
HasAdded(a) == Additions[a].column \in tables[Additions[a].table]

Settled == AllNamed /\ FitBut({})

DownShape == at = "down" => (NoneNamed \/ AllNamed) /\ FitBut({})
RenamingShape ==
    at = "renaming" => n \in DOMAIN Renames /\ NamedBefore /\ UnnamedFrom(n) /\ FitBut({})
RekeyingShape ==
    at = "rekeying" =>
        /\ n \in DOMAIN Renames
        /\ HalfNamed(n) /\ NamedBefore /\ UnnamedFrom(n + 1) /\ FitBut({Renames[n].to})
CreatingShape == at = "creating" => Settled /\ MadeBefore
AddingShape ==
    at = "adding" => Settled /\ Made /\ \A a \in DOMAIN Additions : a < n => HasAdded(a)
ServingShape ==
    at = "serving" => Settled /\ Made /\ \A a \in DOMAIN Additions : HasAdded(a)

Shape ==
    DownShape /\ RenamingShape /\ RekeyingShape /\ CreatingShape /\ AddingShape /\ ServingShape

Inv == TypeOK /\ (~torn => Shape)

----------------------------------------------------------------------------
(* The schema *)

LEMMA Elements ==
    ASSUME NEW S, NEW seq \in Seq(S)
    PROVE  Len(seq) \in Nat /\ DOMAIN seq = 1 .. Len(seq) /\ \A i \in DOMAIN seq : seq[i] \in S
OBVIOUS

LEMMA RenamesFit ==
    /\ Len(Renames) \in Nat /\ DOMAIN Renames = 1 .. Len(Renames)
    /\ 1 \in DOMAIN Renames
    /\ \A r \in DOMAIN Renames :
        /\ Renames[r].from \in STRING /\ Renames[r].to \in STRING
        /\ Renames[r].key \in STRING /\ Renames[r].newkey \in STRING
<1>1. /\ Renames # <<>>
      /\ Renames \in Seq([from : STRING, to : STRING, key : STRING, newkey : STRING])
  BY MigrationsAssumption DEF SchemaAssumption
<1>2. /\ Len(Renames) \in Nat /\ DOMAIN Renames = 1 .. Len(Renames)
      /\ \A r \in DOMAIN Renames : Renames[r] \in [from : STRING, to : STRING, key : STRING, newkey : STRING]
  BY <1>1, Elements, Zenon
<1>3. Len(Renames) # 0
  BY <1>1, EmptySeq
<1> QED BY <1>2, <1>3

LEMMA NamesApart ==
    \A r, s \in DOMAIN Renames :
        /\ Renames[r].from # Renames[s].to
        /\ r # s => Renames[r].from # Renames[s].from /\ Renames[r].to # Renames[s].to
BY MigrationsAssumption DEF SchemaAssumption

LEMMA ScriptFits ==
    /\ Len(Created) \in Nat /\ DOMAIN Created = 1 .. Len(Created)
    /\ \A t \in DOMAIN Created : Created[t] \in DOMAIN Layout
    /\ DOMAIN Layout \subseteq STRING
    /\ \A name \in DOMAIN Layout : Layout[name] \subseteq STRING
<1>1. /\ Created \in Seq(DOMAIN Layout)
      /\ DOMAIN Layout \subseteq STRING
      /\ \A name \in DOMAIN Layout : Layout[name] \subseteq STRING
  BY MigrationsAssumption DEF SchemaAssumption
<1> QED BY <1>1, Elements, Zenon

LEMMA AdditionsFit ==
    /\ Len(Additions) \in Nat /\ DOMAIN Additions = 1 .. Len(Additions)
    /\ \A a \in DOMAIN Additions :
        Additions[a].table \in DOMAIN Layout /\ Additions[a].column \in STRING
<1>1. Additions \in Seq([table : DOMAIN Layout, column : STRING])
  BY MigrationsAssumption DEF SchemaAssumption
<1>2. /\ Len(Additions) \in Nat /\ DOMAIN Additions = 1 .. Len(Additions)
      /\ \A a \in DOMAIN Additions : Additions[a] \in [table : DOMAIN Layout, column : STRING]
  BY <1>1, Elements, Zenon
<1> QED BY <1>2

\* A column more never makes a table fit less.
LEMMA FitsMore ==
    ASSUME NEW name, NEW columns, NEW more, Fits(columns, name), columns \subseteq more
    PROVE  Fits(more, name)
BY DEF Fits

----------------------------------------------------------------------------
(* Types *)

LEMMA InitTyped == Init => TypeOK
<1> SUFFICES ASSUME Init PROVE TypeOK
  OBVIOUS
<1>1. DOMAIN tables \subseteq STRING /\ tables \in [DOMAIN tables -> SUBSET STRING]
  BY MigrationsAssumption DEF Init, EraAssumption
<1>2. holds \in [DOMAIN Renames -> STRING]
  BY RenamesFit DEF Init
<1>3. MaxCrashes \in Nat /\ torn \in BOOLEAN
  BY MigrationsAssumption DEF Init
<1>4. /\ at \in {"down", "renaming", "rekeying", "creating", "adding", "serving"}
      /\ n \in Nat \ {0} /\ (at \in {"renaming", "rekeying"} => n \in DOMAIN Renames)
      /\ crashes \in 0 .. MaxCrashes
  BY <1>3 DEF Init
<1> QED BY <1>1, <1>2, <1>3, <1>4 DEF TypeOK

LEMMA NextTyped == TypeOK /\ [Next]_vars => TypeOK'
<1> SUFFICES ASSUME TypeOK, [Next]_vars PROVE TypeOK'
  OBVIOUS
<1>0. n \in Nat /\ DOMAIN tables \subseteq STRING /\ tables \in [DOMAIN tables -> SUBSET STRING]
  BY DEF TypeOK
<1>1. CASE Start
  BY <1>1, RenamesFit DEF Start, TypeOK, Go
<1>2. CASE RenameTable /\ Refused
  BY <1>2 DEF RenameTable, TypeOK, Refused, Go
<1>3. CASE RenameTable /\ ~Refused
  <2> DEFINE r == Renames[n]
             names == (Here \ {r.from}) \union {r.to}
  <2>0. n \in DOMAIN Renames /\ r.to \in STRING
    BY <1>3, RenamesFit DEF RenameTable, TypeOK
  <2>1. /\ r.from \in Here
        /\ tables' = [name \in names |-> IF name = r.to THEN tables[r.from] ELSE tables[name]]
        /\ holds' = [holds EXCEPT ![n] = r.to]
        /\ AfterRename \/ Go("rekeying", n)
        /\ UNCHANGED <<crashes, torn>>
    BY <1>3 DEF RenameTable
  <2>2. DOMAIN tables' \subseteq STRING /\ tables' \in [DOMAIN tables' -> SUBSET STRING]
    BY <1>0, <2>0, <2>1 DEF Here
  <2>3. holds' \in [DOMAIN Renames -> STRING]
    BY <2>0, <2>1 DEF TypeOK
  <2>4. /\ at' \in {"down", "renaming", "rekeying", "creating", "adding", "serving"}
        /\ n' \in Nat \ {0} /\ (at' \in {"renaming", "rekeying"} => n' \in DOMAIN Renames)
    BY <1>0, <2>0, <2>1, RenamesFit DEF AfterRename, Go
  <2> QED BY <2>1, <2>2, <2>3, <2>4 DEF TypeOK
<1>4. CASE RenameColumn
  <2> DEFINE r == Renames[n]
  <2>0. n \in DOMAIN Renames /\ r.newkey \in STRING
    BY <1>4, RenamesFit DEF RenameColumn, TypeOK
  <2>1. CASE Refused
    BY <2>1, <1>4 DEF RenameColumn, TypeOK, Refused, Go
  <2>2. CASE ~Refused
    <3>1. /\ tables' = [tables EXCEPT ![r.to] = (@ \ {r.key}) \union {r.newkey}]
          /\ AfterRename
          /\ UNCHANGED <<holds, crashes, torn>>
      BY <2>2, <1>4 DEF RenameColumn
    <3>2. DOMAIN tables' \subseteq STRING /\ tables' \in [DOMAIN tables' -> SUBSET STRING]
      BY <1>0, <2>0, <3>1
    <3>3. /\ at' \in {"down", "renaming", "rekeying", "creating", "adding", "serving"}
          /\ n' \in Nat \ {0} /\ (at' \in {"renaming", "rekeying"} => n' \in DOMAIN Renames)
      BY <1>0, <2>0, <3>1, RenamesFit DEF AfterRename, Go
    <3> QED BY <3>1, <3>2, <3>3 DEF TypeOK
  <2> QED BY <2>1, <2>2
<1>5. CASE CreateTable
  <2> DEFINE name == Created[n]
             columns == IF name \in Here THEN tables[name] ELSE Layout[name]
  <2>0. n \in DOMAIN Created
    BY <1>0, <1>5, ScriptFits DEF CreateTable, TypeOK
  <2>1. name \in STRING /\ columns \in SUBSET STRING
    BY <1>0, <2>0, ScriptFits DEF Here
  <2>2. CASE Refused
    BY <2>2, <1>5 DEF CreateTable, TypeOK, Refused, Go
  <2>3. CASE ~Refused
    <3>1. /\ tables' = [t \in Here \union {name} |-> IF t = name THEN columns ELSE tables[t]]
          /\ Go("creating", n + 1)
          /\ UNCHANGED <<holds, crashes, torn>>
      BY <2>3, <1>5 DEF CreateTable
    <3>2. DOMAIN tables' \subseteq STRING /\ tables' \in [DOMAIN tables' -> SUBSET STRING]
      BY <1>0, <2>1, <3>1 DEF Here
    <3> QED BY <1>0, <3>1, <3>2 DEF TypeOK, Go
  <2> QED BY <2>2, <2>3
<1>6. CASE Created_All
  BY <1>6 DEF Created_All, TypeOK, Go
<1>7. CASE AddColumn
  <2> DEFINE a == Additions[n]
  <2>0. a.column \in STRING
    BY <1>0, <1>7, AdditionsFit DEF AddColumn, TypeOK
  <2>1. CASE Refused
    BY <2>1, <1>7 DEF AddColumn, TypeOK, Refused, Go
  <2>2. CASE ~Refused
    <3>1. /\ tables' = IF Missing(a) THEN [tables EXCEPT ![a.table] = @ \union {a.column}] ELSE tables
          /\ Go("adding", n + 1)
          /\ UNCHANGED <<holds, crashes, torn>>
      BY <2>2, <1>7 DEF AddColumn
    <3>2. DOMAIN tables' \subseteq STRING /\ tables' \in [DOMAIN tables' -> SUBSET STRING]
      BY <1>0, <2>0, <3>1
    <3> QED BY <1>0, <3>1, <3>2 DEF TypeOK, Go
  <2> QED BY <2>1, <2>2
<1>8. CASE Serve
  BY <1>8 DEF Serve, TypeOK, Go
<1>9. CASE Crash
  <2>1. torn' \in BOOLEAN
    BY <1>9 DEF Crash, TypeOK
  <2>2. crashes' \in 0 .. MaxCrashes
    BY <1>9, MigrationsAssumption DEF Crash, TypeOK
  <2>3. UNCHANGED <<tables, holds>> /\ at' = "down" /\ n' = 1
    BY <1>9 DEF Crash, Go
  <2> QED BY <2>1, <2>2, <2>3 DEF TypeOK
<1>10. CASE UNCHANGED vars
  BY <1>10 DEF vars, TypeOK
<1> QED
  BY <1>1, <1>2, <1>3, <1>4, <1>5, <1>6, <1>7, <1>8, <1>9, <1>10 DEF Next, InitDb

\* Every start, step and stop leaves tables of columns, and init_db at a
\* statement that exists.
THEOREM TypeCorrect == Spec => []TypeOK
<1> QED BY InitTyped, NextTyped, PTL DEF Spec

----------------------------------------------------------------------------
(* Where init_db is, the database is what the statements before it made *)

\* What an earlier version left is a database "down" may find.
LEMMA InitShape == Init => Shape
<1> SUFFICES ASSUME Init PROVE Shape
  OBVIOUS
<1>1. tables \in Eras
  BY DEF Init
<1>2. FitBut({})
  BY <1>1, MigrationsAssumption DEF EraAssumption, FitBut, Here
<1>3. CASE \A r \in DOMAIN Renames : Renames[r].from \notin DOMAIN tables
  <2>1. AllNamed
    BY <1>3 DEF Init, AllNamed, FullyNamed, Here
  <2> QED BY <1>2, <2>1 DEF Init, Shape, DownShape, RenamingShape, RekeyingShape, CreatingShape, AddingShape, ServingShape
<1>4. CASE ~(\A r \in DOMAIN Renames : Renames[r].from \notin DOMAIN tables)
  <2>1. \A r \in DOMAIN Renames :
        /\ Renames[r].from \in DOMAIN tables /\ Renames[r].to \notin DOMAIN tables
        /\ Renames[r].key \in tables[Renames[r].from]
        /\ Fits((tables[Renames[r].from] \ {Renames[r].key}) \union {Renames[r].newkey}, Renames[r].to)
    BY <1>1, <1>4, MigrationsAssumption DEF EraAssumption
  <2>2. NoneNamed
    BY <2>1 DEF Init, NoneNamed, Unnamed, Here
  <2> QED BY <1>2, <2>2 DEF Init, Shape, DownShape, RenamingShape, RekeyingShape, CreatingShape, AddingShape, ServingShape
<1> QED BY <1>3, <1>4

\* One look is enough: the first table stands for all of them.
LEMMA StartShape == TypeOK /\ Shape /\ Start => Shape'
<1> SUFFICES ASSUME TypeOK, Shape, Start PROVE Shape'
  OBVIOUS
<1>1. /\ (NoneNamed \/ AllNamed) /\ FitBut({})
      /\ UNCHANGED <<tables, holds>>
      /\ n' = 1
  BY DEF Start, Go, Shape, DownShape
<1>2. (NoneNamed <=> NoneNamed') /\ (AllNamed <=> AllNamed') /\ FitBut({})'
  BY <1>1 DEF NoneNamed, Unnamed, AllNamed, FullyNamed, FitBut, Here
<1>3. CASE Legacy
  <2>1. NoneNamed
    BY <1>1, <1>3, RenamesFit DEF Legacy, AllNamed, FullyNamed
  <2>2. at' = "renaming"
    BY <1>3 DEF Start, Go
  <2>3. n' \in DOMAIN Renames /\ NamedBefore' /\ UnnamedFrom(n)'
    BY <1>1, <1>2, <2>1, RenamesFit DEF NamedBefore, UnnamedFrom, NoneNamed
  <2> QED BY <1>2, <2>2, <2>3 DEF Shape, DownShape, RenamingShape, RekeyingShape, CreatingShape, AddingShape, ServingShape
<1>4. CASE ~Legacy
  <2>1. AllNamed
    BY <1>1, <1>4, RenamesFit DEF Legacy, NoneNamed, Unnamed
  <2>2. at' = "creating"
    BY <1>4 DEF Start, Go
  <2>3. Settled' /\ MadeBefore'
    BY <1>1, <1>2, <2>1, ScriptFits DEF Settled, MadeBefore
  <2> QED BY <2>2, <2>3 DEF Shape, DownShape, RenamingShape, RekeyingShape, CreatingShape, AddingShape, ServingShape
<1> QED BY <1>3, <1>4

\* The rename at n is done, with its column.
LEMMA AfterRenameShape ==
    ASSUME n \in DOMAIN Renames, AfterRename, FitBut({})',
           \A r \in DOMAIN Renames : r <= n => FullyNamed(r)',
           \A r \in DOMAIN Renames : r > n => Unnamed(r)'
    PROVE  Shape'
<1>0. Len(Renames) \in Nat /\ DOMAIN Renames = 1 .. Len(Renames)
  BY RenamesFit
<1>1. CASE n < Len(Renames)
  <2>1. at' = "renaming" /\ n' = n + 1 /\ n' \in DOMAIN Renames
    BY <1>0, <1>1 DEF AfterRename, Go
  <2>2. NamedBefore' /\ UnnamedFrom(n)'
    BY <1>0, <2>1 DEF NamedBefore, UnnamedFrom
  <2> QED BY <2>1, <2>2 DEF Shape, DownShape, RenamingShape, RekeyingShape, CreatingShape, AddingShape, ServingShape
<1>2. CASE ~(n < Len(Renames))
  <2>1. at' = "creating" /\ n' = 1
    BY <1>2 DEF AfterRename, Go
  <2>2. AllNamed'
    BY <1>0, <1>2 DEF AllNamed
  <2>3. MadeBefore'
    BY <2>1, ScriptFits DEF MadeBefore
  <2> QED BY <2>1, <2>2, <2>3 DEF Settled, Shape, DownShape, RenamingShape, RekeyingShape, CreatingShape, AddingShape, ServingShape
<1> QED BY <1>1, <1>2

\* A table takes its new name, and none of the others notices.
LEMMA RenameTableShape == TypeOK /\ Shape /\ RenameTable => Shape'
<1> SUFFICES ASSUME TypeOK, Shape, RenameTable PROVE Shape'
  OBVIOUS
<1> DEFINE r == Renames[n]
<1>0. DOMAIN Renames \subseteq Nat
  BY RenamesFit
<1>1. n \in DOMAIN Renames /\ NamedBefore /\ UnnamedFrom(n) /\ FitBut({})
  BY DEF RenameTable, Shape, RenamingShape
<1>2. Unnamed(n)
  BY <1>0, <1>1 DEF UnnamedFrom
<1>3. /\ tables' = [name \in (Here \ {r.from}) \union {r.to} |->
                IF name = r.to THEN tables[r.from] ELSE tables[name]]
      /\ holds' = [holds EXCEPT ![n] = r.to]
      /\ IF r.key = r.newkey THEN AfterRename ELSE Go("rekeying", n)
  BY <1>2 DEF RenameTable, Unnamed
<1>4. DOMAIN holds = DOMAIN Renames
  BY DEF TypeOK
<1>5. \A q \in DOMAIN Renames : q < n => FullyNamed(q)'
  <2> SUFFICES ASSUME NEW q \in DOMAIN Renames, q < n PROVE FullyNamed(q)'
    OBVIOUS
  <2>1. FullyNamed(q)
    BY <1>1 DEF NamedBefore
  <2>2. q # n /\ Renames[q].from # r.to
    BY <1>0, <1>1, NamesApart
  <2> QED BY <1>1, <1>3, <1>4, <2>1, <2>2 DEF FullyNamed, Here
<1>6. \A q \in DOMAIN Renames : q > n => Unnamed(q)'
  <2> SUFFICES ASSUME NEW q \in DOMAIN Renames, q > n PROVE Unnamed(q)'
    OBVIOUS
  <2>1. Unnamed(q)
    BY <1>0, <1>1 DEF UnnamedFrom
  <2>2. q # n /\ Renames[q].from # r.to /\ Renames[q].from # r.from /\ Renames[q].to # r.to
    BY <1>0, <1>1, NamesApart
  <2>3. Renames[q].from \in Here' /\ Renames[q].to \notin Here'
    BY <1>3, <2>1, <2>2 DEF Unnamed, Here
  <2>4. tables'[Renames[q].from] = tables[Renames[q].from] /\ holds'[q] = holds[q]
    BY <1>1, <1>3, <1>4, <2>1, <2>2 DEF Unnamed, Here
  <2> QED BY <2>1, <2>3, <2>4 DEF Unnamed
<1>7. \A name \in (Here' \intersect DOMAIN Layout) \ {r.to} : Fits(tables'[name], name)
  BY <1>1, <1>3 DEF FitBut, Here
<1>8. /\ r.from \notin Here' /\ r.to \in Here' /\ holds'[n] = r.to
      /\ tables'[r.to] = tables[r.from]
  BY <1>1, <1>2, <1>3, <1>4, NamesApart DEF Unnamed, Here
<1>9. CASE r.key = r.newkey
  <2>1. (tables[r.from] \ {r.key}) \union {r.newkey} = tables[r.from]
    BY <1>2, <1>9 DEF Unnamed
  <2>2. Fits(tables[r.from], r.to)
    BY <1>2, <2>1 DEF Unnamed
  <2>3. FitBut({})'
    BY <1>7, <1>8, <2>2 DEF FitBut
  <2>4. \A q \in DOMAIN Renames : q = n => FullyNamed(q)'
    BY <1>8 DEF FullyNamed
  <2>5. \A q \in DOMAIN Renames : q <= n => FullyNamed(q)'
    BY <1>0, <1>1, <1>5, <2>4
  <2> QED BY <1>1, <1>3, <1>6, <1>9, <2>3, <2>5, AfterRenameShape
<1>10. CASE r.key # r.newkey
  <2>1. at' = "rekeying" /\ n' = n
    BY <1>3, <1>10 DEF Go
  <2>2. HalfNamed(n)'
    BY <1>2, <1>8, <2>1 DEF HalfNamed, Unnamed
  <2>3. NamedBefore' /\ UnnamedFrom(n + 1)'
    BY <1>0, <1>1, <1>5, <1>6, <2>1 DEF NamedBefore, UnnamedFrom
  <2>4. FitBut({Renames[n].to})'
    BY <1>7, <2>1 DEF FitBut
  <2> QED BY <1>1, <2>1, <2>2, <2>3, <2>4 DEF Shape, DownShape, RenamingShape, RekeyingShape, CreatingShape, AddingShape, ServingShape
<1> QED BY <1>9, <1>10

\* The column of a renamed table follows.
LEMMA RenameColumnShape == TypeOK /\ Shape /\ RenameColumn => Shape'
<1> SUFFICES ASSUME TypeOK, Shape, RenameColumn PROVE Shape'
  OBVIOUS
<1> DEFINE r == Renames[n]
<1>0. DOMAIN Renames \subseteq Nat
  BY RenamesFit
<1>1. n \in DOMAIN Renames /\ HalfNamed(n) /\ NamedBefore /\ UnnamedFrom(n + 1) /\ FitBut({r.to})
  BY DEF RenameColumn, Shape, RekeyingShape
<1>2. /\ tables' = [tables EXCEPT ![r.to] = (@ \ {r.key}) \union {r.newkey}]
      /\ AfterRename
      /\ UNCHANGED holds
  BY <1>1 DEF RenameColumn, HalfNamed
<1>3. /\ Here' = Here
      /\ \A name \in Here \ {r.to} : tables'[name] = tables[name]
      /\ tables'[r.to] = (tables[r.to] \ {r.key}) \union {r.newkey}
  BY <1>1, <1>2 DEF Here, TypeOK, HalfNamed
<1>4. FitBut({})'
  BY <1>1, <1>3 DEF FitBut, HalfNamed
<1>5. \A q \in DOMAIN Renames : q <= n => FullyNamed(q)'
  BY <1>0, <1>1, <1>2, <1>3 DEF NamedBefore, FullyNamed, HalfNamed
<1>6. \A q \in DOMAIN Renames : q > n => Unnamed(q)'
  <2> SUFFICES ASSUME NEW q \in DOMAIN Renames, q > n PROVE Unnamed(q)'
    OBVIOUS
  <2>1. Unnamed(q)
    BY <1>0, <1>1 DEF UnnamedFrom
  <2>2. Renames[q].from # r.to
    BY <1>1, NamesApart
  <2> QED BY <1>2, <1>3, <2>1, <2>2 DEF Unnamed
<1> QED BY <1>1, <1>2, <1>4, <1>5, <1>6, AfterRenameShape

\* What is settled stays so while tables are made and gain columns, as no
\* table is made under an old name.
LEMMA SettledStays ==
    ASSUME Settled, UNCHANGED holds,
           \A name \in Here' : name \in Here \/ name \in DOMAIN Layout,
           \A name \in Here' \intersect DOMAIN Layout : Fits(tables'[name], name)
    PROVE  Settled'
<1>1. AllNamed'
  <2>1. \A r \in DOMAIN Renames : Renames[r].from \notin DOMAIN Layout
    BY MigrationsAssumption DEF SchemaAssumption
  <2> QED BY <2>1 DEF Settled, AllNamed, FullyNamed
<1>2. FitBut({})'
  BY DEF FitBut
<1> QED BY <1>1, <1>2 DEF Settled

LEMMA CreateTableShape == TypeOK /\ Shape /\ CreateTable => Shape'
<1> SUFFICES ASSUME TypeOK, Shape, CreateTable PROVE Shape'
  OBVIOUS
<1> DEFINE name == Created[n]
           columns == IF name \in Here THEN tables[name] ELSE Layout[name]
<1>1. Settled /\ MadeBefore
  BY DEF CreateTable, Shape, CreatingShape
<1>2. n \in DOMAIN Created /\ name \in DOMAIN Layout
  BY ScriptFits DEF CreateTable, TypeOK
<1>3. CASE Refused
  BY <1>1, <1>3 DEF Refused, Go, Settled, AllNamed, FullyNamed, FitBut, Here, Shape, DownShape, RenamingShape, RekeyingShape, CreatingShape, AddingShape, ServingShape
<1>4. CASE ~Refused
  <2>1. /\ tables' = [t \in Here \union {name} |-> IF t = name THEN columns ELSE tables[t]]
        /\ at' = "creating" /\ n' = n + 1
        /\ UNCHANGED holds
    BY <1>4 DEF CreateTable, Go
  <2>2. Here' = Here \union {name}
    BY <2>1 DEF Here
  <2>3. Fits(columns, name)
    BY <1>1, <1>2 DEF Settled, FitBut, Fits
  <2>4. \A t \in Here' \intersect DOMAIN Layout : Fits(tables'[t], t)
    BY <1>1, <2>1, <2>2, <2>3 DEF Settled, FitBut
  <2>5. Settled'
    BY <1>1, <1>2, <2>1, <2>2, <2>4, SettledStays
  <2>6. MadeBefore'
    BY <1>1, <1>2, <2>1, <2>2, ScriptFits DEF MadeBefore
  <2> QED BY <2>1, <2>5, <2>6 DEF Shape, DownShape, RenamingShape, RekeyingShape, CreatingShape, AddingShape, ServingShape
<1> QED BY <1>3, <1>4

LEMMA CreatedAllShape == TypeOK /\ Shape /\ Created_All => Shape'
<1> SUFFICES ASSUME TypeOK, Shape, Created_All PROVE Shape'
  OBVIOUS
<1>1. Settled /\ MadeBefore /\ n > Len(Created)
  BY DEF Created_All, Shape, CreatingShape
<1>2. at' = "adding" /\ n' = 1 /\ UNCHANGED <<tables, holds>>
  BY DEF Created_All, Go
<1>3. Settled'
  BY <1>1, <1>2 DEF Settled, AllNamed, FullyNamed, FitBut, Here
<1>4. Made
  BY <1>1, ScriptFits DEF Made, MadeBefore, TypeOK
<1>5. Made' /\ \A a \in DOMAIN Additions : ~(a < n')
  BY <1>2, <1>4, AdditionsFit DEF Made, Here
<1> QED BY <1>2, <1>3, <1>5 DEF Shape, DownShape, RenamingShape, RekeyingShape, CreatingShape, AddingShape, ServingShape

\* A column is added to a table that SCHEMA made, so that it fits the more.
LEMMA AddColumnShape == TypeOK /\ Shape /\ AddColumn => Shape'
<1> SUFFICES ASSUME TypeOK, Shape, AddColumn PROVE Shape'
  OBVIOUS
<1> DEFINE added == Additions[n]
<1>0. DOMAIN Additions \subseteq Nat /\ n \in DOMAIN Additions /\ added.table \in DOMAIN Layout
  BY AdditionsFit DEF AddColumn, TypeOK
<1>1. Settled /\ Made /\ \A a \in DOMAIN Additions : a < n => HasAdded(a)
  BY DEF AddColumn, Shape, AddingShape
<1>2. \A name \in DOMAIN Layout : name \in Here
  BY <1>1, MigrationsAssumption DEF SchemaAssumption, Made
<1>3. /\ tables' = IF Missing(added) THEN [tables EXCEPT ![added.table] = @ \union {added.column}] ELSE tables
      /\ at' = "adding" /\ n' = n + 1
      /\ UNCHANGED holds
  BY DEF AddColumn, Missing, Go
<1>4. Here' = Here
  BY <1>3 DEF Here, TypeOK
<1>5. \A name \in Here : tables[name] \subseteq tables'[name]
  BY <1>0, <1>2, <1>3 DEF Here, TypeOK
<1>6. added.column \in tables'[added.table]
  BY <1>0, <1>2, <1>3 DEF Here, TypeOK, Missing
<1>7. Settled'
  <2>1. \A name \in Here' \intersect DOMAIN Layout : Fits(tables'[name], name)
    BY <1>1, <1>4, <1>5, FitsMore DEF Settled, FitBut
  <2> QED BY <1>1, <1>3, <1>4, <2>1, SettledStays
<1>8. Made'
  BY <1>1, <1>4 DEF Made
<1>9. \A a \in DOMAIN Additions : a < n' => HasAdded(a)'
  <2> SUFFICES ASSUME NEW a \in DOMAIN Additions, a < n' PROVE HasAdded(a)'
    OBVIOUS
  <2>1. CASE a = n
    BY <1>6, <2>1 DEF HasAdded
  <2>2. CASE a # n
    <3>1. HasAdded(a) /\ Additions[a].table \in Here
      BY <1>0, <1>1, <1>2, <1>3, <2>2, AdditionsFit
    <3> QED BY <1>5, <3>1 DEF HasAdded
  <2> QED BY <2>1, <2>2
<1> QED BY <1>3, <1>7, <1>8, <1>9 DEF Shape, DownShape, RenamingShape, RekeyingShape, CreatingShape, AddingShape, ServingShape

LEMMA ServeShape == TypeOK /\ Shape /\ Serve => Shape'
<1> SUFFICES ASSUME TypeOK, Shape, Serve PROVE Shape'
  OBVIOUS
<1>1. Settled /\ Made /\ n > Len(Additions) /\ \A a \in DOMAIN Additions : a < n => HasAdded(a)
  BY DEF Serve, Shape, AddingShape
<1>2. at' = "serving" /\ UNCHANGED <<tables, holds>>
  BY DEF Serve, Go
<1>3. \A a \in DOMAIN Additions : HasAdded(a)
  BY <1>1, AdditionsFit DEF TypeOK
<1>4. Settled' /\ Made' /\ \A a \in DOMAIN Additions : HasAdded(a)'
  BY <1>1, <1>2, <1>3 DEF Settled, AllNamed, FullyNamed, FitBut, Made, HasAdded, Here
<1> QED BY <1>2, <1>4 DEF Shape, DownShape, RenamingShape, RekeyingShape, CreatingShape, AddingShape, ServingShape

\* A stop that is not among the renames leaves all of them named, or none.
LEMMA CrashShape == TypeOK /\ Shape /\ Crash /\ ~torn' => Shape'
<1> SUFFICES ASSUME TypeOK, Shape, Crash, ~torn' PROVE Shape'
  OBVIOUS
<1>1. at' = "down" /\ UNCHANGED <<tables, holds>>
  BY DEF Crash, Go
<1>2. at # "down" /\ at # "rekeying" /\ ~(at = "renaming" /\ n > 1)
  BY DEF Crash
<1>3. (NoneNamed \/ AllNamed) /\ FitBut({})
  <2>1. CASE at = "renaming"
    <3>1. n = 1
      BY <1>2, <2>1 DEF TypeOK
    <3>2. UnnamedFrom(1) /\ FitBut({})
      BY <2>1, <3>1 DEF Shape, RenamingShape
    <3> QED BY <3>2, RenamesFit DEF UnnamedFrom, NoneNamed
  <2>2. CASE at \in {"creating", "adding", "serving"}
    BY <2>2 DEF Shape, CreatingShape, AddingShape, ServingShape, Settled
  <2> QED BY <1>2, <2>1, <2>2 DEF TypeOK
<1>4. (NoneNamed \/ AllNamed)' /\ FitBut({})'
  BY <1>1, <1>3 DEF NoneNamed, Unnamed, AllNamed, FullyNamed, FitBut, Here
<1> QED BY <1>1, <1>4 DEF Shape, DownShape, RenamingShape, RekeyingShape, CreatingShape, AddingShape, ServingShape

LEMMA StutterShape == Shape /\ UNCHANGED vars => Shape'
<1> SUFFICES ASSUME Shape, UNCHANGED vars PROVE Shape'
  OBVIOUS
<1>1. UNCHANGED <<tables, holds, at, n>>
  BY DEF vars
<1>2. /\ NoneNamed' <=> NoneNamed
      /\ AllNamed' <=> AllNamed
      /\ NamedBefore' <=> NamedBefore
      /\ UnnamedFrom(n)' <=> UnnamedFrom(n)
      /\ UnnamedFrom(n + 1)' <=> UnnamedFrom(n + 1)
      /\ HalfNamed(n)' <=> HalfNamed(n)
  BY <1>1 DEF NoneNamed, Unnamed, AllNamed, FullyNamed, NamedBefore, UnnamedFrom, HalfNamed, Here
<1>3. /\ FitBut({})' <=> FitBut({})
      /\ FitBut({Renames[n].to})' <=> FitBut({Renames[n].to})
      /\ Made' <=> Made
      /\ MadeBefore' <=> MadeBefore
      /\ \A a \in DOMAIN Additions : HasAdded(a)' <=> HasAdded(a)
  BY <1>1 DEF FitBut, Made, MadeBefore, HasAdded, Here
<1> QED BY <1>1, <1>2, <1>3 DEF Settled, Shape, DownShape, RenamingShape, RekeyingShape, CreatingShape, AddingShape, ServingShape

LEMMA NextInv == Inv /\ [Next]_vars => Inv'
<1> SUFFICES ASSUME Inv, [Next]_vars, ~torn' PROVE Shape'
  BY NextTyped DEF Inv
<1>1. ~torn
  BY DEF Next, InitDb, Start, RenameTable, RenameColumn, CreateTable, Created_All, AddColumn, Serve, Crash, vars
<1>2. TypeOK /\ Shape
  BY <1>1 DEF Inv
<1> QED
  BY <1>2, StartShape, RenameTableShape, RenameColumnShape, CreateTableShape, CreatedAllShape,
     AddColumnShape, ServeShape, CrashShape, StutterShape DEF Next, InitDb

LEMMA ServingServesWhole == Inv => ServesWhole
<1> SUFFICES ASSUME Inv, at = "serving", ~torn PROVE
        /\ \A t \in DOMAIN Created :
            Created[t] \in Here /\ Wanted(Created[t]) \subseteq tables[Created[t]]
        /\ \A r \in DOMAIN Renames :
            holds[r] = Renames[r].to /\ Renames[r].newkey \in tables[Renames[r].to]
  BY DEF ServesWhole, RowsReachable
<1>1. Settled /\ Made /\ \A a \in DOMAIN Additions : HasAdded(a)
  BY DEF Inv, Shape, ServingShape
<1>2. \A name \in DOMAIN Layout : Added(name) \subseteq tables[name]
  BY <1>1 DEF Added, HasAdded
<1>3. \A t \in DOMAIN Created : Created[t] \in Here /\ Created[t] \in DOMAIN Layout
  BY <1>1, ScriptFits DEF Made
<1>4. \A name \in DOMAIN Layout : name \in Here /\ Wanted(name) \subseteq tables[name]
  <2>1. \A name \in DOMAIN Layout : name \in Here
    BY <1>1, MigrationsAssumption DEF SchemaAssumption, Made
  <2> QED BY <1>1, <1>2, <2>1 DEF Settled, FitBut, Fits, Wanted
<1>5. \A r \in DOMAIN Renames :
        /\ Renames[r].to \in DOMAIN Layout
        /\ Renames[r].newkey \in Wanted(Renames[r].to)
  BY MigrationsAssumption DEF SchemaAssumption, Wanted
<1>6. \A r \in DOMAIN Renames : holds[r] = Renames[r].to
  BY <1>1 DEF Settled, AllNamed, FullyNamed
<1> QED BY <1>3, <1>4, <1>5, <1>6

\* Whichever earlier version left the database, and however often the service
\* was stopped outside the renames, a service that runs has every table with
\* every column, and the renamed tables with their rows (init_db).
THEOREM MigrationServesWhole == Spec => []ServesWhole
<1>1. Init => Inv
  BY InitTyped, InitShape DEF Inv
<1> QED BY <1>1, NextInv, ServingServesWhole, PTL DEF Spec

----------------------------------------------------------------------------
(* POLICY *)

----------------------------------------------------------------------------
(* Putting a finite set in order *)

StrictOrder(S, before) ==
    /\ \A x \in S : <<x, x>> \notin before
    /\ \A x, y \in S : x # y => <<x, y>> \in before \/ <<y, x>> \in before
    /\ \A x, y, z \in S : <<x, y>> \in before /\ <<y, z>> \in before => <<x, z>> \in before

Below(S, before, x) == {y \in S : <<y, x>> \in before}

\* How many come before an element is a number less than that of all.
LEMMA RankBound ==
    ASSUME NEW S, IsFiniteSet(S), NEW before, StrictOrder(S, before), NEW x \in S
    PROVE  /\ IsFiniteSet(Below(S, before, x))
           /\ Cardinality(Below(S, before, x)) \in 0 .. Cardinality(S) - 1
<1>1. Below(S, before, x) \in SUBSET (S \ {x})
  BY DEF Below, StrictOrder
<1>2. IsFiniteSet(S \ {x}) /\ Cardinality(S \ {x}) = Cardinality(S) - 1
  BY FS_RemoveElement
<1>3. /\ IsFiniteSet(Below(S, before, x))
      /\ Cardinality(Below(S, before, x)) <= Cardinality(S \ {x})
  BY <1>1, <1>2, FS_Subset
<1>4. Cardinality(Below(S, before, x)) \in Nat /\ Cardinality(S) \in Nat
  BY <1>3, FS_CardinalityType
<1> QED BY <1>2, <1>3, <1>4

\* And it grows along the order.
LEMMA RankGrows ==
    ASSUME NEW S, IsFiniteSet(S), NEW before, StrictOrder(S, before),
           NEW x \in S, NEW y \in S, <<x, y>> \in before
    PROVE  Cardinality(Below(S, before, x)) < Cardinality(Below(S, before, y))
<1>1. /\ Below(S, before, x) \in SUBSET Below(S, before, y)
      /\ x \in Below(S, before, y) /\ x \notin Below(S, before, x)
  BY DEF Below, StrictOrder
<1>2. /\ IsFiniteSet(Below(S, before, y))
      /\ Cardinality(Below(S, before, x)) \in Nat /\ Cardinality(Below(S, before, y)) \in Nat
  BY RankBound
<1>3. /\ Cardinality(Below(S, before, x)) <= Cardinality(Below(S, before, y))
      /\ Cardinality(Below(S, before, x)) = Cardinality(Below(S, before, y))
            => Below(S, before, x) = Below(S, before, y)
  BY <1>1, <1>2, FS_Subset
<1> QED BY <1>1, <1>2, <1>3

\* InOrder lists a finite set, every element once, each after those before it.
LEMMA InOrderLists ==
    ASSUME NEW S, IsFiniteSet(S), NEW before, StrictOrder(S, before)
    PROVE  /\ InOrder(S, before) \in [1 .. Cardinality(S) -> S]
           /\ \A x \in S : \E k \in 1 .. Cardinality(S) : InOrder(S, before)[k] = x
           /\ \A i, j \in 1 .. Cardinality(S) :
                i < j => <<InOrder(S, before)[i], InOrder(S, before)[j]>> \in before
<1> DEFINE size == Cardinality(S)
           rank == [x \in S |-> Cardinality(Below(S, before, x)) + 1]
<1>1. size \in Nat
  BY FS_CardinalityType
<1>2. \A x \in S : rank[x] = Cardinality(Below(S, before, x)) + 1 /\ rank[x] \in 1 .. size
  BY <1>1, RankBound
<1>3. \A x, y \in S : <<x, y>> \in before => rank[x] < rank[y]
  BY RankGrows, RankBound
<1>4. rank \in Injection(S, 1 .. size)
  <2>1. rank \in [S -> 1 .. size]
    BY <1>2
  <2> HIDE DEF rank, size
  <2>2. ASSUME NEW x \in S, NEW y \in S, rank[x] = rank[y]
        PROVE  x = y
    <3>1. rank[x] \in Nat /\ rank[y] \in Nat
      BY <1>1, <1>2
    <3>2. <<x, y>> \notin before /\ <<y, x>> \notin before
      BY <1>3, <2>2, <3>1
    <3> QED BY <3>2 DEF StrictOrder
  <2> QED BY <2>1, <2>2 DEF Injection, IsInjective
<1>5. IsFiniteSet(1 .. size) /\ Cardinality(1 .. size) = size
  BY <1>1, FS_Interval
<1>6. rank \in Surjection(S, 1 .. size)
  BY <1>4, <1>5, FS_Injection
<1>7. \A k \in 1 .. size : \E x \in S : rank[x] = k
  BY <1>6 DEF Surjection
<1>8. ASSUME NEW k \in 1 .. size
      PROVE  InOrder(S, before)[k] \in S /\ rank[InOrder(S, before)[k]] = k
  <2>1. \E x \in S : Cardinality({y \in S : <<y, x>> \in before}) = k - 1
    <3>1. PICK x \in S : rank[x] = k
      BY <1>7
    <3>2. Cardinality(Below(S, before, x)) = k - 1
      BY <1>1, <1>2, <3>1, RankBound
    <3> QED BY <3>2 DEF Below
  <2>2. InOrder(S, before)[k] = CHOOSE x \in S : Cardinality({y \in S : <<y, x>> \in before}) = k - 1
    BY DEF InOrder
  <2>3. /\ InOrder(S, before)[k] \in S
        /\ Cardinality(Below(S, before, InOrder(S, before)[k])) = k - 1
    BY <2>1, <2>2 DEF Below
  <2> QED BY <1>2, <2>3
<1> HIDE DEF rank
<1>9. InOrder(S, before) \in [1 .. size -> S]
  BY <1>8 DEF InOrder
<1>10. \A x \in S : \E k \in 1 .. size : InOrder(S, before)[k] = x
  <2> TAKE x \in S
  <2>1. rank[x] \in 1 .. size
    BY <1>2
  <2>2. InOrder(S, before)[rank[x]] \in S /\ rank[InOrder(S, before)[rank[x]]] = rank[x]
    BY <1>8, <2>1
  <2> QED BY <1>4, <2>1, <2>2 DEF Injection, IsInjective
<1>11. ASSUME NEW i \in 1 .. size, NEW j \in 1 .. size, i < j
       PROVE  <<InOrder(S, before)[i], InOrder(S, before)[j]>> \in before
  <2> DEFINE x == InOrder(S, before)[i]
             y == InOrder(S, before)[j]
  <2>1. x \in S /\ y \in S /\ rank[x] = i /\ rank[y] = j
    BY <1>8
  <2> HIDE DEF x, y
  <2>2. x # y /\ <<y, x>> \notin before
    BY <1>3, <1>11, <2>1
  <2>3. <<x, y>> \in before
    BY <2>1, <2>2 DEF StrictOrder
  <2> QED BY <2>3 DEF x, y
<1> QED BY <1>9, <1>10, <1>11

\* And it is the only way to do so.
LEMMA InOrderIs ==
    ASSUME NEW S, NEW before, StrictOrder(S, before),
           NEW m \in Nat, NEW t \in [1 .. m -> S],
           \A x \in S : \E k \in 1 .. m : t[k] = x,
           \A i, j \in 1 .. m : i < j => <<t[i], t[j]>> \in before
    PROVE  InOrder(S, before) = t
<1>1. \A i, j \in 1 .. m : t[i] = t[j] => i = j
  <2> SUFFICES ASSUME NEW i \in 1 .. m, NEW j \in 1 .. m, t[i] = t[j], i < j
               PROVE  FALSE
    OBVIOUS
  <2> QED BY DEF StrictOrder
<1>2. t \in Bijection(1 .. m, S)
  BY <1>1 DEF Bijection, Injection, Surjection, IsInjective
<1>3. Cardinality(S) = m
  BY <1>2, FS_CountingElements DEF ExistsBijection
<1>4. ASSUME NEW k \in 1 .. m
      PROVE  Cardinality(Below(S, before, t[k])) = k - 1
  <2> DEFINE T == Below(S, before, t[k])
             first == [i \in 1 .. k - 1 |-> t[i]]
  <2>1. \A i \in 1 .. m : <<t[i], t[k]>> \in before => i < k
    <3> TAKE i \in 1 .. m
    <3>1. ASSUME k < i, <<t[i], t[k]>> \in before
          PROVE  FALSE
      <4>1. <<t[k], t[i]>> \in before
        BY <3>1
      <4> QED BY <3>1, <4>1 DEF StrictOrder
    <3>2. <<t[k], t[k]>> \notin before
      BY DEF StrictOrder
    <3> QED BY <3>1, <3>2
  <2>2. first \in [1 .. k - 1 -> T]
    BY DEF Below
  <2>3. \A x \in T : \E i \in 1 .. k - 1 : first[i] = x
    BY <2>1 DEF Below
  <2>4. \A i, j \in 1 .. k - 1 : first[i] = first[j] => i = j
    BY <1>1
  <2> HIDE DEF first, T
  <2>5. first \in Bijection(1 .. k - 1, T)
    BY <2>2, <2>3, <2>4 DEF Bijection, Injection, Surjection, IsInjective
  <2>6. k - 1 \in Nat
    OBVIOUS
  <2>7. Cardinality(T) = k - 1
    BY <2>5, <2>6, FS_CountingElements DEF ExistsBijection
  <2> QED BY <2>7 DEF T
<1>5. ASSUME NEW k \in 1 .. m
      PROVE  InOrder(S, before)[k] = t[k]
  <2>1. \A x \in S : Cardinality(Below(S, before, x)) = k - 1 <=> x = t[k]
    <3> TAKE x \in S
    <3>1. PICK j \in 1 .. m : x = t[j]
      OBVIOUS
    <3>2. Cardinality(Below(S, before, x)) = j - 1
      BY <1>4, <3>1
    <3> QED BY <1>4, <3>1, <3>2
  <2>2. InOrder(S, before)[k] = CHOOSE x \in S : Cardinality(Below(S, before, x)) = k - 1
    BY <1>3 DEF InOrder, Below
  <2> QED BY <2>1, <2>2
<1> QED BY <1>3, <1>5 DEF InOrder

\* A finite set of numbers that is not empty has a greatest.
LEMMA Greatest ==
    ASSUME NEW S \in SUBSET Nat, IsFiniteSet(S), S # {}
    PROVE  Max(S) \in S /\ \A y \in S : y <= Max(S)
<1> DEFINE less == {p \in S \X S : p[1] < p[2]}
           s == InOrder(S, less)
           size == Cardinality(S)
<1>1. StrictOrder(S, less)
  BY DEF StrictOrder
<1>2. size \in Nat /\ size # 0
  BY FS_CardinalityType, FS_EmptySet
<1> HIDE DEF size
<1>3. /\ s \in [1 .. size -> S]
      /\ \A x \in S : \E k \in 1 .. size : s[k] = x
      /\ \A i, j \in 1 .. size : i < j => <<s[i], s[j]>> \in less
  BY <1>1, InOrderLists DEF size
<1> HIDE DEF s
<1>4. size \in 1 .. size
  BY <1>2
<1>5. \A x \in S : x <= s[size]
  <2> TAKE x \in S
  <2>1. PICK k \in 1 .. size : s[k] = x
    BY <1>3
  <2>2. CASE k = size
    BY <1>3, <2>1, <2>2
  <2>3. CASE k < size
    <3>1. <<s[k], s[size]>> \in less
      BY <1>2, <1>3, <2>3
    <3>2. s[k] < s[size]
      BY <3>1
    <3>3. s[k] \in S /\ s[size] \in S
      BY <1>3, <1>4
    <3>4. s[k] \in Nat /\ s[size] \in Nat
      BY <3>3
    <3> QED BY <2>1, <3>2, <3>4
  <2> QED BY <1>2, <2>2, <2>3
<1>6. \E x \in S : \A y \in S : x >= y
  <2>1. s[size] \in S
    BY <1>3, <1>4
  <2>2. \A y \in S : s[size] >= y
    BY <1>5, <2>1
  <2> QED BY <2>1, <2>2
<1>7. Max(S) \in S /\ \A y \in S : Max(S) >= y
  BY <1>6 DEF Max
<1> QED BY <1>7


----------------------------------------------------------------------------
(* The invariants *)

\* What is written, or about to be, is about layers that were made, and a new
\* order about rules of its own layer.
Known ==
    /\ \A id \in DOMAIN rules : rules[id].layer \in DOMAIN owner
    /\ \A q \in Requests : request[q] # Nobody => request[q].layer \in DOMAIN owner
    /\ \A q \in Requests : request[q] # Nobody /\ request[q].do = "reorder" =>
        \A id \in Range(request[q].order) :
            id \in 1 .. made /\ (id \in DOMAIN rules => rules[id].layer = request[q].layer)

\* No two rules of the layer have one position, a rule about to be added goes
\* after all of them, and a new order has all of them.
Apart(l) == \A a, b \in RuleIds(l) : a # b => rules[a].pos # rules[b].pos
AddsLast(l) ==
    \A q \in Requests : request[q] # Nobody /\ request[q].do = "insert" /\ request[q].layer = l =>
        \A id \in RuleIds(l) : rules[id].pos < request[q].pos
OrdersAll(l) ==
    \A q \in Requests : request[q] # Nobody /\ request[q].do = "reorder" /\ request[q].layer = l =>
        RuleIds(l) \subseteq Range(request[q].order)
InOneOrder(l) == Apart(l) /\ AddsLast(l) /\ OrdersAll(l)

OrderInv == PolicyTypeOK /\ Known /\ \A l \in LayerIds \ raced : InOneOrder(l)

\* The first k rules of the file, in their places, and nothing else.
Holds(l, k) ==
    /\ \A id \in RuleIds(l) : rules[id].pos < k /\ rules[id].says = Loaded[rules[id].pos + 1]
    /\ Apart(l)
    /\ \A i \in 1 .. k : \E id \in RuleIds(l) : rules[id].pos = i - 1

\* The rules sent off so far are the first of the file, the rest is left, and the
\* one under way, if any, is to have its place in the file.
Filled ==
    \E l \in LayerIds, k \in 0 .. Len(Loaded) :
        /\ apply.layer = l /\ Len(apply.left) = Len(Loaded) - k
        /\ \A i \in 1 .. Len(Loaded) - k : apply.left[i] = Loaded[k + i]
        /\ request[Cli] = Nobody => Holds(l, k)
        /\ request[Cli] # Nobody =>
            /\ k >= 1 /\ Holds(l, k - 1)
            /\ request[Cli].pos = k - 1 /\ request[Cli].says = Loaded[k]

CliAdds ==
    request[Cli] # Nobody =>
        apply.at = "filling" /\ request[Cli].do = "insert" /\ request[Cli].layer = apply.layer

\* Where an apply that has its layer for itself has got to.
Progress ==
    /\ CliAdds
    /\ apply.at \in {"creating", "emptying"} => apply.left = Loaded
    /\ apply.at = "done" => apply.left = <<>>
    /\ apply.at = "emptying" /\ apply.alone =>
        \E l \in LayerIds : apply.layer = l /\ RuleIds(l) \subseteq apply.old
    /\ apply.at \in {"filling", "done"} /\ apply.alone => Filled

ApplyInv == PolicyTypeOK /\ Known /\ Progress

SentNow(l) == [id |-> l, rules |-> RulesOf(l)]
Now(u) == {SentNow(l) : l \in FetchedFor(u)}

\* A current copy is of all layers as they are, and so is what a current fetch
\* has got, with what it has still to read.
Fresh ==
    /\ \A u \in current : Range(cache[u]) = Now(u)
    /\ \A g \in Fetches : \A u \in Users : fetch[g] # Nobody /\ fetch[g].current /\ fetch[g].user = u =>
        Range(fetch[g].got) \union {SentNow(l) : l \in Range(fetch[g].todo)} = Now(u)

FreshInv == PolicyTypeOK /\ Known /\ Fresh


----------------------------------------------------------------------------
(* What the tables say *)

LEMMA FileLoads == Loaded \in Seq(Rules) /\ Len(Loaded) \in Nat /\ DOMAIN Loaded = 1 .. Len(Loaded)
<1>1. File \in Seq(Range(File)) /\ \A k \in DOMAIN File : RuleFromYaml(File[k]) \in Rules
  BY PolicyAssumption
<1>2. Len(File) \in Nat /\ DOMAIN File = 1 .. Len(File)
  BY <1>1, LenProperties
<1>3. Loaded \in [1 .. Len(File) -> Rules]
  BY <1>1, <1>2 DEF Loaded
<1> QED BY <1>2, <1>3, SeqDef, LenProperties

LEMMA Rows ==
    ASSUME PolicyTypeOK
    PROVE  \A id \in DOMAIN rules :
             /\ id \in 1 .. made /\ id \in Nat
             /\ rules[id] \in Row
             /\ rules[id].layer \in LayerIds /\ rules[id].pos \in Nat /\ rules[id].says \in Rules
BY DEF PolicyTypeOK, Range, Row

LEMMA LayerRows ==
    ASSUME PolicyTypeOK
    PROVE  /\ Len(owner) \in Nat /\ DOMAIN owner = 1 .. Len(owner) /\ Len(owner) <= MaxLayers
           /\ \A l \in DOMAIN owner : l \in LayerIds /\ owner[l] \in Users
           /\ \A l \in Present : l \in DOMAIN owner /\ layers[l] \in Nat
<1>1. /\ owner \in Seq(Users) /\ Len(owner) <= MaxLayers /\ MaxLayers \in Nat
      /\ Present \subseteq DOMAIN owner /\ \A l \in Present : layers[l] \in Nat
  BY PolicyAssumption DEF PolicyTypeOK, Present, Range
<1>2. /\ Len(owner) \in Nat /\ DOMAIN owner = 1 .. Len(owner)
      /\ \A l \in DOMAIN owner : owner[l] \in Users
  BY <1>1, LenProperties, ElementOfSeq
<1> QED BY <1>1, <1>2 DEF LayerIds

\* The rules of a layer are finitely many, and ORDER BY orders them.
ByPosition(l) == {p \in RuleIds(l) \X RuleIds(l) : Before(p[1], p[2])}

LEMMA RuleIdsInOrder ==
    ASSUME PolicyTypeOK, NEW l
    PROVE  /\ RuleIds(l) \subseteq DOMAIN rules
           /\ IsFiniteSet(RuleIds(l))
           /\ StrictOrder(RuleIds(l), ByPosition(l))
<1>1. /\ RuleIds(l) \subseteq DOMAIN rules /\ RuleIds(l) \in SUBSET (1 .. made)
      /\ \A id \in RuleIds(l) : id \in Nat /\ rules[id].pos \in Nat
  BY Rows DEF RuleIds
<1>2. IsFiniteSet(1 .. made)
  BY FS_Interval DEF PolicyTypeOK
<1>3. IsFiniteSet(RuleIds(l))
  BY <1>1, <1>2, FS_Subset
<1>4. StrictOrder(RuleIds(l), ByPosition(l))
  <2>1. ASSUME NEW a \in RuleIds(l), NEW b \in RuleIds(l)
        PROVE  <<a, b>> \in ByPosition(l) <=> Before(a, b)
    BY DEF ByPosition
  <2>2. ASSUME NEW a \in RuleIds(l)
        PROVE  ~Before(a, a)
    BY <1>1 DEF Before
  <2>3. ASSUME NEW a \in RuleIds(l), NEW b \in RuleIds(l), a # b
        PROVE  Before(a, b) \/ Before(b, a)
    BY <1>1, <2>3 DEF Before
  <2>4. ASSUME NEW a \in RuleIds(l), NEW b \in RuleIds(l), NEW c \in RuleIds(l),
               Before(a, b), Before(b, c)
        PROVE  Before(a, c)
    BY <1>1, <2>4 DEF Before
  <2> QED BY <2>1, <2>2, <2>3, <2>4 DEF StrictOrder
<1> QED BY <1>1, <1>3, <1>4

LEMMA RulesOfType ==
    ASSUME PolicyTypeOK, NEW l
    PROVE  RulesOf(l) \in Seq(Rules)
<1> DEFINE size == Cardinality(RuleIds(l))
           ids == InOrder(RuleIds(l), ByPosition(l))
<1>1. size \in Nat
  BY RuleIdsInOrder, FS_CardinalityType
<1>2. ids \in [1 .. size -> RuleIds(l)]
  BY RuleIdsInOrder, InOrderLists
<1>3. RulesOf(l) = [k \in DOMAIN ids |-> rules[ids[k]].says]
  BY DEF RulesOf, ByPosition
<1> HIDE DEF ids, size
<1>4. RulesOf(l) \in [1 .. size -> Rules]
  BY <1>2, <1>3, Rows, RuleIdsInOrder
<1> QED BY <1>1, <1>4, SeqDef

\* So are the layers that a fetch is answered with.
LEMMA FetchedInOrder ==
    ASSUME PolicyTypeOK, NEW u
    PROVE  /\ FetchedFor(u) \subseteq LayerIds /\ IsFiniteSet(FetchedFor(u))
           /\ StrictOrder(FetchedFor(u), ByName(u))
           /\ InOrder(FetchedFor(u), ByName(u)) \in Seq(LayerIds)
           /\ Range(InOrder(FetchedFor(u), ByName(u))) = FetchedFor(u)
<1> DEFINE size == Cardinality(FetchedFor(u))
           ids == InOrder(FetchedFor(u), ByName(u))
<1>1. /\ FetchedFor(u) \in SUBSET LayerIds
      /\ \A l \in FetchedFor(u) : l \in Nat /\ layers[l] \in Nat
  BY LayerRows DEF FetchedFor, LayerIds
<1>2. IsFiniteSet(FetchedFor(u))
  <2>1. IsFiniteSet(LayerIds)
    BY FS_Interval, PolicyAssumption DEF LayerIds
  <2> QED BY <1>1, <2>1, FS_Subset
<1>3. StrictOrder(FetchedFor(u), ByName(u))
  <2> DEFINE Earlier(l, m) == layers[l] < layers[m] \/ (layers[l] = layers[m] /\ l < m)
  <2>1. ASSUME NEW l \in FetchedFor(u), NEW m \in FetchedFor(u)
        PROVE  <<l, m>> \in ByName(u) <=> Earlier(l, m)
    BY DEF ByName
  <2>2. ASSUME NEW l \in FetchedFor(u)
        PROVE  ~Earlier(l, l)
    BY <1>1
  <2>3. ASSUME NEW l \in FetchedFor(u), NEW m \in FetchedFor(u), l # m
        PROVE  Earlier(l, m) \/ Earlier(m, l)
    BY <1>1, <2>3
  <2>4. ASSUME NEW l \in FetchedFor(u), NEW m \in FetchedFor(u), NEW o \in FetchedFor(u),
               Earlier(l, m), Earlier(m, o)
        PROVE  Earlier(l, o)
    BY <1>1, <2>4
  <2> HIDE DEF Earlier
  <2> QED BY <2>1, <2>2, <2>3, <2>4 DEF StrictOrder
<1>4. size \in Nat
  BY <1>2, FS_CardinalityType
<1>5. /\ ids \in [1 .. size -> FetchedFor(u)]
      /\ \A l \in FetchedFor(u) : \E k \in 1 .. size : ids[k] = l
  BY <1>2, <1>3, InOrderLists
<1> HIDE DEF ids, size
<1>6. ids \in Seq(LayerIds)
  BY <1>1, <1>4, <1>5, SeqDef
<1>7. Range(ids) = FetchedFor(u)
  BY <1>5 DEF Range
<1> QED BY <1>1, <1>2, <1>3, <1>6, <1>7 DEF ids

\* The position of a new rule: past every rule's, and right past one's, or 0.
LEMMA NextIsPast ==
    ASSUME PolicyTypeOK, NEW l
    PROVE  /\ NextPosition(l) \in Nat
           /\ \A id \in RuleIds(l) : rules[id].pos < NextPosition(l)
           /\ NextPosition(l) = 0 \/ \E id \in RuleIds(l) : NextPosition(l) = rules[id].pos + 1
<1> DEFINE past == [id \in RuleIds(l) |-> rules[id].pos + 1]
           taken == {rules[id].pos + 1 : id \in RuleIds(l)}
<1>1. \A id \in RuleIds(l) : rules[id].pos \in Nat
  BY Rows, RuleIdsInOrder
<1>2. past \in Surjection(RuleIds(l), taken)
  BY DEF Surjection
<1>3. IsFiniteSet(taken)
  BY <1>2, FS_Surjection, RuleIdsInOrder
<1>4. IsFiniteSet({0} \union taken)
  BY <1>3, FS_Union, FS_Singleton
<1>5. {0} \union taken \in SUBSET Nat /\ {0} \union taken # {}
  BY <1>1
<1>6. NextPosition(l) = Max({0} \union taken)
  BY DEF NextPosition
<1>7. NextPosition(l) \in {0} \union taken /\ \A m \in {0} \union taken : m <= NextPosition(l)
  BY <1>4, <1>5, <1>6, Greatest
<1>8. NextPosition(l) \in Nat
  BY <1>5, <1>7
<1> HIDE DEF past
<1>9. \A id \in RuleIds(l) : rules[id].pos + 1 <= NextPosition(l)
  BY <1>7
<1> QED BY <1>1, <1>7, <1>8, <1>9


----------------------------------------------------------------------------
(* Types *)

TablesTyped ==
    /\ owner \in Seq(Users) /\ Len(owner) <= MaxLayers
    /\ DOMAIN layers \subseteq DOMAIN owner /\ Range(layers) \subseteq Names
    /\ attached \subseteq DOMAIN owner
RulesTyped ==
    /\ made \in 0 .. MaxRules
    /\ DOMAIN rules \subseteq 1 .. made /\ Range(rules) \subseteq Row
RequestsTyped ==
    /\ request \in [Requests -> Insertion \union Attachment \union Reordering \union {Nobody}]
    /\ begun \in 0 .. MaxBegun
DaemonTyped ==
    /\ fetch \in [Fetches -> Fetching \union {Nobody}]
    /\ cache \in [Users -> Seq(Sent)] /\ current \subseteq Users

LEMMA TypeParts ==
    /\ TablesTyped' /\ RulesTyped' /\ RequestsTyped' /\ apply' \in Applying /\ DaemonTyped'
    /\ raced' \subseteq LayerIds
    => PolicyTypeOK'
BY Zenon DEF PolicyTypeOK, TablesTyped, RulesTyped, RequestsTyped, DaemonTyped

\* What a request is, by what it is about to do.
LEMMA RequestKinds ==
    ASSUME PolicyTypeOK, NEW q \in Requests, request[q] # Nobody
    PROVE  /\ request[q] \in Insertion \union Attachment \union Reordering
           /\ request[q].layer \in LayerIds
           /\ request[q].do = "insert" => request[q] \in Insertion
           /\ request[q].do = "attach" => request[q] \in Attachment
           /\ request[q].do = "reorder" => request[q] \in Reordering
BY DEF PolicyTypeOK, Insertion, Attachment, Reordering

LEMMA NobodyIsNone ==
    \A r : r \in Insertion \union Attachment \union Reordering \union Fetching => r # Nobody
BY PolicyAssumption

LEMMA EditedTypes ==
    ASSUME PolicyTypeOK
    PROVE  /\ Edited => DaemonTyped'
           /\ \A q, l : EditedBy(q, l) => DaemonTyped' /\ apply' \in Applying
<1>1. fetch \in [Fetches -> Fetching \union {Nobody}] /\ cache \in [Users -> Seq(Sent)] /\ apply \in Applying
  BY DEF PolicyTypeOK
<1>2. ASSUME NEW f \in Fetches, fetch[f] # Nobody
      PROVE  [fetch[f] EXCEPT !.current = FALSE] \in Fetching
  BY <1>1, <1>2 DEF Fetching
<1>3. ASSUME Edited
      PROVE  DaemonTyped'
  BY <1>1, <1>2, <1>3 DEF Edited, DaemonTyped
<1>4. ASSUME NEW q, NEW l, EditedBy(q, l)
      PROVE  apply' \in Applying
  BY <1>1, <1>4 DEF EditedBy, Applying, Applies
<1> QED BY <1>3, <1>4 DEF EditedBy

\* Rules go, and nothing else of what is known changes.
LEMMA RulesGo ==
    ASSUME PolicyTypeOK, Known, NEW S, S \subseteq DOMAIN rules, rules' = Restrict(rules, S),
           UNCHANGED <<owner, made, request>>
    PROVE  RulesTyped' /\ Known'
<1>1. DOMAIN rules' = S /\ \A id \in S : rules'[id] = rules[id]
  BY DEF Restrict
<1>2. RulesTyped'
  BY <1>1 DEF PolicyTypeOK, RulesTyped, Range
<1>3. Known'
  BY <1>1 DEF Known
<1> QED BY <1>2, <1>3

\* A layer is made: its id is new, and what was known stays.
LEMMA LayerComes ==
    ASSUME PolicyTypeOK, Known, NEW u \in Users, NEW name \in Names, Len(owner) < MaxLayers,
           owner' = Append(owner, u), layers' = With(layers, Len(owner) + 1, name),
           UNCHANGED <<attached, rules, made, request>>
    PROVE  TablesTyped' /\ Known'
<1>1. /\ owner' \in Seq(Users) /\ Len(owner') = Len(owner) + 1
      /\ Len(owner) \in Nat /\ DOMAIN owner = 1 .. Len(owner) /\ DOMAIN owner' = 1 .. Len(owner')
  BY LayerRows, AppendProperties, LenProperties DEF PolicyTypeOK
<1>2. DOMAIN owner \subseteq DOMAIN owner' /\ Len(owner) + 1 \in DOMAIN owner'
  BY <1>1
<1>3. DOMAIN layers' \subseteq DOMAIN owner' /\ Range(layers') \subseteq Names
  BY <1>2 DEF PolicyTypeOK, With, Range
<1>4. TablesTyped'
  BY <1>1, <1>2, <1>3, PolicyAssumption DEF PolicyTypeOK, TablesTyped
<1>5. Known'
  BY <1>2 DEF Known
<1> QED BY <1>4, <1>5

\* A request that is taken up.
LEMMA RequestComes ==
    ASSUME PolicyTypeOK, Known, NEW q \in Requests,
           NEW r \in Insertion \union Attachment \union Reordering, r.layer \in DOMAIN owner,
           r.do = "reorder" => \A id \in Range(r.order) :
                id \in 1 .. made /\ (id \in DOMAIN rules => rules[id].layer = r.layer),
           request' = [request EXCEPT ![q] = r],
           begun' = begun \/ (begun < MaxBegun /\ begun' = begun + 1),
           UNCHANGED <<owner, rules, made>>
    PROVE  RequestsTyped' /\ Known'
<1>1. RequestsTyped'
  BY PolicyAssumption DEF PolicyTypeOK, RequestsTyped
<1>2. request \in [Requests -> Insertion \union Attachment \union Reordering \union {Nobody}]
  BY DEF PolicyTypeOK
<1>3. \A p \in Requests : request'[p] = request[p] \/ request'[p] = r
  BY <1>2
<1>4. Known'
  BY <1>3 DEF Known
<1> QED BY <1>1, <1>4

\* And one that is done.
LEMMA RequestGoes ==
    ASSUME PolicyTypeOK, NEW q \in Requests, request' = [request EXCEPT ![q] = Nobody],
           UNCHANGED begun
    PROVE  /\ RequestsTyped'
           /\ \A p \in Requests : request'[p] = Nobody \/ request'[p] = request[p]
BY DEF PolicyTypeOK, RequestsTyped

LEMMA OrderType ==
    ASSUME PolicyTypeOK, NEW l, NEW order \in SetToSeqs(RuleIds(l))
    PROVE  order \in Seq(1 .. MaxRules) /\ Range(order) = RuleIds(l)
<1> DEFINE size == Cardinality(RuleIds(l))
<1>1. IsFiniteSet(RuleIds(l)) /\ \A id \in RuleIds(l) : id \in 1 .. MaxRules
  BY RuleIdsInOrder, Rows, PolicyAssumption DEF PolicyTypeOK
<1>2. size \in Nat /\ IsFiniteSet(1 .. size) /\ Cardinality(1 .. size) = size
  BY <1>1, FS_CardinalityType, FS_Interval
<1>3. order \in [1 .. size -> RuleIds(l)] /\ \A i, j \in 1 .. size : i # j => order[i] # order[j]
  BY DEF SetToSeqs
<1>4. order \in Injection(1 .. size, RuleIds(l))
  BY <1>3 DEF Injection, IsInjective
<1>5. order \in Surjection(1 .. size, RuleIds(l))
  BY <1>1, <1>2, <1>4, FS_Injection
<1> HIDE DEF size
<1>6. Range(order) = RuleIds(l)
  BY <1>3, <1>5 DEF Surjection, Range
<1>7. order \in Seq(1 .. MaxRules)
  <2>1. order \in [1 .. size -> 1 .. MaxRules]
    BY <1>1, <1>3
  <2> QED BY <1>2, <2>1, SeqDef
<1> QED BY <1>6, <1>7


Typed == PolicyTypeOK /\ Known

\* Rules change, but not their layers, and requests may be done.
LEMMA RowsStay ==
    ASSUME Typed, DOMAIN rules' = DOMAIN rules,
           \A id \in DOMAIN rules : rules'[id] \in Row /\ rules'[id].layer = rules[id].layer,
           \A p \in Requests : request'[p] = Nobody \/ request'[p] = request[p],
           UNCHANGED <<owner, made>>
    PROVE  RulesTyped' /\ Known'
<1>1. RulesTyped'
  BY DEF Typed, PolicyTypeOK, RulesTyped, Range
<1>2. \A id \in DOMAIN rules' : rules'[id].layer \in DOMAIN owner'
  BY DEF Typed, Known
<1>3. \A q \in Requests : request'[q] # Nobody => request'[q].layer \in DOMAIN owner'
  BY DEF Typed, Known
<1>4. ASSUME NEW q \in Requests, request'[q] # Nobody, request'[q].do = "reorder",
             NEW id \in Range(request'[q].order)
      PROVE  id \in 1 .. made' /\ (id \in DOMAIN rules' => rules'[id].layer = request'[q].layer)
  <2>1. request'[q] = request[q]
    BY <1>4
  <2> QED BY <1>4, <2>1 DEF Typed, Known
<1> QED BY <1>1, <1>2, <1>3, <1>4 DEF Known

LEMMA WebStepTypes ==
    ASSUME Typed, NEW q \in Requests, WebStep(q)
    PROVE  Typed'
<1> USE DEF tableVars, daemonVars
<1>1. ASSUME NEW u \in Users, NEW name \in Names, CreateLayer(q, u, name)
      PROVE  Typed'
  <2>1. TablesTyped' /\ Known'
    BY <1>1, LayerComes DEF CreateLayer, Typed
  <2>2. RulesTyped' /\ RequestsTyped' /\ apply' \in Applying /\ DaemonTyped' /\ raced' \subseteq LayerIds
    BY <1>1, PolicyAssumption DEF CreateLayer, Typed, Free, PolicyTypeOK, RulesTyped, RequestsTyped, DaemonTyped
  <2> QED BY <2>1, <2>2, TypeParts DEF Typed
<1>2. ASSUME NEW l \in Present, NEW name \in Names, RenameLayer(q, l, name)
      PROVE  Typed'
  <2>1. DOMAIN layers' = DOMAIN layers /\ Range(layers') \subseteq Names
    BY <1>2 DEF RenameLayer, Typed, PolicyTypeOK, Range
  <2>2. TablesTyped' /\ Known'
    BY <1>2, <2>1 DEF RenameLayer, Typed, PolicyTypeOK, TablesTyped, Known
  <2>3. RulesTyped' /\ RequestsTyped' /\ apply' \in Applying /\ DaemonTyped' /\ raced' \subseteq LayerIds
    BY <1>2, PolicyAssumption DEF RenameLayer, Typed, Free, PolicyTypeOK, RulesTyped, RequestsTyped, DaemonTyped
  <2> QED BY <2>2, <2>3, TypeParts DEF Typed
<1>3. ASSUME NEW l \in Present, DeleteLayer(q, l)
      PROVE  Typed'
  <2>1. RulesTyped' /\ Known'
    BY <1>3, RulesGo DEF DeleteLayer, Typed
  <2>2. TablesTyped'
    BY <1>3 DEF DeleteLayer, Typed, PolicyTypeOK, TablesTyped, Present, Restrict, Range
  <2>3. DaemonTyped' /\ apply' \in Applying
    BY <1>3, EditedTypes DEF DeleteLayer, Typed
  <2>4. RequestsTyped' /\ raced' \subseteq LayerIds
    BY <1>3, PolicyAssumption DEF DeleteLayer, Typed, Free, PolicyTypeOK, RequestsTyped
  <2> QED BY <2>1, <2>2, <2>3, <2>4, TypeParts DEF Typed
<1>4. ASSUME NEW l \in Present, CheckAttach(q, l)
      PROVE  Typed'
  <2> DEFINE r == [do |-> "attach", layer |-> l]
  <2>1. r \in Attachment /\ r.layer \in DOMAIN owner /\ r.do # "reorder"
    BY LayerRows DEF Typed, Attachment
  <2>2. RequestsTyped' /\ Known'
    BY <1>4, <2>1, RequestComes DEF CheckAttach, Free, Typed
  <2>3. TablesTyped' /\ RulesTyped' /\ apply' \in Applying /\ DaemonTyped' /\ raced' \subseteq LayerIds
    BY <1>4 DEF CheckAttach, Typed, PolicyTypeOK, TablesTyped, RulesTyped, DaemonTyped
  <2> QED BY <2>2, <2>3, TypeParts DEF Typed
<1>5. ASSUME NEW l \in Present, Detach(q, l)
      PROVE  Typed'
  <2>1. DaemonTyped'
    BY <1>5, EditedTypes DEF Detach, Typed
  <2>2. TablesTyped' /\ RulesTyped' /\ RequestsTyped' /\ apply' \in Applying /\ raced' \subseteq LayerIds
    BY <1>5, PolicyAssumption DEF Detach, Free, Typed, PolicyTypeOK, TablesTyped, RulesTyped, RequestsTyped
  <2>3. Known'
    BY <1>5 DEF Detach, Typed, Known
  <2> QED BY <2>1, <2>2, <2>3, TypeParts DEF Typed
<1>6. ASSUME NEW l \in Present, NEW says \in Rules, CheckInsert(q, l, says)
      PROVE  Typed'
  <2> DEFINE r == [do |-> "insert", layer |-> l, pos |-> NextPosition(l), says |-> says]
  <2>1. r \in Insertion /\ r.layer \in DOMAIN owner /\ r.do # "reorder"
    BY LayerRows, NextIsPast DEF Typed, Insertion
  <2>2. request' = [request EXCEPT ![q] = r]
    BY <1>6 DEF CheckInsert, PlaceRule
  <2>3. RequestsTyped' /\ Known'
    BY <1>6, <2>1, <2>2, RequestComes DEF CheckInsert, Free, Typed
  <2>4. TablesTyped' /\ RulesTyped' /\ apply' \in Applying /\ DaemonTyped' /\ raced' \subseteq LayerIds
    BY <1>6 DEF CheckInsert, Typed, PolicyTypeOK, TablesTyped, RulesTyped, DaemonTyped
  <2> QED BY <2>3, <2>4, TypeParts DEF Typed
<1>7. ASSUME NEW l \in Present, NEW order \in SetToSeqs(RuleIds(l)), CheckReorder(q, l, order)
      PROVE  Typed'
  <2> DEFINE r == [do |-> "reorder", layer |-> l, order |-> order]
  <2>1. order \in Seq(1 .. MaxRules) /\ Range(order) = RuleIds(l)
    BY OrderType DEF Typed
  <2>2. r \in Reordering /\ r.layer \in DOMAIN owner
    BY <2>1, LayerRows DEF Typed, Reordering
  <2>3. \A id \in Range(r.order) : id \in 1 .. made /\ rules[id].layer = r.layer
    BY <2>1, Rows DEF Typed, RuleIds
  <2>4. request' = [request EXCEPT ![q] = r]
    BY <1>7 DEF CheckReorder
  <2> HIDE DEF r
  <2>5. RequestsTyped' /\ Known'
    BY <1>7, <2>2, <2>3, <2>4, RequestComes DEF CheckReorder, Free, Typed
  <2>6. TablesTyped' /\ RulesTyped' /\ apply' \in Applying /\ DaemonTyped' /\ raced' \subseteq LayerIds
    BY <1>7 DEF CheckReorder, Typed, PolicyTypeOK, TablesTyped, RulesTyped, DaemonTyped
  <2> QED BY <2>5, <2>6, TypeParts DEF Typed
<1>8. ASSUME NEW id \in DOMAIN rules, DeleteRule(q, id)
      PROVE  Typed'
  <2>1. RulesTyped' /\ Known'
    BY <1>8, RulesGo DEF DeleteRule, Typed
  <2>2. DaemonTyped' /\ apply' \in Applying
    BY <1>8, EditedTypes DEF DeleteRule, Typed
  <2>3. TablesTyped' /\ RequestsTyped' /\ raced' \subseteq LayerIds
    BY <1>8, PolicyAssumption DEF DeleteRule, Typed, Free, PolicyTypeOK, TablesTyped, RequestsTyped
  <2> QED BY <2>1, <2>2, <2>3, TypeParts DEF Typed
<1>9. ASSUME NEW id \in DOMAIN rules, NEW says \in Rules, UpdateRule(q, id, says)
      PROVE  Typed'
  <2>1. /\ DOMAIN rules' = DOMAIN rules
        /\ \A i \in DOMAIN rules : rules'[i] \in Row /\ rules'[i].layer = rules[i].layer
    BY <1>9, Rows DEF UpdateRule, Typed, Row
  <2>2. RulesTyped' /\ Known'
    BY <1>9, <2>1, RowsStay DEF UpdateRule, Typed
  <2>3. DaemonTyped' /\ apply' \in Applying
    BY <1>9, EditedTypes DEF UpdateRule, Typed
  <2>4. TablesTyped' /\ RequestsTyped' /\ raced' \subseteq LayerIds
    BY <1>9, PolicyAssumption DEF UpdateRule, Typed, Free, PolicyTypeOK, TablesTyped, RequestsTyped
  <2> QED BY <2>2, <2>3, <2>4, TypeParts DEF Typed
<1>10. ASSUME Attach(q)
       PROVE  Typed'
  <2>1. RequestsTyped' /\ \A p \in Requests : request'[p] = Nobody \/ request'[p] = request[p]
    BY <1>10, RequestGoes DEF Attach, Typed
  <2>2. Known'
    BY <1>10, <2>1 DEF Attach, Typed, Known
  <2>3. DaemonTyped'
    BY <1>10, EditedTypes DEF Attach, Typed
  <2>4. TablesTyped' /\ RulesTyped' /\ apply' \in Applying /\ raced' \subseteq LayerIds
    BY <1>10 DEF Attach, Typed, Known, PolicyTypeOK, TablesTyped, RulesTyped
  <2> QED BY <2>1, <2>2, <2>3, <2>4, TypeParts DEF Typed
<1>11. ASSUME Reorder(q)
       PROVE  Typed'
  <2>1. RequestsTyped' /\ \A p \in Requests : request'[p] = Nobody \/ request'[p] = request[p]
    BY <1>11, RequestGoes DEF Reorder, Typed
  <2>2. request[q] # Nobody /\ request[q].layer \in LayerIds /\ request[q].order \in Seq(1 .. MaxRules)
    BY <1>11, RequestKinds DEF Reorder, Typed, Reordering
  <2>3. /\ DOMAIN rules' = DOMAIN rules
        /\ \A i \in DOMAIN rules : rules'[i] \in Row /\ rules'[i].layer = rules[i].layer
    <3> DEFINE order == request[q].order
               Place(i) == CHOOSE k \in DOMAIN order : order[k] = i
    <3>1. rules' = [id \in DOMAIN rules |->
                        IF id \in Range(order) THEN [rules[id] EXCEPT !.pos = Place(id) - 1] ELSE rules[id]]
      BY <1>11 DEF Reorder
    <3>2. ASSUME NEW i \in Range(order)
          PROVE  Place(i) - 1 \in Nat
      <4>1. DOMAIN order = 1 .. Len(order) /\ Len(order) \in Nat
        BY <2>2, LenProperties
      <4>2. Place(i) \in DOMAIN order
        BY DEF Range
      <4> HIDE DEF Place, order
      <4> QED BY <4>1, <4>2
    <3> HIDE DEF Place, order
    <3>3. ASSUME NEW i \in DOMAIN rules
          PROVE  rules'[i] \in Row /\ rules'[i].layer = rules[i].layer
      <4>1. rules[i] \in Row
        BY Rows DEF Typed
      <4>2. CASE i \in Range(order)
        <5>1. rules'[i] = [rules[i] EXCEPT !.pos = Place(i) - 1]
          BY <3>1, <4>2
        <5> QED BY <3>2, <4>1, <4>2, <5>1 DEF Row
      <4>3. CASE i \notin Range(order)
        BY <3>1, <4>1, <4>3
      <4> QED BY <4>2, <4>3
    <3> QED BY <3>1, <3>3
  <2>4. RulesTyped' /\ Known'
    BY <1>11, <2>1, <2>3, RowsStay DEF Reorder, Typed
  <2>5. DaemonTyped' /\ apply' \in Applying
    BY <1>11, EditedTypes DEF Reorder, Typed
  <2>6. TablesTyped' /\ raced' \subseteq LayerIds
    BY <1>11, <2>2 DEF Reorder, Typed, PolicyTypeOK, TablesTyped, Race
  <2> QED BY <2>1, <2>4, <2>5, <2>6, TypeParts DEF Typed
<1> QED BY <1>1, <1>2, <1>3, <1>4, <1>5, <1>6, <1>7, <1>8, <1>9, <1>10, <1>11 DEF WebStep


LEMMA InsertTypes ==
    ASSUME Typed, NEW q \in Requests, Insert(q)
    PROVE  Typed'
<1> DEFINE row == [layer |-> request[q].layer, pos |-> request[q].pos, says |-> request[q].says]
<1>1. /\ request[q] # Nobody /\ request[q] \in Insertion /\ request[q].layer \in DOMAIN owner
      /\ made < MaxRules /\ made' = made + 1 /\ rules' = With(rules, made + 1, row)
  BY RequestKinds DEF Insert, Typed, Known
<1>2. row \in Row /\ row.layer \in LayerIds /\ row.layer = request[q].layer
  BY <1>1 DEF Insertion, Row
<1> HIDE DEF row
<1>3. made \in Nat /\ DOMAIN rules \subseteq 1 .. made /\ MaxRules \in Nat
  BY PolicyAssumption DEF Typed, PolicyTypeOK
<1>4. /\ DOMAIN rules' = DOMAIN rules \union {made + 1} /\ rules'[made + 1] = row
      /\ \A id \in DOMAIN rules : rules'[id] = rules[id]
  BY <1>1, <1>3 DEF With
<1>5. RequestsTyped' /\ \A p \in Requests : request'[p] = Nobody \/ request'[p] = request[p]
  BY RequestGoes DEF Insert, Typed
<1>6. RulesTyped'
  <2>1. \A id \in DOMAIN rules' : rules'[id] \in Row
    BY <1>2, <1>4, Rows DEF Typed
  <2>2. DOMAIN rules' \subseteq 1 .. made' /\ made' \in 0 .. MaxRules
    BY <1>1, <1>3, <1>4
  <2> QED BY <2>1, <2>2 DEF RulesTyped, Range
<1>7. Known'
  <2>1. owner' = owner
    BY DEF Insert
  <2>2. \A id \in DOMAIN rules' : rules'[id].layer \in DOMAIN owner'
    BY <1>1, <1>2, <1>4, <2>1 DEF Typed, Known
  <2>3. \A p \in Requests : request'[p] # Nobody => request'[p].layer \in DOMAIN owner'
    BY <1>5, <2>1 DEF Typed, Known
  <2>4. ASSUME NEW p \in Requests, request'[p] # Nobody, request'[p].do = "reorder",
               NEW id \in Range(request'[p].order)
        PROVE  id \in 1 .. made' /\ (id \in DOMAIN rules' => rules'[id].layer = request'[p].layer)
    <3>1. request'[p] = request[p]
      BY <1>5, <2>4
    <3>2. id \in 1 .. made /\ (id \in DOMAIN rules => rules[id].layer = request[p].layer)
      BY <2>4, <3>1 DEF Typed, Known
    <3> QED BY <1>1, <1>3, <1>4, <3>1, <3>2
  <2> QED BY <2>2, <2>3, <2>4 DEF Known
<1>8. DaemonTyped' /\ apply' \in Applying
  BY EditedTypes DEF Insert, Typed
<1>9. TablesTyped' /\ raced' \subseteq LayerIds
  BY <1>2 DEF Insert, Typed, PolicyTypeOK, TablesTyped, Race
<1> QED BY <1>5, <1>6, <1>7, <1>8, <1>9, TypeParts DEF Typed

LEMMA ApplyStepTypes ==
    ASSUME Typed, (\E u \in Users : StartApply(u)) \/ ApplyStep
    PROVE  Typed'
<1> USE DEF tableVars, daemonVars
<1> DEFINE Rest == TablesTyped' /\ RulesTyped' /\ RequestsTyped' /\ DaemonTyped' /\ raced' \subseteq LayerIds
<1>0. apply \in Applying /\ apply.left \in Seq(Rules)
  BY DEF Typed, PolicyTypeOK, Applying, Applies
<1>1. ASSUME NEW u \in Users, StartApply(u)
      PROVE  Typed'
  <2>1. ASSUME NEW l \in 0 .. MaxLayers, NEW old \in SUBSET (1 .. MaxRules),
               NEW part \in {"creating", "emptying"}, ApplyTo(u, l, part, old)
        PROVE  apply' \in Applying
    BY <2>1, FileLoads DEF ApplyTo, Applying, Applies
  <2>2. \A l \in Named(u, FileName) : l \in 0 .. MaxLayers /\ RuleIds(l) \in SUBSET (1 .. MaxRules)
    BY LayerRows, Rows, PolicyAssumption DEF Typed, Named, LayerIds, RuleIds, PolicyTypeOK
  <2>3. 0 \in 0 .. MaxLayers /\ {} \in SUBSET (1 .. MaxRules)
    BY PolicyAssumption
  <2>4. apply' \in Applying
    BY <1>1, <2>1, <2>2, <2>3 DEF StartApply
  <2>5. Rest /\ Known'
    BY <1>1, PolicyAssumption DEF StartApply, Typed, PolicyTypeOK, TablesTyped, RulesTyped,
       RequestsTyped, DaemonTyped, Known
  <2> QED BY <2>4, <2>5, TypeParts DEF Typed
<1>2. ASSUME ApplyCreates
      PROVE  Typed'
  <2>1. PICK u \in Users : u = apply.user
    BY <1>0, <1>2 DEF ApplyCreates, Applying, Applies
  <2>2. TablesTyped' /\ Known'
    BY <1>2, <2>1, LayerComes, PolicyAssumption DEF ApplyCreates, Typed
  <2>3. Len(owner) + 1 \in 0 .. MaxLayers
    BY <1>2, LayerRows, PolicyAssumption DEF ApplyCreates, Typed
  <2>4. apply' \in Applying
    BY <1>0, <1>2, <2>3 DEF ApplyCreates, Applying, Applies
  <2>5. RulesTyped' /\ RequestsTyped' /\ DaemonTyped' /\ raced' \subseteq LayerIds
    BY <1>2 DEF ApplyCreates, Typed, PolicyTypeOK, RulesTyped, RequestsTyped, DaemonTyped
  <2> QED BY <2>2, <2>4, <2>5, TypeParts DEF Typed
<1>3. ASSUME ApplyDeletes
      PROVE  Typed'
  <2>1. PICK id \in RuleIds(apply.layer) :
            /\ rules' = Restrict(rules, DOMAIN rules \ {id})
            /\ apply' = [apply EXCEPT !.old = apply.old \ {id}]
    BY <1>3 DEF ApplyDeletes
  <2>2. RulesTyped' /\ Known'
    BY <1>3, <2>1, RulesGo DEF ApplyDeletes, Typed
  <2>3. apply' \in Applying
    BY <1>0, <2>1 DEF Applying, Applies
  <2>4. DaemonTyped'
    BY <1>3, EditedTypes DEF ApplyDeletes, Typed
  <2>5. TablesTyped' /\ RequestsTyped' /\ raced' \subseteq LayerIds
    BY <1>3 DEF ApplyDeletes, Typed, PolicyTypeOK, TablesTyped, RequestsTyped
  <2> QED BY <2>2, <2>3, <2>4, <2>5, TypeParts DEF Typed
<1>4. ASSUME ApplyEmptied \/ ApplyEnds \/ ApplyStops
      PROVE  Typed'
  <2>1. NoApply \in Applying
    BY PolicyAssumption, EmptySeq DEF NoApply, Applying, Applies
  <2>2. apply' \in Applying
    BY <1>0, <1>4, <2>1 DEF ApplyEmptied, ApplyEnds, ApplyStops, Applying, Applies
  <2>3. Rest /\ Known'
    BY <1>4 DEF ApplyEmptied, ApplyEnds, ApplyStops, Typed, PolicyTypeOK, TablesTyped, RulesTyped,
       RequestsTyped, DaemonTyped, Known
  <2> QED BY <2>2, <2>3, TypeParts DEF Typed
<1>5. ASSUME ApplyAdds
      PROVE  Typed'
  <2> DEFINE r == [do |-> "insert", layer |-> apply.layer, pos |-> NextPosition(apply.layer),
                   says |-> Head(apply.left)]
  <2>1. Head(apply.left) \in Rules /\ Tail(apply.left) \in Seq(Rules)
    BY <1>0, <1>5, HeadTailProperties DEF ApplyAdds
  <2>2. apply.layer \in DOMAIN owner /\ apply.layer \in LayerIds
    BY <1>5, LayerRows DEF ApplyAdds, Typed
  <2>3. r \in Insertion /\ r.layer \in DOMAIN owner /\ r.do # "reorder"
    BY <2>1, <2>2, NextIsPast DEF Typed, Insertion
  <2>4. request' = [request EXCEPT ![Cli] = r] /\ Cli \in Requests
    BY <1>5, PolicyAssumption DEF ApplyAdds, PlaceRule
  <2> HIDE DEF r
  <2>5. RequestsTyped' /\ Known'
    BY <1>5, <2>3, <2>4, RequestComes DEF ApplyAdds, Typed
  <2>6. apply' \in Applying
    BY <1>0, <1>5, <2>1 DEF ApplyAdds, Applying, Applies
  <2>7. TablesTyped' /\ RulesTyped' /\ DaemonTyped' /\ raced' \subseteq LayerIds
    BY <1>5 DEF ApplyAdds, Typed, PolicyTypeOK, TablesTyped, RulesTyped, DaemonTyped
  <2> QED BY <2>5, <2>6, <2>7, TypeParts DEF Typed
<1> QED BY <1>1, <1>2, <1>3, <1>4, <1>5 DEF ApplyStep


LEMMA SentNowType ==
    ASSUME PolicyTypeOK, NEW l \in LayerIds
    PROVE  SentNow(l) \in Sent
BY RulesOfType DEF SentNow, Sent

\* A layer is read from the tables and put behind those read before.
LEMMA LayerIsRead ==
    ASSUME PolicyTypeOK, NEW f \in Fetches, ReadLayer(f)
    PROVE  /\ fetch[f] \in Fetching /\ fetch[f].todo # <<>>
           /\ Head(fetch[f].todo) \in LayerIds /\ SentNow(Head(fetch[f].todo)) \in Sent
           /\ fetch' = [fetch EXCEPT ![f] =
                [user |-> fetch[f].user, todo |-> Tail(fetch[f].todo),
                 got |-> Append(fetch[f].got, SentNow(Head(fetch[f].todo))),
                 current |-> fetch[f].current]]
<1>1. fetch \in [Fetches -> Fetching \union {Nobody}] /\ fetch[f] \in Fetching /\ fetch[f].todo # <<>>
  BY DEF ReadLayer, PolicyTypeOK
<1>2. fetch[f].todo \in Seq(LayerIds)
  BY <1>1 DEF Fetching
<1>3. Head(fetch[f].todo) \in LayerIds
  BY <1>1, <1>2, HeadTailProperties
<1> QED BY <1>1, <1>3, SentNowType DEF ReadLayer, SentNow

LEMMA DaemonStepTypes ==
    ASSUME Typed, NEW f \in Fetches,
           (\E u \in Users : BeginFetch(f, u)) \/ ReadLayer(f) \/ EndFetch(f) \/ FetchFails(f)
    PROVE  Typed'
<1>1. /\ fetch \in [Fetches -> Fetching \union {Nobody}]
      /\ cache \in [Users -> Seq(Sent)] /\ current \subseteq Users
  BY DEF Typed, PolicyTypeOK
<1>2. DaemonTyped'
  <2>1. ASSUME NEW u \in Users, BeginFetch(f, u)
        PROVE  DaemonTyped'
    <3> DEFINE e == [user |-> u, todo |-> InOrder(FetchedFor(u), ByName(u)), got |-> <<>>, current |-> TRUE]
    <3>1. e \in Fetching
      BY FetchedInOrder, EmptySeq DEF Typed, Fetching
    <3>2. fetch' = [fetch EXCEPT ![f] = e] /\ UNCHANGED <<cache, current>>
      BY <2>1 DEF BeginFetch
    <3> HIDE DEF e
    <3> QED BY <1>1, <3>1, <3>2 DEF DaemonTyped
  <2>2. ASSUME ReadLayer(f)
        PROVE  DaemonTyped'
    <3> DEFINE e == [user |-> fetch[f].user, todo |-> Tail(fetch[f].todo),
                     got |-> Append(fetch[f].got, SentNow(Head(fetch[f].todo))),
                     current |-> fetch[f].current]
    <3>1. fetch[f] \in Fetching /\ fetch[f].todo # <<>> /\ SentNow(Head(fetch[f].todo)) \in Sent
      BY <2>2, LayerIsRead DEF Typed
    <3>2. Tail(fetch[f].todo) \in Seq(LayerIds)
      BY <3>1, HeadTailProperties DEF Fetching
    <3>3. Append(fetch[f].got, SentNow(Head(fetch[f].todo))) \in Seq(Sent)
      BY <3>1, AppendProperties DEF Fetching
    <3>4. e \in Fetching
      BY <3>1, <3>2, <3>3 DEF Fetching
    <3>5. fetch' = [fetch EXCEPT ![f] = e] /\ UNCHANGED <<cache, current>>
      BY <2>2, LayerIsRead DEF Typed, ReadLayer
    <3> HIDE DEF e
    <3> QED BY <1>1, <3>4, <3>5 DEF DaemonTyped
  <2>3. ASSUME EndFetch(f)
        PROVE  DaemonTyped'
    BY <1>1, <2>3 DEF EndFetch, SetPolicyLayers, Fetching, DaemonTyped
  <2>4. ASSUME FetchFails(f)
        PROVE  DaemonTyped'
    BY <1>1, <2>4 DEF FetchFails, DaemonTyped
  <2> QED BY <2>1, <2>2, <2>3, <2>4
<1>3. UNCHANGED <<tableVars, request, apply, begun, raced>>
  BY DEF BeginFetch, ReadLayer, EndFetch, FetchFails
<1>4. TablesTyped' /\ RulesTyped' /\ RequestsTyped' /\ apply' \in Applying /\ raced' \subseteq LayerIds /\ Known'
  BY <1>3 DEF Typed, PolicyTypeOK, TablesTyped, RulesTyped, RequestsTyped, Known, tableVars
<1> QED BY <1>2, <1>4, TypeParts DEF Typed

LEMMA TypedSteps == Typed /\ [PolicyNext]_policyVars => Typed'
<1> SUFFICES ASSUME Typed, [PolicyNext]_policyVars
             PROVE  Typed'
  OBVIOUS
<1> USE DEF tableVars, daemonVars
<1>1. CASE Restart
  <2>1. UNCHANGED <<tableVars, request, apply, begun, raced>>
    BY <1>1 DEF Restart
  <2>2. TablesTyped' /\ RulesTyped' /\ RequestsTyped' /\ apply' \in Applying /\ raced' \subseteq LayerIds /\ Known'
    BY <2>1 DEF Typed, PolicyTypeOK, TablesTyped, RulesTyped, RequestsTyped, Known
  <2>3. DaemonTyped'
    BY <1>1, EmptySeq DEF Restart, DaemonTyped
  <2> QED BY <2>2, <2>3, TypeParts DEF Typed
<1>2. CASE UNCHANGED policyVars
  <2>1. PolicyTypeOK'
    BY <1>2 DEF Typed, PolicyTypeOK, policyVars
  <2>2. Known'
    BY <1>2 DEF Typed, Known, policyVars
  <2> QED BY <2>1, <2>2 DEF Typed
<1> QED BY <1>1, <1>2, WebStepTypes, InsertTypes, ApplyStepTypes, DaemonStepTypes DEF PolicyNext, Web

LEMMA PolicyInitTyped == PolicyInit => Typed
<1> SUFFICES ASSUME PolicyInit
             PROVE  Typed
  OBVIOUS
<1>1. /\ <<>> \in Seq(Users) /\ Len(owner) = 0 /\ <<>> \in Seq(Rules) /\ <<>> \in Seq(Sent)
      /\ DOMAIN rules = {} /\ DOMAIN layers = {} /\ DOMAIN owner = {}
  BY EmptySeq DEF PolicyInit
<1>2. NoApply \in Applying
  BY <1>1, PolicyAssumption DEF NoApply, Applying, Applies
<1>3. PolicyTypeOK
  BY <1>1, <1>2, PolicyAssumption DEF PolicyInit, PolicyTypeOK, Range
<1>4. Known
  BY <1>1 DEF PolicyInit, Known
<1> QED BY <1>3, <1>4 DEF Typed

\* Tables, requests, the apply and the daemon's copies keep their types.
THEOREM PolicyTypeCorrect == PolicySpec => []PolicyTypeOK
<1>1. PolicyInit => Typed
  BY PolicyInitTyped
<1>2. Typed /\ [PolicyNext]_policyVars => Typed'
  BY TypedSteps
<1>3. Typed => PolicyTypeOK
  BY DEF Typed
<1> QED BY <1>1, <1>2, <1>3, PTL DEF PolicySpec


----------------------------------------------------------------------------
(* The order of a layer's rules *)

\* Rules may go and change what they say, and requests be done, or be about
\* the machine.
FewerRules ==
    /\ DOMAIN rules' \subseteq DOMAIN rules
    /\ \A id \in DOMAIN rules' : rules'[id].layer = rules[id].layer /\ rules'[id].pos = rules[id].pos
FewerRequests ==
    \A p \in Requests :
        request'[p] = Nobody \/ request'[p] = request[p] \/ request'[p].do = "attach"

LEMMA OrderKept ==
    ASSUME NEW l, InOneOrder(l), FewerRules, FewerRequests
    PROVE  InOneOrder(l)'
<1>1. RuleIds(l)' \subseteq RuleIds(l) /\ \A id \in RuleIds(l)' : rules'[id].pos = rules[id].pos
  BY DEF FewerRules, RuleIds
<1>2. Apart(l)'
  BY <1>1 DEF InOneOrder, Apart
<1>3. ASSUME NEW p \in Requests, request'[p] # Nobody, request'[p].do # "attach"
      PROVE  request'[p] = request[p] /\ request[p] # Nobody
  BY <1>3 DEF FewerRequests
<1>4. AddsLast(l)'
  BY <1>1, <1>3 DEF InOneOrder, AddsLast
<1>5. OrdersAll(l)'
  BY <1>1, <1>3 DEF InOneOrder, OrdersAll
<1> QED BY <1>2, <1>4, <1>5 DEF InOneOrder

\* The steps of that kind.
LEMMA FewerSteps ==
    ASSUME Typed, [PolicyNext]_policyVars
    PROVE  \/ FewerRules /\ FewerRequests /\ raced' = raced
           \/ \E q \in Requests : \E l \in Present :
                \/ \E says : PlaceRule(q, l, says) /\ UNCHANGED <<rules, raced>>
                \/ \E order \in SetToSeqs(RuleIds(l)) : CheckReorder(q, l, order)
           \/ \E q \in Requests : Insert(q) \/ Reorder(q)
<1> USE DEF tableVars, daemonVars
<1> DEFINE Kept == FewerRules /\ FewerRequests /\ raced' = raced
<1>0. request \in [Requests -> Insertion \union Attachment \union Reordering \union {Nobody}]
  BY DEF Typed, PolicyTypeOK
<1>1. ASSUME UNCHANGED <<rules, request, raced>>
      PROVE  Kept
  BY <1>1 DEF FewerRules, FewerRequests
<1>2. ASSUME NEW S, rules' = Restrict(rules, S), S \subseteq DOMAIN rules, UNCHANGED <<request, raced>>
      PROVE  Kept
  BY <1>2 DEF FewerRules, FewerRequests, Restrict
<1>3. ASSUME NEW q \in Requests, NEW l, DeleteLayer(q, l)
      PROVE  Kept
  BY <1>2, <1>3 DEF DeleteLayer
<1>4. ASSUME NEW q \in Requests, NEW l, CheckAttach(q, l)
      PROVE  Kept
  BY <1>0, <1>4 DEF CheckAttach, FewerRules, FewerRequests
<1>5. ASSUME NEW q \in Requests, Attach(q)
      PROVE  Kept
  BY <1>0, <1>5 DEF Attach, FewerRules, FewerRequests
<1>6. ASSUME NEW q \in Requests, NEW id \in DOMAIN rules, NEW says \in Rules, UpdateRule(q, id, says)
      PROVE  Kept
  BY <1>6, Rows DEF UpdateRule, Typed, FewerRules, FewerRequests, Row
<1>7. ASSUME NEW q \in Requests, NEW id \in DOMAIN rules, DeleteRule(q, id)
      PROVE  Kept
  BY <1>2, <1>7 DEF DeleteRule
<1>8. ASSUME ApplyDeletes
      PROVE  Kept
  BY <1>2, <1>8 DEF ApplyDeletes
<1> HIDE DEF Kept
<1>9. ASSUME NEW q \in Web, WebStep(q)
      PROVE  \/ Kept
             \/ \E l \in Present :
                  \/ \E says : PlaceRule(q, l, says) /\ UNCHANGED <<rules, raced>>
                  \/ \E order \in SetToSeqs(RuleIds(l)) : CheckReorder(q, l, order)
             \/ Reorder(q)
  <2>1. q \in Requests
    BY DEF Web
  <2>2. ASSUME NEW u \in Users, NEW name \in Names, CreateLayer(q, u, name)
        PROVE  Kept
    BY <1>1, <2>2 DEF CreateLayer
  <2>3. ASSUME NEW l, NEW name \in Names, RenameLayer(q, l, name)
        PROVE  Kept
    BY <1>1, <2>3 DEF RenameLayer
  <2>4. ASSUME NEW l, Detach(q, l)
        PROVE  Kept
    BY <1>1, <2>4 DEF Detach
  <2>5. ASSUME NEW l \in Present, NEW says \in Rules, CheckInsert(q, l, says)
        PROVE  PlaceRule(q, l, says) /\ UNCHANGED <<rules, raced>>
    BY <2>5 DEF CheckInsert
  <2> QED BY <1>3, <1>4, <1>5, <1>6, <1>7, <1>9, <2>1, <2>2, <2>3, <2>4, <2>5 DEF WebStep
<1>10. ASSUME (\E u \in Users : StartApply(u)) \/ ApplyCreates \/ ApplyEmptied \/ ApplyEnds \/ ApplyStops
       PROVE  Kept
  BY <1>1, <1>10 DEF StartApply, ApplyCreates, ApplyEmptied, ApplyEnds, ApplyStops
<1>11. ASSUME ApplyAdds
       PROVE  \E l \in Present : \E says : PlaceRule(Cli, l, says) /\ UNCHANGED <<rules, raced>>
  BY <1>11 DEF ApplyAdds
<1>12. ASSUME NEW f \in Fetches,
              (\E u \in Users : BeginFetch(f, u)) \/ ReadLayer(f) \/ EndFetch(f) \/ FetchFails(f)
       PROVE  Kept
  BY <1>1, <1>12 DEF BeginFetch, ReadLayer, EndFetch, FetchFails
<1>13. ASSUME Restart \/ UNCHANGED policyVars
       PROVE  Kept
  BY <1>1, <1>13 DEF Restart, policyVars
<1>14. Cli \in Requests /\ Web \subseteq Requests
  BY PolicyAssumption DEF Web
<1>15. PolicyNext \/ UNCHANGED policyVars
  OBVIOUS
<1> USE DEF Kept
<1> QED BY <1>8, <1>9, <1>10, <1>11, <1>12, <1>13, <1>14, <1>15 DEF PolicyNext, ApplyStep

\* A new rule is to go behind all there are.
LEMMA OrderPlaces ==
    ASSUME Typed, NEW l, InOneOrder(l), NEW q \in Requests, NEW m, NEW says,
           PlaceRule(q, m, says), UNCHANGED rules
    PROVE  InOneOrder(l)'
<1> DEFINE r == [do |-> "insert", layer |-> m, pos |-> NextPosition(m), says |-> says]
<1>1. \A p \in Requests : request'[p] = IF p = q THEN r ELSE request[p]
  BY DEF PlaceRule, Typed, PolicyTypeOK
<1>2. RuleIds(l)' = RuleIds(l)
  BY DEF RuleIds
<1>3. \A id \in RuleIds(m) : rules[id].pos < NextPosition(m)
  BY NextIsPast DEF Typed
<1>4. AddsLast(l)'
  BY <1>1, <1>2, <1>3 DEF InOneOrder, AddsLast
<1>5. OrdersAll(l)'
  BY <1>1, <1>2 DEF InOneOrder, OrdersAll
<1> QED BY <1>2, <1>4, <1>5 DEF InOneOrder, Apart

\* A new order is one of all there are.
LEMMA OrderChecked ==
    ASSUME Typed, NEW l, InOneOrder(l), NEW q \in Requests, NEW m,
           NEW order \in SetToSeqs(RuleIds(m)), CheckReorder(q, m, order)
    PROVE  InOneOrder(l)'
<1> DEFINE r == [do |-> "reorder", layer |-> m, order |-> order]
<1>1. \A p \in Requests : request'[p] = IF p = q THEN r ELSE request[p]
  BY DEF CheckReorder, Typed, PolicyTypeOK
<1>2. rules' = rules /\ RuleIds(l)' = RuleIds(l)
  BY DEF CheckReorder, tableVars, RuleIds
<1>3. Range(order) = RuleIds(m)
  BY OrderType DEF Typed
<1>4. AddsLast(l)'
  BY <1>1, <1>2 DEF InOneOrder, AddsLast
<1>5. OrdersAll(l)'
  BY <1>1, <1>2, <1>3 DEF InOneOrder, OrdersAll
<1> QED BY <1>2, <1>4, <1>5 DEF InOneOrder, Apart

\* What a layer's rules are after an insert.
LEMMA AfterInsert ==
    ASSUME Typed, NEW q \in Requests, Insert(q), NEW l
    PROVE  /\ made + 1 \notin DOMAIN rules
           /\ \A id \in RuleIds(l) : rules'[id] = rules[id]
           /\ l # request[q].layer => RuleIds(l)' = RuleIds(l)
           /\ l = request[q].layer =>
                /\ RuleIds(l)' = RuleIds(l) \union {made + 1}
                /\ rules'[made + 1].pos = request[q].pos /\ rules'[made + 1].says = request[q].says
<1>1. made \in Nat /\ \A id \in DOMAIN rules : id \in 1 .. made
  BY Rows DEF Typed, PolicyTypeOK
<1>2. made + 1 \notin DOMAIN rules
  BY <1>1
<1>3. rules' = With(rules, made + 1,
                    [layer |-> request[q].layer, pos |-> request[q].pos, says |-> request[q].says])
  BY DEF Insert
<1>4. /\ DOMAIN rules' = DOMAIN rules \union {made + 1}
      /\ rules'[made + 1] = [layer |-> request[q].layer, pos |-> request[q].pos, says |-> request[q].says]
      /\ \A id \in DOMAIN rules : rules'[id] = rules[id]
  BY <1>2, <1>3 DEF With
<1> QED BY <1>2, <1>4 DEF RuleIds

\* An insert that raced with nobody puts its rule behind all others.
LEMMA OrderInserts ==
    ASSUME Typed, NEW q \in Requests, Insert(q), NEW l \in LayerIds, l \notin raced', InOneOrder(l)
    PROVE  InOneOrder(l)'
<1>1. /\ request[q] # Nobody /\ request[q].do = "insert"
      /\ \A p \in Requests : request'[p] = IF p = q THEN Nobody ELSE request[p]
  BY DEF Insert, Typed, PolicyTypeOK
<1>2. CASE l # request[q].layer
  <2>1. RuleIds(l)' = RuleIds(l) /\ \A id \in RuleIds(l) : rules'[id] = rules[id]
    BY <1>2, AfterInsert
  <2>2. Apart(l)'
    BY <2>1 DEF InOneOrder, Apart
  <2>3. AddsLast(l)' /\ OrdersAll(l)'
    BY <1>1, <2>1 DEF InOneOrder, AddsLast, OrdersAll
  <2> QED BY <2>2, <2>3 DEF InOneOrder
<1>3. CASE l = request[q].layer
  <2>1. ~Overlaps(q, l)
    BY <1>3 DEF Insert, Race
  <2>2. \A p \in Requests : request'[p] # Nobody /\ request'[p].do # "attach" => request'[p].layer # l
    BY <1>1, <2>1 DEF Overlaps
  <2>3. AddsLast(l)' /\ OrdersAll(l)'
    BY <2>2 DEF AddsLast, OrdersAll
  <2>4. /\ made + 1 \notin RuleIds(l) /\ RuleIds(l)' = RuleIds(l) \union {made + 1}
        /\ rules'[made + 1].pos = request[q].pos
        /\ \A id \in RuleIds(l) : rules'[id] = rules[id]
    BY <1>3, AfterInsert DEF RuleIds
  <2>5. \A id \in RuleIds(l) : rules[id].pos < request[q].pos /\ rules[id].pos \in Nat
    BY <1>1, <1>3, Rows DEF InOneOrder, AddsLast, Typed, RuleIds
  <2>6. request[q].pos \in Nat
    BY <1>1, RequestKinds DEF Typed, Insertion
  <2>7. Apart(l)'
    BY <2>4, <2>5, <2>6 DEF InOneOrder, Apart
  <2> QED BY <2>3, <2>7 DEF InOneOrder
<1> QED BY <1>2, <1>3

\* A new order gives each of its rules the place it has in it, and leaves the
\* other layers alone.
LEMMA AfterReorder ==
    ASSUME Typed, NEW q \in Requests, Reorder(q), NEW l
    PROVE  /\ RuleIds(l)' = RuleIds(l)
           /\ l # request[q].layer => \A id \in RuleIds(l) : rules'[id] = rules[id]
           /\ \A id \in Range(request[q].order) \intersect DOMAIN rules :
                /\ rules'[id].pos + 1 \in DOMAIN request[q].order
                /\ request[q].order[rules'[id].pos + 1] = id
<1> DEFINE order == request[q].order
           Place(i) == CHOOSE k \in DOMAIN order : order[k] = i
<1>1. /\ request[q] # Nobody /\ request[q].do = "reorder" /\ order \in Seq(1 .. MaxRules)
      /\ \A id \in Range(order) : id \in DOMAIN rules => rules[id].layer = request[q].layer
  BY RequestKinds DEF Reorder, Typed, Known, Reordering
<1>2. rules' = [id \in DOMAIN rules |->
                    IF id \in Range(order) THEN [rules[id] EXCEPT !.pos = Place(id) - 1] ELSE rules[id]]
  BY DEF Reorder
<1>3. \A i \in Range(order) : Place(i) \in DOMAIN order /\ order[Place(i)] = i
  BY DEF Range
<1>4. \A i \in Range(order) : Place(i) \in Nat
  <2>1. DOMAIN order = 1 .. Len(order) /\ Len(order) \in Nat
    BY <1>1, LenProperties
  <2> HIDE DEF Place, order
  <2> QED BY <1>3, <2>1
<1> HIDE DEF Place, order
<1>5. \A id \in Range(order) \intersect DOMAIN rules :
        rules'[id].pos = Place(id) - 1 /\ rules'[id].layer = rules[id].layer
  <2> SUFFICES ASSUME NEW id \in DOMAIN rules, id \in Range(order)
               PROVE  rules'[id].pos = Place(id) - 1 /\ rules'[id].layer = rules[id].layer
    OBVIOUS
  <2>1. rules'[id] = [rules[id] EXCEPT !.pos = Place(id) - 1] /\ rules[id] \in Row
    BY <1>2, Rows DEF Typed
  <2> QED BY <2>1 DEF Row
<1>6. DOMAIN rules' = DOMAIN rules /\ \A id \in DOMAIN rules \ Range(order) : rules'[id] = rules[id]
  BY <1>2
<1>7. RuleIds(l)' = RuleIds(l)
  BY <1>5, <1>6 DEF RuleIds
<1>8. l # request[q].layer => \A id \in RuleIds(l) : rules'[id] = rules[id]
  BY <1>1, <1>6 DEF RuleIds, order
<1>9. \A id \in Range(order) \intersect DOMAIN rules :
        rules'[id].pos + 1 \in DOMAIN order /\ order[rules'[id].pos + 1] = id
  BY <1>3, <1>4, <1>5
<1> QED BY <1>7, <1>8, <1>9 DEF order

LEMMA OrderReorders ==
    ASSUME Typed, NEW q \in Requests, Reorder(q), NEW l \in LayerIds, l \notin raced', InOneOrder(l)
    PROVE  InOneOrder(l)'
<1>1. /\ request[q] # Nobody /\ request[q].do = "reorder"
      /\ \A p \in Requests : request'[p] = IF p = q THEN Nobody ELSE request[p]
  BY DEF Reorder, Typed, PolicyTypeOK
<1>2. RuleIds(l)' = RuleIds(l)
  BY AfterReorder
<1>3. CASE l # request[q].layer
  <2>1. \A id \in RuleIds(l) : rules'[id] = rules[id]
    BY <1>3, AfterReorder
  <2>2. Apart(l)'
    BY <1>2, <2>1 DEF InOneOrder, Apart
  <2>3. AddsLast(l)' /\ OrdersAll(l)'
    BY <1>1, <1>2, <2>1 DEF InOneOrder, AddsLast, OrdersAll
  <2> QED BY <2>2, <2>3 DEF InOneOrder
<1>4. CASE l = request[q].layer
  <2>1. ~Overlaps(q, l)
    BY <1>4 DEF Reorder, Race
  <2>2. \A p \in Requests : request'[p] # Nobody /\ request'[p].do # "attach" => request'[p].layer # l
    BY <1>1, <2>1 DEF Overlaps
  <2>3. AddsLast(l)' /\ OrdersAll(l)'
    BY <2>2 DEF AddsLast, OrdersAll
  <2>4. RuleIds(l) \subseteq Range(request[q].order) \intersect DOMAIN rules
    BY <1>1, <1>4 DEF InOneOrder, OrdersAll, RuleIds
  <2>5. \A id \in RuleIds(l) : request[q].order[rules'[id].pos + 1] = id
    BY <2>4, AfterReorder
  <2>6. Apart(l)'
    BY <1>2, <2>5 DEF Apart
  <2> QED BY <2>3, <2>6 DEF InOneOrder
<1> QED BY <1>3, <1>4

LEMMA OrderSteps == OrderInv /\ [PolicyNext]_policyVars => OrderInv'
<1> SUFFICES ASSUME OrderInv, [PolicyNext]_policyVars
             PROVE  OrderInv'
  OBVIOUS
<1>1. Typed /\ \A l \in LayerIds \ raced : InOneOrder(l)
  BY DEF OrderInv, Typed
<1>2. Typed'
  BY <1>1, TypedSteps
<1>3. ASSUME FewerRules, FewerRequests, raced' = raced, NEW l \in LayerIds \ raced'
      PROVE  InOneOrder(l)'
  BY <1>1, <1>3, OrderKept
<1>4. ASSUME NEW q \in Requests, NEW m, NEW says, PlaceRule(q, m, says), UNCHANGED <<rules, raced>>,
             NEW l \in LayerIds \ raced'
      PROVE  InOneOrder(l)'
  BY <1>1, <1>4, OrderPlaces
<1>5. ASSUME NEW q \in Requests, NEW m, NEW order \in SetToSeqs(RuleIds(m)), CheckReorder(q, m, order),
             NEW l \in LayerIds \ raced'
      PROVE  InOneOrder(l)'
  <2>1. raced' = raced
    BY <1>5 DEF CheckReorder
  <2> QED BY <1>1, <1>5, <2>1, OrderChecked
<1>6. ASSUME NEW q \in Requests, Insert(q) \/ Reorder(q), NEW l \in LayerIds \ raced'
      PROVE  InOneOrder(l)'
  <2>1. l \notin raced
    BY <1>6 DEF Insert, Reorder, Race
  <2> QED BY <1>1, <1>6, <2>1, OrderInserts, OrderReorders
<1>7. \A l \in LayerIds \ raced' : InOneOrder(l)'
  BY <1>1, <1>3, <1>4, <1>5, <1>6, FewerSteps
<1> QED BY <1>2, <1>7 DEF OrderInv, Typed

\* The order of a layer's rules is total unless two requests changed it at the
\* same time, for any layers, rules and requests.
THEOREM OrderStaysTotal == PolicySpec => []OrderIsTotal
<1>1. PolicyInit => OrderInv
  <2> SUFFICES ASSUME PolicyInit
               PROVE  OrderInv
    OBVIOUS
  <2>1. \A l : InOneOrder(l)
    BY DEF PolicyInit, InOneOrder, Apart, AddsLast, OrdersAll, RuleIds
  <2> QED BY <2>1, PolicyInitTyped DEF OrderInv, Typed
<1>2. OrderInv => OrderIsTotal
  BY LayerRows DEF OrderInv, InOneOrder, Apart, OrderIsTotal
<1> QED BY <1>1, <1>2, OrderSteps, PTL DEF PolicySpec


----------------------------------------------------------------------------
(* The machine's copy *)

\* What a list of layers answers depends on the layers only.
LEMMA MatchesBySet ==
    ASSUME NEW s, NEW t, Range(s) = Range(t), NEW call
    PROVE  MatchPolicy(s, call) = MatchPolicy(t, call)
<1>1. OrderedById(s) = OrderedById(t)
  BY Zenon DEF OrderedById
<1>2. ComposePolicy(s) = ComposePolicy(t)
  BY <1>1, Zenon DEF ComposePolicy
<1>3. PICK composed : composed = ComposePolicy(t)
  OBVIOUS
<1>4. ComposePolicy(s) = composed /\ ComposePolicy(t) = composed
  BY <1>2, <1>3
<1> QED BY <1>4 DEF MatchPolicy

\* Any listing of a finite set has all of it.
LEMMA ListsAll ==
    ASSUME NEW S, IsFiniteSet(S)
    PROVE  DOMAIN SetToSeq(S) = 1 .. Cardinality(S) /\ Range(SetToSeq(S)) = S
<1> DEFINE size == Cardinality(S)
           s == SetToSeq(S)
<1>1. size \in Nat /\ ExistsBijection(1 .. size, S)
  BY FS_CardinalityType
<1>2. \E g \in [1 .. size -> S] : IsInjective(g)
  BY <1>1 DEF ExistsBijection, Bijection, Injection
<1>3. s \in [1 .. size -> S] /\ IsInjective(s)
  BY <1>2 DEF SetToSeq
<1>4. s \in Injection(1 .. size, S)
  BY <1>3 DEF Injection
<1>5. IsFiniteSet(1 .. size) /\ Cardinality(1 .. size) = size
  BY <1>1, FS_Interval
<1>6. s \in Surjection(1 .. size, S)
  BY <1>4, <1>5, FS_Injection
<1> HIDE DEF s, size
<1>7. Range(s) = S
  BY <1>3, <1>6 DEF Surjection, Range
<1> QED BY <1>3, <1>7 DEF s, size

LEMMA FreshIsInForce == FreshInv => RefreshedIsInForce
<1> SUFFICES ASSUME FreshInv, NEW u \in current, NEW call \in Calls
             PROVE  MatchPolicy(cache[u], call) = EvalPolicy(FetchedFor(u), call)
  BY DEF RefreshedIsInForce, FetchedFor
<1> DEFINE all == SetToSeq(FetchedFor(u))
           sent == [k \in DOMAIN all |-> [id |-> all[k], rules |-> RulesOf(all[k])]]
<1>1. Range(all) = FetchedFor(u)
  BY FetchedInOrder, ListsAll DEF FreshInv
<1>2. EvalPolicy(FetchedFor(u), call) = MatchPolicy(sent, call)
  BY DEF EvalPolicy
<1> HIDE DEF all
<1>3. Range(sent) = Now(u)
  BY <1>1 DEF Range, Now, SentNow
<1>4. Range(cache[u]) = Now(u)
  BY DEF FreshInv, Fresh
<1> HIDE DEF sent
<1> QED BY <1>2, <1>3, <1>4, MatchesBySet

\* After an edit nothing counts as current.
LEMMA EditedIsFresh ==
    ASSUME PolicyTypeOK, Edited
    PROVE  Fresh'
<1>1. current' = {}
  BY DEF Edited
<1>2. \A g \in Fetches : fetch'[g] # Nobody => ~fetch'[g].current
  <2> SUFFICES ASSUME NEW g \in Fetches, fetch'[g] # Nobody
               PROVE  ~fetch'[g].current
    OBVIOUS
  <2>1. fetch[g] \in Fetching /\ fetch'[g] = [fetch[g] EXCEPT !.current = FALSE]
    BY DEF Edited, PolicyTypeOK
  <2> QED BY <2>1 DEF Fetching
<1> QED BY <1>1, <1>2 DEF Fresh

\* What is fetched is not changed, and nothing is fetched.
LEMMA FreshKept ==
    ASSUME Fresh, \A u : FetchedFor(u)' = FetchedFor(u), UNCHANGED <<rules, fetch, cache, current>>
    PROVE  Fresh'
<1>1. \A l : RulesOf(l)' = RulesOf(l)
  BY DEF RulesOf, RuleIds, Before
<1>2. \A l : SentNow(l)' = SentNow(l)
  BY <1>1 DEF SentNow
<1>3. \A u : Now(u)' = Now(u)
  BY <1>2 DEF Now
<1> QED BY <1>2, <1>3 DEF Fresh

\* What is appended, and what a tail leaves out.
LEMMA RangeOfAppend ==
    ASSUME NEW T, NEW s \in Seq(T), NEW e \in T
    PROVE  Range(Append(s, e)) = Range(s) \union {e}
<1>1. /\ Append(s, e) \in Seq(T) /\ Len(Append(s, e)) = Len(s) + 1 /\ Len(s) \in Nat
      /\ DOMAIN s = 1 .. Len(s) /\ DOMAIN Append(s, e) = 1 .. Len(s) + 1
      /\ \A k \in 1 .. Len(s) : Append(s, e)[k] = s[k]
      /\ Append(s, e)[Len(s) + 1] = e
  BY AppendProperties, LenProperties
<1> QED BY <1>1 DEF Range

LEMMA RangeOfTail ==
    ASSUME NEW T, NEW s \in Seq(T), s # <<>>
    PROVE  Range(s) = {Head(s)} \union Range(Tail(s))
<1> DEFINE size == Len(s)
           t == Tail(s)
<1>1. /\ size \in Nat /\ size >= 1 /\ DOMAIN s = 1 .. size /\ Head(s) = s[1]
      /\ DOMAIN t = 1 .. size - 1 /\ \A k \in 1 .. size - 1 : t[k] = s[k + 1]
  BY HeadTailProperties, LenProperties, EmptySeq
<1> HIDE DEF size, t
<1>2. ASSUME NEW x \in Range(s)
      PROVE  x \in {Head(s)} \union Range(t)
  <2>1. PICK k \in 1 .. size : s[k] = x
    BY <1>1 DEF Range
  <2>2. CASE k = 1
    BY <1>1, <2>1, <2>2
  <2>3. CASE k # 1
    <3>1. k - 1 \in 1 .. size - 1 /\ (k - 1) + 1 = k
      BY <1>1, <2>3
    <3>2. t[k - 1] = x
      BY <1>1, <2>1, <3>1
    <3> QED BY <1>1, <3>1, <3>2 DEF Range
  <2> QED BY <2>2, <2>3
<1>3. ASSUME NEW x \in {Head(s)} \union Range(t)
      PROVE  x \in Range(s)
  <2>1. CASE x = Head(s)
    <3>1. 1 \in DOMAIN s
      BY <1>1
    <3> QED BY <1>1, <2>1, <3>1 DEF Range
  <2>2. CASE x \in Range(t)
    <3>1. PICK k \in 1 .. size - 1 : t[k] = x
      BY <1>1, <2>2 DEF Range
    <3>2. k + 1 \in DOMAIN s /\ s[k + 1] = x
      BY <1>1, <3>1
    <3> QED BY <3>2 DEF Range
  <2> QED BY <2>1, <2>2
<1> QED BY <1>2, <1>3 DEF t

\* A layer that is made is attached to nothing yet.
LEMMA MadeIsNotFetched ==
    ASSUME PolicyTypeOK, NEW name, NEW v \in Users, owner' = Append(owner, v),
           layers' = With(layers, Len(owner) + 1, name), UNCHANGED attached, NEW u
    PROVE  FetchedFor(u)' = FetchedFor(u)
<1>1. /\ Len(owner) \in Nat /\ DOMAIN owner = 1 .. Len(owner) /\ owner \in Seq(Users)
      /\ attached \subseteq DOMAIN owner /\ Present \subseteq DOMAIN owner
  BY LayerRows DEF PolicyTypeOK, Present
<1>2. \A l \in DOMAIN owner : owner'[l] = owner[l]
  BY <1>1, AppendProperties
<1>3. Present' = Present \union {Len(owner) + 1} /\ Len(owner) + 1 \notin attached
  BY <1>1 DEF Present, With
<1> QED BY <1>1, <1>2, <1>3 DEF FetchedFor

\* The steps of the service: they edit what a fetch reads, or keep it.
LEMMA ServiceSteps ==
    ASSUME Typed,
           \/ \E q \in Requests : WebStep(q) \/ Insert(q)
           \/ (\E u \in Users : StartApply(u)) \/ ApplyStep
    PROVE  \/ Edited
           \/ (\A u : FetchedFor(u)' = FetchedFor(u)) /\ UNCHANGED <<rules, fetch, cache, current>>
<1> USE DEF tableVars, daemonVars
<1> DEFINE Keeps == (\A u : FetchedFor(u)' = FetchedFor(u)) /\ UNCHANGED <<rules, fetch, cache, current>>
<1>1. ASSUME UNCHANGED <<owner, layers, attached, rules, fetch, cache, current>>
      PROVE  Keeps
  BY <1>1 DEF FetchedFor, Present
<1>2. ASSUME NEW name, NEW v \in Users, owner' = Append(owner, v),
             layers' = With(layers, Len(owner) + 1, name), UNCHANGED <<attached, rules, fetch, cache, current>>
      PROVE  Keeps
  BY <1>2, MadeIsNotFetched DEF Typed
<1>3. ASSUME NEW q, NEW l, NEW name, RenameLayer(q, l, name)
      PROVE  Keeps
  BY <1>3 DEF RenameLayer, FetchedFor, Present
<1> HIDE DEF Keeps
<1>4. ASSUME NEW q \in Requests, WebStep(q)
      PROVE  Edited \/ Keeps
  <2>1. ASSUME NEW u \in Users, NEW name \in Names, CreateLayer(q, u, name)
        PROVE  Keeps
    BY <1>2, <2>1 DEF CreateLayer
  <2>2. ASSUME NEW l, DeleteLayer(q, l) \/ Detach(q, l)
        PROVE  Edited
    BY <2>2 DEF DeleteLayer, Detach, EditedBy
  <2>3. ASSUME NEW l, NEW says, NEW order, CheckAttach(q, l) \/ CheckInsert(q, l, says) \/ CheckReorder(q, l, order)
        PROVE  Keeps
    BY <1>1, <2>3 DEF CheckAttach, CheckInsert, CheckReorder
  <2>4. ASSUME NEW id, NEW says, DeleteRule(q, id) \/ UpdateRule(q, id, says) \/ Attach(q) \/ Reorder(q)
        PROVE  Edited
    BY <2>4 DEF DeleteRule, UpdateRule, Attach, Reorder, EditedBy
  <2> QED BY <1>3, <1>4, <2>1, <2>2, <2>3, <2>4 DEF WebStep
<1>5. ASSUME NEW q \in Requests, Insert(q)
      PROVE  Edited
  BY <1>5 DEF Insert, EditedBy
<1>6. ASSUME NEW u \in Users, StartApply(u)
      PROVE  Keeps
  BY <1>1, <1>6 DEF StartApply
<1>7. ASSUME ApplyStep
      PROVE  Edited \/ Keeps
  <2>1. ASSUME ApplyCreates
        PROVE  Keeps
    <3>1. apply.user \in Users
      BY <2>1 DEF ApplyCreates, Typed, PolicyTypeOK, Applying, Applies
    <3> QED BY <1>2, <2>1, <3>1 DEF ApplyCreates
  <2>2. ASSUME ApplyDeletes
        PROVE  Edited
    BY <2>2 DEF ApplyDeletes
  <2>3. ASSUME ApplyEmptied \/ ApplyAdds \/ ApplyEnds \/ ApplyStops
        PROVE  Keeps
    BY <1>1, <2>3 DEF ApplyEmptied, ApplyAdds, ApplyEnds, ApplyStops
  <2> QED BY <1>7, <2>1, <2>2, <2>3 DEF ApplyStep
<1>8. Edited \/ Keeps
  BY <1>4, <1>5, <1>6, <1>7
<1> QED BY <1>8 DEF Keeps

\* The steps of the daemon leave the tables as they are.
LEMMA TablesStay ==
    ASSUME UNCHANGED tableVars
    PROVE  (\A l : SentNow(l)' = SentNow(l)) /\ (\A u : Now(u)' = Now(u))
<1>1. \A u : FetchedFor(u)' = FetchedFor(u)
  BY DEF tableVars, FetchedFor, Present
<1>2. \A l : RulesOf(l)' = RulesOf(l)
  BY DEF tableVars, RulesOf, RuleIds, Before
<1>3. \A l : SentNow(l)' = SentNow(l)
  BY <1>2 DEF SentNow
<1> QED BY <1>1, <1>3 DEF Now

\* So what is fresh afterwards can be told from the tables before.
LEMMA FreshAgain ==
    ASSUME UNCHANGED tableVars,
           \A v \in current' : Range(cache'[v]) = Now(v),
           \A g \in Fetches : \A v \in Users : fetch'[g] # Nobody /\ fetch'[g].current /\ fetch'[g].user = v =>
             Range(fetch'[g].got) \union {SentNow(l) : l \in Range(fetch'[g].todo)} = Now(v)
    PROVE  Fresh'
<1>1. (\A l : SentNow(l)' = SentNow(l)) /\ (\A v : Now(v)' = Now(v))
  BY TablesStay
<1>2. \A v \in current' : Range(cache'[v]) = Now(v)'
  BY <1>1
<1>3. ASSUME NEW g \in Fetches, NEW v \in Users, fetch'[g] # Nobody, fetch'[g].current, fetch'[g].user = v
      PROVE  Range(fetch'[g].got) \union {SentNow(l)' : l \in Range(fetch'[g].todo)} = Now(v)'
  <2>1. {SentNow(l)' : l \in Range(fetch'[g].todo)} = {SentNow(l) : l \in Range(fetch'[g].todo)}
    BY <1>1
  <2> QED BY <1>1, <1>3, <2>1
<1> QED BY <1>2, <1>3 DEF Fresh

LEMMA FreshBegins ==
    ASSUME Typed, Fresh, NEW f \in Fetches, NEW u \in Users, BeginFetch(f, u)
    PROVE  Fresh'
<1> DEFINE e == [user |-> u, todo |-> InOrder(FetchedFor(u), ByName(u)), got |-> <<>>, current |-> TRUE]
<1>1. fetch' = [fetch EXCEPT ![f] = e] /\ UNCHANGED tableVars /\ UNCHANGED <<cache, current>>
  BY DEF BeginFetch
<1>2. Range(e.got) = {} /\ Range(e.todo) = FetchedFor(u) /\ e.user = u
  BY FetchedInOrder DEF Typed, Range
<1>3. Range(e.got) \union {SentNow(l) : l \in Range(e.todo)} = Now(e.user)
  BY <1>2 DEF Now
<1> HIDE DEF e
<1>4. \A g \in Fetches : fetch'[g] = IF g = f THEN e ELSE fetch[g]
  BY <1>1 DEF Typed, PolicyTypeOK
<1>5. (\A l : SentNow(l)' = SentNow(l)) /\ (\A v : Now(v)' = Now(v))
  BY <1>1, TablesStay
<1>6. \A g \in Fetches : \A v \in Users : fetch'[g] # Nobody /\ fetch'[g].current /\ fetch'[g].user = v =>
        Range(fetch'[g].got) \union {SentNow(l) : l \in Range(fetch'[g].todo)} = Now(v)
  BY <1>3, <1>4, <1>5 DEF Fresh
<1>7. \A v \in current' : Range(cache'[v]) = Now(v)
  BY <1>1, <1>5 DEF Fresh
<1> QED BY <1>1, <1>6, <1>7, FreshAgain

LEMMA FreshReads ==
    ASSUME Typed, Fresh, NEW f \in Fetches, ReadLayer(f)
    PROVE  Fresh'
<1> DEFINE head == Head(fetch[f].todo)
           e == [user |-> fetch[f].user, todo |-> Tail(fetch[f].todo),
                 got |-> Append(fetch[f].got, SentNow(head)), current |-> fetch[f].current]
<1>1. /\ fetch[f] \in Fetching /\ fetch[f] # Nobody /\ fetch[f].todo # <<>>
      /\ fetch' = [fetch EXCEPT ![f] = e] /\ UNCHANGED tableVars /\ UNCHANGED <<cache, current>>
  BY LayerIsRead DEF Typed, ReadLayer
<1>2. fetch[f].todo \in Seq(LayerIds) /\ fetch[f].got \in Seq(Sent)
  BY <1>1 DEF Fetching
<1>3. Range(fetch[f].todo) = {head} \union Range(Tail(fetch[f].todo))
  BY <1>1, <1>2, RangeOfTail
<1>4. Range(e.got) = Range(fetch[f].got) \union {SentNow(head)}
  <2>1. SentNow(head) \in Sent
    BY <1>1, <1>2, SentNowType, HeadTailProperties DEF Typed
  <2> QED BY <1>2, <2>1, RangeOfAppend
<1>5. Range(e.got) \union {SentNow(l) : l \in Range(e.todo)} =
        Range(fetch[f].got) \union {SentNow(l) : l \in Range(fetch[f].todo)}
  BY <1>3, <1>4
<1>6. e.user = fetch[f].user /\ e.current = fetch[f].current
  OBVIOUS
<1> HIDE DEF e
<1>7. \A g \in Fetches : fetch'[g] = IF g = f THEN e ELSE fetch[g]
  BY <1>1 DEF Typed, PolicyTypeOK
<1>8. (\A l : SentNow(l)' = SentNow(l)) /\ (\A v : Now(v)' = Now(v))
  BY <1>1, TablesStay
<1>9. \A g \in Fetches : \A v \in Users : fetch'[g] # Nobody /\ fetch'[g].current /\ fetch'[g].user = v =>
        Range(fetch'[g].got) \union {SentNow(l) : l \in Range(fetch'[g].todo)} = Now(v)
  BY <1>1, <1>5, <1>6, <1>7, <1>8 DEF Fresh
<1>10. \A v \in current' : Range(cache'[v]) = Now(v)
  BY <1>1, <1>8 DEF Fresh
<1> QED BY <1>1, <1>9, <1>10, FreshAgain

LEMMA FreshEnds ==
    ASSUME Typed, Fresh, NEW f \in Fetches, EndFetch(f)
    PROVE  Fresh'
<1> DEFINE u == fetch[f].user
<1>1. /\ fetch[f] # Nobody /\ fetch[f].todo = <<>> /\ UNCHANGED tableVars
      /\ cache' = [cache EXCEPT ![u] = fetch[f].got]
      /\ current' = IF fetch[f].current THEN current \union {u} ELSE current \ {u}
      /\ \A g \in Fetches : fetch'[g] = IF g = f THEN Nobody ELSE fetch[g]
  BY DEF EndFetch, SetPolicyLayers, Typed, PolicyTypeOK
<1>2. \A v \in Users : cache'[v] = IF v = u THEN fetch[f].got ELSE cache[v]
  BY <1>1 DEF Typed, PolicyTypeOK
<1>3. (\A l : SentNow(l)' = SentNow(l)) /\ (\A v : Now(v)' = Now(v))
  BY <1>1, TablesStay
<1>4. fetch[f].current => Range(fetch[f].got) = Now(u)
  <2>1. u \in Users
    BY <1>1 DEF Typed, PolicyTypeOK, Fetching
  <2>2. Range(fetch[f].todo) = {}
    BY <1>1 DEF Range
  <2>3. {SentNow(l) : l \in Range(fetch[f].todo)} = {}
    BY <2>2
  <2> QED BY <1>1, <2>1, <2>3 DEF Fresh
<1>5. u \in Users /\ current \subseteq Users
  BY <1>1 DEF Typed, PolicyTypeOK, Fetching
<1> HIDE DEF u
<1>6. \A v \in current' : Range(cache'[v]) = Now(v)
  BY <1>1, <1>2, <1>3, <1>4, <1>5 DEF Fresh
<1>7. \A g \in Fetches : \A v \in Users : fetch'[g] # Nobody /\ fetch'[g].current /\ fetch'[g].user = v =>
        Range(fetch'[g].got) \union {SentNow(l) : l \in Range(fetch'[g].todo)} = Now(v)
  BY <1>1, <1>3 DEF Fresh
<1> QED BY <1>1, <1>6, <1>7, FreshAgain

LEMMA FreshSteps == FreshInv /\ [PolicyNext]_policyVars => FreshInv'
<1> SUFFICES ASSUME FreshInv, [PolicyNext]_policyVars
             PROVE  FreshInv'
  OBVIOUS
<1>1. Typed /\ Fresh /\ PolicyTypeOK
  BY DEF FreshInv, Typed
<1>2. Typed'
  BY <1>1, TypedSteps
<1>3. ASSUME \/ \E q \in Requests : WebStep(q) \/ Insert(q)
             \/ (\E u \in Users : StartApply(u)) \/ ApplyStep
      PROVE  Fresh'
  BY <1>1, <1>3, ServiceSteps, EditedIsFresh, FreshKept
<1>4. ASSUME NEW f \in Fetches, FetchFails(f)
      PROVE  Fresh'
  <2>1. /\ UNCHANGED tableVars /\ UNCHANGED <<cache, current>>
        /\ \A g \in Fetches : fetch'[g] = IF g = f THEN Nobody ELSE fetch[g]
    BY <1>1, <1>4 DEF FetchFails, Typed, PolicyTypeOK
  <2>2. (\A l : SentNow(l)' = SentNow(l)) /\ (\A v : Now(v)' = Now(v))
    BY <2>1, TablesStay
  <2> QED BY <1>1, <2>1, <2>2 DEF Fresh
<1>5. ASSUME Restart
      PROVE  Fresh'
  BY <1>5 DEF Restart, Fresh
<1>6. ASSUME UNCHANGED policyVars
      PROVE  Fresh'
  <2>1. UNCHANGED <<rules, fetch, cache, current>> /\ \A u : FetchedFor(u)' = FetchedFor(u)
    BY <1>6 DEF policyVars, tableVars, daemonVars, FetchedFor, Present
  <2> QED BY <1>1, <2>1, FreshKept
<1>7. Fresh'
  BY <1>1, <1>3, <1>4, <1>5, <1>6, FreshBegins, FreshReads, FreshEnds DEF PolicyNext, Web
<1> QED BY <1>2, <1>7 DEF FreshInv, Typed

\* Once a fetch of the last edit has landed the machine decides each command of
\* an account as that account's own layers in the tables say, for any layers,
\* rules, accounts and overlapping fetches.
THEOREM CopyIsInForce == PolicySpec => []RefreshedIsInForce
<1>1. PolicyInit => FreshInv
  <2> SUFFICES ASSUME PolicyInit
               PROVE  FreshInv
    OBVIOUS
  <2>1. Fresh
    BY DEF PolicyInit, Fresh
  <2> QED BY <2>1, PolicyInitTyped DEF FreshInv, Typed
<1> QED BY <1>1, FreshSteps, FreshIsInForce, PTL DEF PolicySpec


----------------------------------------------------------------------------
(* An apply *)

\* A layer that holds the whole file answers with it.
LEMMA HoldsFile ==
    ASSUME PolicyTypeOK, NEW l, Holds(l, Len(Loaded))
    PROVE  RulesOf(l) = Loaded
<1> DEFINE k == Len(Loaded)
           t == [i \in 1 .. k |-> CHOOSE id \in RuleIds(l) : rules[id].pos = i - 1]
<1>1. k \in Nat /\ DOMAIN Loaded = 1 .. k /\ Loaded \in [1 .. k -> Rules]
  BY FileLoads, LenProperties
<1>2. \A i \in 1 .. k : t[i] \in RuleIds(l) /\ rules[t[i]].pos = i - 1
  BY DEF Holds
<1>3. \A id \in RuleIds(l) : rules[id].pos \in Nat /\ rules[id].pos < k
  BY Rows, RuleIdsInOrder DEF Holds
<1>4. t \in [1 .. k -> RuleIds(l)]
  BY <1>2
<1> HIDE DEF t, k
<1>5. \A id \in RuleIds(l) : \E i \in 1 .. k : t[i] = id
  <2> TAKE id \in RuleIds(l)
  <2> DEFINE i == rules[id].pos + 1
  <2>1. i \in 1 .. k /\ rules[id].pos = i - 1
    BY <1>1, <1>3
  <2> HIDE DEF i
  <2>2. t[i] = id
    BY <1>2, <2>1 DEF Holds, Apart
  <2> QED BY <2>1, <2>2
<1>6. \A i, j \in 1 .. k : i < j => <<t[i], t[j]>> \in ByPosition(l)
  <2> SUFFICES ASSUME NEW i \in 1 .. k, NEW j \in 1 .. k, i < j
               PROVE  <<t[i], t[j]>> \in ByPosition(l)
    OBVIOUS
  <2>1. rules[t[i]].pos < rules[t[j]].pos
    BY <1>1, <1>2
  <2> QED BY <1>2, <2>1 DEF ByPosition, Before
<1>7. InOrder(RuleIds(l), ByPosition(l)) = t
  BY <1>1, <1>4, <1>5, <1>6, RuleIdsInOrder, InOrderIs
<1>8. RulesOf(l) = [i \in 1 .. k |-> rules[t[i]].says]
  BY <1>4, <1>7 DEF RulesOf, ByPosition
<1>9. \A i \in 1 .. k : rules[t[i]].says = Loaded[i]
  <2> TAKE i \in 1 .. k
  <2>1. rules[t[i]].says = Loaded[rules[t[i]].pos + 1] /\ rules[t[i]].pos + 1 = i
    BY <1>1, <1>2 DEF Holds
  <2> QED BY <2>1
<1> QED BY <1>1, <1>8, <1>9

LEMMA FilledAtLast == ApplyInv => ApplyGivesFile
<1> SUFFICES ASSUME ApplyInv, apply.at = "done", apply.alone
             PROVE  RulesOf(apply.layer) = Loaded
  BY DEF ApplyGivesFile
<1>1. Filled /\ apply.left = <<>> /\ request[Cli] = Nobody
  BY DEF ApplyInv, Progress, CliAdds
<1>2. PICK l \in LayerIds, k \in 0 .. Len(Loaded) :
        apply.layer = l /\ Len(apply.left) = Len(Loaded) - k /\ Holds(l, k)
  BY <1>1 DEF Filled
<1>3. k = Len(Loaded)
  BY <1>1, <1>2, FileLoads
<1> QED BY <1>2, <1>3, HoldsFile DEF ApplyInv

\* The rules of a layer stay as they are.
Untouched(l) == RuleIds(l)' = RuleIds(l) /\ \A id \in RuleIds(l) : rules'[id] = rules[id]

LEMMA HoldsStill ==
    ASSUME NEW l, NEW k, Holds(l, k), Untouched(l)
    PROVE  Holds(l, k)'
<1>1. Apart(l)'
  BY DEF Holds, Untouched, Apart
<1> QED BY <1>1 DEF Holds, Untouched

\* Steps that leave the apply where it is, and its layer, if it has it for
\* itself and goes on doing so.
Leaves ==
    /\ request'[Cli] = request[Cli]
    /\ apply'.at = apply.at /\ apply'.layer = apply.layer
    /\ apply'.old = apply.old /\ apply'.left = apply.left
    /\ apply'.alone => apply.alone /\ Untouched(apply.layer)

LEMMA ProgressKept ==
    ASSUME Progress, Leaves
    PROVE  Progress'
<1>1. CliAdds'
  BY DEF Progress, CliAdds, Leaves
<1>2. ASSUME apply'.at = "emptying", apply'.alone
      PROVE  \E l \in LayerIds : apply'.layer = l /\ RuleIds(l)' \subseteq apply'.old
  <2>1. PICK l \in LayerIds : apply.layer = l /\ RuleIds(l) \subseteq apply.old
    BY <1>2 DEF Progress, Leaves
  <2> QED BY <1>2, <2>1 DEF Leaves, Untouched
<1>3. ASSUME apply'.at \in {"filling", "done"}, apply'.alone
      PROVE  Filled'
  <2>1. apply.at \in {"filling", "done"} /\ apply.alone /\ Filled
    BY <1>3 DEF Progress, Leaves
  <2>2. PICK l \in LayerIds, k \in 0 .. Len(Loaded) :
            /\ apply.layer = l /\ Len(apply.left) = Len(Loaded) - k
            /\ \A i \in 1 .. Len(Loaded) - k : apply.left[i] = Loaded[k + i]
            /\ request[Cli] = Nobody => Holds(l, k)
            /\ request[Cli] # Nobody =>
                /\ k >= 1 /\ Holds(l, k - 1)
                /\ request[Cli].pos = k - 1 /\ request[Cli].says = Loaded[k]
    BY <2>1 DEF Filled
  <2>3. \A i : Holds(l, i) => Holds(l, i)'
    BY <1>3, <2>2, HoldsStill DEF Leaves
  <2> QED BY <2>2, <2>3 DEF Filled, Leaves
<1> QED BY <1>1, <1>2, <1>3 DEF Progress, Leaves

\* An edit by another than the apply that keeps to one layer.
LEMMA EditedLeaves ==
    ASSUME Typed, NEW q, q # Cli, NEW l, EditedBy(q, l), request'[Cli] = request[Cli],
           \A m : m # l => Untouched(m)
    PROVE  Leaves
<1>1. apply \in Applying
  BY DEF Typed, PolicyTypeOK
<1>2. /\ apply'.at = apply.at /\ apply'.layer = apply.layer
      /\ apply'.old = apply.old /\ apply'.left = apply.left
      /\ apply'.alone = (apply.alone /\ (q = Cli \/ apply.layer # l))
  BY <1>1 DEF EditedBy, Applying, Applies
<1> QED BY <1>2 DEF Leaves

\* Rules that go are those of one layer.
LEMMA GoneUntouched ==
    ASSUME NEW S, NEW l, rules' = Restrict(rules, DOMAIN rules \ S), \A id \in S : rules[id].layer = l
    PROVE  \A m : m # l => Untouched(m)
<1>1. DOMAIN rules' = DOMAIN rules \ S /\ \A id \in DOMAIN rules \ S : rules'[id] = rules[id]
  BY DEF Restrict
<1> QED BY <1>1 DEF Untouched, RuleIds

LEMMA WebLeaves ==
    ASSUME Typed, NEW q \in Web, WebStep(q) \/ Insert(q)
    PROVE  Leaves
<1> USE DEF tableVars, daemonVars
<1>1. q # Cli /\ q \in Requests /\ Cli \in Requests
  BY PolicyAssumption DEF Web
<1>2. request \in [Requests -> Insertion \union Attachment \union Reordering \union {Nobody}]
  BY DEF Typed, PolicyTypeOK
<1>3. ASSUME UNCHANGED <<rules, apply>>, request'[Cli] = request[Cli]
      PROVE  Leaves
  BY <1>3 DEF Leaves, Untouched, RuleIds
<1>4. ASSUME NEW l, DeleteLayer(q, l)
      PROVE  Leaves
  <2>1. rules' = Restrict(rules, DOMAIN rules \ RuleIds(l)) /\ \A id \in RuleIds(l) : rules[id].layer = l
    BY <1>4 DEF DeleteLayer, RuleIds
  <2>2. \A m : m # l => Untouched(m)
    BY <2>1, GoneUntouched
  <2> QED BY <1>1, <1>4, <2>2, EditedLeaves DEF DeleteLayer
<1>5. ASSUME NEW id \in DOMAIN rules, DeleteRule(q, id)
      PROVE  Leaves
  <2> DEFINE S == {id}
             l == rules[id].layer
  <2>1. rules' = Restrict(rules, DOMAIN rules \ S) /\ \A i \in S : rules[i].layer = l
    BY <1>5 DEF DeleteRule
  <2> HIDE DEF S, l
  <2>2. \A m : m # l => Untouched(m)
    BY <2>1, GoneUntouched
  <2>3. EditedBy(q, l) /\ request'[Cli] = request[Cli]
    BY <1>5 DEF DeleteRule, l
  <2> QED BY <1>1, <2>2, <2>3, EditedLeaves
<1>6. ASSUME NEW id \in DOMAIN rules, NEW says \in Rules, UpdateRule(q, id, says)
      PROVE  Leaves
  <2>1. /\ DOMAIN rules' = DOMAIN rules /\ rules'[id].layer = rules[id].layer
        /\ \A i \in DOMAIN rules : i # id => rules'[i] = rules[i]
    BY <1>6, Rows DEF UpdateRule, Typed, Row
  <2>2. \A m : m # rules[id].layer => Untouched(m)
    BY <2>1 DEF Untouched, RuleIds
  <2> QED BY <1>1, <1>6, <2>2, EditedLeaves DEF UpdateRule
<1>7. ASSUME Insert(q)
      PROVE  Leaves
  <2>1. \A m : m # request[q].layer => Untouched(m)
    BY <1>1, <1>7, AfterInsert DEF Untouched
  <2> QED BY <1>1, <1>2, <1>7, <2>1, EditedLeaves DEF Insert
<1>8. ASSUME Reorder(q)
      PROVE  Leaves
  <2>1. \A m : m # request[q].layer => Untouched(m)
    BY <1>1, <1>8, AfterReorder DEF Untouched
  <2> QED BY <1>1, <1>2, <1>8, <2>1, EditedLeaves DEF Reorder
<1>9. ASSUME WebStep(q)
      PROVE  Leaves
  <2>1. ASSUME NEW u, NEW name, CreateLayer(q, u, name)
        PROVE  Leaves
    BY <1>3, <2>1 DEF CreateLayer
  <2>2. ASSUME NEW l, NEW name, RenameLayer(q, l, name)
        PROVE  Leaves
    BY <1>3, <2>2 DEF RenameLayer
  <2>3. ASSUME NEW l, CheckAttach(q, l)
        PROVE  Leaves
    BY <1>1, <1>2, <1>3, <2>3 DEF CheckAttach
  <2>4. ASSUME NEW l, Detach(q, l)
        PROVE  Leaves
    BY <1>3, <2>4 DEF Detach
  <2>5. ASSUME NEW l, NEW says, CheckInsert(q, l, says)
        PROVE  Leaves
    BY <1>1, <1>2, <1>3, <2>5 DEF CheckInsert, PlaceRule
  <2>6. ASSUME NEW l, NEW order, CheckReorder(q, l, order)
        PROVE  Leaves
    BY <1>1, <1>2, <1>3, <2>6 DEF CheckReorder
  <2>7. ASSUME Attach(q)
        PROVE  Leaves
    BY <1>1, <1>2, <1>3, <2>7 DEF Attach
  <2> QED BY <1>4, <1>5, <1>6, <1>8, <1>9, <2>1, <2>2, <2>3, <2>4, <2>5, <2>6, <2>7 DEF WebStep
<1> QED BY <1>7, <1>9

\* Where an apply starts: with the whole file, and the rules there are.
LEMMA ProgressStarts ==
    ASSUME Typed, Progress, NEW u \in Users, StartApply(u)
    PROVE  Progress'
<1>1. request[Cli] = Nobody /\ request' = request /\ rules' = rules
  BY DEF StartApply, Progress, CliAdds, tableVars
<1>2. ASSUME ApplyTo(u, 0, "creating", {})
      PROVE  Progress'
  BY <1>1, <1>2 DEF ApplyTo, Progress, CliAdds
<1>3. ASSUME NEW l \in Named(u, FileName), ApplyTo(u, l, "emptying", RuleIds(l))
      PROVE  Progress'
  <2>1. l \in LayerIds
    BY LayerRows DEF Typed, Named
  <2>2. RuleIds(l)' = RuleIds(l)
    BY <1>1 DEF RuleIds
  <2>3. apply'.at = "emptying" /\ apply'.left = Loaded /\ apply'.layer = l /\ apply'.old = RuleIds(l)
    BY <1>3 DEF ApplyTo
  <2>4. \E m \in LayerIds : apply'.layer = m /\ RuleIds(m)' \subseteq apply'.old
    BY <2>1, <2>2, <2>3
  <2> QED BY <1>1, <2>3, <2>4 DEF Progress, CliAdds
<1> QED BY <1>2, <1>3 DEF StartApply

\* It begins to fill a layer that holds nothing.
LEMMA ProgressFills ==
    ASSUME Typed, Progress, apply.at \in {"creating", "emptying"}, request' = request,
           apply'.at = "filling", apply'.left = apply.left,
           apply'.alone => \E l \in LayerIds : apply'.layer = l /\ RuleIds(l)' = {}
    PROVE  Progress'
<1>1. request'[Cli] = Nobody /\ apply'.left = Loaded
  BY DEF Progress, CliAdds
<1>2. ASSUME apply'.alone
      PROVE  Filled'
  <2>1. PICK l \in LayerIds : apply'.layer = l /\ RuleIds(l)' = {}
    BY <1>2
  <2>2. Holds(l, 0)'
    BY <2>1 DEF Holds, Apart
  <2>3. /\ 0 \in 0 .. Len(Loaded) /\ Len(Loaded) = Len(Loaded) - 0
        /\ \A i \in 1 .. Len(Loaded) - 0 : Loaded[i] = Loaded[0 + i]
    BY FileLoads
  <2> QED BY <1>1, <2>1, <2>2, <2>3 DEF Filled
<1> QED BY <1>1, <1>2 DEF Progress, CliAdds

LEMMA ProgressCreates ==
    ASSUME Typed, Progress, ApplyCreates
    PROVE  Progress'
<1>1. apply \in Applying
  BY DEF Typed, PolicyTypeOK
<1>2. PICK l : l = Len(owner) + 1
  OBVIOUS
<1>3. /\ apply.at = "creating" /\ request' = request /\ rules' = rules
      /\ apply'.at = "filling" /\ apply'.left = apply.left /\ apply'.layer = l
  BY <1>1, <1>2 DEF ApplyCreates, Applying, Applies
<1>4. l \in LayerIds /\ l \notin DOMAIN owner
  BY <1>2, LayerRows, PolicyAssumption DEF ApplyCreates, Typed, LayerIds
<1>5. RuleIds(l)' = {}
  BY <1>3, <1>4 DEF Typed, Known, RuleIds
<1> QED BY <1>3, <1>4, <1>5, ProgressFills

LEMMA ProgressDeletes ==
    ASSUME Typed, Progress, ApplyDeletes
    PROVE  Progress'
<1>1. PICK id : /\ rules' = Restrict(rules, DOMAIN rules \ {id})
                /\ apply' = [apply EXCEPT !.old = apply.old \ {id}]
  BY DEF ApplyDeletes
<1>2. apply \in Applying
  BY DEF Typed, PolicyTypeOK
<1>3. /\ apply.at = "emptying" /\ request' = request
      /\ apply'.at = apply.at /\ apply'.layer = apply.layer /\ apply'.left = apply.left
      /\ apply'.alone = apply.alone /\ apply'.old = apply.old \ {id}
  BY <1>1, <1>2 DEF ApplyDeletes, Applying, Applies
<1>4. \A l : RuleIds(l)' = RuleIds(l) \ {id}
  BY <1>1 DEF RuleIds, Restrict
<1>5. ASSUME apply'.alone
      PROVE  \E l \in LayerIds : apply'.layer = l /\ RuleIds(l)' \subseteq apply'.old
  BY <1>3, <1>4, <1>5 DEF Progress
<1> QED BY <1>3, <1>5 DEF Progress, CliAdds

LEMMA ProgressEmptied ==
    ASSUME Typed, Progress, ApplyEmptied
    PROVE  Progress'
<1>1. apply \in Applying
  BY DEF Typed, PolicyTypeOK
<1>2. /\ apply.at = "emptying" /\ apply.old = {} /\ request' = request /\ rules' = rules
      /\ apply'.at = "filling" /\ apply'.left = apply.left /\ apply'.layer = apply.layer
      /\ apply'.alone = apply.alone
  BY <1>1 DEF ApplyEmptied, Applying, Applies, tableVars
<1>3. \A l : RuleIds(l)' = RuleIds(l)
  BY <1>2 DEF RuleIds
<1>4. ASSUME apply'.alone
      PROVE  \E l \in LayerIds : apply'.layer = l /\ RuleIds(l)' = {}
  BY <1>2, <1>3, <1>4 DEF Progress
<1> QED BY <1>2, <1>4, ProgressFills

\* The place of the next rule is that after the k there are.
LEMMA NextAfterFilled ==
    ASSUME Typed, NEW l, NEW k \in Nat, Holds(l, k)
    PROVE  NextPosition(l) = k
<1>1. /\ NextPosition(l) \in Nat
      /\ \A id \in RuleIds(l) : rules[id].pos < NextPosition(l)
      /\ NextPosition(l) = 0 \/ \E id \in RuleIds(l) : NextPosition(l) = rules[id].pos + 1
  BY NextIsPast DEF Typed
<1>2. \A id \in RuleIds(l) : rules[id].pos \in Nat
  BY Rows, RuleIdsInOrder DEF Typed
<1>3. NextPosition(l) <= k
  BY <1>1, <1>2 DEF Holds
<1>4. CASE k = 0
  BY <1>1, <1>3, <1>4
<1>5. CASE k # 0
  <2>1. k \in 1 .. k
    BY <1>5
  <2>2. PICK id \in RuleIds(l) : rules[id].pos = k - 1
    BY <2>1 DEF Holds
  <2> QED BY <1>1, <1>3, <2>2
<1> QED BY <1>4, <1>5

LEMMA ProgressAdds ==
    ASSUME Typed, Progress, ApplyAdds
    PROVE  Progress'
<1> DEFINE r == [do |-> "insert", layer |-> apply.layer, pos |-> NextPosition(apply.layer),
                 says |-> Head(apply.left)]
<1>1. apply \in Applying /\ apply.left \in Seq(Rules)
  BY DEF Typed, PolicyTypeOK, Applying, Applies
<1>2. /\ apply.at = "filling" /\ apply.left # <<>> /\ request[Cli] = Nobody /\ rules' = rules
      /\ apply'.at = "filling" /\ apply'.left = Tail(apply.left) /\ apply'.layer = apply.layer
      /\ apply'.alone = apply.alone
  BY <1>1 DEF ApplyAdds, Applying, Applies, tableVars
<1>3. request'[Cli] = r /\ r.do = "insert" /\ r.layer = apply.layer
  BY PolicyAssumption DEF ApplyAdds, PlaceRule, Typed, PolicyTypeOK
<1>4. ASSUME apply'.alone
      PROVE  Filled'
  <2>1. PICK l \in LayerIds, k \in 0 .. Len(Loaded) :
            /\ apply.layer = l /\ Len(apply.left) = Len(Loaded) - k
            /\ \A i \in 1 .. Len(Loaded) - k : apply.left[i] = Loaded[k + i]
            /\ Holds(l, k)
    BY <1>2, <1>4 DEF Progress, Filled
  <2>2. /\ Len(apply.left) >= 1 /\ Head(apply.left) = apply.left[1]
        /\ Len(Tail(apply.left)) = Len(apply.left) - 1
        /\ \A i \in 1 .. Len(apply.left) - 1 : Tail(apply.left)[i] = apply.left[i + 1]
    BY <1>1, <1>2, HeadTailProperties, LenProperties, EmptySeq
  <2>3. k \in Nat /\ Len(Loaded) \in Nat /\ k + 1 \in 0 .. Len(Loaded)
    <3>1. Len(Loaded) \in Nat /\ Len(Loaded) - k >= 1
      BY <2>1, <2>2, FileLoads
    <3> QED BY <2>1, <3>1
  <2>4. r.pos = k /\ r.says = Loaded[k + 1]
    BY <2>1, <2>2, <2>3, NextAfterFilled
  <2>5. Holds(l, k)'
    BY <1>2, <2>1, HoldsStill DEF Untouched, RuleIds
  <2> HIDE DEF r
  <2>6. Len(apply'.left) = Len(Loaded) - (k + 1)
    BY <1>2, <2>1, <2>2, <2>3
  <2>7. \A i \in 1 .. Len(Loaded) - (k + 1) : apply'.left[i] = Loaded[(k + 1) + i]
    <3> TAKE i \in 1 .. Len(Loaded) - (k + 1)
    <3>1. i + 1 \in 1 .. Len(Loaded) - k /\ i \in 1 .. Len(apply.left) - 1 /\ k + (i + 1) = (k + 1) + i
      BY <2>1, <2>3
    <3> QED BY <1>2, <2>1, <2>2, <3>1
  <2>8. (k + 1) - 1 = k /\ k + 1 >= 1
    BY <2>3
  <2>9. r # Nobody => /\ k + 1 >= 1 /\ Holds(l, (k + 1) - 1)'
                      /\ r.pos = (k + 1) - 1 /\ r.says = Loaded[k + 1]
    BY <2>4, <2>5, <2>8
  <2>10. r # Nobody
    <3>1. r \in Insertion
      BY <1>1, <1>2, <2>1, <2>2, NextIsPast, HeadTailProperties DEF r, Insertion, Typed
    <3> QED BY <3>1, NobodyIsNone
  <2> QED BY <1>2, <1>3, <2>1, <2>3, <2>6, <2>7, <2>9, <2>10 DEF Filled
<1> HIDE DEF r
<1> QED BY <1>2, <1>3, <1>4 DEF Progress, CliAdds

\* The apply's own rule is added: the layer holds one more of the file.
LEMMA ProgressInserts ==
    ASSUME Typed, Progress, Insert(Cli)
    PROVE  Progress'
<1>1. Cli \in Requests /\ apply \in Applying
  BY PolicyAssumption DEF Typed, PolicyTypeOK
<1>2. /\ request[Cli] # Nobody /\ apply.at = "filling" /\ request[Cli].layer = apply.layer
      /\ request'[Cli] = Nobody
  BY <1>1 DEF Insert, Progress, CliAdds, Typed, PolicyTypeOK
<1>3. /\ apply'.at = "filling" /\ apply'.layer = apply.layer /\ apply'.left = apply.left
      /\ apply'.alone => apply.alone
  BY <1>1, <1>2 DEF Insert, EditedBy, Applying, Applies
<1>4. ASSUME apply'.alone
      PROVE  Filled'
  <2>1. PICK l \in LayerIds, k \in 0 .. Len(Loaded) :
            /\ apply.layer = l /\ Len(apply.left) = Len(Loaded) - k
            /\ \A i \in 1 .. Len(Loaded) - k : apply.left[i] = Loaded[k + i]
            /\ k >= 1 /\ Holds(l, k - 1)
            /\ request[Cli].pos = k - 1 /\ request[Cli].says = Loaded[k]
    BY <1>2, <1>3, <1>4 DEF Progress, Filled
  <2>2. /\ made + 1 \notin RuleIds(l) /\ RuleIds(l)' = RuleIds(l) \union {made + 1}
        /\ rules'[made + 1].pos = k - 1 /\ rules'[made + 1].says = Loaded[k]
        /\ \A id \in RuleIds(l) : rules'[id] = rules[id]
    <3>1. l = request[Cli].layer
      BY <1>2, <2>1
    <3>2. made + 1 \notin RuleIds(l)
      BY <1>1, AfterInsert DEF RuleIds
    <3> QED BY <1>1, <2>1, <3>1, <3>2, AfterInsert
  <2>3. \A id \in RuleIds(l) : rules[id].pos \in Nat /\ rules[id].pos < k - 1
    BY <2>1, Rows, RuleIdsInOrder DEF Typed, Holds
  <2>4. k \in Nat /\ Len(Loaded) \in Nat
    BY FileLoads
  <2>5. \A id \in RuleIds(l)' : rules'[id].pos < k /\ rules'[id].says = Loaded[rules'[id].pos + 1]
    BY <2>1, <2>2, <2>3, <2>4 DEF Holds
  <2>6. Apart(l)'
    BY <2>1, <2>2, <2>3, <2>4 DEF Holds, Apart
  <2>7. \A i \in 1 .. k : \E id \in RuleIds(l)' : rules'[id].pos = i - 1
    <3> TAKE i \in 1 .. k
    <3>1. CASE i = k
      BY <2>2, <3>1
    <3>2. CASE i # k
      <4>1. i \in 1 .. k - 1
        BY <2>4, <3>2
      <4> QED BY <2>1, <2>2, <4>1 DEF Holds
    <3> QED BY <3>1, <3>2
  <2>8. Holds(l, k)'
    BY <2>5, <2>6, <2>7 DEF Holds
  <2> QED BY <1>2, <1>3, <2>1, <2>8 DEF Filled
<1> QED BY <1>2, <1>3, <1>4 DEF Progress, CliAdds

LEMMA ProgressStops ==
    ASSUME Typed, Progress, ApplyStops \/ ApplyEnds
    PROVE  Progress'
<1>1. apply \in Applying
  BY DEF Typed, PolicyTypeOK
<1>2. request[Cli] = Nobody /\ request' = request /\ rules' = rules
  BY DEF ApplyStops, ApplyEnds, tableVars
<1>3. CASE ApplyStops
  BY <1>2, <1>3 DEF ApplyStops, NoApply, Progress, CliAdds
<1>4. CASE ApplyEnds
  <2>1. /\ apply.at = "filling" /\ apply.left = <<>> /\ apply'.at = "done"
        /\ apply'.layer = apply.layer /\ apply'.left = apply.left /\ apply'.alone = apply.alone
    BY <1>1, <1>4 DEF ApplyEnds, Applying, Applies
  <2>2. \A l, k : Holds(l, k) => Holds(l, k)'
    BY <1>2, HoldsStill DEF Untouched, RuleIds
  <2>3. apply'.alone => Filled'
    BY <1>2, <2>1, <2>2 DEF Progress, Filled
  <2> QED BY <1>2, <2>1, <2>3 DEF Progress, CliAdds
<1> QED BY <1>3, <1>4

LEMMA ApplyInvSteps == ApplyInv /\ [PolicyNext]_policyVars => ApplyInv'
<1> SUFFICES ASSUME ApplyInv, [PolicyNext]_policyVars
             PROVE  ApplyInv'
  OBVIOUS
<1>1. Typed /\ Progress
  BY DEF ApplyInv, Typed
<1>2. Typed'
  BY <1>1, TypedSteps
<1>3. ASSUME UNCHANGED <<rules, apply, request>>
      PROVE  Progress'
  <2>1. Leaves
    BY <1>3 DEF Leaves, Untouched, RuleIds
  <2> QED BY <1>1, <2>1, ProgressKept
<1>4. ASSUME NEW q \in Web, WebStep(q) \/ Insert(q)
      PROVE  Progress'
  BY <1>1, <1>4, WebLeaves, ProgressKept
<1>5. ASSUME NEW q \in Requests, Insert(q)
      PROVE  Progress'
  BY <1>1, <1>4, <1>5, ProgressInserts DEF Web
<1>6. ASSUME NEW u \in Users, StartApply(u)
      PROVE  Progress'
  BY <1>1, <1>6, ProgressStarts
<1>7. ASSUME ApplyStep
      PROVE  Progress'
  BY <1>1, <1>7, ProgressCreates, ProgressDeletes, ProgressEmptied, ProgressAdds, ProgressStops DEF ApplyStep
<1>8. ASSUME NEW f \in Fetches,
             (\E u \in Users : BeginFetch(f, u)) \/ ReadLayer(f) \/ EndFetch(f) \/ FetchFails(f)
      PROVE  Progress'
  BY <1>3, <1>8 DEF BeginFetch, ReadLayer, EndFetch, FetchFails, tableVars
<1>9. ASSUME Restart \/ UNCHANGED policyVars
      PROVE  Progress'
  BY <1>3, <1>9 DEF Restart, policyVars, tableVars
<1>10. Progress'
  BY <1>4, <1>5, <1>6, <1>7, <1>8, <1>9 DEF PolicyNext
<1> QED BY <1>2, <1>10 DEF ApplyInv, Typed

\* An apply that nobody interferes with leaves its layer as the file says, for
\* any file, whatever the layer held and whatever else goes on meanwhile.
THEOREM ApplyLeavesFile == PolicySpec => []ApplyGivesFile
<1>1. PolicyInit => ApplyInv
  <2> SUFFICES ASSUME PolicyInit
               PROVE  ApplyInv
    OBVIOUS
  <2>1. request[Cli] = Nobody /\ apply = NoApply
    BY PolicyAssumption DEF PolicyInit
  <2>2. Progress
    BY <2>1 DEF Progress, CliAdds, NoApply
  <2> QED BY <2>2, PolicyInitTyped DEF ApplyInv, Typed
<1> QED BY <1>1, ApplyInvSteps, FilledAtLast, PTL DEF PolicySpec
=============================================================================
