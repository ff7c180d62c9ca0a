--------------------------- MODULE ConstraintZones ---------------------------
(***************************************************************************)
(* The table constraint_zones (constraints/store.py): official and         *)
(* calculated zones loaded from GeoJSON files, with versions of the zones  *)
(* that have a registry number.                                            *)
(*                                                                         *)
(* A loader is one run of constraints/cli.py load-file.  Its connection is *)
(* not autocommitting: load_zone reads the current row, marks it superseded *)
(* and inserts the next version in one READ COMMITTED transaction.  Other   *)
(* transactions see its writes at the commit, while its UPDATE holds the    *)
(* lock of the row until then.  Nothing locks a registry number that has no *)
(* row, and nothing in the schema makes the current row unique.             *)
(***************************************************************************)
EXTENDS Naturals, Sequences

CONSTANTS
  Numbers,     \* registry numbers
  NoNumber,    \* a calculated zone without one
  Invalid,     \* a feature without zone_type, or official without a number
  NoRow,       \* not a row
  Loaders,     \* load-file processes
  Files,       \* the files operators load: sequences of features
  MaxLoads     \* bound of the model: loads started

Features == Numbers \cup {NoNumber, Invalid}

ASSUME NumberAssumption == NoNumber \notin Numbers /\ Invalid \notin Numbers \cup {NoNumber}
ASSUME FileAssumption == Files \subseteq Seq(Features)

VARIABLES
  zones,       \* the committed rows
  superseded,  \* the ids of the rows whose superseded_at is not NULL
  lastId,      \* the id sequence
  at,          \* per loader, the statement it is about to execute
  file,        \* per loader, the features it has still to load
  found,       \* per loader, the current row load_zone has read
  loads,       \* loads started
  overlapped   \* history: operators have started a load before another had ended

zonesVars == <<zones, superseded, lastId, at, file, found, loads, overlapped>>

\* The columns the versioning reads and writes.
Rows == [id : Nat, number : Numbers \cup {NoNumber}, version : Nat \ {0}]

ASSUME RowAssumption == NoRow \notin Rows

\* The invariant of the types.
TypeOK ==
  /\ zones \subseteq Rows
  /\ superseded \subseteq Nat
  /\ lastId \in Nat
  /\ at \in [Loaders -> {"idle", "find", "supersede", "insert"}]
  /\ file \in [Loaders -> Seq(Features)]
  /\ found \in [Loaders -> Rows \cup {NoRow}]
  /\ loads \in Nat
  /\ overlapped \in BOOLEAN

ZonesInit ==
  /\ zones = {}
  /\ superseded = {}
  /\ lastId = 0
  /\ at = [l \in Loaders |-> "idle"]
  /\ file = [l \in Loaders |-> <<>>]
  /\ found = [l \in Loaders |-> NoRow]
  /\ loads = 0
  /\ overlapped = FALSE
-----------------------------------------------------------------------------
\* WHERE registry_number = n.
ZonesOf(n) == {z \in zones : z.number = n}

\* WHERE registry_number = n AND superseded_at IS NULL.
CurrentRows(n) == {z \in ZonesOf(n) : z.id \notin superseded}

\* registry_number is not None.
Versioned(n) == n # NoNumber

\* Mutant: the version is taken over.
SameVersion(row) == IF row = NoRow THEN 1 ELSE row.version

\* Mutant: the columns of the SELECT are taken in the wrong order.
FromId(row) == IF row = NoRow THEN 1 ELSE row.id + 1

\* next_version.
NextVersion(row) == IF row = NoRow THEN 1 ELSE row.version + 1

\* The process is between two transactions, or gone.
Proceed(l, rest) ==
  /\ at' = [at EXCEPT ![l] = IF rest = <<>> THEN "idle" ELSE "find"]
  /\ file' = [file EXCEPT ![l] = rest]
  /\ found' = [found EXCEPT ![l] = NoRow]

\* load-file starts.
Start(l, f) ==
  /\ at[l] = "idle"
  /\ loads < MaxLoads
  /\ loads' = loads + 1
  /\ overlapped' = (overlapped \/ \E k \in Loaders : at[k] # "idle")
  /\ Proceed(l, f)
  /\ UNCHANGED <<zones, superseded, lastId>>

\* load_zones_from_geojson raises ValueError; the features before this one stay
\* loaded, each was committed.
Refuse(l) ==
  /\ at[l] = "find"
  /\ Head(file[l]) = Invalid
  /\ Proceed(l, <<>>)
  /\ UNCHANGED <<zones, superseded, lastId, loads, overlapped>>

\* load_zone, SELECT of the current row: any one of them, there is no ORDER BY.
Find(l) ==
  /\ at[l] = "find"
  /\ Head(file[l]) # Invalid
  /\ LET n == Head(file[l])
         current == IF Versioned(n) THEN CurrentRows(n) ELSE {}
     IN  \/ /\ current = {}
            /\ at' = [at EXCEPT ![l] = "insert"]
            /\ found' = found
         \/ \E z \in current :
              /\ found' = [found EXCEPT ![l] = z]
              /\ at' = [at EXCEPT ![l] = "supersede"]
  /\ UNCHANGED <<zones, superseded, lastId, file, loads, overlapped>>

\* Mutant: the connection commits every statement.
SupersedeNow(l) ==
  /\ at[l] = "supersede"
  /\ superseded' = superseded \cup {found[l].id}
  /\ at' = [at EXCEPT ![l] = "insert"]
  /\ UNCHANGED <<zones, lastId, file, found, loads, overlapped>>

\* load_zone, UPDATE ... SET superseded_at WHERE id = ...: it waits for the
\* transaction that holds the row, then updates it whatever was committed.
Supersede(l) ==
  /\ at[l] = "supersede"
  /\ \A k \in Loaders \ {l} : at[k] = "insert" => found[k] # found[l]
  /\ at' = [at EXCEPT ![l] = "insert"]
  /\ UNCHANGED <<zones, superseded, lastId, file, found, loads, overlapped>>

\* _insert_zone and the commit of the transaction.
Insert(l) ==
  /\ at[l] = "insert"
  /\ lastId' = lastId + 1
  /\ zones' = zones \cup {[id |-> lastId + 1, number |-> Head(file[l]),
                           version |-> NextVersion(found[l])]}
  /\ superseded' = superseded \cup (IF found[l] = NoRow THEN {} ELSE {found[l].id})
  /\ Proceed(l, Tail(file[l]))
  /\ UNCHANGED <<loads, overlapped>>

\* The loader is killed or loses its connection; its transaction is rolled back.
Kill(l) ==
  /\ at[l] # "idle"
  /\ Proceed(l, <<>>)
  /\ UNCHANGED <<zones, superseded, lastId, loads, overlapped>>

ZonesNext ==
  \E l \in Loaders :
    \/ \E f \in Files : Start(l, f)
    \/ Refuse(l) \/ Find(l) \/ Supersede(l) \/ Insert(l) \/ Kill(l)

ZonesSpec == ZonesInit /\ [][ZonesNext]_zonesVars
-----------------------------------------------------------------------------
(* What holds however many loaders run.                                    *)

\* find_zones and the closed contour always show a zone once loaded: replacing its
\* version never leaves the registry number without a current row, not even when the
\* loader dies between its two statements.
NeverVanishes == \A z \in zones : Versioned(z.number) => CurrentRows(z.number) # {}

\* A calculated zone without a registry number is an independent row for ever.
CalculatedStay == \A z \in zones : z.number = NoNumber => z.id \notin superseded

\* zone_history has no gaps: each later version follows one that is stored.
NoGaps ==
  \A z \in zones :
    z.version > 1 => \E y \in ZonesOf(z.number) : y.version + 1 = z.version
-----------------------------------------------------------------------------
(* What holds as long as operators wait for one load to end.               *)

\* A registry number has one current row: what a query of the current zone relies on.
CurrentIsUnique == \A n \in Numbers : \A y, z \in CurrentRows(n) : y = z

\* The rows of a number have distinct versions, and every row but the newest is superseded.
OrderIsStrict ==
  \A n \in Numbers : \A y, z \in ZonesOf(n) :
    /\ y.version = z.version => y = z
    /\ y.version < z.version => y.id \in superseded

\* After loads that never overlapped zone_history lists the versions of a number in their
\* order, each but the newest superseded, also after refused files and loaders that died at
\* any statement: at most one row of a number is current.
VersionsOrdered == ~overlapped => OrderIsStrict
=============================================================================
