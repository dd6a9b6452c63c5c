----------------------------- MODULE OldUpgrade -----------------------------
(***************************************************************************)
(* Opening the store of the superseded implementation (Mailbox.connect and *)
(* _migrate): every process that opens the file upgrades it first, in      *)
(* steps that may be cut short by a crash and that interleave with those   *)
(* of another process opening the same file.                               *)
(*                                                                         *)
(* One step is what SQLite makes permanent at once: a PRAGMA or a DDL      *)
(* statement by itself, an INSERT with all that follows up to its commit.  *)
(* A connection that another one keeps waiting too long fails as in a      *)
(* crash.  Of a message only what the upgrade tells apart is kept: the     *)
(* address it is sent to, whether its row has a role, its kind and whether *)
(* it was consumed.  An address is that of an agent or of a role of it.    *)
(***************************************************************************)
EXTENDS Naturals, FiniteSets

CONSTANTS
  Openers,    \* processes that open the file
  NoTable,    \* a table that does not exist
  OldRows,    \* the rows a store may hold before the upgrade
  OldNames,   \* the agents in the directory before the upgrade
  Nobody,     \* the addressee of mail that names no agent
  MaxCrashes  \* bound: openings cut short

IdsOf(rows) == {m.id : m \in rows}

Kinds == {"direct", "any", "broadcast", "public", "global_any", "claim", "fanout"}

Fanned(m) == m.kind \in {"broadcast", "public"}

\* p/a and p/a/role.
Handles == [name : OldNames, role : BOOLEAN]

MessageRow == [id : IdsOf(OldRows) \cup {"new"}, kind : Kinds,
               to : Handles \cup {Nobody}, role : BOOLEAN, acked : BOOLEAN]

Table == [columns : SUBSET {"to_role", "acked_at"}, rows : SUBSET MessageRow]

\* `id` is a primary key, and "new" stands for the ids drawn after the upgrade.  Mail
\* to everybody is consumed by each reader, never by the row.
ASSUME RowAssumption ==
  /\ OldRows \subseteq MessageRow
  /\ \A m, n \in OldRows : m.id = n.id => m = n
  /\ \A m \in OldRows :
       /\ m.id # "new" /\ m.kind \notin {"claim", "fanout"}
       /\ m.role = (m.to # Nobody /\ m.to.role)
       /\ m.acked => ~Fanned(m)
  /\ Nobody \notin Handles
  /\ NoTable \notin Table

SCHEMA_VERSION == 4

VARIABLES
  version,    \* user_version
  messages,   \* messages: its columns and its rows
  copy,       \* messages_v2, the rows being copied
  directory,  \* agents: whether it has a role column, and its rows
  dircopy,    \* agents_v2
  reads,      \* broadcast_reads: ids of messages with the address that consumed them
  keeps,      \* this SQLite cannot drop a column
  at,         \* where each opener is
  crashes,
  before,     \* history: the rows the store held when the first opener came
  taken       \* history: which message which address had consumed by then

tables == <<version, messages, copy, directory, dircopy, reads>>
store  == <<tables, keeps, before, taken>>
vars   == <<store, at, crashes>>

Go(o, step) == at' = [at EXCEPT ![o] = step]

\* The step only looks.
Turn(o, from, to) == at[o] = from /\ Go(o, to) /\ UNCHANGED <<store, crashes>>

Has(column) == column \in messages.columns

(***************************************************************************)
(* Which upgrades are owed                                                 *)
(***************************************************************************)

\* A file without a messages table is fresh.
Look(o) == Turn(o, "closed", IF messages = NoTable THEN "fresh" ELSE "version")

\* A fresh file is stamped before its tables exist.
StampFresh(o) ==
  /\ at[o] = "fresh"
  /\ version' = SCHEMA_VERSION
  /\ Go(o, "schema")
  /\ UNCHANGED <<messages, copy, directory, dircopy, reads, keeps, before, taken, crashes>>

\* A store that predates versioning is v1; one of a newer build is left alone.
Version(o) ==
  Turn(o, "version", CASE version > SCHEMA_VERSION -> "refused"
                       [] version < 2              -> "columns"
                       [] version = 2              -> "settle?"
                       [] OTHER                    -> "stamp")

(***************************************************************************)
(* v1 -> v2: the tables are rebuilt with a role column                     *)
(***************************************************************************)

Columns(o) == Turn(o, "columns", IF Has("to_role") THEN "roles" ELSE "create")

\* Slip: what an opening that was cut short left behind is in the way.
CreateAnew(o) ==
  /\ at[o] = "create"
  /\ copy' = IF copy = NoTable THEN {} ELSE copy
  /\ Go(o, IF copy = NoTable THEN "rebuild" ELSE "closed")
  /\ UNCHANGED <<version, messages, directory, dircopy, reads, keeps, before, taken, crashes>>

\* CREATE TABLE IF NOT EXISTS.
Create(o) ==
  /\ at[o] = "create"
  /\ copy' = IF copy = NoTable THEN {} ELSE copy
  /\ Go(o, "rebuild")
  /\ UNCHANGED <<version, messages, directory, dircopy, reads, keeps, before, taken, crashes>>

\* The five old kinds become two; the role column starts empty.
Rekinded(m) == [m EXCEPT !.kind = IF Fanned(m) THEN "fanout" ELSE "claim"]

Widened(m) == [Rekinded(m) EXCEPT !.role = FALSE]

\* Slip: only direct messages are translated.
WidenedDirect(rows) == {Widened(m) : m \in {x \in rows : x.kind = "direct"}}

WidenedAll(rows) == {Widened(m) : m \in rows}

\* Slip: the copy does without the acknowledgements.
CopyFailsLess == copy = NoTable

\* Another opener has finished the rebuild, or the upgrade after it, since this one
\* made its table: the statement names a table or a column that is gone.
CopyFails == copy = NoTable \/ ~Has("acked_at")

\* Copy, drop and rename in one transaction.
Rebuild(o) ==
  /\ at[o] = "rebuild"
  /\ IF CopyFails
     THEN Go(o, "closed") /\ UNCHANGED <<messages, copy>>
     ELSE /\ messages' = [columns |-> {"to_role", "acked_at"},
                          rows |-> copy \cup WidenedAll(messages.rows)]
          /\ copy' = NoTable
          /\ Go(o, "roles")
  /\ UNCHANGED <<version, directory, dircopy, reads, keeps, before, taken, crashes>>

Roles(o) ==
  Turn(o, "roles", IF directory # NoTable /\ ~directory.role THEN "dircreate"
                   ELSE "settle?")

DirCreate(o) ==
  /\ at[o] = "dircreate"
  /\ dircopy' = IF dircopy = NoTable THEN {} ELSE dircopy
  /\ Go(o, "dirbuild")
  /\ UNCHANGED <<version, messages, copy, directory, reads, keeps, before, taken, crashes>>

DirBuild(o) ==
  /\ at[o] = "dirbuild"
  /\ IF dircopy = NoTable THEN Go(o, "closed") /\ UNCHANGED <<directory, dircopy>>
     ELSE /\ directory' = [role |-> TRUE, rows |-> dircopy \cup
                                 {[e EXCEPT !.role = FALSE] : e \in directory.rows}]
          /\ dircopy' = NoTable
          /\ Go(o, "settle?")
  /\ UNCHANGED <<version, messages, copy, reads, keeps, before, taken, crashes>>

(***************************************************************************)
(* v2 -> v3: consumption moves to broadcast_reads                          *)
(***************************************************************************)

Settling(o) == Turn(o, "settle?", IF Has("acked_at") THEN "settle" ELSE "stamp")

\* Slip: whoever consumed it is left to guess.
NoneUnattributable == {}

\* Consumed by whom nobody knows: addressed with the retired `any`.
Unattributable == {m \in messages.rows : m.acked /\ m.to = Nobody}

\* The address a consumed message was sent to becomes its reader.
ReadsOfRows == {<<m.id, m.to>> : m \in {x \in messages.rows : x.acked /\ x.to # Nobody}}

\* In one transaction, which a consumed message without a reader leaves uncommitted: the
\* upgrade is refused.
Settle(o) ==
  /\ at[o] = "settle"
  /\ IF ~Has("acked_at") THEN Go(o, "closed") /\ UNCHANGED <<messages, reads>>
     ELSE IF Unattributable # {} THEN Go(o, "refused") /\ UNCHANGED <<messages, reads>>
     ELSE /\ reads' = reads \cup ReadsOfRows
          /\ messages' =
               [columns |-> IF keeps THEN messages.columns
                            ELSE messages.columns \ {"acked_at"},
                rows |-> {[m EXCEPT !.kind = "fanout"] : m \in messages.rows}]
          /\ Go(o, "stamp")
  /\ UNCHANGED <<version, copy, directory, dircopy, keeps, before, taken, crashes>>

(***************************************************************************)
(* The stamp, the rest of the schema, and the store in use                 *)
(***************************************************************************)

Stamp(o) ==
  /\ at[o] = "stamp"
  /\ version' = SCHEMA_VERSION
  /\ Go(o, "schema")
  /\ UNCHANGED <<messages, copy, directory, dircopy, reads, keeps, before, taken, crashes>>

\* CREATE TABLE IF NOT EXISTS, one table after the other.
Schema(o) ==
  /\ at[o] = "schema"
  /\ messages' = IF messages = NoTable THEN [columns |-> {"to_role"}, rows |-> {}]
                 ELSE messages
  /\ Go(o, "schema2")
  /\ UNCHANGED <<version, copy, directory, dircopy, reads, keeps, before, taken, crashes>>

Schema2(o) ==
  /\ at[o] = "schema2"
  /\ directory' = IF directory = NoTable THEN [role |-> TRUE, rows |-> {}]
                  ELSE directory
  /\ Go(o, "serving")
  /\ UNCHANGED <<version, messages, copy, dircopy, reads, keeps, before, taken, crashes>>

\* A row of the present version: mail sent, and an agent that registers, with a role.
NewRow(n) == [id |-> "new", kind |-> "fanout", to |-> [name |-> n, role |-> TRUE],
              role |-> TRUE, acked |-> FALSE]

Use(o) ==
  /\ at[o] = "serving"
  /\ \E n \in OldNames : messages' = [messages EXCEPT !.rows =
       IF \E m \in @ : m.id = "new" THEN @ ELSE @ \cup {NewRow(n)}]
  /\ directory' = [directory EXCEPT !.rows = @ \cup
       {[name |-> n, role |-> TRUE] : n \in OldNames}]
  /\ UNCHANGED <<version, copy, dircopy, reads, keeps, before, taken, at, crashes>>

\* The process dies, or its wait for a lock runs out; it opens the file again later.
Crash(o) ==
  /\ at[o] \notin {"closed", "refused"} /\ crashes < MaxCrashes
  /\ crashes' = crashes + 1
  /\ Go(o, "closed")
  /\ UNCHANGED store

Opening(o) ==
  \/ Look(o) \/ StampFresh(o) \/ Version(o)
  \/ Columns(o) \/ Create(o) \/ Rebuild(o)
  \/ Roles(o) \/ DirCreate(o) \/ DirBuild(o)
  \/ Settling(o) \/ Settle(o) \/ Stamp(o) \/ Schema(o) \/ Schema2(o)

Next == \E o \in Openers : Opening(o) \/ Use(o) \/ Crash(o)

\* Mail for p/a is also in the inbox of p/a/role; mail that names no agent is in all.
MayRead(m, h) == m.to \in {Nobody, h, [h EXCEPT !.role = FALSE]}

\* One reader consumes a claimed message for all, each its own copy of a fanned-out one.
ConsumedBy(readers) ==
  /\ reads \in SUBSET {<<m.id, h>> : m \in {x \in before : Fanned(x)}, h \in readers}
  /\ \E who \in [{m \in before : m.acked} -> readers] :
       /\ \A m \in DOMAIN who : MayRead(m, who[m])
       /\ taken = reads \cup {<<m.id, who[m]>> : m \in DOMAIN who}

Plain == {h \in Handles : ~h.role}

Agents(role) ==
  [role |-> role, rows |-> {[name |-> n, role |-> FALSE] : n \in OldNames}]

\* The stores that builds have left behind: none, v1 with or without a stamp, v1 half
\* way through an upgrade, v2, v3, and one of a newer build.
Init ==
  /\ copy = NoTable /\ dircopy = NoTable
  /\ keeps \in BOOLEAN
  /\ at = [o \in Openers |-> "closed"] /\ crashes = 0
  /\ before \in SUBSET OldRows
  /\ \/ /\ before = {} /\ version = 0
        /\ messages = NoTable /\ directory = NoTable
        /\ reads = {} /\ taken = {}
     \/ /\ version \in {0, 1} /\ \A m \in before : ~m.role
        /\ messages = [columns |-> {"acked_at"}, rows |-> before]
        /\ directory \in {NoTable, Agents(FALSE)}
        /\ ConsumedBy(Plain)
     \/ /\ version \in {0, 2}
        /\ messages = [columns |-> {"to_role", "acked_at"},
                       rows |-> {Rekinded(m) : m \in before}]
        /\ directory = Agents(version = 2)
        /\ ConsumedBy(Handles)
     \/ /\ version \in {3, 5} /\ \A m \in before : ~m.acked
        /\ messages = [columns |-> {"to_role"},
                       rows |-> {[m EXCEPT !.kind = "fanout"] : m \in before}]
        /\ directory = [role |-> TRUE, rows |-> {}]
        /\ \E read \in SUBSET (before \X Handles) :
             /\ \A e \in read : MayRead(e[1], e[2])
             /\ reads = {<<e[1].id, e[2]>> : e \in read}
        /\ taken = reads

\* An opener that nothing stops gets on with it, and one that failed is called again.
Fairness == \A o \in Openers : WF_vars(Opening(o))

Spec == Init /\ [][Next]_vars /\ Fairness

(***************************************************************************)
(* What an upgrade promises                                                *)
(***************************************************************************)

\* "Nothing here drops a message": whatever crashes and whoever else upgrades, every
\* message of the old store is in the messages table at every moment.
NothingIsDropped ==
  before # {} => messages # NoTable /\ IdsOf(before) \subseteq IdsOf(messages.rows)

\* The stamp never runs ahead of the data: a store that says it is current has settled
\* every consumption, whatever was cut short before.  What each reader had consumed is
\* recorded for that very reader, except that a message the row itself marked is recorded
\* for the address it was sent to, whoever read it: what p/a/role took from the mail of p/a
\* waits for it again.  Nothing else is recorded, so unread mail stays unread, and a store
\* with a consumed message nobody can be named for never gets the stamp.
StampIsHonest ==
  version = SCHEMA_VERSION /\ messages # NoTable =>
    /\ Has("to_role")
    /\ \A m \in before : m.acked => m.to # Nobody /\ <<m.id, m.to>> \in reads
    /\ \A m \in before, h \in Handles :
         ~(m.acked /\ h = m.to) => (<<m.id, h>> \in reads
                                      <=> <<m.id, h>> \in taken /\ ~m.acked)

\* Once somebody has served the store, every message has the one kind left and keeps
\* the role it was sent to, also when a late opener still works on the upgrade.  (Where
\* the acknowledgement column cannot be dropped, a late rebuild undoes both.)
RoutesAreKept ==
  \A o \in Openers : at[o] = "serving" /\ ~keeps =>
    \A m \in messages.rows : m.kind = "fanout" /\ (m.id = "new" => m.role)

\* An opener that keeps trying is served, or refused for good, in the end.  (An opener
\* that was refused is taken to have let go of the file.)
EverybodyOpens == \A o \in Openers : <>(at[o] \in {"serving", "refused"})
=============================================================================
