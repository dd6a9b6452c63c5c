-------------------------- MODULE OldUpgradeProofs --------------------------
(***************************************************************************)
(* What the upgrade of an old store promises, for any number of openers,   *)
(* any old store and any number of crashes.                                *)
(*                                                                         *)
(* Two things carry the argument.  Rows are only ever rewritten, keeping   *)
(* their id, their addressee and their acknowledgement; and "the store is  *)
(* done" is stable: no late opener undoes it, since what it would rebuild  *)
(* or settle needs the column that being done took away.                   *)
(***************************************************************************)
EXTENDS OldUpgrade, TLAPS

Steps == {"closed", "refused", "fresh", "version", "columns", "create", "rebuild",
          "roles", "dircreate", "dirbuild", "settle?", "settle", "stamp", "schema",
          "schema2", "serving"}

Exists == messages # NoTable

Same(m, r) == r.id = m.id /\ r.to = m.to /\ r.acked = m.acked

UpgradeTypeOK ==
  /\ version \in Nat /\ messages \in Table \cup {NoTable} /\ copy \in {NoTable, {}}
  /\ reads \subseteq IdsOf(OldRows) \X Handles /\ keeps \in BOOLEAN
  /\ at \in [Openers -> Steps] /\ before \subseteq OldRows

\* The table holds the old rows, and besides them unread rows of the present version.
Kept ==
  /\ ~Exists => before = {}
  /\ Exists => /\ \A m \in before : \E r \in messages.rows : Same(m, r)
               /\ \A r \in messages.rows :
                    \/ r.id = "new" /\ ~r.acked
                    \/ \E m \in before : Same(m, r)

\* A read is one from before the upgrade, or stands for the mark of a row; of those from
\* before, only the ones behind such a mark may be missing.
Marked(i) == \E m \in before : m.id = i /\ m.acked

ByMark(e) == \E m \in before : m.acked /\ m.to # Nobody /\ e = <<m.id, m.to>>

Attributed ==
  /\ \A e \in reads : ByMark(e) \/ (e \in taken /\ ~Marked(e[1]))
  /\ \A e \in taken : Marked(e[1]) \/ e \in reads

\* Every mark of an old row has become a read.
Answered == \A m \in before : m.acked => m.to # Nobody /\ <<m.id, m.to>> \in reads

\* Without the acknowledgement column the upgrade is behind the store.  With it, unless it
\* cannot be dropped, nobody has used the store yet.
Routed ==
  Exists /\ ~Has("acked_at") =>
    /\ Has("to_role") /\ Answered
    /\ \A m \in messages.rows : m.kind = "fanout" /\ (m.id = "new" => m.role)

Unused == Exists /\ ~keeps /\ Has("acked_at") => \A m \in messages.rows : m.id # "new"

Data == UpgradeTypeOK /\ Kept /\ Attributed /\ Routed /\ Unused

\* The store is of the present version.
Done == Exists => Has("to_role") /\ Answered /\ (keeps \/ ~Has("acked_at"))

\* What an opener has seen for itself.
Seen(o) ==
  /\ at[o] \in {"version", "columns", "create", "rebuild", "roles", "dircreate",
                "dirbuild", "settle?", "settle", "stamp", "schema2", "serving"} => Exists
  /\ at[o] \in {"roles", "dircreate", "dirbuild", "settle?", "settle"} => Has("to_role")
  /\ at[o] \in {"fresh", "stamp", "schema", "schema2", "serving"} => Done

Stamped == (version >= 2 /\ Exists => Has("to_role")) /\ (version >= 3 => Done)

UpgradeInv == Data /\ Stamped /\ \A o \in Openers : Seen(o)

(***************************************************************************)
(* The rows                                                                *)
(***************************************************************************)

\* A step never takes back what the present shape needs.
Grows ==
  /\ Exists => Exists'
  /\ Exists /\ Has("to_role") => Has("to_role")'
  /\ Done => Done'

LEMMA UntouchedStore ==
  ASSUME Data, UNCHANGED <<messages, reads, keeps, before, taken>>, UpgradeTypeOK'
  PROVE  Data' /\ Grows
BY DEF Data, Kept, Attributed, ByMark, Marked, Routed, Unused, Answered, Exists, Has, Same,
       Grows, Done

\* Rewriting keeps what rows are told apart by.
LEMMA RowsAreKept ==
  ASSUME Data, Exists, before' = before, messages' \in Table, messages' # NoTable,
         \A r \in messages.rows : \E s \in messages'.rows : Same(r, s),
         \A s \in messages'.rows :
           (s.id = "new" /\ ~s.acked) \/ \E r \in messages.rows : Same(r, s)
  PROVE  Kept'
BY DEF Data, Kept, Exists, Same

LEMMA RowShapes ==
  ASSUME NEW r \in MessageRow, NEW kind \in Kinds
  PROVE  /\ [r EXCEPT !.kind = kind] \in MessageRow
         /\ Same(r, [r EXCEPT !.kind = kind]) /\ [r EXCEPT !.kind = kind].kind = kind
         /\ [r EXCEPT !.kind = kind, !.role = FALSE] \in MessageRow
         /\ Same(r, [r EXCEPT !.kind = kind, !.role = FALSE])
BY DEF MessageRow, Same

LEMMA RekindedRow ==
  ASSUME NEW r \in MessageRow
  PROVE  Rekinded(r) \in MessageRow /\ Same(r, Rekinded(r))
<1>1. PICK kind \in Kinds : Rekinded(r) = [r EXCEPT !.kind = kind]
  BY DEF Rekinded, Kinds
<1> QED BY <1>1, RowShapes

LEMMA WidenedRow ==
  ASSUME NEW r \in MessageRow
  PROVE  Widened(r) \in MessageRow /\ Same(r, Widened(r))
<1>1. PICK kind \in Kinds : Rekinded(r) = [r EXCEPT !.kind = kind]
  BY DEF Rekinded, Kinds
<1>2. Widened(r) = [r EXCEPT !.kind = kind, !.role = FALSE]
  BY <1>1 DEF Widened, MessageRow
<1> QED BY <1>2, RowShapes

LEMMA TypesOfTables ==
  ASSUME UpgradeTypeOK, Exists
  PROVE  messages \in Table /\ messages.rows \subseteq MessageRow
BY DEF UpgradeTypeOK, Exists, Table

\* What the rows mark is a read of an old message by the address it was sent to.
LEMMA MarksAreReads ==
  ASSUME Data, Exists, NEW e \in ReadsOfRows
  PROVE  ByMark(e) /\ e \in IdsOf(OldRows) \X Handles
<1>1. PICK m \in messages.rows : m.acked /\ m.to # Nobody /\ e = <<m.id, m.to>>
  BY DEF ReadsOfRows
<1>2. PICK b \in before : Same(b, m)
  BY <1>1 DEF Data, Kept
<1>3. b \in OldRows /\ b \in MessageRow /\ b.acked /\ b.to # Nobody /\ e = <<b.id, b.to>>
  BY <1>1, <1>2, RowAssumption DEF Same, Data, UpgradeTypeOK
<1>4. b.to \in Handles /\ b.id \in IdsOf(OldRows)
  BY <1>3 DEF MessageRow, IdsOf
<1> QED BY <1>2, <1>3, <1>4 DEF ByMark

LEMMA TableIsNoTable == \A t \in Table : t # NoTable
BY RowAssumption DEF Table

LEMMA StepTypes ==
  ASSUME UpgradeTypeOK, NEW o \in Openers, NEW step \in Steps, Go(o, step)
  PROVE  /\ at' \in [Openers -> Steps] /\ at'[o] = step
         /\ \A p \in Openers \ {o} : at'[p] = at[p]
BY DEF UpgradeTypeOK, Go

LEMMA RebuildData ==
  ASSUME Data, NEW o \in Openers, Rebuild(o), Exists
  PROVE  Data' /\ Grows
<1>1. messages \in Table /\ messages.rows \subseteq MessageRow
  BY TypesOfTables DEF Data
<1>2. at' \in [Openers -> Steps]
  BY StepTypes DEF Rebuild, Data, Steps
<1>3. CASE CopyFails
  BY <1>2, <1>3, UntouchedStore DEF Rebuild, Data, UpgradeTypeOK
<1>4. CASE ~CopyFails
  <2>1. Has("acked_at") /\ copy = {}
    BY <1>4 DEF CopyFails, Data, UpgradeTypeOK
  <2>2. messages' = [columns |-> {"to_role", "acked_at"},
                     rows |-> {Widened(m) : m \in messages.rows}]
    BY <1>4, <2>1 DEF Rebuild, WidenedAll
  <2>3. messages' \in Table /\ messages' # NoTable
    BY <1>1, <2>2, WidenedRow, TableIsNoTable DEF Table
  <2>4. UNCHANGED <<version, reads, keeps, before, taken>> /\ copy' = NoTable
    BY <1>4 DEF Rebuild
  <2>5. Kept'
    BY <1>1, <2>2, <2>3, <2>4, RowsAreKept, WidenedRow
  <2>6. UpgradeTypeOK'
    BY <1>2, <2>3, <2>4 DEF Data, UpgradeTypeOK
  <2>7. Has("to_role")' /\ Has("acked_at")' /\ Exists'
    BY <2>2, <2>3 DEF Has, Exists
  <2>8. Attributed' /\ Routed' /\ Grows
    BY <2>1, <2>4, <2>7 DEF Data, Attributed, ByMark, Marked, Routed, Grows, Done, Answered
  <2>9. Unused'
    BY <1>1, <2>1, <2>2, <2>4, WidenedRow DEF Data, Unused, Exists, Same
  <2> QED BY <2>5, <2>6, <2>8, <2>9 DEF Data
<1> QED BY <1>3, <1>4

LEMMA SettleDone ==
  ASSUME Data, NEW o \in Openers, Settle(o), Exists, Has("to_role"),
         Has("acked_at"), Unattributable = {}
  PROVE  Has("to_role")' /\ Answered' /\ (keeps' \/ ~Has("acked_at")')
<1>1. /\ messages'.columns = IF keeps THEN messages.columns
                             ELSE messages.columns \ {"acked_at"}
      /\ reads' = reads \cup ReadsOfRows
      /\ UNCHANGED <<keeps, before, taken>>
  BY DEF Settle
<1>2. Has("to_role")' /\ (keeps' \/ ~Has("acked_at")')
  BY <1>1 DEF Has
<1>3. Answered'
  <2> SUFFICES ASSUME NEW b \in before, b.acked 
                 PROVE  b.to # Nobody /\ <<b.id, b.to>> \in reads'
    BY <1>1 DEF Answered
  <2>1. PICK m \in messages.rows : Same(b, m)
    BY DEF Data, Kept
  <2> QED BY <1>1, <2>1 DEF Same, Unattributable, ReadsOfRows
<1> QED BY <1>2, <1>3

LEMMA SettleData ==
  ASSUME Data, NEW o \in Openers, Settle(o), Exists, Has("to_role")
  PROVE  Data' /\ Grows
<1>1. messages \in Table /\ messages.rows \subseteq MessageRow
  BY TypesOfTables DEF Data
<1>2. at' \in [Openers -> Steps]
  BY StepTypes DEF Settle, Data, Steps
<1>3. CASE ~Has("acked_at") \/ Unattributable # {}
  BY <1>2, <1>3, UntouchedStore DEF Settle, Data, UpgradeTypeOK
<1>4. CASE Has("acked_at") /\ Unattributable = {}
  <2>1. /\ messages' = [columns |-> IF keeps THEN messages.columns
                                    ELSE messages.columns \ {"acked_at"},
                        rows |-> {[m EXCEPT !.kind = "fanout"] : m \in messages.rows}]
        /\ reads' = reads \cup ReadsOfRows
        /\ UNCHANGED <<version, copy, keeps, before, taken>>
    BY <1>4 DEF Settle
  <2>2. \A m \in MessageRow : /\ [m EXCEPT !.kind = "fanout"] \in MessageRow
                              /\ Same(m, [m EXCEPT !.kind = "fanout"])
                              /\ [m EXCEPT !.kind = "fanout"].kind = "fanout"
    BY RowShapes DEF Kinds
  <2>3. messages' \in Table
    BY <1>1, <2>1, <2>2 DEF Table
  <2>4. Exists'
    BY <2>3, TableIsNoTable DEF Exists
  <2>5. Kept'
    <3>1. \A r \in messages.rows : \E t \in messages'.rows : Same(r, t)
      BY <1>1, <2>1, <2>2
    <3>2. \A t \in messages'.rows : \E r \in messages.rows : Same(r, t)
      BY <1>1, <2>1, <2>2
    <3> QED BY <2>1, <2>3, <2>4, <3>1, <3>2, RowsAreKept DEF Exists
  <2>6. Attributed'
    <3>1. \A e \in reads' : ByMark(e) \/ (e \in taken /\ ~Marked(e[1]))
      BY <2>1, MarksAreReads DEF Data, Attributed
    <3>2. \A e \in taken : Marked(e[1]) \/ e \in reads'
      BY <2>1 DEF Data, Attributed
    <3> QED BY <2>1, <3>1, <3>2 DEF Attributed, ByMark, Marked
  <2>7. reads' \subseteq IdsOf(OldRows) \X Handles
    BY <2>1, MarksAreReads DEF Data, UpgradeTypeOK
  <2>8. UpgradeTypeOK'
    BY <1>2, <2>1, <2>3, <2>7 DEF Data, UpgradeTypeOK
  <2>9. Has("to_role")' /\ Answered' /\ (keeps' \/ ~Has("acked_at")')
    BY <1>4, SettleDone
  <2>10. \A m \in messages'.rows : m.kind = "fanout"
    BY <1>1, <2>1, <2>2
  <2>11. ~keeps => \A m \in messages'.rows : m.id # "new"
    <3>1. \A t \in messages'.rows : \E r \in messages.rows : Same(r, t)
      BY <1>1, <2>1, <2>2
    <3> QED BY <1>4, <3>1 DEF Data, Unused, Same
  <2>12. Unused' /\ (keeps => Has("acked_at")')
    BY <1>4, <2>1, <2>11 DEF Unused, Has
  <2>13. Routed' /\ Grows
    BY <2>1, <2>4, <2>9, <2>10, <2>11, <2>12 DEF Routed, Grows, Done
  <2> QED BY <2>5, <2>6, <2>8, <2>12, <2>13 DEF Data
<1> QED BY <1>3, <1>4
LEMMA SchemaData ==
  ASSUME Data, NEW o \in Openers, Schema(o)
  PROVE  Data' /\ Grows /\ Exists'
<1>1. at' \in [Openers -> Steps]
  BY StepTypes DEF Schema, Data, Steps
<1>2. CASE Exists
  <2>1. Data' /\ Grows
    BY <1>1, <1>2, UntouchedStore DEF Schema, Data, UpgradeTypeOK, Exists
  <2> QED BY <1>2, <2>1 DEF Grows
<1>3. CASE ~Exists
  <2>1. /\ messages' = [columns |-> {"to_role"}, rows |-> {}]
        /\ UNCHANGED <<version, copy, reads, keeps, before, taken>> /\ before = {}
    BY <1>3 DEF Schema, Exists, Data, Kept
  <2>2. messages' \in Table
    BY <2>1 DEF Table
  <2>3. Exists'
    BY <2>2, TableIsNoTable DEF Exists
  <2>4. Has("to_role")' /\ ~Has("acked_at")' /\ messages'.rows = {}
    BY <2>1 DEF Has
  <2>5. UpgradeTypeOK' /\ Kept' /\ Attributed'
    BY <1>1, <2>1, <2>2, <2>3 DEF Data, UpgradeTypeOK, Kept, Attributed, ByMark, Marked
  <2>6. Routed' /\ Unused' /\ Grows
    BY <1>3, <2>1, <2>3, <2>4 DEF Routed, Unused, Answered, Grows, Done
  <2> QED BY <2>3, <2>5, <2>6 DEF Data
<1> QED BY <1>2, <1>3

LEMMA UseData ==
  ASSUME Data, NEW o \in Openers, Use(o), Exists, Done
  PROVE  Data' /\ Grows
<1>1. messages \in Table /\ messages.rows \subseteq MessageRow
  BY TypesOfTables DEF Data
<1>0. PICK n \in OldNames : messages' = [messages EXCEPT !.rows =
        IF \E m \in @ : m.id = "new" THEN @ ELSE @ \cup {NewRow(n)}]
  BY DEF Use
<1>2. CASE \E m \in messages.rows : m.id = "new"
  <2>1. messages' = messages
    BY <1>1, <1>2, <1>0 DEF Table
  <2> QED BY <2>1, UntouchedStore DEF Use, Data, UpgradeTypeOK
<1>3. CASE ~\E m \in messages.rows : m.id = "new"
  <2>1. messages' = [messages EXCEPT !.rows = messages.rows \cup {NewRow(n)}]
    BY <1>3, <1>0
  <2>2. /\ NewRow(n) \in MessageRow /\ NewRow(n).id = "new" /\ ~NewRow(n).acked
        /\ NewRow(n).role /\ NewRow(n).kind = "fanout"
    BY DEF NewRow, MessageRow, Kinds, Handles
  <2>3. /\ messages' \in Table /\ messages'.columns = messages.columns
        /\ messages'.rows = messages.rows \cup {NewRow(n)}
    BY <1>1, <2>1, <2>2 DEF Table
  <2>4. Exists'
    BY <2>3, TableIsNoTable DEF Exists
  <2>5. UNCHANGED <<version, copy, reads, keeps, before, taken, at>>
    BY DEF Use
  <2>6. UpgradeTypeOK' /\ Attributed'
    BY <2>3, <2>5 DEF Data, UpgradeTypeOK, Attributed, ByMark, Marked
  <2>7. Kept'
    <3>1. \A r \in messages.rows : Same(r, r)
      BY DEF Same
    <3>2. \A r \in messages.rows : \E s \in messages'.rows : Same(r, s)
      BY <2>3, <3>1
    <3>3. \A s \in messages'.rows :
            (s.id = "new" /\ ~s.acked) \/ \E r \in messages.rows : Same(r, s)
      BY <2>2, <2>3, <3>1
    <3> QED BY <2>3, <2>4, <2>5, <3>2, <3>3, RowsAreKept DEF Exists
  <2>8. Has("acked_at")' = Has("acked_at") /\ Has("to_role")' = Has("to_role")
    BY <2>3 DEF Has
  <2>9. Grows /\ Unused' /\ Routed'
    BY <2>2, <2>3, <2>4, <2>5, <2>8
    DEF Data, Grows, Done, Unused, Routed, Answered
  <2> QED BY <2>6, <2>7, <2>9 DEF Data
<1> QED BY <1>2, <1>3
\* What the steps that leave the messages alone have in common.
LEMMA LookingData ==
  ASSUME Data, version' \in Nat, copy' \in {NoTable, {}}, at' \in [Openers -> Steps],
         UNCHANGED <<messages, reads, keeps, before, taken>>
  PROVE  Data' /\ Grows
BY UntouchedStore DEF Data, UpgradeTypeOK

(***************************************************************************)
(* The openers                                                             *)
(***************************************************************************)

\* An opener that stays where it is has seen what it has seen.
LEMMA OthersHaveSeen ==
  ASSUME Grows, NEW p \in Openers, Seen(p), at'[p] = at[p]
  PROVE  Seen(p)'
BY DEF Grows, Seen

LEMMA StampedGrows ==
  ASSUME Data, Data', Stamped, Grows, version' = version,
         Exists' => Exists \/ Has("to_role")'
  PROVE  Stamped'
BY DEF Stamped, Grows, Data, UpgradeTypeOK

\* A step of one opener, with what it must establish for itself.
LEMMA OneGoes ==
  ASSUME UpgradeInv, NEW o \in Openers, NEW step \in Steps, Go(o, step),
         Data', Grows, Stamped', Seen(o)'
  PROVE  UpgradeInv'
<1>1. \A p \in Openers \ {o} : at'[p] = at[p]
  BY StepTypes DEF UpgradeInv, Data
<1>2. \A p \in Openers : Seen(p)'
  BY <1>1, OthersHaveSeen DEF UpgradeInv
<1> QED BY <1>2 DEF UpgradeInv

\* A step that only looks.
LEMMA OneTurns ==
  ASSUME UpgradeInv, NEW o \in Openers, NEW from \in Steps, NEW step \in Steps,
         Turn(o, from, step),
         step \in {"version", "columns", "create", "roles", "dircreate", "settle?",
                   "settle", "stamp"} => Exists,
         step \in {"roles", "dircreate", "settle?", "settle"} => Has("to_role"),
         step \in {"fresh", "stamp"} => Done,
         step \notin {"rebuild", "dirbuild", "schema", "schema2", "serving"}
  PROVE  UpgradeInv'
<1>1. Go(o, step) /\ UNCHANGED <<version, messages, copy, reads, keeps, before, taken>>
  BY DEF Turn, store, tables
<1>2. at' \in [Openers -> Steps] /\ at'[o] = step
  BY <1>1, StepTypes DEF UpgradeInv, Data
<1>3. Data' /\ Grows
  BY <1>1, <1>2, LookingData DEF UpgradeInv, Data, UpgradeTypeOK
<1>4. Stamped'
  BY <1>1, <1>3, StampedGrows DEF UpgradeInv, Exists
<1>5. Seen(o)'
  BY <1>1, <1>2, <1>3 DEF Seen, Grows
<1> QED BY <1>1, <1>3, <1>4, <1>5, OneGoes
\* The reads of a store before its upgrade.
LEMMA ConsumptionOfOld ==
  ASSUME before \subseteq OldRows, NEW readers \in SUBSET Handles, ConsumedBy(readers)
  PROVE  Attributed /\ reads \subseteq IdsOf(OldRows) \X Handles
<1>1. \A m \in before : m.acked => ~Fanned(m)
  BY RowAssumption
<1>2. \A m, n \in before : m.id = n.id => m = n
  BY RowAssumption
<1>3. \A e \in reads : \E m \in before, h \in readers : Fanned(m) /\ e = <<m.id, h>>
  BY DEF ConsumedBy
<1>4. \A e \in taken : e \in reads \/ Marked(e[1])
  BY DEF ConsumedBy, Marked
<1>5. reads \subseteq taken
  BY DEF ConsumedBy
<1>6. ASSUME NEW e \in reads PROVE ~Marked(e[1]) /\ e \in IdsOf(OldRows) \X Handles
  <2>1. PICK m \in before, h \in readers : Fanned(m) /\ e = <<m.id, h>>
    BY <1>3, <1>6
  <2>2. e[1] = m.id /\ ~m.acked
    BY <1>1, <2>1
  <2>3. ~Marked(e[1])
    BY <1>2, <2>2 DEF Marked
  <2> QED BY <2>1, <2>3 DEF IdsOf
<1> QED BY <1>4, <1>5, <1>6 DEF Attributed

LEMMA InitInv == Init => UpgradeInv
<1> SUFFICES ASSUME Init PROVE UpgradeInv
  OBVIOUS
<1>1. /\ copy = NoTable /\ keeps \in BOOLEAN /\ at = [o \in Openers |-> "closed"]
      /\ before \subseteq OldRows /\ before \subseteq MessageRow
  BY RowAssumption DEF Init
<1>2. \A o \in Openers : Seen(o)
  BY <1>1 DEF Seen
<1>3. CASE before = {} /\ version = 0 /\ messages = NoTable /\ reads = {} /\ taken = {}
  BY <1>1, <1>2, <1>3
  DEF UpgradeInv, Data, UpgradeTypeOK, Kept, Attributed, Routed, Unused, Stamped, Exists,
      Steps
<1>4. CASE /\ version \in {0, 1} /\ ConsumedBy(Plain)
           /\ messages = [columns |-> {"acked_at"}, rows |-> before]
  <2>1. messages \in Table /\ Has("acked_at") /\ messages.rows = before
    BY <1>1, <1>4 DEF Table, Has
  <2>2. Exists
    BY <2>1, TableIsNoTable DEF Exists
  <2>3. \A m \in before : m.id # "new" /\ Same(m, m)
    BY <1>1, RowAssumption DEF Same
  <2>4. Attributed /\ reads \subseteq IdsOf(OldRows) \X Handles
    BY <1>1, <1>4, ConsumptionOfOld DEF Plain
  <2> QED
    BY <1>1, <1>2, <1>4, <2>1, <2>2, <2>3, <2>4
    DEF UpgradeInv, Data, UpgradeTypeOK, Kept, Routed, Unused, Stamped, Steps
<1>5. CASE /\ version \in {0, 2} /\ ConsumedBy(Handles)
           /\ messages = [columns |-> {"to_role", "acked_at"},
                          rows |-> {Rekinded(m) : m \in before}]
  <2>1. \A m \in before : Rekinded(m) \in MessageRow /\ Same(m, Rekinded(m))
    BY <1>1, RekindedRow
  <2>2. /\ messages \in Table /\ Has("acked_at") /\ Has("to_role")
        /\ messages.rows = {Rekinded(m) : m \in before}
    BY <1>5, <2>1 DEF Table, Has
  <2>3. Exists
    BY <2>2, TableIsNoTable DEF Exists
  <2>4. \A m \in messages.rows : m.id # "new"
    BY <1>1, <2>1, <2>2, RowAssumption DEF Same
  <2>5. Kept
    BY <2>1, <2>2, <2>3 DEF Kept
  <2>6. Attributed /\ reads \subseteq IdsOf(OldRows) \X Handles
    BY <1>1, <1>5, ConsumptionOfOld
  <2> QED
    BY <1>1, <1>2, <1>5, <2>2, <2>3, <2>4, <2>5, <2>6
    DEF UpgradeInv, Data, UpgradeTypeOK, Routed, Unused, Stamped, Steps
<1>6. CASE /\ version \in {3, 5} /\ \A m \in before : ~m.acked
           /\ messages = [columns |-> {"to_role"},
                          rows |-> {[m EXCEPT !.kind = "fanout"] : m \in before}]
           /\ \E read \in SUBSET (before \X Handles) :
                /\ \A e \in read : MayRead(e[1], e[2])
                /\ reads = {<<e[1].id, e[2]>> : e \in read}
           /\ taken = reads
  <2>1. \A m \in before : /\ [m EXCEPT !.kind = "fanout"] \in MessageRow
                          /\ Same(m, [m EXCEPT !.kind = "fanout"])
                          /\ [m EXCEPT !.kind = "fanout"].kind = "fanout"
    <3>1. "fanout" \in Kinds
      BY DEF Kinds
    <3> QED BY <1>1, <3>1, RowShapes
  <2>2. /\ messages \in Table /\ ~Has("acked_at") /\ Has("to_role")
        /\ messages.rows = {[m EXCEPT !.kind = "fanout"] : m \in before}
    BY <1>6, <2>1 DEF Table, Has
  <2>3. Exists
    BY <2>2, TableIsNoTable DEF Exists
  <2>4. \A m \in messages.rows : m.id # "new" /\ m.kind = "fanout"
    <3>1. \A m \in messages.rows : m.kind = "fanout" /\ \E b \in before : Same(b, m)
      BY <2>1, <2>2
    <3> QED BY <1>1, <3>1, RowAssumption DEF Same
  <2>5. Kept
    BY <2>1, <2>2, <2>3 DEF Kept
  <2>6. \A e \in reads : ~Marked(e[1])
    BY <1>6 DEF Marked
  <2>7. Attributed
    BY <1>6, <2>6 DEF Attributed
  <2>8. reads \subseteq IdsOf(OldRows) \X Handles
    <3>1. PICK read \in SUBSET (before \X Handles) : reads = {<<e[1].id, e[2]>> : e \in read}
      BY <1>6
    <3>2. \A e \in read : e[1] \in OldRows /\ e[2] \in Handles
      BY <1>1
    <3> QED BY <3>1, <3>2 DEF IdsOf
  <2> QED
    BY <1>1, <1>2, <1>6, <2>2, <2>3, <2>4, <2>5, <2>7, <2>8
    DEF UpgradeInv, Data, UpgradeTypeOK, Routed, Unused, Answered, Stamped, Done, Steps
<1> QED BY <1>3, <1>4, <1>5, <1>6 DEF Init
LEMMA LookingSteps ==
  ASSUME UpgradeInv, NEW o \in Openers,
         Look(o) \/ Version(o) \/ Columns(o) \/ Roles(o) \/ Settling(o)
  PROVE  UpgradeInv'
<1>1. Seen(o) /\ Data /\ Stamped
  BY DEF UpgradeInv
<1>2. CASE Look(o)
  <2>1. CASE messages = NoTable
    <3>1. Turn(o, "closed", "fresh") /\ Done
      BY <1>2, <2>1 DEF Look, Done, Exists
    <3> QED BY <3>1, OneTurns DEF Steps
  <2>2. CASE messages # NoTable
    <3>1. Turn(o, "closed", "version") /\ Exists
      BY <1>2, <2>2 DEF Look, Exists
    <3> QED BY <3>1, OneTurns DEF Steps
  <2> QED BY <2>1, <2>2
<1>3. CASE Version(o)
  <2>1. Exists /\ version \in Nat
    BY <1>1, <1>3 DEF Version, Turn, Seen, Data, UpgradeTypeOK
  <2>2. CASE version > SCHEMA_VERSION
    <3>1. Turn(o, "version", "refused")
      BY <1>3, <2>1, <2>2 DEF Version, SCHEMA_VERSION
    <3> QED BY <3>1, OneTurns DEF Steps
  <2>3. CASE version < 2
    <3>1. Turn(o, "version", "columns")
      BY <1>3, <2>1, <2>3 DEF Version, SCHEMA_VERSION
    <3> QED BY <2>1, <3>1, OneTurns DEF Steps
  <2>4. CASE version = 2
    <3>1. Turn(o, "version", "settle?") /\ Has("to_role")
      BY <1>1, <1>3, <2>1, <2>4 DEF Version, SCHEMA_VERSION, Stamped
    <3> QED BY <2>1, <3>1, OneTurns DEF Steps
  <2>5. CASE version \in {3, 4}
    <3>1. Turn(o, "version", "stamp") /\ Done
      BY <1>1, <1>3, <2>1, <2>5 DEF Version, SCHEMA_VERSION, Stamped
    <3> QED BY <2>1, <3>1, OneTurns DEF Steps
  <2> QED BY <2>1, <2>2, <2>3, <2>4, <2>5 DEF SCHEMA_VERSION
<1>4. CASE Columns(o)
  <2>1. Exists
    BY <1>1, <1>4 DEF Columns, Turn, Seen
  <2>2. CASE Has("to_role")
    <3>1. Turn(o, "columns", "roles")
      BY <1>4, <2>2 DEF Columns
    <3> QED BY <2>1, <2>2, <3>1, OneTurns DEF Steps
  <2>3. CASE ~Has("to_role")
    <3>1. Turn(o, "columns", "create")
      BY <1>4, <2>3 DEF Columns
    <3> QED BY <2>1, <3>1, OneTurns DEF Steps
  <2> QED BY <2>2, <2>3
<1>5. CASE Roles(o)
  <2>1. Exists /\ Has("to_role")
    BY <1>1, <1>5 DEF Roles, Turn, Seen
  <2>2. \/ Turn(o, "roles", "dircreate")
        \/ Turn(o, "roles", "settle?")
    BY <1>5 DEF Roles
  <2> QED BY <2>1, <2>2, OneTurns DEF Steps
<1>6. CASE Settling(o)
  <2>1. Exists /\ Has("to_role")
    BY <1>1, <1>6 DEF Settling, Turn, Seen
  <2>2. CASE Has("acked_at")
    <3>1. Turn(o, "settle?", "settle")
      BY <1>6, <2>2 DEF Settling
    <3> QED BY <2>1, <3>1, OneTurns DEF Steps
  <2>3. CASE ~Has("acked_at")
    <3>1. Turn(o, "settle?", "stamp")
      BY <1>6, <2>3 DEF Settling
    <3>2. Done
      BY <1>1, <2>1, <2>3 DEF Done, Data, Routed
    <3> QED BY <2>1, <3>1, <3>2, OneTurns DEF Steps
  <2> QED BY <2>2, <2>3
<1> QED BY <1>2, <1>3, <1>4, <1>5, <1>6

\* The steps on copies and on the directory, the stamps and a crash.
LEMMA SideSteps ==
  ASSUME UpgradeInv, NEW o \in Openers,
         \/ StampFresh(o) \/ Stamp(o) \/ Create(o) \/ DirCreate(o) \/ DirBuild(o)
         \/ Schema2(o) \/ Crash(o)
  PROVE  UpgradeInv'
<1>1. Seen(o) /\ Data /\ Stamped
  BY DEF UpgradeInv
<1>2. CASE StampFresh(o) \/ Stamp(o)
  <2>1. /\ Done /\ version' = 4 /\ Go(o, "schema")
        /\ UNCHANGED <<messages, copy, reads, keeps, before, taken>>
    BY <1>1, <1>2 DEF StampFresh, Stamp, Seen, SCHEMA_VERSION
  <2>2. at' \in [Openers -> Steps] /\ at'[o] = "schema"
    BY <1>1, <2>1, StepTypes DEF Data, Steps
  <2>3. Data' /\ Grows
    BY <1>1, <2>1, <2>2, LookingData DEF Data, UpgradeTypeOK
  <2>4. Done'
    BY <2>1, <2>3 DEF Grows
  <2>5. Stamped' /\ Seen(o)'
    BY <2>2, <2>4 DEF Stamped, Seen, Done
  <2> QED BY <2>1, <2>3, <2>5, OneGoes DEF Steps
<1>3. ASSUME NEW step \in {"rebuild", "dirbuild", "settle?", "serving", "closed"},
             Go(o, step), version' = version, copy' \in {NoTable, {}},
             UNCHANGED <<messages, reads, keeps, before, taken>>,
             step # "closed" => Exists,
             step \in {"dirbuild", "settle?"} => Has("to_role"),
             step = "serving" => Done
      PROVE  UpgradeInv'
  <2>1. at' \in [Openers -> Steps] /\ at'[o] = step /\ step \in Steps
    BY <1>1, <1>3, StepTypes DEF Data, Steps
  <2>2. Data' /\ Grows
    BY <1>1, <1>3, <2>1, LookingData DEF Data, UpgradeTypeOK
  <2>3. Stamped'
    BY <1>1, <1>3, <2>2, StampedGrows DEF Exists
  <2>4. Seen(o)'
    BY <1>3, <2>1, <2>2 DEF Seen, Grows
  <2> QED BY <1>3, <2>1, <2>2, <2>3, <2>4, OneGoes
<1>4. CASE Create(o)
  BY <1>1, <1>3, <1>4 DEF Create, Seen, Data, UpgradeTypeOK
<1>5. CASE DirCreate(o)
  BY <1>1, <1>3, <1>5 DEF DirCreate, Seen, Data, UpgradeTypeOK
<1>6. CASE DirBuild(o)
  BY <1>1, <1>3, <1>6 DEF DirBuild, Seen, Data, UpgradeTypeOK
<1>7. CASE Schema2(o)
  BY <1>1, <1>3, <1>7 DEF Schema2, Seen, Data, UpgradeTypeOK
<1>8. CASE Crash(o)
  BY <1>1, <1>3, <1>8 DEF Crash, store, tables, Data, UpgradeTypeOK
<1> QED BY <1>2, <1>4, <1>5, <1>6, <1>7, <1>8
LEMMA WritingSteps ==
  ASSUME UpgradeInv, NEW o \in Openers,
         Rebuild(o) \/ Settle(o) \/ Schema(o) \/ Use(o)
  PROVE  UpgradeInv'
<1>1. Seen(o) /\ Data /\ Stamped
  BY DEF UpgradeInv
<1>2. CASE Rebuild(o)
  <2>1. Exists
    BY <1>1, <1>2 DEF Rebuild, Seen
  <2>2. Data' /\ Grows
    BY <1>1, <1>2, <2>1, RebuildData
  <2>3. PICK step \in {"closed", "roles"} :
          Go(o, step) /\ (step = "roles" => Has("to_role")')
    BY <1>2 DEF Rebuild, Has
  <2>4. at'[o] = step
    BY <1>1, <2>3, StepTypes DEF Data, Steps
  <2>5. Stamped' /\ Seen(o)'
    BY <1>1, <1>2, <2>1, <2>2, <2>3, <2>4, StampedGrows DEF Rebuild, Seen, Grows
  <2> QED BY <2>2, <2>3, <2>5, OneGoes DEF Steps
<1>3. CASE Settle(o)
  <2>1. Exists /\ Has("to_role")
    BY <1>1, <1>3 DEF Settle, Seen
  <2>2. Data' /\ Grows
    BY <1>1, <1>3, <2>1, SettleData
  <2>3. PICK step \in {"closed", "refused", "stamp"} :
          Go(o, step) /\ (step = "stamp" => Has("acked_at") /\ Unattributable = {})
    BY <1>3 DEF Settle
  <2>4. at'[o] = step
    BY <1>1, <2>3, StepTypes DEF Data, Steps
  <2>5. step = "stamp" => Done'
    BY <1>1, <1>3, <2>1, <2>3, SettleDone DEF Done
  <2>6. Stamped' /\ Seen(o)'
    BY <1>1, <1>3, <2>1, <2>2, <2>3, <2>4, <2>5, StampedGrows DEF Settle, Seen, Grows
  <2> QED BY <2>2, <2>3, <2>6, OneGoes DEF Steps
<1>4. CASE Schema(o)
  <2>1. Done /\ Go(o, "schema2") /\ version' = version
    BY <1>1, <1>4 DEF Schema, Seen
  <2>2. Data' /\ Grows /\ Exists'
    BY <1>1, <1>4, SchemaData
  <2>3. at'[o] = "schema2"
    BY <1>1, <2>1, StepTypes DEF Data, Steps
  <2>4. Done'
    BY <2>1, <2>2 DEF Grows
  <2>5. Stamped' /\ Seen(o)'
    BY <1>1, <2>1, <2>2, <2>3, <2>4, StampedGrows DEF Seen, Done
  <2> QED BY <2>1, <2>2, <2>5, OneGoes DEF Steps
<1>5. CASE Use(o)
  <2>1. Exists /\ Done /\ version' = version /\ at' = at
    BY <1>1, <1>5 DEF Use, Seen
  <2>2. Data' /\ Grows
    BY <1>1, <1>5, <2>1, UseData
  <2>3. Stamped'
    BY <1>1, <2>1, <2>2, StampedGrows
  <2>4. \A p \in Openers : Seen(p)'
    BY <2>1, <2>2, OthersHaveSeen DEF UpgradeInv
  <2> QED BY <2>2, <2>3, <2>4 DEF UpgradeInv
<1> QED BY <1>2, <1>3, <1>4, <1>5

\* UpgradeInv is an invariant: whoever opens the file, in whatever order and however
\* often cut short, the tables hold the old rows and the store is never half done behind
\* an opener that relies on it.
THEOREM UpgradeIsSound == Spec => []UpgradeInv
<1>1. UpgradeInv /\ [Next]_vars => UpgradeInv'
  <2> SUFFICES ASSUME UpgradeInv, [Next]_vars PROVE UpgradeInv'
    OBVIOUS
  <2>1. CASE UNCHANGED vars
    <3>1. UNCHANGED <<version, messages, copy, reads, keeps, before, taken, at>>
      BY <2>1 DEF vars, store, tables
    <3> QED BY <3>1
      DEF UpgradeInv, Data, UpgradeTypeOK, Kept, Attributed, ByMark, Marked, Routed, Unused,
          Answered,
          Stamped, Seen, Done, Exists, Has, Same
  <2>2. CASE Next
    <3>1. PICK o \in Openers : Opening(o) \/ Use(o) \/ Crash(o)
      BY <2>2 DEF Next
    <3> QED BY <3>1, LookingSteps, SideSteps, WritingSteps DEF Opening
  <2> QED BY <2>1, <2>2
<1> QED BY <1>1, InitInv, PTL DEF Spec

\* Nothing here drops a message: at every moment of every upgrade each old message is in
\* the messages table.
THEOREM NothingIsEverDropped == Spec => []NothingIsDropped
<1>1. UpgradeInv => NothingIsDropped
  BY DEF UpgradeInv, Data, Kept, NothingIsDropped, Exists, IdsOf, Same
<1> QED BY <1>1, UpgradeIsSound, PTL

\* A store whose stamp says it is current has every consumption settled: recorded for
\* whoever consumed the message or, where only its row was marked, for the address it was
\* sent to, and for nobody else.
THEOREM TheStampIsHonest == Spec => []StampIsHonest
<1>1. UpgradeInv => StampIsHonest
  <2> SUFFICES ASSUME UpgradeInv, version = SCHEMA_VERSION, messages # NoTable
               PROVE  /\ Has("to_role") /\ Answered
                      /\ \A m \in before, h \in Handles :
                           ~(m.acked /\ h = m.to) =>
                             (<<m.id, h>> \in reads <=> <<m.id, h>> \in taken /\ ~m.acked)
    BY DEF StampIsHonest, Answered
  <2>1. Has("to_role") /\ Answered
    BY DEF UpgradeInv, Stamped, Done, Exists, SCHEMA_VERSION
  <2>2. \A m, n \in before : m.id = n.id => m = n
    BY RowAssumption DEF UpgradeInv, Data, UpgradeTypeOK
  <2>3. ASSUME NEW m \in before, NEW h \in Handles, ~(m.acked /\ h = m.to)
        PROVE  <<m.id, h>> \in reads <=> <<m.id, h>> \in taken /\ ~m.acked
    <3>1. Marked(<<m.id, h>>[1]) => m.acked
      BY <2>2, <2>3 DEF Marked
    <3>2. m.acked => Marked(<<m.id, h>>[1])
      BY <2>3 DEF Marked
    <3>3. ~ByMark(<<m.id, h>>)
      BY <2>2, <2>3 DEF ByMark
    <3> QED BY <3>1, <3>2, <3>3 DEF UpgradeInv, Data, Attributed
  <2> QED BY <2>1, <2>3
<1> QED BY <1>1, UpgradeIsSound, PTL

\* No late opener takes a message back to a retired kind, or a role from where it was
\* sent.
THEOREM RoutesAreAlwaysKept == Spec => []RoutesAreKept
<1>1. UpgradeInv => RoutesAreKept
  BY DEF UpgradeInv, Seen, Done, Data, Routed, RoutesAreKept
<1> QED BY <1>1, UpgradeIsSound, PTL
=============================================================================
