------------------------- MODULE SqliteStoreProofs -------------------------
(***************************************************************************)
(* Theorems about the SQLite adapter, for every set of requests, names and *)
(* messages.                                                               *)
(*                                                                         *)
(* Answers are kept because of two facts about what is not answered yet: a *)
(* write between its statement and its commit is in the tables the         *)
(* connection sees, and nothing seen there is lost but by a crash, which   *)
(* takes the unanswered call with it.  A rolled back commit would break    *)
(* the second, so the theorems about answers assume it does not happen.    *)
(***************************************************************************)
EXTENDS SqliteStore, TLAPS

\* The write has left its mark in the given tables.
Shows(tables, w) ==
  /\ w.what \in {"claim", "put"} => tables.actors[w.name] # NoRow
  /\ (w.what = "add" /\ w.id \notin taken) => w.id \in tables.objects
  /\ (w.what = "mark" /\ w.id \notin taken) => <<w.id, w.reader>> \in tables.reads

\* Two writes of which at most one may be told that it won.
Rivals(v, w) ==
  \/ v.what = "claim" /\ w.what = "claim" /\ v.name = w.name
  \/ v.what = "mark" /\ v = w /\ w.id \notin taken

Winning(t) == calls[t].at = "commit" /\ calls[t].changed

Told == \A w \in told : Shows(db, w) /\ Shows(disk, w)
Pending == \A t \in Tasks : calls[t].at = "commit" => Shows(db, calls[t].write)
OneWinner ==
  \A t \in Tasks : Winning(t) =>
    /\ \A w \in told : ~Rivals(w, calls[t].write)
    /\ \A u \in Tasks \ {t} : Winning(u) => ~Rivals(calls[u].write, calls[t].write)

\* A remove_objects between its two statements has named its ids already.
Named == \A t \in Tasks : calls[t].at = "delete_objects" => calls[t].write.ids \subseteq taken
NobodyHome == ~open => calls = Idle

Answers == Told /\ Pending /\ OneWinner /\ Named
KeptInv == StoreTypeOK /\ Answers /\ NobodyHome

LEMMA CallShapes ==
  ASSUME NEW c \in Call
  PROVE  /\ c.at \in {"commit", "returned"} => c.write \in Writes /\ c.changed \in BOOLEAN
         /\ c.at \in {"commit", "returned"} =>
              c \in [at : {"commit", "returned"}, write : Writes, changed : BOOLEAN]
         /\ c.at = "delete_objects" => c.write \in Removes
BY DEF Call

LEMMA WriteShapes ==
  ASSUME NEW w \in Writes
  PROVE  /\ w.what \in {"claim", "put"} => w.name \in Names /\ w.profile \in Profiles
         /\ w.what \in {"add", "mark"} => w.id \in Ids
         /\ w.what = "mark" => w.reader \in Names
         /\ w.what = "remove" => w.ids \in SUBSET Ids
BY DEF Writes, Claims, Puts, Adds, Marks, Removes

(***************************************************************************)
(* Types                                                                   *)
(***************************************************************************)

LEMMA ExecutedType ==
  ASSUME StoreTypeOK, NEW t \in Tasks, NEW w \in Writes, NEW changed \in BOOLEAN,
         Executed(t, w, changed)
  PROVE  calls' \in [Tasks -> Call]
BY DEF StoreTypeOK, Executed, Becomes, Call

LEMMA ExecuteTypes ==
  ASSUME StoreTypeOK, NEW t \in Tasks, Execute(t)
  PROVE  StoreTypeOK'
<1>1. CASE ClaimName(t)
  <2>1. PICK n \in Names, p \in Profiles :
          /\ db' = IF db.actors[n] = NoRow THEN [db EXCEPT !.actors[n] = p] ELSE db
          /\ Executed(t, [what |-> "claim", name |-> n, profile |-> p],
                      db.actors[n] = NoRow)
          /\ UNCHANGED <<disk, open, added, taken, told>>
    BY <1>1 DEF ClaimName
  <2>2. [what |-> "claim", name |-> n, profile |-> p] \in Writes
    BY DEF Writes, Claims
  <2>3. db' \in Tables
    BY <2>1 DEF StoreTypeOK, Tables
  <2>4. (db.actors[n] = NoRow) \in BOOLEAN
    OBVIOUS
  <2>5. calls' \in [Tasks -> Call]
    BY <2>1, <2>2, <2>4, ExecutedType
  <2>. QED BY <2>1, <2>3, <2>5 DEF StoreTypeOK
<1>2. CASE PutActor(t)
  <2>1. PICK n \in Names, p \in Profiles :
          /\ db' = [db EXCEPT !.actors[n] = p]
          /\ Executed(t, [what |-> "put", name |-> n, profile |-> p], TRUE)
          /\ UNCHANGED <<disk, open, added, taken, told>>
    BY <1>2 DEF PutActor
  <2>2. [what |-> "put", name |-> n, profile |-> p] \in Writes
    BY DEF Writes, Puts
  <2>3. db' \in Tables
    BY <2>1 DEF StoreTypeOK, Tables
  <2>. QED BY <2>1, <2>2, <2>3, ExecutedType DEF StoreTypeOK
<1>3. CASE AddObject(t)
  <2>1. PICK i \in Ids \ added :
          /\ db' = [db EXCEPT !.objects = @ \cup {i}]
          /\ Executed(t, [what |-> "add", id |-> i], TRUE)
          /\ added' = added \cup {i}
          /\ UNCHANGED <<disk, open, taken, told>>
    BY <1>3 DEF AddObject
  <2>2. [what |-> "add", id |-> i] \in Writes
    BY DEF Writes, Adds
  <2>3. db' \in Tables
    BY <2>1 DEF StoreTypeOK, Tables
  <2>. QED BY <2>1, <2>2, <2>3, ExecutedType DEF StoreTypeOK
<1>4. CASE MarkRead(t)
  <2>1. PICK i \in added, n \in Names :
          /\ db' = [db EXCEPT !.reads = @ \cup {<<i, n>>}]
          /\ Executed(t, [what |-> "mark", id |-> i, reader |-> n], <<i, n>> \notin db.reads)
          /\ UNCHANGED <<disk, open, added, taken, told>>
    BY <1>4 DEF MarkRead
  <2>2. [what |-> "mark", id |-> i, reader |-> n] \in Writes
    BY DEF Writes, Marks, StoreTypeOK
  <2>3. db' \in Tables
    BY <2>1 DEF StoreTypeOK, Tables
  <2>4. (<<i, n>> \notin db.reads) \in BOOLEAN
    OBVIOUS
  <2>5. calls' \in [Tasks -> Call]
    BY <2>1, <2>2, <2>4, ExecutedType
  <2>. QED BY <2>1, <2>3, <2>5 DEF StoreTypeOK
<1>5. CASE RemoveReads(t)
  <2>1. PICK ids \in SUBSET added :
          LET write == [what |-> "remove", ids |-> ids] IN
          /\ \/ /\ Becomes(t, [at |-> "returned", write |-> write, changed |-> FALSE])
                /\ UNCHANGED <<db, taken>>
             \/ Raise(t) /\ UNCHANGED <<db, taken>>
             \/ /\ db' = [db EXCEPT !.reads = ReadsOfOthers(ids)]
                /\ Becomes(t, [at |-> "delete_objects", write |-> write])
                /\ taken' = taken \cup ids
          /\ UNCHANGED <<disk, open, added, told>>
    BY <1>5 DEF RemoveReads
  <2>2. [what |-> "remove", ids |-> ids] \in Removes /\ Removes \subseteq Writes
    BY DEF Writes, Removes, StoreTypeOK
  <2>3. calls' \in [Tasks -> Call]
    <3>1. \E c \in Call : Becomes(t, c)
      <4>1. /\ [at |-> "returned", write |-> [what |-> "remove", ids |-> ids],
                changed |-> FALSE] \in Call
            /\ [at |-> "delete_objects", write |-> [what |-> "remove", ids |-> ids]] \in Call
            /\ [at |-> "raised"] \in Call
        BY <2>2 DEF Call
      <4>. QED BY <2>1, <4>1, Zenon DEF Raise
    <3>. QED BY <3>1 DEF Becomes, StoreTypeOK
  <2>4. db' \in Tables
    <3>1. ReadsOfOthers(ids) \in SUBSET (Ids \X Names)
      BY DEF ReadsOfOthers, StoreTypeOK, Tables
    <3>. QED BY <2>1, <3>1 DEF StoreTypeOK, Tables
  <2>5. taken' \subseteq added
    BY <2>1 DEF StoreTypeOK
  <2>. QED BY <2>1, <2>3, <2>4, <2>5 DEF StoreTypeOK
<1>. QED BY <1>1, <1>2, <1>3, <1>4, <1>5 DEF Execute

LEMMA InitTypes ==
  ASSUME Init
  PROVE  StoreTypeOK
<1>1. Idle \in [Tasks -> Call]
  BY DEF Idle, Call
<1>2. disk \in Tables
  BY DEF Init, Tables
<1>. QED BY <1>1, <1>2 DEF Init, StoreTypeOK

LEMMA NextTypes ==
  ASSUME StoreTypeOK, [Next]_vars
  PROVE  StoreTypeOK'
<1>1. CASE Open
  BY <1>1 DEF Open, StoreTypeOK
<1>2. CASE Close \/ Crash
  <2>1. Idle \in [Tasks -> Call]
    BY DEF Idle, Call
  <2>. QED BY <1>2, <2>1 DEF Close, Crash, StoreTypeOK
<1>3. ASSUME NEW t \in Tasks, Execute(t) PROVE StoreTypeOK'
  BY <1>3, ExecuteTypes
<1>4. ASSUME NEW t \in Tasks, DeleteObjects(t) PROVE StoreTypeOK'
  <2>1. calls[t].write \in Removes
    BY <1>4, CallShapes DEF DeleteObjects, StoreTypeOK
  <2>2. calls[t].write \in Writes
    BY <2>1 DEF Writes
  <2>3. db' \in Tables
    BY <1>4, <2>1 DEF DeleteObjects, StoreTypeOK, Tables, Removes
  <2>4. (db.objects \cap calls[t].write.ids # {}) \in BOOLEAN
    OBVIOUS
  <2>5. calls' \in [Tasks -> Call]
    BY <1>4, <2>2, <2>4, ExecutedType DEF DeleteObjects
  <2>. QED BY <1>4, <2>3, <2>5 DEF DeleteObjects, StoreTypeOK
<1>5. ASSUME NEW t \in Tasks, Commit(t) PROVE StoreTypeOK'
  <2>1. calls[t] \in [at : {"commit", "returned"}, write : Writes, changed : BOOLEAN]
    BY <1>5, CallShapes DEF Commit, StoreTypeOK
  <2>2. calls' \in [Tasks -> Call]
    BY <1>5, <2>1 DEF Commit, Return, StoreTypeOK, Call
  <2>3. told' \subseteq Writes
    BY <1>5, <2>1 DEF Commit, Return, StoreTypeOK
  <2>. QED BY <1>5, <2>2, <2>3 DEF Commit, StoreTypeOK
<1>6. ASSUME NEW t \in Tasks, CommitFails(t) PROVE StoreTypeOK'
  BY <1>6 DEF CommitFails, Raise, Becomes, StoreTypeOK, Call
<1>7. CASE UNCHANGED vars
  BY <1>7 DEF vars, StoreTypeOK
<1>. QED BY <1>1, <1>2, <1>3, <1>4, <1>5, <1>6, <1>7 DEF Next, Step

(***************************************************************************)
(* Answers                                                                 *)
(***************************************************************************)

\* Nothing a write left behind is lost by this step, but to a remove_objects.
Grows ==
  /\ taken \subseteq taken'
  /\ \A n \in Names : db.actors[n] # NoRow => db'.actors[n] # NoRow
  /\ db.objects \ taken' \subseteq db'.objects
  /\ \A i \in Ids \ taken', n \in Names : <<i, n>> \in db.reads => <<i, n>> \in db'.reads
  /\ disk' = disk /\ told' = told

LEMMA StillShows ==
  ASSUME Grows, NEW w \in Writes
  PROVE  /\ Shows(db, w) => Shows(db, w)'
         /\ Shows(disk, w) => Shows(disk, w)'
BY WriteShapes DEF Grows, Shows

\* A statement that leaves its mark, and wins only if no earlier one has.
LEMMA StatementKeeps ==
  ASSUME StoreTypeOK, Answers, NEW t \in Tasks, NEW w \in Writes, NEW changed \in BOOLEAN,
         Executed(t, w, changed), Grows, Shows(db, w)',
         changed => \A v \in Writes : Shows(db, v) => ~Rivals(v, w)'
  PROVE  Answers'
<1>1. /\ calls'[t].at = "commit" /\ calls'[t].write = w /\ calls'[t].changed = changed
      /\ \A u \in Tasks \ {t} : calls'[u] = calls[u]
  BY DEF Executed, Becomes, StoreTypeOK
<1>2. Told'
  BY StillShows DEF Answers, Told, Grows, StoreTypeOK
<1>3. \A u \in Tasks : calls[u].at = "commit" => calls[u].write \in Writes /\ Shows(db, calls[u].write)
  BY CallShapes DEF Answers, Pending, StoreTypeOK
<1>4. Pending'
  BY <1>1, <1>3, StillShows DEF Pending, Shows
<1>5. OneWinner'
  <2>1. ASSUME NEW u \in Tasks, Winning(u)', NEW v \in told'
        PROVE  ~Rivals(v, calls[u].write)'
    <3>1. v \in told /\ v \in Writes /\ Shows(db, v)
      BY <2>1 DEF Grows, Answers, Told, StoreTypeOK
    <3>2. CASE u = t
      BY <1>1, <2>1, <3>1, <3>2 DEF Winning
    <3>3. CASE u # t
      <4>1. ~Rivals(v, calls[u].write)
        BY <1>1, <2>1, <3>1, <3>3 DEF Winning, Answers, OneWinner
      <4>. QED BY <1>1, <3>3, <4>1 DEF Rivals, Grows
    <3>. QED BY <3>2, <3>3
  <2>2. ASSUME NEW u \in Tasks, NEW v \in Tasks \ {u}, Winning(u)', Winning(v)'
        PROVE  ~Rivals(calls[v].write, calls[u].write)'
    <3>1. CASE u = t
      BY <1>1, <1>3, <2>2, <3>1 DEF Winning
    <3>2. CASE v = t
      <4>1. ~Rivals(calls[u].write, w)'
        BY <1>1, <1>3, <2>2, <3>2 DEF Winning
      <4>. QED BY <1>1, <2>2, <3>2, <4>1 DEF Rivals
    <3>3. CASE u # t /\ v # t
      <4>1. ~Rivals(calls[v].write, calls[u].write)
        BY <1>1, <2>2, <3>3 DEF Winning, Answers, OneWinner
      <4>. QED BY <1>1, <2>2, <3>3, <4>1 DEF Rivals, Grows
    <3>. QED BY <3>1, <3>2, <3>3
  <2>. QED BY <2>1, <2>2 DEF OneWinner
<1>6. Named'
  BY <1>1 DEF Answers, Named, Grows
<1>. QED BY <1>2, <1>4, <1>5, <1>6 DEF Answers

\* A call that goes on to something other than a commit.
LEMMA OtherwiseKeeps ==
  ASSUME StoreTypeOK, Answers, NEW t \in Tasks, NEW c,
         Becomes(t, c), c.at # "commit",
         c.at = "delete_objects" => c.write.ids \subseteq taken', Grows
  PROVE  Answers'
<1>1. calls'[t] = c /\ \A u \in Tasks \ {t} : calls'[u] = calls[u]
  BY DEF Becomes, StoreTypeOK
<1>2. Told'
  BY StillShows DEF Answers, Told, Grows, StoreTypeOK
<1>3. \A u \in Tasks : calls[u].at = "commit" => calls[u].write \in Writes /\ Shows(db, calls[u].write)
  BY CallShapes DEF Answers, Pending, StoreTypeOK
<1>4. Pending'
  BY <1>1, <1>3, StillShows DEF Pending, Shows
<1>5. OneWinner'
  <2>1. ASSUME NEW u \in Tasks, Winning(u)' PROVE u # t /\ Winning(u)
    BY <1>1, <2>1 DEF Winning
  <2>2. ASSUME NEW u \in Tasks, Winning(u)', NEW v \in told'
        PROVE  ~Rivals(v, calls[u].write)'
    BY <1>1, <2>1, <2>2 DEF Answers, OneWinner, Rivals, Grows
  <2>3. ASSUME NEW u \in Tasks, NEW v \in Tasks \ {u}, Winning(u)', Winning(v)'
        PROVE  ~Rivals(calls[v].write, calls[u].write)'
    BY <1>1, <2>1, <2>3 DEF Answers, OneWinner, Rivals, Grows
  <2>. QED BY <2>2, <2>3 DEF OneWinner
<1>6. Named'
  BY <1>1 DEF Answers, Named, Grows
<1>. QED BY <1>2, <1>4, <1>5, <1>6 DEF Answers

LEMMA ExecuteKeeps ==
  ASSUME StoreTypeOK, Answers, NEW t \in Tasks, Execute(t)
  PROVE  Answers'
<1>1. CASE ClaimName(t)
  <2>1. PICK n \in Names, p \in Profiles :
          /\ db' = IF db.actors[n] = NoRow THEN [db EXCEPT !.actors[n] = p] ELSE db
          /\ Executed(t, [what |-> "claim", name |-> n, profile |-> p],
                      db.actors[n] = NoRow)
          /\ UNCHANGED <<disk, open, added, taken, told>>
    BY <1>1 DEF ClaimName
  <2>2. DEFINE w == [what |-> "claim", name |-> n, profile |-> p]
  <2>3. w \in Writes
    BY DEF Writes, Claims
  <2>4. /\ db'.actors[n] # NoRow
        /\ \A m \in Names : db.actors[m] # NoRow => db'.actors[m] # NoRow
        /\ db'.objects = db.objects /\ db'.reads = db.reads
    BY <2>1, StoreAssumption DEF StoreTypeOK, Tables
  <2>5. Grows
    BY <2>1, <2>4 DEF Grows
  <2>6. Shows(db, w)'
    BY <2>4 DEF Shows
  <2>7. db.actors[n] = NoRow => \A v \in Writes : Shows(db, v) => ~Rivals(v, w)'
    BY DEF Shows, Rivals
  <2>8. (db.actors[n] = NoRow) \in BOOLEAN
    OBVIOUS
  <2>. QED BY <2>1, <2>3, <2>5, <2>6, <2>7, <2>8, StatementKeeps
<1>2. CASE PutActor(t)
  <2>1. PICK n \in Names, p \in Profiles :
          /\ db' = [db EXCEPT !.actors[n] = p]
          /\ Executed(t, [what |-> "put", name |-> n, profile |-> p], TRUE)
          /\ UNCHANGED <<disk, open, added, taken, told>>
    BY <1>2 DEF PutActor
  <2>2. DEFINE w == [what |-> "put", name |-> n, profile |-> p]
  <2>3. w \in Writes
    BY DEF Writes, Puts
  <2>4. /\ db'.actors[n] # NoRow
        /\ \A m \in Names : db.actors[m] # NoRow => db'.actors[m] # NoRow
        /\ db'.objects = db.objects /\ db'.reads = db.reads
    BY <2>1, StoreAssumption DEF StoreTypeOK, Tables
  <2>5. Grows
    BY <2>1, <2>4 DEF Grows
  <2>6. Shows(db, w)' /\ \A v \in Writes : ~Rivals(v, w)'
    BY <2>4 DEF Shows, Rivals
  <2>. QED BY <2>1, <2>3, <2>5, <2>6, StatementKeeps
<1>3. CASE AddObject(t)
  <2>1. PICK i \in Ids \ added :
          /\ db' = [db EXCEPT !.objects = @ \cup {i}]
          /\ Executed(t, [what |-> "add", id |-> i], TRUE)
          /\ UNCHANGED <<disk, open, taken, told>>
    BY <1>3 DEF AddObject
  <2>2. DEFINE w == [what |-> "add", id |-> i]
  <2>3. w \in Writes
    BY DEF Writes, Adds
  <2>4. /\ db'.actors = db.actors /\ db'.reads = db.reads
        /\ db'.objects = db.objects \cup {i}
    BY <2>1 DEF StoreTypeOK, Tables
  <2>5. Grows
    BY <2>1, <2>4 DEF Grows
  <2>6. Shows(db, w)' /\ \A v \in Writes : ~Rivals(v, w)'
    BY <2>4 DEF Shows, Rivals
  <2>. QED BY <2>1, <2>3, <2>5, <2>6, StatementKeeps
<1>4. CASE MarkRead(t)
  <2>1. PICK i \in added, n \in Names :
          /\ db' = [db EXCEPT !.reads = @ \cup {<<i, n>>}]
          /\ Executed(t, [what |-> "mark", id |-> i, reader |-> n], <<i, n>> \notin db.reads)
          /\ UNCHANGED <<disk, open, added, taken, told>>
    BY <1>4 DEF MarkRead
  <2>2. DEFINE w == [what |-> "mark", id |-> i, reader |-> n]
  <2>3. w \in Writes
    BY DEF Writes, Marks, StoreTypeOK
  <2>4. /\ db'.actors = db.actors /\ db'.objects = db.objects
        /\ db'.reads = db.reads \cup {<<i, n>>}
    BY <2>1 DEF StoreTypeOK, Tables
  <2>5. Grows
    BY <2>1, <2>4 DEF Grows
  <2>6. Shows(db, w)'
    BY <2>4 DEF Shows
  <2>7. <<i, n>> \notin db.reads => \A v \in Writes : Shows(db, v) => ~Rivals(v, w)'
    BY <2>1 DEF Shows, Rivals
  <2>8. (<<i, n>> \notin db.reads) \in BOOLEAN
    OBVIOUS
  <2>. QED BY <2>1, <2>3, <2>5, <2>6, <2>7, <2>8, StatementKeeps
<1>5. CASE RemoveReads(t)
  <2>1. PICK ids \in SUBSET added :
          LET write == [what |-> "remove", ids |-> ids] IN
          /\ \/ /\ Becomes(t, [at |-> "returned", write |-> write, changed |-> FALSE])
                /\ UNCHANGED <<db, taken>>
             \/ Raise(t) /\ UNCHANGED <<db, taken>>
             \/ /\ db' = [db EXCEPT !.reads = ReadsOfOthers(ids)]
                /\ Becomes(t, [at |-> "delete_objects", write |-> write])
                /\ taken' = taken \cup ids
          /\ UNCHANGED <<disk, open, added, told>>
    BY <1>5 DEF RemoveReads
  <2>2. /\ taken \subseteq taken'
        /\ db'.actors = db.actors /\ db'.objects = db.objects
        /\ \A i \in Ids \ taken', n \in Names : <<i, n>> \in db.reads => <<i, n>> \in db'.reads
    BY <2>1 DEF ReadsOfOthers, StoreTypeOK, Tables
  <2>3. Grows
    BY <2>1, <2>2 DEF Grows
  <2>4. CASE Becomes(t, [at |-> "returned", write |-> [what |-> "remove", ids |-> ids],
                       changed |-> FALSE])
    BY <2>3, <2>4, OtherwiseKeeps
  <2>5. CASE Raise(t)
    BY <2>3, <2>5, OtherwiseKeeps DEF Raise
  <2>6. CASE /\ Becomes(t, [at |-> "delete_objects",
                           write |-> [what |-> "remove", ids |-> ids]])
             /\ taken' = taken \cup ids
    <3>1. ids \subseteq taken'
      BY <2>6
    <3>. QED BY <2>3, <2>6, <3>1, OtherwiseKeeps
  <2>. QED BY <2>1, <2>4, <2>5, <2>6
<1>. QED BY <1>1, <1>2, <1>3, <1>4, <1>5 DEF Execute

LEMMA StepKeeps ==
  ASSUME "commit" \notin Faults, StoreTypeOK, Answers, NEW t \in Tasks, Step(t)
  PROVE  Answers'
<1>1. CASE DeleteObjects(t)
  <2>1. calls[t].write \in Removes
    BY <1>1, CallShapes DEF DeleteObjects, StoreTypeOK
  <2>2. calls[t].write \in Writes /\ calls[t].write.what = "remove"
    BY <2>1 DEF Writes, Removes
  <2>3. calls[t].write.ids \subseteq taken
    BY <1>1 DEF DeleteObjects, Answers, Named
  <2>4. /\ db'.actors = db.actors /\ db'.reads = db.reads
        /\ db'.objects = db.objects \ calls[t].write.ids
    BY <1>1 DEF DeleteObjects, StoreTypeOK, Tables
  <2>5. Grows
    BY <1>1, <2>3, <2>4 DEF DeleteObjects, Grows
  <2>6. Shows(db', calls[t].write) /\ \A v \in Writes : ~Rivals(v, calls[t].write)
    BY <2>2 DEF Shows, Rivals
  <2>7. (db.objects \cap calls[t].write.ids # {}) \in BOOLEAN
    OBVIOUS
  <2>8. PICK w \in Writes, changed \in BOOLEAN :
          /\ Executed(t, w, changed)
          /\ w.what = "remove"
    BY <1>1, <2>2, <2>7 DEF DeleteObjects
  <2>9. Shows(db, w)' /\ \A v \in Writes : ~Rivals(v, w)'
    BY <2>8 DEF Shows, Rivals
  <2>. QED BY <2>5, <2>8, <2>9, StatementKeeps
<1>2. CASE Commit(t)
  <2>1. /\ calls[t].at = "commit"
        /\ calls[t].write \in Writes /\ Shows(db, calls[t].write)
    BY <1>2, CallShapes DEF Commit, Answers, Pending, StoreTypeOK
  <2>2. /\ calls'[t].at = "returned"
        /\ \A u \in Tasks \ {t} : calls'[u] = calls[u]
    <3>1. calls[t] \in [at : {"commit", "returned"}, write : Writes, changed : BOOLEAN]
      BY <2>1, CallShapes DEF StoreTypeOK
    <3>. QED BY <1>2, <3>1 DEF Commit, Return, StoreTypeOK
  <2>3. /\ disk' = db /\ db' = db /\ taken' = taken
        /\ told' = IF calls[t].changed THEN told \cup {calls[t].write} ELSE told
    BY <1>2 DEF Commit, Return
  <2>4. Told'
    BY <2>1, <2>3 DEF Answers, Told, Shows
  <2>5. Pending'
    BY <2>2, <2>3 DEF Answers, Pending, Shows
  <2>6. ASSUME NEW u \in Tasks, Winning(u)' PROVE u # t /\ Winning(u)
    BY <2>2, <2>6 DEF Winning
  <2>7. ASSUME NEW u \in Tasks, Winning(u)', NEW v \in told'
        PROVE  ~Rivals(v, calls[u].write)'
    <3>1. ~Rivals(v, calls[u].write)
      BY <2>1, <2>3, <2>6, <2>7 DEF Answers, OneWinner, Winning
    <3>. QED BY <2>2, <2>3, <2>6, <2>7, <3>1 DEF Rivals
  <2>8. ASSUME NEW u \in Tasks, NEW v \in Tasks \ {u}, Winning(u)', Winning(v)'
        PROVE  ~Rivals(calls[v].write, calls[u].write)'
    BY <2>2, <2>3, <2>6, <2>8 DEF Answers, OneWinner, Rivals
  <2>9. Named'
    BY <2>2, <2>3 DEF Answers, Named
  <2>. QED BY <2>4, <2>5, <2>7, <2>8, <2>9 DEF Answers, OneWinner
<1>3. CASE CommitFails(t)
  BY <1>3 DEF CommitFails
<1>. QED BY <1>1, <1>2, <1>3 DEF Step

\* Opening, closing or crashing, with no call in flight afterwards.
LEMMA RestartKeeps ==
  ASSUME Answers, calls' = Idle, db' = disk, disk' = disk, taken' = taken, told' = told
  PROVE  Answers'
<1>1. Told'
  BY DEF Answers, Told, Shows
<1>2. \A t \in Tasks : calls'[t].at = "idle"
  BY DEF Idle
<1>. QED BY <1>1, <1>2 DEF Answers, Pending, OneWinner, Named, Winning

LEMMA Kept ==
  ASSUME "commit" \notin Faults
  PROVE  Spec => []KeptInv
<1>1. Init => KeptInv
  <2>1. SUFFICES ASSUME Init PROVE KeptInv
    OBVIOUS
  <2>2. told = {} /\ calls = Idle /\ \A t \in Tasks : calls[t].at = "idle"
    BY <2>1 DEF Init, Idle
  <2>. QED BY <2>1, <2>2, InitTypes DEF KeptInv, Answers, Told, Pending, OneWinner, Winning,
                                      Named, NobodyHome
<1>2. KeptInv /\ [Next]_vars => KeptInv'
  <2>1. SUFFICES ASSUME KeptInv, [Next]_vars PROVE KeptInv'
    OBVIOUS
  <2>2. StoreTypeOK'
    BY <2>1, NextTypes DEF KeptInv
  <2>3. CASE Open
    <3>1. calls = Idle /\ calls' = Idle
      BY <2>1, <2>3 DEF Open, KeptInv, NobodyHome
    <3>. QED BY <2>1, <2>2, <2>3, <3>1, RestartKeeps DEF Open, KeptInv, NobodyHome
  <2>4. CASE Close \/ Crash
    BY <2>1, <2>2, <2>4, RestartKeeps DEF Close, Crash, KeptInv, NobodyHome
  <2>5. ASSUME NEW t \in Tasks, Execute(t) PROVE KeptInv'
    <3>1. open /\ open' = open
      BY <2>5 DEF Execute, ClaimName, PutActor, AddObject, MarkRead, RemoveReads, Ready
    <3>. QED BY <2>1, <2>2, <2>5, <3>1, ExecuteKeeps DEF KeptInv, NobodyHome
  <2>6. ASSUME NEW t \in Tasks, Step(t) PROVE KeptInv'
    <3>1. calls[t].at # "idle" /\ open' = open
      BY <2>6 DEF Step, DeleteObjects, Commit, CommitFails
    <3>2. open
      BY <2>1, <3>1 DEF KeptInv, NobodyHome, Idle
    <3>. QED BY <2>1, <2>2, <2>6, <3>1, <3>2, StepKeeps DEF KeptInv, NobodyHome
  <2>7. CASE UNCHANGED vars
    <3>1. Answers'
      BY <2>1, <2>7 DEF vars, KeptInv, Answers, Told, Shows, Pending, OneWinner, Winning,
                        Rivals, Named
    <3>. QED BY <2>1, <2>2, <2>7, <3>1 DEF vars, KeptInv, NobodyHome, Idle
  <2>. QED BY <2>1, <2>3, <2>4, <2>5, <2>6, <2>7 DEF Next
<1>. QED BY <1>1, <1>2, PTL DEF Spec

(***************************************************************************)
(* StoreTypesHold: the tables, the calls in flight and the histories keep  *)
(* the shapes of the schema, whatever fails.                               *)
(***************************************************************************)
THEOREM StoreTypesHold == Spec => []StoreTypeOK
<1>1. Init => StoreTypeOK
  BY InitTypes
<1>2. StoreTypeOK /\ [Next]_vars => StoreTypeOK'
  BY NextTypes
<1>. QED BY <1>1, <1>2, PTL DEF Spec

(***************************************************************************)
(* AnswersAreKept: if no commit is ever rolled back, what a caller was     *)
(* told is on disk, however requests share the transaction and whenever    *)
(* the process dies.                                                       *)
(***************************************************************************)
THEOREM AnswersAreKept ==
  ASSUME "commit" \notin Faults
  PROVE  Spec => []AnsweredIsKept
<1>1. KeptInv => AnsweredIsKept
  BY DEF KeptInv, Answers, Told, Shows, AnsweredIsKept
<1>. QED BY <1>1, Kept, PTL

(***************************************************************************)
(* WinnersAreSingle: under the same assumption, no name is ever won twice  *)
(* and no message consumed twice by one reader.                            *)
(***************************************************************************)
THEOREM WinnersAreSingle ==
  ASSUME "commit" \notin Faults
  PROVE  Spec => WonOnce
<1>1. ASSUME KeptInv, [Next]_vars, NEW t \in Tasks,
             calls[t].at = "commit", calls[t].changed
      PROVE  LET write == calls[t].write IN
             /\ write.what = "claim" =>
                  \A w \in told : w.what = "claim" => w.name # write.name
             /\ (write.what = "mark" /\ write.id \notin taken) => write \notin told
  BY <1>1 DEF KeptInv, Answers, OneWinner, Winning, Rivals
<1>2. KeptInv /\ [Next]_vars =>
        \A t \in Tasks :
          (calls[t].at = "commit" /\ calls[t].changed /\ calls'[t].at = "returned") =>
            LET write == calls[t].write IN
            /\ write.what = "claim" =>
                 \A w \in told : w.what = "claim" => w.name # write.name
            /\ (write.what = "mark" /\ write.id \notin taken) => write \notin told
  BY <1>1
<1>. QED BY <1>2, Kept, PTL DEF Spec, WonOnce
(***************************************************************************)
(* Removals                                                                *)
(***************************************************************************)

\* A read row is about a message some add_object was called for.
ReadsOfAdded ==
  /\ \A r \in db.reads : r[1] \in added
  /\ \A r \in disk.reads : r[1] \in added

\* A row gone since the last commit went before its message only while the
\* remove_objects that took it is between its two statements.
Removing(i) == \E t \in Tasks : calls[t].at = "delete_objects" /\ i \in calls[t].write.ids
GoneWithMessage == \A r \in disk.reads \ db.reads : r[1] \in db.objects => Removing(r[1])

RemovalInv == StoreTypeOK /\ ReadsOfAdded /\ GoneWithMessage

\* The step of one task leaves the removals of the others where they are.
LEMMA OthersRemove ==
  ASSUME StoreTypeOK, NEW t \in Tasks, NEW c, Becomes(t, c), NEW i, Removing(i)
  PROVE  \/ Removing(i)'
         \/ calls[t].at = "delete_objects" /\ i \in calls[t].write.ids
<1>1. PICK u \in Tasks : calls[u].at = "delete_objects" /\ i \in calls[u].write.ids
  BY DEF Removing
<1>2. CASE u # t
  <2>1. calls'[u] = calls[u]
    BY <1>1, <1>2 DEF Becomes, StoreTypeOK
  <2>. QED BY <1>1, <2>1 DEF Removing
<1>. QED BY <1>1, <1>2

LEMMA ExecuteRemoves ==
  ASSUME RemovalInv, NEW t \in Tasks, Execute(t)
  PROVE  ReadsOfAdded' /\ GoneWithMessage'
<1>1. /\ calls[t].at # "delete_objects" /\ disk' = disk
      /\ \E c : Becomes(t, c)
  BY DEF Execute, ClaimName, PutActor, AddObject, MarkRead, RemoveReads, Ready, Executed,
         Raise
<1>2. \A r \in disk.reads \ db.reads : r[1] \in db.objects => Removing(r[1])'
  BY <1>1, OthersRemove DEF RemovalInv, GoneWithMessage
<1>3. ASSUME db'.reads = db.reads, db'.objects = db.objects, added' = added
      PROVE  ReadsOfAdded' /\ GoneWithMessage'
  BY <1>1, <1>2, <1>3 DEF RemovalInv, ReadsOfAdded, GoneWithMessage
<1>4. CASE ClaimName(t)
  BY <1>3, <1>4 DEF ClaimName, RemovalInv, StoreTypeOK, Tables
<1>5. CASE PutActor(t)
  BY <1>3, <1>5 DEF PutActor, RemovalInv, StoreTypeOK, Tables
<1>6. CASE AddObject(t)
  <2>1. PICK i \in Ids \ added :
          /\ db' = [db EXCEPT !.objects = @ \cup {i}]
          /\ added' = added \cup {i}
    BY <1>6 DEF AddObject
  <2>2. db'.reads = db.reads /\ db'.objects = db.objects \cup {i}
    BY <2>1 DEF RemovalInv, StoreTypeOK, Tables
  <2>. QED BY <1>1, <1>2, <2>1, <2>2 DEF RemovalInv, ReadsOfAdded, GoneWithMessage
<1>7. CASE MarkRead(t)
  <2>1. PICK i \in added, n \in Names :
          /\ db' = [db EXCEPT !.reads = @ \cup {<<i, n>>}]
          /\ added' = added
    BY <1>7 DEF MarkRead
  <2>2. db'.reads = db.reads \cup {<<i, n>>} /\ db'.objects = db.objects
    BY <2>1 DEF RemovalInv, StoreTypeOK, Tables
  <2>. QED BY <1>1, <1>2, <2>1, <2>2 DEF RemovalInv, ReadsOfAdded, GoneWithMessage
<1>8. CASE RemoveReads(t)
  <2>1. PICK ids \in SUBSET added :
          /\ \/ UNCHANGED db
             \/ /\ db' = [db EXCEPT !.reads = ReadsOfOthers(ids)]
                /\ Becomes(t, [at |-> "delete_objects",
                               write |-> [what |-> "remove", ids |-> ids]])
          /\ added' = added
    BY <1>8 DEF RemoveReads
  <2>2. CASE UNCHANGED db
    BY <1>3, <2>1, <2>2
  <2>3. CASE /\ db' = [db EXCEPT !.reads = ReadsOfOthers(ids)]
             /\ Becomes(t, [at |-> "delete_objects",
                            write |-> [what |-> "remove", ids |-> ids]])
    <3>1. db'.reads = ReadsOfOthers(ids) /\ db'.objects = db.objects
      BY <2>3 DEF RemovalInv, StoreTypeOK, Tables
    <3>2. calls'[t].at = "delete_objects" /\ calls'[t].write.ids = ids
      BY <2>3 DEF Becomes, RemovalInv, StoreTypeOK
    <3>3. ReadsOfAdded'
      BY <1>1, <2>1, <3>1 DEF RemovalInv, ReadsOfAdded, ReadsOfOthers
    <3>4. ASSUME NEW r \in disk'.reads \ db'.reads, r[1] \in db'.objects
          PROVE  r[1] \in ids \/ Removing(r[1])'
      BY <1>1, <1>2, <3>1, <3>4 DEF ReadsOfOthers
    <3>5. \A i \in ids : Removing(i)'
      BY <3>2 DEF Removing
    <3>. QED BY <3>3, <3>4, <3>5 DEF GoneWithMessage
  <2>. QED BY <2>1, <2>2, <2>3
<1>. QED BY <1>4, <1>5, <1>6, <1>7, <1>8 DEF Execute

LEMMA StepRemoves ==
  ASSUME RemovalInv, NEW t \in Tasks, Step(t)
  PROVE  ReadsOfAdded' /\ GoneWithMessage'
<1>1. CASE DeleteObjects(t)
  <2>1. /\ db'.reads = db.reads
        /\ db'.objects = db.objects \ calls[t].write.ids
        /\ disk' = disk /\ added' = added
    BY <1>1 DEF DeleteObjects, RemovalInv, StoreTypeOK, Tables
  <2>2. \A i : Removing(i) => Removing(i)' \/ i \in calls[t].write.ids
    BY <1>1, OthersRemove DEF DeleteObjects, Executed, RemovalInv
  <2>. QED BY <2>1, <2>2 DEF RemovalInv, ReadsOfAdded, GoneWithMessage
<1>2. CASE Commit(t)
  BY <1>2 DEF Commit, RemovalInv, ReadsOfAdded, GoneWithMessage
<1>3. CASE CommitFails(t)
  <2>1. calls[t].at = "commit" /\ disk' = disk /\ db' \in {db, disk} /\ added' = added
    BY <1>3 DEF CommitFails
  <2>2. \A i : Removing(i) => Removing(i)'
    BY <1>3, <2>1, OthersRemove DEF CommitFails, Raise, RemovalInv
  <2>3. CASE db' = db
    BY <2>1, <2>2, <2>3 DEF RemovalInv, ReadsOfAdded, GoneWithMessage
  <2>4. CASE db' = disk
    BY <2>1, <2>4 DEF RemovalInv, ReadsOfAdded, GoneWithMessage
  <2>. QED BY <2>1, <2>3, <2>4
<1>. QED BY <1>1, <1>2, <1>3 DEF Step

(***************************************************************************)
(* OnlyOthersTear: for any number of requests, whatever commits fail and   *)
(* whenever the process dies, a read row goes from disk before its message *)
(* only in the commit of another request that falls between the two        *)
(* DELETEs of a removal of that message.                                   *)
(***************************************************************************)
THEOREM OnlyOthersTear == Spec => TornOnlyByOthers
<1>. DEFINE Torn == \A r \in disk.reads \ disk'.reads : r[1] \in disk'.objects =>
       \E t \in Tasks, u \in Tasks :
         /\ t # u
         /\ calls[t].at = "delete_objects" /\ r[1] \in calls[t].write.ids
         /\ calls[u].at = "commit" /\ calls'[u].at = "returned"
<1>1. Init => RemovalInv
  <2>1. SUFFICES ASSUME Init PROVE RemovalInv
    OBVIOUS
  <2>2. disk.reads = {} /\ db = disk
    BY <2>1 DEF Init
  <2>. QED BY <2>1, <2>2, InitTypes DEF RemovalInv, ReadsOfAdded, GoneWithMessage
<1>2. RemovalInv /\ [Next]_vars => RemovalInv'
  <2>1. SUFFICES ASSUME RemovalInv, [Next]_vars PROVE ReadsOfAdded' /\ GoneWithMessage'
    BY NextTypes DEF RemovalInv
  <2>2. CASE Open \/ Close \/ Crash
    BY <2>1, <2>2 DEF Open, Close, Crash, RemovalInv, ReadsOfAdded, GoneWithMessage
  <2>3. CASE UNCHANGED vars
    BY <2>1, <2>3 DEF vars, RemovalInv, ReadsOfAdded, GoneWithMessage, Removing
  <2>. QED BY <2>1, <2>2, <2>3, ExecuteRemoves, StepRemoves DEF Next
<1>3. RemovalInv /\ [Next]_vars => Torn
  <2>1. SUFFICES ASSUME RemovalInv, [Next]_vars, NEW r \in disk.reads \ disk'.reads,
                        r[1] \in disk'.objects
                 PROVE  \E t \in Tasks, u \in Tasks :
                          /\ t # u
                          /\ calls[t].at = "delete_objects" /\ r[1] \in calls[t].write.ids
                          /\ calls[u].at = "commit" /\ calls'[u].at = "returned"
    OBVIOUS
  <2>2. disk' = disk \/ \E u \in Tasks : Commit(u)
    BY <2>1 DEF Next, vars, Open, Close, Crash, Execute, ClaimName, PutActor, AddObject,
                MarkRead, RemoveReads, Step, DeleteObjects, CommitFails
  <2>3. PICK u \in Tasks : Commit(u)
    BY <2>1, <2>2
  <2>4. disk' = db /\ calls[u].at = "commit" /\ calls'[u].at = "returned"
    BY <2>1, <2>3 DEF Commit, Return, RemovalInv, StoreTypeOK, Call
  <2>5. PICK t \in Tasks : calls[t].at = "delete_objects" /\ r[1] \in calls[t].write.ids
    BY <2>1, <2>4 DEF RemovalInv, GoneWithMessage, Removing
  <2>. QED BY <2>4, <2>5
<1>4. RemovalInv /\ [Next]_vars => [Torn]_vars
  BY <1>3
<1>. QED BY <1>1, <1>2, <1>4, PTL DEF Spec, TornOnlyByOthers
=============================================================================
