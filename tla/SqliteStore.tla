---------------------------- MODULE SqliteStore ----------------------------
(***************************************************************************)
(* The SQLite adapter of src/agent_mailbox/sqlite_store.py: every port     *)
(* call of every request shares one connection, hence one transaction.     *)
(* The first INSERT, UPDATE or DELETE opens it, later statements of other  *)
(* requests join it, and whoever commits first commits for all.  A write   *)
(* is a statement (two for remove_objects), an await, and a commit.        *)
(*                                                                         *)
(* Statements run one at a time in the order they are issued, on what      *)
(* earlier ones left, committed or not.  A commit SQLite cannot complete   *)
(* (a full disk, an I/O error) may roll the whole transaction back.        *)
(*                                                                         *)
(* Left out: the SELECTs, which change nothing, and every column that no   *)
(* guarantee of the port is about.                                         *)
(***************************************************************************)
EXTENDS Naturals, FiniteSets

CONSTANTS
  Tasks,          \* requests in flight at once
  Names,          \* primary keys of actors
  Ids,            \* primary keys of objects, each added at most once
  Profiles,       \* what the row of an actor says
  NoRow,          \* no actor under that name
  MaxVariables,   \* placeholders SQLite accepts in one statement
  Faults          \* what may go wrong: a subset of {"crash", "commit"}

ASSUME StoreAssumption ==
  NoRow \notin Profiles /\ MaxVariables \in Nat /\ Faults \subseteq {"crash", "commit"}

VARIABLES
  db,       \* the tables as the connection sees them
  disk,     \* the tables as last committed
  open,     \* the store is entered
  calls,    \* what each task awaits, and what its last call came to
  added,    \* history: objects some add_object has been called for
  taken,    \* history: objects some remove_objects has named
  told      \* history: writes that returned having changed something

vars == <<db, disk, open, calls, added, taken, told>>

(***************************************************************************)
(* Writes, and where a call stands                                         *)
(***************************************************************************)

Claims == [what : {"claim"}, name : Names, profile : Profiles]
Puts == [what : {"put"}, name : Names, profile : Profiles]
Adds == [what : {"add"}, id : Ids]
Marks == [what : {"mark"}, id : Ids, reader : Names]
Removes == [what : {"remove"}, ids : SUBSET Ids]
Writes == Claims \cup Puts \cup Adds \cup Marks \cup Removes

\* `changed` is what the caller is told by cursor.rowcount.
Call == [at : {"idle", "raised"}]
          \cup [at : {"commit", "returned"}, write : Writes, changed : BOOLEAN]
          \cup [at : {"delete_objects"}, write : Removes]

Tables == [actors : [Names -> Profiles \cup {NoRow}],
           objects : SUBSET Ids, reads : SUBSET (Ids \X Names)]

Ready(t) == open /\ calls[t].at \in {"idle", "raised", "returned"}
Becomes(t, call) == calls' = [calls EXCEPT ![t] = call]
Executed(t, write, changed) ==
  Becomes(t, [at |-> "commit", write |-> write, changed |-> changed])
Raise(t) == Becomes(t, [at |-> "raised"])

(***************************************************************************)
(* The statements                                                          *)
(***************************************************************************)

\* Slip: a SELECT decides, and the INSERT that follows replaces.
ClaimNameByLooking(t) ==
  \E n \in Names, p \in Profiles :
    /\ Ready(t)
    /\ db' = [db EXCEPT !.actors[n] = p]
    /\ Executed(t, [what |-> "claim", name |-> n, profile |-> p], disk.actors[n] = NoRow)
    /\ UNCHANGED <<disk, open, added, taken, told>>

\* INSERT OR IGNORE against the primary key.
ClaimName(t) ==
  \E n \in Names, p \in Profiles :
    /\ Ready(t)
    /\ db' = IF db.actors[n] = NoRow THEN [db EXCEPT !.actors[n] = p] ELSE db
    /\ Executed(t, [what |-> "claim", name |-> n, profile |-> p], db.actors[n] = NoRow)
    /\ UNCHANGED <<disk, open, added, taken, told>>

PutActor(t) ==
  \E n \in Names, p \in Profiles :
    /\ Ready(t)
    /\ db' = [db EXCEPT !.actors[n] = p]
    /\ Executed(t, [what |-> "put", name |-> n, profile |-> p], TRUE)
    /\ UNCHANGED <<disk, open, added, taken, told>>

AddObject(t) ==
  \E i \in Ids \ added :
    /\ Ready(t)
    /\ db' = [db EXCEPT !.objects = @ \cup {i}]
    /\ Executed(t, [what |-> "add", id |-> i], TRUE)
    /\ added' = added \cup {i}
    /\ UNCHANGED <<disk, open, taken, told>>

\* Slip: the two columns of the key in the wrong order.
MarkReadSwapped(t) ==
  \E i \in added, n \in Names :
    /\ Ready(t)
    /\ db' = [db EXCEPT !.reads = @ \cup {<<n, i>>}]
    /\ Executed(t, [what |-> "mark", id |-> i, reader |-> n], <<n, i>> \notin db.reads)
    /\ UNCHANGED <<disk, open, added, taken, told>>

\* No foreign key ties a read row to its object, which may be gone by now.
MarkRead(t) ==
  \E i \in added, n \in Names :
    /\ Ready(t)
    /\ db' = [db EXCEPT !.reads = @ \cup {<<i, n>>}]
    /\ Executed(t, [what |-> "mark", id |-> i, reader |-> n], <<i, n>> \notin db.reads)
    /\ UNCHANGED <<disk, open, added, taken, told>>

ReadsOfOthers(ids) == {r \in db.reads : r[1] \notin ids}

\* Slip: each DELETE commits on its own.
RemoveReadsCommitted(t) ==
  \E ids \in SUBSET added \ {{}} :
    /\ Ready(t)
    /\ db' = [db EXCEPT !.reads = ReadsOfOthers(ids)]
    /\ disk' = db'
    /\ Becomes(t, [at |-> "delete_objects", write |-> [what |-> "remove", ids |-> ids]])
    /\ taken' = taken \cup ids
    /\ UNCHANGED <<open, added, told>>

\* The first DELETE of remove_objects; with no ids there is nothing to execute, and
\* with too many the statement does not compile.
RemoveReads(t) ==
  \E ids \in SUBSET added :
    LET write == [what |-> "remove", ids |-> ids] IN
    /\ Ready(t)
    /\ \/ /\ ids = {}
          /\ Becomes(t, [at |-> "returned", write |-> write, changed |-> FALSE])
          /\ UNCHANGED <<db, taken>>
       \/ Cardinality(ids) > MaxVariables /\ Raise(t) /\ UNCHANGED <<db, taken>>
       \/ /\ Cardinality(ids) \in 1 .. MaxVariables
          /\ db' = [db EXCEPT !.reads = ReadsOfOthers(ids)]
          /\ Becomes(t, [at |-> "delete_objects", write |-> write])
          /\ taken' = taken \cup ids
    /\ UNCHANGED <<disk, open, added, told>>

DeleteObjects(t) ==
  LET write == calls[t].write IN
  /\ calls[t].at = "delete_objects"
  /\ db' = [db EXCEPT !.objects = @ \ write.ids]
  /\ Executed(t, write, db.objects \cap write.ids # {})
  /\ UNCHANGED <<disk, open, added, taken, told>>

(***************************************************************************)
(* Commit, failure, and the life of the connection                         *)
(***************************************************************************)

Return(t) ==
  /\ calls' = [calls EXCEPT ![t].at = "returned"]
  /\ told' = IF calls[t].changed THEN told \cup {calls[t].write} ELSE told

\* Slip: answers without waiting for the transaction.
CommitLater(t) ==
  /\ calls[t].at = "commit"
  /\ Return(t)
  /\ UNCHANGED <<db, disk, open, added, taken>>

\* Commits everything executed so far, whoever executed it.
Commit(t) ==
  /\ calls[t].at = "commit"
  /\ disk' = db
  /\ Return(t)
  /\ UNCHANGED <<db, open, added, taken>>

\* Depending on the error SQLite keeps the transaction open or rolls all of it back;
\* nothing catches it, and nothing tells the others their statements are gone.
CommitFails(t) ==
  /\ "commit" \in Faults /\ calls[t].at = "commit"
  /\ db # disk
  /\ db' \in {db, disk}
  /\ Raise(t)
  /\ UNCHANGED <<disk, open, added, taken, told>>

Idle == [t \in Tasks |-> [at |-> "idle"]]

\* The process dies with whatever was not committed.
Crash ==
  /\ "crash" \in Faults /\ open
  /\ open' = FALSE
  /\ db' = disk
  /\ calls' = Idle
  /\ UNCHANGED <<disk, added, taken, told>>

\* Shutdown waits for the requests in flight.
Close ==
  /\ open /\ \A t \in Tasks : Ready(t)
  /\ open' = FALSE
  /\ db' = disk
  /\ calls' = Idle
  /\ UNCHANGED <<disk, added, taken, told>>

\* The schema is created if it is not there: a reopened file keeps its rows.
Open ==
  /\ ~open
  /\ open' = TRUE
  /\ db' = disk
  /\ UNCHANGED <<disk, calls, added, taken, told>>

Init ==
  /\ disk = [actors |-> [n \in Names |-> NoRow], objects |-> {}, reads |-> {}]
  /\ db = disk
  /\ open = FALSE
  /\ calls = Idle
  /\ added = {} /\ taken = {} /\ told = {}

Execute(t) ==
  ClaimName(t) \/ PutActor(t) \/ AddObject(t) \/ MarkRead(t) \/ RemoveReads(t)

Step(t) == DeleteObjects(t) \/ Commit(t) \/ CommitFails(t)

Next == Open \/ Close \/ Crash \/ \E t \in Tasks : Execute(t) \/ Step(t)

Spec == Init /\ [][Next]_vars

(***************************************************************************)
(* What the port promises                                                  *)
(***************************************************************************)

\* StoreTypeOK: tables, calls and histories have the shapes of the schema.
StoreTypeOK ==
  /\ db \in Tables /\ disk \in Tables
  /\ open \in BOOLEAN
  /\ calls \in [Tasks -> Call]
  /\ added \subseteq Ids /\ taken \subseteq added
  /\ told \subseteq Writes

(***************************************************************************)
(* WonOnce: at most one claim of a name, and one consumption of a message  *)
(* by a reader, is ever told that it won, whatever requests, crashes and   *)
(* restarts come between the two ("SQLite decides both, atomically").      *)
(***************************************************************************)
WonOnce ==
  [][\A t \in Tasks :
       (calls[t].at = "commit" /\ calls[t].changed /\ calls'[t].at = "returned") =>
         LET write == calls[t].write IN
         /\ write.what = "claim" =>
              \A w \in told : w.what = "claim" => w.name # write.name
         /\ (write.what = "mark" /\ write.id \notin taken) => write \notin told]_vars

(***************************************************************************)
(* AnsweredIsKept: what a caller was told is on disk: a claimed name has a *)
(* row, a stored message and a consumption stay until somebody removes the *)
(* message.  A crash or another request's failure cannot take them back.   *)
(***************************************************************************)
AnsweredIsKept ==
  \A w \in told :
    /\ w.what \in {"claim", "put"} => disk.actors[w.name] # NoRow
    /\ (w.what = "add" /\ w.id \notin taken) => w.id \in disk.objects
    /\ (w.what = "mark" /\ w.id \notin taken) => <<w.id, w.reader>> \in disk.reads

(***************************************************************************)
(* RemovalIsWhole: on disk, a read row goes only together with its message *)
(* or after it: no reader finds a consumed message waiting again.          *)
(***************************************************************************)
RemovalIsWhole ==
  [][\A r \in disk.reads \ disk'.reads : r[1] \notin disk'.objects]_vars

(***************************************************************************)
(* TornOnlyByOthers: when requests overlap, a read row goes from disk      *)
(* before its message only in the commit of another request that falls     *)
(* between the two DELETEs of a removal of that message: no failed commit, *)
(* crash or restart does it, nor any commit of the removal itself.         *)
(***************************************************************************)
TornOnlyByOthers ==
  [][\A r \in disk.reads \ disk'.reads : r[1] \in disk'.objects =>
       \E t \in Tasks, u \in Tasks :
         /\ t # u
         /\ calls[t].at = "delete_objects" /\ r[1] \in calls[t].write.ids
         /\ calls[u].at = "commit" /\ calls'[u].at = "returned"]_vars
=============================================================================
