---------------------------- MODULE MailboxProps ----------------------------
(***************************************************************************)
(* What makes the mailbox correct, stated about the state and the steps of *)
(* module Mailbox.                                                         *)
(***************************************************************************)
EXTENDS Mailbox

(***************************************************************************)
(* TypeOK: every row and every local a suspended coroutine holds has the   *)
(* shape the code gives it.                                                *)
(***************************************************************************)
TypeOK ==
  /\ actors \in Directory
  /\ objects \in Archive
  /\ reads \subseteq Ids \X Names
  /\ now \in Time
  /\ tasks \in [Tasks -> Task]
  /\ unused \subseteq Ids
  /\ acked \subseteq Ids \X Names

\* A name an agent holds is nobody's group: then `to` and `cc` of a stored message
\* cannot be resolved a second time into something else.  Nothing in the code
\* enforces it; the runs whose names overlap show what follows.
NamesAndGroupsApart ==
  \A p \in Profiles : p \cap (Requested \cup Issued \cup Residents \cup Enrolled) = {}

\* Who a message was sent by or delivered to, as stored.
PartiesOf(obj) == {obj.from} \cup obj.to \cup obj.cc

\* The step in which task t gets an answer to the given call.
Answered(t, call, code) ==
  /\ tasks[t].op = call
  /\ tasks[t]'.op = "answered" /\ tasks[t]'.code = code

(***************************************************************************)
(* Identity (rules 1 and 2 of docs/messaging-rules.md)                     *)
(***************************************************************************)

(***************************************************************************)
(* IdentityPermanent: whatever joins, installs or profile updates overlap, *)
(* an actor never disappears, changes type or is created again, and its    *)
(* profile changes only when its owner's own update_profile is answered:   *)
(* a lost race for a name or a reopened resident leaves it alone.          *)
(***************************************************************************)
IdentityPermanent ==
  [][\A n \in Joined(actors) :
       /\ n \in Joined(actors')
       /\ actors'[n].type = actors[n].type
       /\ actors'[n].created = actors[n].created
       /\ actors'[n].groups # actors[n].groups =>
            \E t \in Tasks : /\ Answered(t, "update_profile", "ok")
                             /\ tasks[t].caller = n]_vars

(***************************************************************************)
(* EveryCallAnswered: a call in flight is eventually answered, also the    *)
(* join that keeps drawing names that are taken.                           *)
(***************************************************************************)
EveryCallAnswered ==
  \A t \in Tasks : tasks[t].op \notin {"none", "answered"} ~> Free(t)

(***************************************************************************)
(* Delivery (rules 3, 4 and 6)                                             *)
(***************************************************************************)

(***************************************************************************)
(* StoredAudience: resolving a stored message again, against whoever has   *)
(* joined and listed whatever group since, gives exactly the actors it     *)
(* reached when it was sent ("resolving at send time means a message       *)
(* reaches who was there when it was sent").                               *)
(***************************************************************************)
StoredAudience ==
  \A i \in Stored(objects) :
    RecipientsOf(objects[i], Joined(actors), GroupMemberships(actors))
      = objects[i].to \cup objects[i].cc

(***************************************************************************)
(* ReadsByParties: every read row of a stored message belongs to its       *)
(* sender or to somebody it was delivered to, whatever changed between the *)
(* awaits of read().                                                       *)
(***************************************************************************)
ReadsByParties ==
  \A r \in reads : r[1] \in Stored(objects) => r[2] \in PartiesOf(objects[r[1]])

(***************************************************************************)
(* ConsumedStaysConsumed: a peek never lists a message its caller has      *)
(* already consumed, however the two calls overlapped.                     *)
(***************************************************************************)
ConsumedStaysConsumed ==
  [][\A t \in Tasks : Answered(t, "peek", "ok") =>
       \A i \in tasks[t]'.ids : <<i, tasks[t].caller>> \notin acked]_vars

(***************************************************************************)
(* PeekMissesNothing: a message that was waiting for the caller when it    *)
(* called peek, and still is when peek answers, is in the answer.          *)
(***************************************************************************)
PeekMissesNothing ==
  [][\A t \in Tasks : Answered(t, "peek", "ok") =>
       tasks[t].waiting \cap WaitingFor(tasks[t].caller) \subseteq tasks[t]'.ids]_vars

(***************************************************************************)
(* AnswersAreOwnMail: every message that peek, thread, view or read hands  *)
(* over was sent by the caller or delivered to it: thread membership is    *)
(* per turn, and one turn unlocks no other (rule 7).                       *)
(***************************************************************************)
AnswersAreOwnMail ==
  [][\A t \in Tasks : \A op \in {"peek", "thread", "view", "read"} :
       Answered(t, op, "ok") =>
         \A i \in tasks[t]'.ids \cap Stored(objects) :
           tasks[t].caller \in PartiesOf(objects[i])]_vars

(***************************************************************************)
(* Threads (rules 5 and 8)                                                 *)
(***************************************************************************)

(***************************************************************************)
(* AttachedWithinSight: the author of a reply was party to the message it  *)
(* answers, which was stored first, although the check reads a snapshot    *)
(* taken before the reply is.                                              *)
(***************************************************************************)
AttachedWithinSight ==
  \A i \in Stored(objects) :
    LET p == objects[i].parent IN
    p \in Stored(objects) =>
      /\ objects[i].from \in PartiesOf(objects[p])
      /\ objects[p].published <= objects[i].published

(***************************************************************************)
(* ThreadsAreTrees: following in_reply_to from any stored message ends at  *)
(* a message whose parent is not stored; correct use makes no cycle.       *)
(***************************************************************************)
ThreadsAreTrees ==
  \A i \in Stored(objects) : objects[ThreadRoot(objects, i)].parent \notin Stored(objects)

(***************************************************************************)
(* Expiry (rule 9)                                                         *)
(***************************************************************************)

SameThread(i, j) == ThreadRoot(objects, i) = ThreadRoot(objects, j)

(***************************************************************************)
(* ExpiryTakesWholeThreads: when a sweep removes a message, no turn of the *)
(* same conversation stays behind.                                         *)
(***************************************************************************)
ExpiryTakesWholeThreads ==
  [][\A i \in Stored(objects) \ Stored(objects') :
       \A j \in Stored(objects) : SameThread(i, j) => j \notin Stored(objects')]_vars

(***************************************************************************)
(* SplitOnlyByLateTurns: with calls overlapping the sweep, a turn left     *)
(* behind in a removed conversation was stored after the sweep took its    *)
(* snapshot; what the sweep saw of a conversation goes or stays together.  *)
(***************************************************************************)
SplitOnlyByLateTurns ==
  [][\A t \in Tasks : Answered(t, "expire", "ok") =>
       \A i \in Stored(objects) \ Stored(objects'),
          j \in Stored(objects) \cap Stored(objects') :
            SameThread(i, j) => j \notin Stored(tasks[t].objs)]_vars

(***************************************************************************)
(* ExpirySparesTheLive: a sweep removes no message younger than the        *)
(* retention period, even when the sweep itself was slow.                  *)
(***************************************************************************)
ExpirySparesTheLive ==
  [][\A i \in Stored(objects) \ Stored(objects') :
       objects[i].published + RetentionDays < now]_vars
=============================================================================
