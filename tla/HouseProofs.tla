---------------------------- MODULE HouseProofs ----------------------------
(***************************************************************************)
(* What the house insists on, for any number of requests, any limits and   *)
(* any number of stops.                                                    *)
(*                                                                         *)
(* A large body gets past the first check only as a reply.  The argument   *)
(* is that it never gets further than the mailbox's look-up of what it     *)
(* answers, since the second check stands where the reply becomes a send.  *)
(***************************************************************************)
EXTENDS House, MailboxProofs

\* Every task has its call, its body and what it still owes the log.
Rows == DOMAIN tasks = Tasks /\ DOMAIN body = Tasks /\ DOMAIN owing = Tasks

\* A large body is never in a send.
Careful == \A t \in Tasks : body[t] = "large" => tasks[t].op \in {"none", "answered", "reply"}

HouseInv == Rows /\ Careful /\ WithinLimits /\ AuditedUnlessStopped

LEMMA AwaitOne ==
  ASSUME DOMAIN tasks = Tasks, NEW t \in Tasks, NEW locals, Await(t, locals)
  PROVE  /\ DOMAIN tasks' = Tasks /\ tasks'[t] = locals
         /\ \A s \in Tasks \ {t} : tasks'[s] = tasks[s]
BY DEF Await

LEMMA AnswerOne ==
  ASSUME DOMAIN tasks = Tasks, NEW t \in Tasks, NEW call, NEW code, NEW ids,
         Answer(t, call, code, ids)
  PROVE  /\ DOMAIN tasks' = Tasks /\ tasks'[t].op = "answered"
         /\ \A s \in Tasks \ {t} : tasks'[s] = tasks[s]
BY AwaitOne DEF Answer

\* One task moves on to `op`, and nothing is stored.
MovesOn(t, ops) ==
  /\ DOMAIN tasks' = Tasks /\ unused' = unused /\ tasks'[t].op \in ops
  /\ \A s \in Tasks \ {t} : tasks'[s] = tasks[s]

LEMMA UncheckedCalls ==
  ASSUME DOMAIN tasks = Tasks, NEW t \in Tasks, Unchecked(t)
  PROVE  \E ops : MovesOn(t, ops) /\ "send" \notin ops
<1>1. CASE JoinNamed(t)
  <2>1. PICK code : Answer(t, "join", code, {})
    BY <1>1 DEF JoinNamed, JoinAs
  <2>2. MovesOn(t, {"answered"})
    BY <1>1, <2>1, AnswerOne DEF JoinNamed, JoinAs, MovesOn
  <2> QED BY <2>2
<1>2. CASE JoinIssued(t)
  <2>1. \/ \E code : Answer(t, "join", code, {})
        \/ \E locals : Await(t, locals) /\ locals.op = "join"
    BY <1>2 DEF JoinIssued, TryIssued
  <2>2. MovesOn(t, {"answered", "join"})
    BY <1>2, <2>1, AnswerOne, AwaitOne DEF JoinIssued, MovesOn
  <2> QED BY <2>2
<1>3. CASE UpdateProfile(t)
  <2>1. PICK locals : Await(t, locals) /\ locals.op = "update_profile"
    BY <1>3 DEF UpdateProfile, UpdateProfileAs
  <2>2. MovesOn(t, {"update_profile"})
    BY <1>3, <2>1, AwaitOne DEF UpdateProfile, UpdateProfileAs, MovesOn
  <2> QED BY <2>2
<1>4. CASE Reply(t)
  <2>1. PICK locals : Await(t, locals) /\ locals.op = "reply"
    BY <1>4 DEF Reply, ReplyAs, Fetch
  <2>2. MovesOn(t, {"reply"})
    BY <1>4, <2>1, AwaitOne DEF Reply, ReplyAs, MovesOn
  <2> QED BY <2>2
<1>5. CASE Read(t)
  <2>1. PICK locals : Await(t, locals) /\ locals.op = "read"
    BY <1>5 DEF Read, ReadAs
  <2>2. MovesOn(t, {"read"})
    BY <1>5, <2>1, AwaitOne DEF Read, ReadAs, MovesOn
  <2> QED BY <2>2
<1>6. CASE View(t)
  <2>1. PICK locals : Await(t, locals) /\ locals.op = "view"
    BY <1>6 DEF View, Fetch
  <2>2. MovesOn(t, {"view"})
    BY <1>6, <2>1, AwaitOne DEF View, MovesOn
  <2> QED BY <2>2
<1>7. CASE Peek(t)
  <2>1. PICK locals : Await(t, locals) /\ locals.op = "peek"
    BY <1>7 DEF Peek, PeekAs
  <2>2. MovesOn(t, {"peek"})
    BY <1>7, <2>1, AwaitOne DEF Peek, PeekAs, MovesOn
  <2> QED BY <2>2
<1>8. CASE Thread(t)
  <2>1. PICK locals : Await(t, locals) /\ locals.op = "thread"
    BY <1>8 DEF Thread
  <2>2. MovesOn(t, {"thread"})
    BY <1>8, <2>1, AwaitOne DEF Thread, MovesOn
  <2> QED BY <2>2
<1>9. CASE Expire(t)
  <2>1. \/ Answer(t, "expire", "ok", {})
        \/ \E locals : Await(t, locals) /\ locals.op = "expire"
    BY <1>9 DEF Expire
  <2>2. MovesOn(t, {"answered", "expire"})
    BY <1>9, <2>1, AnswerOne, AwaitOne DEF Expire, MovesOn
  <2> QED BY <2>2
<1> QED BY <1>1, <1>2, <1>3, <1>4, <1>5, <1>6, <1>7, <1>8, <1>9 DEF Unchecked

\* Resuming moves one task; a reply that is resumed stores nothing.
LEMMA ResumedCalls ==
  ASSUME DOMAIN tasks = Tasks, NEW t \in Tasks, Resume(t)
  PROVE  /\ DOMAIN tasks' = Tasks
         /\ \A s \in Tasks \ {t} : tasks'[s] = tasks[s]
         /\ tasks[t].op \notin {"none", "answered"}
         /\ tasks[t].op = "reply" => MovesOn(t, {"reply", "send", "answered"})
<1>1. CASE JoinRetry(t)
  <2>1. \/ \E code : Answer(t, "join", code, {})
        \/ \E locals : Await(t, locals)
    BY <1>1 DEF JoinRetry, TryIssued
  <2> QED BY <1>1, <2>1, AnswerOne, AwaitOne DEF JoinRetry
<1>2. CASE PutProfile(t)
  <2>1. \E code : Answer(t, "update_profile", code, {})
    BY <1>2 DEF PutProfile
  <2> QED BY <1>2, <2>1, AnswerOne DEF PutProfile
<1>3. CASE SendContext(t) \/ SendDecide(t) \/ SendAttach(t)
  <2>1. (\E code : Answer(t, "send", code, {})) \/ \E locals : Await(t, locals)
    BY <1>3 DEF SendContext, SendDecide, SendAttach, Store
  <2>2. tasks[t].op = "send"
    BY <1>3 DEF SendContext, SendDecide, SendAttach
  <2> QED BY <2>1, <2>2, AnswerOne, AwaitOne
<1>4. CASE ReadReader(t)
  <2>1. (\E code : Answer(t, "read", code, {})) \/ \E locals : Await(t, locals)
    BY <1>4 DEF ReadReader
  <2> QED BY <1>4, <2>1, AnswerOne, AwaitOne DEF ReadReader
<1>5. CASE VisibleActor(t) \/ VisibleObject(t) \/ VisibleRefused(t)
  <2>1. /\ tasks[t].op \in {"read", "view", "reply"} /\ unused' = unused
        /\ \/ \E call, code : Answer(t, call, code, {})
           \/ \E locals : Await(t, locals) /\ locals.op = tasks[t].op
    BY <1>5 DEF VisibleActor, VisibleObject, VisibleRefused, Fetching
  <2> QED BY <2>1, AnswerOne, AwaitOne DEF MovesOn
<1>6. CASE MarkRead(t) \/ ViewAnswer(t)
  <2>1. /\ tasks[t].op \in {"read", "view"}
        /\ \E call, ids : Answer(t, call, "ok", ids)
    BY <1>6 DEF MarkRead, ViewAnswer
  <2> QED BY <2>1, AnswerOne
<1>7. CASE ReplySend(t)
  <2>1. /\ tasks[t].op = "reply" /\ unused' = unused
        /\ \E locals : Await(t, locals) /\ locals.op = "send"
    BY <1>7 DEF ReplySend, StartSend
  <2> QED BY <2>1, AwaitOne DEF MovesOn
<1>8. CASE ListContext(t) \/ PeekObjects(t) \/ PeekAnswer(t) \/ ThreadAnswer(t)
  <2>1. /\ tasks[t].op \in {"peek", "thread"}
        /\ \/ \E call, code, ids : Answer(t, call, code, ids)
           \/ \E locals : Await(t, locals)
    BY <1>8 DEF ListContext, PeekObjects, PeekAnswer, ThreadAnswer, Listing
  <2> QED BY <2>1, AnswerOne, AwaitOne
<1>9. CASE ExpireRemove(t)
  <2>1. \E ids : Answer(t, "expire", "ok", ids)
    BY <1>9 DEF ExpireRemove
  <2> QED BY <1>9, <2>1, AnswerOne DEF ExpireRemove
<1> QED BY <1>1, <1>2, <1>3, <1>4, <1>5, <1>6, <1>7, <1>8, <1>9 DEF Resume
\* A step that stores nothing and leaves the accounts as they are.
LEMMA AccountsStay ==
  ASSUME HouseInv, DOMAIN tasks' = Tasks, DOMAIN body' = Tasks, Careful',
         UNCHANGED <<unused, owing, audited, bulky, lost>>
  PROVE  HouseInv'
BY DEF HouseInv, Rows, WithinLimits, AuditedUnlessStopped

LEMMA BeginKeeps ==
  ASSUME HouseInv, NEW t \in Tasks, Begin(t)
  PROVE  HouseInv'
<1>1. DOMAIN tasks = Tasks /\ DOMAIN body = Tasks
  BY DEF HouseInv, Rows
<1>2. PICK size \in Sizes :
        /\ \/ Unchecked(t)
           \/ Send(t) /\ size = "small"
        /\ body' = [body EXCEPT ![t] = IF tasks'[t].op \in {"send", "reply"} THEN size
                                       ELSE "small"]
  BY DEF Begin, Fits
<1>3. PICK ops : MovesOn(t, ops) /\ ("send" \in ops => size = "small")
  <2>1. CASE Unchecked(t)
    BY <1>1, <2>1, UncheckedCalls
  <2>2. CASE Send(t) /\ size = "small"
    <3>1. PICK locals : Await(t, locals) /\ locals.op = "send"
      BY <2>2 DEF Send, SendAs, StartSend
    <3>2. MovesOn(t, {"send"})
      BY <1>1, <2>2, <3>1, AwaitOne DEF Send, SendAs, MovesOn
    <3> QED BY <2>2, <3>2
  <2> QED BY <1>2, <2>1, <2>2
<1>4. DOMAIN body' = Tasks
  BY <1>1, <1>2
<1>5. Careful'
  <2> SUFFICES ASSUME NEW s \in Tasks, body'[s] = "large"
               PROVE  tasks'[s].op \in {"none", "answered", "reply"}
    BY DEF Careful
  <2>1. CASE s = t
    BY <1>1, <1>2, <1>3, <2>1 DEF MovesOn
  <2>2. CASE s # t
    <3>1. body'[s] = body[s] /\ tasks'[s] = tasks[s]
      BY <1>1, <1>2, <1>3, <2>2 DEF MovesOn
    <3> QED BY <3>1 DEF HouseInv, Careful
  <2> QED BY <2>1, <2>2
<1> QED BY <1>3, <1>4, <1>5, AccountsStay DEF Begin, MovesOn

LEMMA RefusalKeeps ==
  ASSUME HouseInv, NEW t \in Tasks, RefuseSend(t) \/ RefuseReply(t)
  PROVE  HouseInv'
<1>1. /\ Answer(t, "send", "policy_refusal", {})
      /\ UNCHANGED <<unused, body, owing, audited, bulky, lost>>
  BY DEF RefuseSend, RefuseReply, house
<1>2. /\ DOMAIN tasks' = Tasks /\ tasks'[t].op = "answered"
      /\ \A s \in Tasks \ {t} : tasks'[s] = tasks[s]
  BY <1>1, AnswerOne DEF HouseInv, Rows
<1>3. Careful'
  BY <1>1, <1>2 DEF HouseInv, Careful
<1>4. DOMAIN body' = Tasks
  BY <1>1 DEF HouseInv, Rows
<1> QED BY <1>1, <1>2, <1>3, <1>4, AccountsStay

LEMMA ActKeeps ==
  ASSUME HouseInv, NEW t \in Tasks, Act(t)
  PROVE  HouseInv'
<1>1. /\ DOMAIN tasks' = Tasks
      /\ \A s \in Tasks \ {t} : tasks'[s] = tasks[s]
      /\ tasks[t].op \notin {"none", "answered"}
      /\ tasks[t].op = "reply" => MovesOn(t, {"reply", "send", "answered"})
  BY ResumedCalls DEF Act, HouseInv, Rows
<1>2. /\ MaySend(t) /\ UNCHANGED <<body, audited, lost>>
      /\ owing' = [owing EXCEPT ![t] = @ \cup (unused \ unused')]
      /\ bulky' = IF body[t] = "large" THEN bulky \cup (unused \ unused') ELSE bulky
  BY DEF Act
<1>3. body[t] = "large" => /\ unused' = unused
                           /\ tasks'[t].op \in {"reply", "answered"}
  BY <1>1, <1>2 DEF HouseInv, Careful, MovesOn, MaySend, Fits
<1>4. Careful'
  BY <1>1, <1>2, <1>3 DEF HouseInv, Careful
<1>5. WithinLimits'
  BY <1>2, <1>3 DEF HouseInv, WithinLimits
<1>6. /\ DOMAIN owing' = Tasks /\ owing'[t] = owing[t] \cup (unused \ unused')
      /\ \A s \in Tasks \ {t} : owing'[s] = owing[s]
  BY <1>2 DEF HouseInv, Rows
<1>7. AuditedUnlessStopped'
  <2> SUFFICES ASSUME NEW i \in Ids, i \notin unused'
               PROVE  i \in audited \/ i \in lost \/ \E s \in Tasks : i \in owing'[s]
    BY <1>2, Zenon DEF AuditedUnlessStopped
  <2>1. CASE i \in unused
    BY <1>6, <2>1
  <2>2. CASE i \notin unused
    <3>1. i \in audited \/ i \in lost \/ \E s \in Tasks : i \in owing[s]
      BY <2>2, Zenon DEF HouseInv, AuditedUnlessStopped
    <3> QED BY <1>6, <3>1
  <2> QED BY <2>1, <2>2
<1> QED BY <1>1, <1>2, <1>4, <1>5, <1>6, <1>7 DEF HouseInv, Rows

LEMMA RecordKeeps ==
  ASSUME HouseInv, NEW t \in Tasks, Record(t)
  PROVE  HouseInv'
<1>1. /\ UNCHANGED <<tasks, unused, body, bulky, lost>> /\ audited' = audited \cup owing[t]
      /\ owing' = [owing EXCEPT ![t] = {}]
  BY DEF Record, vars
<1>2. Rows' /\ Careful' /\ WithinLimits'
  BY <1>1 DEF HouseInv, Rows, Careful, WithinLimits
<1>3. \A s \in Tasks \ {t} : owing'[s] = owing[s]
  BY <1>1 DEF HouseInv, Rows
<1>4. AuditedUnlessStopped'
  <2> SUFFICES ASSUME NEW i \in Ids, i \notin unused
               PROVE  i \in audited' \/ i \in lost \/ \E s \in Tasks : i \in owing'[s]
    BY <1>1, Zenon DEF AuditedUnlessStopped
  <2>1. i \in audited \/ i \in lost \/ \E s \in Tasks : i \in owing[s]
    BY Zenon DEF HouseInv, AuditedUnlessStopped
  <2> QED BY <1>1, <1>3, <2>1
<1> QED BY <1>2, <1>4 DEF HouseInv

LEMMA StopKeeps ==
  ASSUME HouseInv, Stop
  PROVE  HouseInv'
<1>1. /\ tasks' = [t \in Tasks |-> [op |-> "none"]] /\ owing' = [t \in Tasks |-> {}]
      /\ lost' = lost \cup UNION {owing[t] : t \in Tasks}
      /\ UNCHANGED <<unused, body, audited, bulky>>
  BY DEF Stop
<1>2. Rows' /\ Careful' /\ WithinLimits'
  BY <1>1 DEF HouseInv, Rows, Careful, WithinLimits
<1>3. AuditedUnlessStopped'
  <2> SUFFICES ASSUME NEW i \in Ids, i \notin unused
               PROVE  i \in audited \/ i \in lost'
    BY <1>1, Zenon DEF AuditedUnlessStopped
  <2> QED BY <1>1, Zenon DEF HouseInv, AuditedUnlessStopped
<1> QED BY <1>2, <1>3 DEF HouseInv

LEMMA HouseKept == HouseSpec => []HouseInv
<1>1. HouseInit => HouseInv
  BY DEF HouseInit, Init, HouseInv, Rows, Careful, WithinLimits, AuditedUnlessStopped
<1>2. HouseInv /\ [HouseNext]_allvars => HouseInv'
  <2> SUFFICES ASSUME HouseInv, [HouseNext]_allvars PROVE HouseInv'
    OBVIOUS
  <2>1. CASE \/ OpenStore \/ Serve \/ (Tick /\ UNCHANGED house) \/ UNCHANGED allvars
             \/ \E n \in Residents : StandUp(n)
    <3>1. UNCHANGED <<tasks, unused, body, owing, audited, bulky, lost>>
      BY <2>1 DEF OpenStore, Serve, StandUp, Tick, vars, house, allvars
    <3>2. Careful' /\ DOMAIN tasks' = Tasks /\ DOMAIN body' = Tasks
      BY <3>1 DEF HouseInv, Rows, Careful
    <3> QED BY <3>1, <3>2, AccountsStay
  <2>2. CASE Stop
    BY <2>2, StopKeeps
  <2>3. ASSUME NEW t \in Tasks,
               Begin(t) \/ RefuseSend(t) \/ RefuseReply(t) \/ Act(t) \/ Record(t)
        PROVE  HouseInv'
    BY <2>3, BeginKeeps, RefusalKeeps, ActKeeps, RecordKeeps
  <2> QED BY <2>1, <2>2, <2>3 DEF HouseNext
<1> QED BY <1>1, <1>2, PTL DEF HouseSpec

(***************************************************************************)
(* LimitsHold: no large message is ever stored, whether it was posted as   *)
(* such or as a reply, with whatever requests overlap (MessageLimits).     *)
(***************************************************************************)
THEOREM LimitsHold == HouseSpec => []WithinLimits
<1>1. HouseInv => WithinLimits
  BY DEF HouseInv
<1> QED BY <1>1, HouseKept, PTL

(***************************************************************************)
(* NothingEscapesTheLog: every message ever stored is in the audit log,    *)
(* still owed to it by the request in flight, or was cut off by a stop.    *)
(***************************************************************************)
THEOREM NothingEscapesTheLog == HouseSpec => []AuditedUnlessStopped
<1>1. HouseInv => AuditedUnlessStopped
  BY DEF HouseInv
<1> QED BY <1>1, HouseKept, PTL

(***************************************************************************)
(* The residents                                                           *)
(***************************************************************************)

InFlight(t) == tasks[t].op \notin {"none", "answered"}

\* A send that has read the actors has read the residents among them.
Saw(k) == (k.op = "send" /\ k.at = "context") => Residents \subseteq Joined(k.acts)

\* Whoever is served, is served by a mailbox that has its residents.
StandingInv ==
  /\ TypeOK
  /\ standing \subseteq Joined(actors)
  /\ phase = "serving" \/ (\E t \in Tasks : InFlight(t)) => Residents \subseteq Joined(actors)
  /\ \A t \in Tasks : Saw(tasks[t])

LEMMA HouseTypes ==
  ASSUME TypeOK, [HouseNext]_allvars
  PROVE  TypeOK'
<1>1. CASE OpenStore \/ Serve \/ UNCHANGED allvars
  <2>1. UNCHANGED vars
    BY <1>1 DEF OpenStore, Serve, allvars
  <2> QED BY <2>1, TypesStay
<1>2. CASE Stop
  <2>1. tasks' \in [Tasks -> Task]
    BY <1>2 DEF Stop, Task, IdleTask
  <2> QED BY <1>2, <2>1 DEF Stop, TypeOK
<1>3. ASSUME NEW n \in Residents, StandUp(n) PROVE TypeOK'
  <2>1. actors' \in Directory
    BY <1>3, ClaimNameType, MailboxAssumption DEF StandUp, TypeOK
  <2> QED BY <1>3, <2>1 DEF StandUp, TypeOK
<1>4. ASSUME NEW t \in Tasks, Begin(t) \/ Act(t) PROVE TypeOK'
  <2>1. Call(t) \/ Resume(t)
    BY <1>4 DEF Begin, Act, Unchecked, Call
  <2> QED BY <2>1, TypesStay DEF Next
<1>5. ASSUME NEW t \in Tasks, RefuseSend(t) \/ RefuseReply(t) PROVE TypeOK'
  <2>1. /\ Answer(t, "send", "policy_refusal", {})
        /\ UNCHANGED <<actors, objects, reads, now, unused, acked>>
    BY <1>5 DEF RefuseSend, RefuseReply
  <2>2. tasks' \in [Tasks -> Task]
    BY <2>1, AnswerType DEF Operations, Codes
  <2> QED BY <2>1, <2>2 DEF TypeOK
<1>6. ASSUME NEW t \in Tasks, Record(t) PROVE TypeOK'
  BY <1>6, TypesStay DEF Record
<1>7. CASE Tick
  BY <1>7, TypesStay DEF Next
<1> QED BY <1>1, <1>2, <1>3, <1>4, <1>5, <1>6, <1>7 DEF HouseNext

LEMMA ClaimJoins ==
  ASSUME TypeOK, NEW n \in Names, NEW created \in Time, ClaimName(n, {}, created)
  PROVE  Joined(actors') = Joined(actors) \cup {n}
<1>1. actors \in [Names -> ActorRow]
  BY DEF TypeOK, Directory
<1>2. CASE actors[n] # NoActor
  BY <1>1, <1>2 DEF ClaimName, Joined
<1>3. CASE actors[n] = NoActor
  <2>1. PICK row \in Actor : actors' = [actors EXCEPT ![n] = row]
    <3>1. actors' = [actors EXCEPT ![n] = [type |-> "Service", groups |-> {},
                                           created |-> created]]
      BY <1>3 DEF ClaimName
    <3>2. [type |-> "Service", groups |-> {}, created |-> created] \in Actor
      BY DEF Actor
    <3> QED BY <3>1, <3>2
  <2>2. row # NoActor
    BY MailboxAssumption
  <2> QED BY <1>1, <2>1, <2>2 DEF Joined
<1> QED BY <1>2, <1>3

LEMMA PutJoins ==
  ASSUME TypeOK, NEW t \in Tasks, PutProfile(t)
  PROVE  Joined(actors) \subseteq Joined(actors')
<1>1. CASE tasks[t].found = NoActor
  BY <1>1 DEF PutProfile
<1>2. CASE tasks[t].found # NoActor
  <2>1. tasks[t] \in ProfileTask /\ actors \in [Names -> ActorRow]
    <3>1. tasks[t] \in Task /\ tasks[t].op = "update_profile"
      BY DEF PutProfile, TypeOK
    <3> QED BY <3>1, TaskShapes DEF TypeOK, Directory
  <2>2. PICK found \in Actor : found = tasks[t].found
    BY <1>2, <2>1 DEF ProfileTask, ActorRow
  <2>3. PutActor(tasks[t].caller, found.type, tasks[t].profile, found.created)
    BY <1>2, <2>2 DEF PutProfile
  <2>4. PICK row \in Actor : actors' = [actors EXCEPT ![tasks[t].caller] = row]
    BY <2>1, <2>2, <2>3 DEF PutActor, ProfileTask, Actor, ActorRow
  <2>5. row # NoActor
    BY MailboxAssumption
  <2> QED BY <2>1, <2>4, <2>5 DEF Joined
<1> QED BY <1>1, <1>2

\* Nothing the mailbox does takes an actor away.
LEMMA NobodyLeaves ==
  ASSUME TypeOK, NEW t \in Tasks, Call(t) \/ Resume(t)
  PROVE  Joined(actors) \subseteq Joined(actors')
<1>1. ASSUME NEW n \in Names, NEW created \in Time, ClaimName(n, {}, created)
      PROVE  Joined(actors) \subseteq Joined(actors')
  BY <1>1, ClaimJoins
<1>2. now \in Time /\ Requested \cup Issued \cup Residents \subseteq Names
  BY MailboxAssumption DEF TypeOK
<1>3. CASE JoinNamed(t) \/ JoinIssued(t) \/ InstallResident(t)
  BY <1>1, <1>2, <1>3 DEF JoinNamed, JoinAs, JoinIssued, TryIssued, InstallResident
<1>4. CASE JoinRetry(t)
  <2>1. tasks[t].created \in Time
    BY <1>4, TaskShapes DEF JoinRetry, TypeOK, JoinTask
  <2> QED BY <1>1, <1>2, <1>4, <2>1 DEF JoinRetry, TryIssued
<1>5. CASE PutProfile(t)
  BY <1>5, PutJoins
<1>6. CASE \/ UpdateProfile(t) \/ Send(t) \/ Reply(t) \/ Read(t) \/ View(t) \/ Peek(t)
           \/ Thread(t) \/ Expire(t) \/ SendContext(t) \/ SendDecide(t) \/ SendAttach(t)
           \/ ReadReader(t) \/ VisibleActor(t) \/ VisibleObject(t) \/ VisibleRefused(t)
  BY <1>6 DEF UpdateProfile, UpdateProfileAs, Send, SendAs, Reply, ReplyAs, Read, ReadAs,
         View, Peek, PeekAs, Thread, Expire, SendContext, SendDecide, SendAttach,
         ReadReader, VisibleActor, VisibleObject, VisibleRefused
<1>7. CASE \/ MarkRead(t) \/ ViewAnswer(t) \/ ReplySend(t) \/ ListContext(t)
           \/ PeekObjects(t) \/ PeekAnswer(t) \/ ThreadAnswer(t) \/ ExpireRemove(t)
  BY <1>7 DEF MarkRead, ViewAnswer, ReplySend, ListContext, PeekObjects, PeekAnswer,
         ThreadAnswer, ExpireRemove
<1> QED BY <1>3, <1>4, <1>5, <1>6, <1>7 DEF Call, Resume

\* A call starts without the actors, and a coroutine only ever holds them as they are.
LEMMA CallsSaw ==
  ASSUME TypeOK, NEW t \in Tasks, Unchecked(t) \/ Send(t)
  PROVE  \E k : Await(t, k) /\ ~(k.op = "send" /\ k.at = "context")
<1>1. CASE JoinNamed(t) \/ JoinIssued(t)
  BY <1>1 DEF JoinNamed, JoinAs, JoinIssued, TryIssued, Answer
<1>2. CASE UpdateProfile(t)
  BY <1>2 DEF UpdateProfile, UpdateProfileAs
<1>3. CASE Send(t)
  BY <1>3 DEF Send, SendAs, StartSend
<1>4. CASE Reply(t)
  BY <1>4 DEF Reply, ReplyAs, Fetch
<1>5. CASE Read(t)
  BY <1>5 DEF Read, ReadAs
<1>6. CASE View(t)
  BY <1>6 DEF View, Fetch
<1>7. CASE Peek(t)
  BY <1>7 DEF Peek, PeekAs
<1>8. CASE Thread(t)
  BY <1>8 DEF Thread
<1>9. CASE Expire(t)
  BY <1>9 DEF Expire, Answer
<1> QED BY <1>1, <1>2, <1>3, <1>4, <1>5, <1>6, <1>7, <1>8, <1>9 DEF Unchecked

LEMMA ResumesSaw ==
  ASSUME TypeOK, NEW t \in Tasks, Resume(t)
  PROVE  \E k : /\ Await(t, k)
                /\ (k.op = "send" /\ k.at = "context") => k.acts = actors
<1>1. CASE JoinRetry(t) \/ PutProfile(t)
  BY <1>1 DEF JoinRetry, TryIssued, PutProfile, Answer
<1>2. CASE SendContext(t)
  BY <1>2 DEF SendContext, Answer
<1>3. CASE SendDecide(t) \/ SendAttach(t)
  BY <1>3 DEF SendDecide, SendAttach, Store, Answer
<1>4. CASE ReadReader(t) \/ VisibleRefused(t) \/ MarkRead(t) \/ ViewAnswer(t)
  BY <1>4 DEF ReadReader, VisibleRefused, MarkRead, ViewAnswer, Fetch, Answer
<1>5. CASE VisibleActor(t) \/ VisibleObject(t)
  BY <1>5 DEF VisibleActor, VisibleObject, Fetching, Answer
<1>6. CASE ReplySend(t)
  BY <1>6 DEF ReplySend, StartSend
<1>7. CASE ListContext(t) \/ PeekObjects(t)
  BY <1>7 DEF ListContext, PeekObjects, Listing, Answer
<1>8. CASE PeekAnswer(t) \/ ThreadAnswer(t) \/ ExpireRemove(t)
  BY <1>8 DEF PeekAnswer, ThreadAnswer, ExpireRemove, Answer
<1> QED BY <1>1, <1>2, <1>3, <1>4, <1>5, <1>6, <1>7, <1>8 DEF Resume

LEMMA StandingKept == HouseSpec => []StandingInv
<1>1. HouseInit => StandingInv
  <2> SUFFICES ASSUME HouseInit PROVE StandingInv
    OBVIOUS
  <2>1. TypeOK
    BY MailboxAssumption DEF HouseInit, Init, TypeOK, Directory, ActorRow, Actor, Archive,
       ObjectRow, Time, Task, IdleTask
  <2> QED BY <2>1 DEF HouseInit, Init, StandingInv, InFlight, Saw
<1>2. StandingInv /\ [HouseNext]_allvars => StandingInv'
  <2> SUFFICES ASSUME StandingInv, [HouseNext]_allvars PROVE StandingInv'
    OBVIOUS
  <2>1. TypeOK /\ TypeOK'
    BY HouseTypes DEF StandingInv
  <2>2. CASE OpenStore \/ Serve \/ UNCHANGED allvars
    <3>1. UNCHANGED <<actors, tasks>>
      BY <2>2 DEF OpenStore, Serve, allvars, vars
    <3>2. /\ standing' \subseteq Joined(actors)
          /\ phase' = "serving" => phase = "serving" \/ standing = Residents
      BY <2>2 DEF OpenStore, Serve, allvars, house, StandingInv
    <3> QED BY <2>1, <3>1, <3>2 DEF StandingInv, InFlight, Saw, Joined
  <2>3. CASE Stop
    BY <2>1, <2>3 DEF Stop, StandingInv, InFlight, Saw, Joined
  <2>4. ASSUME NEW n \in Residents, StandUp(n) PROVE StandingInv'
    <3>1. Joined(actors') = Joined(actors) \cup {n}
      BY <2>1, <2>4, ClaimJoins, MailboxAssumption DEF StandUp, TypeOK
    <3>2. UNCHANGED <<tasks, phase>> /\ standing' = standing \cup {n}
      BY <2>4 DEF StandUp
    <3> QED BY <2>1, <3>1, <3>2 DEF StandingInv, InFlight, Saw, Joined
  <2>5. ASSUME NEW t \in Tasks, Begin(t) \/ RefuseSend(t) \/ RefuseReply(t) \/ Act(t)
        PROVE  StandingInv'
    <3>1. Residents \subseteq Joined(actors)
      <4>1. phase = "serving" \/ InFlight(t)
        <5>1. CASE Begin(t) \/ RefuseSend(t)
          BY <5>1 DEF Begin, RefuseSend, Ready
        <5>2. CASE RefuseReply(t)
          BY <5>2 DEF RefuseReply, InFlight
        <5>3. CASE Act(t)
          BY <2>1, <5>3, ResumedCalls DEF Act, InFlight, TypeOK
        <5> QED BY <2>5, <5>1, <5>2, <5>3
      <4> QED BY <4>1 DEF StandingInv
    <3>2. UNCHANGED standing
      BY <2>5 DEF Begin, RefuseSend, RefuseReply, Act, house
    <3>3. Joined(actors) \subseteq Joined(actors')
      <4>1. CASE Begin(t) \/ Act(t)
        BY <2>1, <4>1, NobodyLeaves DEF Begin, Act, Unchecked, Call
      <4>2. CASE RefuseSend(t) \/ RefuseReply(t)
        BY <4>2 DEF RefuseSend, RefuseReply
      <4> QED BY <2>5, <4>1, <4>2
    <3>4. PICK k : Await(t, k) /\ Saw(k)
      <4>1. CASE Begin(t)
        BY <2>1, <4>1, CallsSaw DEF Begin, Saw
      <4>2. CASE RefuseSend(t) \/ RefuseReply(t)
        BY <4>2 DEF RefuseSend, RefuseReply, Answer, Saw
      <4>3. CASE Act(t)
        BY <2>1, <3>1, <4>3, ResumesSaw DEF Act, Saw
      <4> QED BY <2>5, <4>1, <4>2, <4>3
    <3>5. \A s \in Tasks : Saw(tasks'[s])
      BY <2>1, <3>4 DEF Await, TypeOK, StandingInv
    <3> QED BY <2>1, <3>1, <3>2, <3>3, <3>5 DEF StandingInv, Joined, Saw
  <2>6. ASSUME NEW t \in Tasks, Record(t) PROVE StandingInv'
    BY <2>1, <2>6 DEF Record, vars, StandingInv, InFlight, Saw, Joined
  <2>7. CASE Tick /\ UNCHANGED house
    BY <2>1, <2>7 DEF Tick, house, StandingInv, InFlight, Saw, Joined
  <2> QED BY <2>2, <2>3, <2>4, <2>5, <2>6, <2>7 DEF HouseNext
<1> QED BY <1>1, <1>2, PTL DEF HouseSpec

(***************************************************************************)
(* MailToResidentsWaits: whenever requests are served, a send addressed    *)
(* only to residents is not refused as unknown, also after any number of   *)
(* stops half-way through establishing them.                               *)
(***************************************************************************)
THEOREM MailToResidentsWaits == HouseSpec => ResidentsReachable
<1> DEFINE Known == \A t \in Tasks : Answered(t, "send", "unknown_recipient") =>
                      ~(tasks[t].to \cup tasks[t].cc \subseteq Residents)
<1>1. StandingInv /\ StandingInv' /\ [HouseNext]_allvars => Known
  <2> SUFFICES ASSUME StandingInv, [HouseNext]_allvars, NEW t \in Tasks,
                      Answered(t, "send", "unknown_recipient"),
                      tasks[t].to \cup tasks[t].cc \subseteq Residents
               PROVE  FALSE
    OBVIOUS
  <2>1. /\ tasks[t].op = "send"
        /\ tasks'[t].op = "answered" /\ tasks'[t].code = "unknown_recipient"
    BY DEF Answered
  <2>2. TypeOK /\ DOMAIN tasks = Tasks
    BY DEF StandingInv, TypeOK
  <2>3. Resume(t)
    <3>1. ASSUME NEW s \in Tasks, Begin(s) PROVE FALSE
      <4>1. (\E k : Await(s, k)) /\ tasks[s].op \in {"none", "answered"}
        BY <2>2, <3>1, CallsSaw DEF Begin, Ready, Free
      <4> QED BY <2>1, <2>2, <4>1 DEF Await
    <3>2. ASSUME NEW s \in Tasks, RefuseSend(s) \/ RefuseReply(s) PROVE FALSE
      <4>1. Answer(s, "send", "policy_refusal", {})
        BY <3>2 DEF RefuseSend, RefuseReply
      <4> QED BY <2>1, <2>2, <4>1 DEF Answer, Await
    <3>3. ASSUME NEW s \in Tasks, Act(s) PROVE s = t
      BY <2>1, <2>2, <3>3, ResumedCalls DEF Act
    <3>4. ~(OpenStore \/ Serve \/ Stop \/ UNCHANGED allvars \/ Tick)
      BY <2>1 DEF OpenStore, Serve, Stop, Tick, allvars, vars
    <3>5. /\ \A n \in Residents : ~StandUp(n)
          /\ \A s \in Tasks : ~Record(s)
      BY <2>1 DEF StandUp, Record, vars
    <3> QED BY <3>1, <3>2, <3>3, <3>4, <3>5 DEF HouseNext, Act
  <2>4. SendDecide(t) /\ UnknownRecipients(tasks[t].to \cup tasks[t].cc, tasks[t].acts) # {}
    <3>1. SendContext(t) \/ SendDecide(t) \/ SendAttach(t)
      BY <2>1, <2>3 DEF Resume, JoinRetry, PutProfile, ReadReader, VisibleActor,
         VisibleObject, VisibleRefused, MarkRead, ViewAnswer, ReplySend, ListContext,
         PeekObjects, PeekAnswer, ThreadAnswer, ExpireRemove, Fetching, Listing
    <3>2. ~SendContext(t)
      BY <2>1, <2>2 DEF SendContext, Answer, Await
    <3>3. ASSUME NEW parent PROVE ~Store(t, tasks[t], parent)
      BY <2>1, <2>2 DEF Store, Answer, Await
    <3>4. ~SendAttach(t)
      BY <3>3 DEF SendAttach
    <3> QED BY <2>1, <2>2, <3>1, <3>2, <3>3, <3>4 DEF SendDecide, Await
  <2>5. Residents \subseteq Joined(tasks[t].acts)
    BY <2>4 DEF SendDecide, StandingInv, Saw
  <2> QED BY <2>4, <2>5 DEF UnknownRecipients
<1> QED BY <1>1, StandingKept, PTL DEF HouseSpec, ResidentsReachable
=============================================================================
