--------------------------- MODULE MailboxProofs ---------------------------
(***************************************************************************)
(* Theorems about the mailbox, for every set of tasks, names and messages. *)
(***************************************************************************)
EXTENDS MailboxProps, TLAPS

(***************************************************************************)
(* What the rules return                                                   *)
(***************************************************************************)

LEMMA MembersJoined ==
  ASSUME NEW acts, NEW g \in DOMAIN GroupMemberships(acts)
  PROVE  GroupMemberships(acts)[g] \subseteq Joined(acts)
BY DEF GroupMemberships

LEMMA ResolvedWithin ==
  ASSUME NEW names, NEW all, NEW members,
         \A g \in DOMAIN members : members[g] \subseteq all
  PROVE  ResolveAudience(names, all, members) \subseteq all
<1>1. \A n \in names : Expand(n, all, members) \subseteq all
  BY DEF Expand
<1>2. ASSUME NEW x \in ResolveAudience(names, all, members)
      PROVE  \E n \in names : x \in Expand(n, all, members)
  BY <1>2, Zenon DEF ResolveAudience
<1>. QED BY <1>1, <1>2

\* An audience only ever resolves to actors that have joined.
LEMMA ReachedJoined ==
  ASSUME NEW names, NEW acts
  PROVE  Reached(names, acts) \subseteq Joined(acts)
BY MembersJoined, ResolvedWithin DEF Reached

LEMMA JoinedNames ==
  ASSUME NEW acts \in Directory
  PROVE  Joined(acts) \subseteq Names
BY DEF Joined, Directory

LEMMA NewObjectType ==
  ASSUME NEW caller \in Names, NEW to, NEW cc, NEW parent \in Ids \cup {NoParent},
         NEW acts \in Directory, now \in Time
  PROVE  NewObject(caller, to, cc, parent, acts) \in Object
<1>1. Reached(to, acts) \subseteq Names /\ Reached(cc, acts) \subseteq Names
  BY ReachedJoined, JoinedNames
<1>. QED BY <1>1 DEF NewObject, Object

(***************************************************************************)
(* Types: the shape of the locals at each await                            *)
(***************************************************************************)

LEMMA TaskShapes ==
  ASSUME NEW k \in Task
  PROVE  /\ k.op = "join" => k \in JoinTask
         /\ k.op = "update_profile" => k \in ProfileTask
         /\ k.op = "expire" => k \in ExpireTask
         /\ k.op = "send" /\ k.at = "actor" => k \in SendAtActor
         /\ k.op = "send" /\ k.at = "context" => k \in SendAtContext
         /\ k.op = "send" /\ k.at = "thread" => k \in SendAtThread
         /\ k.op \in Fetching /\ k.at = "reader" => k \in FetchAtReader
         /\ k.op \in Fetching /\ k.at = "actor" => k \in FetchAtActor
         /\ k.op \in Fetching /\ k.at = "object" => k \in FetchAtObject
         /\ k.op \in Fetching /\ k.at = "context" => k \in FetchAtContext
         /\ k.op \in Listing /\ k.at = "actor" => k \in ListAtActor
         /\ k.op \in Listing /\ k.at = "context" => k \in ListAtContext
         /\ k.op \in Listing /\ k.at = "objects" => k \in ListAtObjects
BY DEF Task, IdleTask, AnsweredTask, JoinTask, ProfileTask, SendAtActor, SendAtContext,
       SendAtThread, FetchAtReader, FetchAtActor, FetchAtObject, FetchAtContext,
       ListAtActor, ListAtContext, ListAtObjects, ExpireTask, Fetching, Listing

LEMMA AwaitType ==
  ASSUME TypeOK, NEW t \in Tasks, NEW k \in Task, Await(t, k)
  PROVE  tasks' \in [Tasks -> Task]
BY DEF TypeOK, Await

LEMMA AnswerType ==
  ASSUME TypeOK, NEW t \in Tasks, NEW call \in Operations, NEW code \in Codes,
         NEW ids \in SUBSET Ids, Answer(t, call, code, ids)
  PROVE  tasks' \in [Tasks -> Task]
<1>1. [op |-> "answered", call |-> call, code |-> code, ids |-> ids] \in Task
  BY DEF Task, AnsweredTask
<1>. QED BY <1>1, AwaitType DEF Answer

LEMMA ClaimNameType ==
  ASSUME TypeOK, NEW n \in Names, NEW created \in Time, ClaimName(n, {}, created)
  PROVE  actors' \in Directory
BY DEF TypeOK, ClaimName, Directory, ActorRow, Actor

LEMMA JoinTypes ==
  ASSUME TypeOK, NEW t \in Tasks,
         JoinNamed(t) \/ JoinIssued(t) \/ JoinRetry(t) \/ InstallResident(t)
  PROVE  TypeOK'
<1>1. CASE JoinNamed(t)
  <2>1. PICK n \in Requested :
          IF n \in Reserved
          THEN Answer(t, "join", "name_unavailable", {}) /\ UNCHANGED actors
          ELSE /\ ClaimName(n, {}, now)
               /\ Answer(t, "join", IF actors[n] # NoActor THEN "name_unavailable"
                                    ELSE "ok", {})
    BY <1>1 DEF JoinNamed, JoinAs
  <2>2. tasks' \in [Tasks -> Task]
    BY <2>1, AnswerType DEF Operations, Codes
  <2>3. actors' \in Directory
    BY <2>1, ClaimNameType, MailboxAssumption DEF TypeOK
  <2>. QED BY <1>1, <2>2, <2>3 DEF JoinNamed, JoinAs, TypeOK
<1>2. ASSUME NEW created \in Time, NEW tries \in 1 .. NameAttempts,
             TryIssued(t, created, tries)
      PROVE  actors' \in Directory /\ tasks' \in [Tasks -> Task]
  <2>1. PICK n \in Issued :
          /\ ClaimName(n, {}, created)
          /\ IF actors[n] = NoActor THEN Answer(t, "join", "ok", {})
             ELSE IF tries = 1 THEN Answer(t, "join", "name_unavailable", {})
             ELSE Await(t, [op |-> "join", created |-> created, tries |-> tries - 1])
    BY <1>2 DEF TryIssued
  <2>2. tries # 1 => [op |-> "join", created |-> created, tries |-> tries - 1] \in Task
    BY MailboxAssumption DEF Task, JoinTask
  <2>3. actors' \in Directory
    BY <2>1, ClaimNameType, MailboxAssumption
  <2>4. tasks' \in [Tasks -> Task]
    BY <2>1, <2>2, AnswerType, AwaitType DEF Operations, Codes
  <2>. QED BY <2>3, <2>4
<1>3. CASE JoinIssued(t)
  BY <1>2, <1>3, MailboxAssumption DEF JoinIssued, TypeOK
<1>4. CASE JoinRetry(t)
  <2>1. tasks[t] \in JoinTask
    BY <1>4, TaskShapes DEF JoinRetry, TypeOK
  <2>. QED BY <1>2, <1>4, <2>1 DEF JoinRetry, JoinTask, TypeOK
<1>5. CASE InstallResident(t)
  <2>1. actors' \in Directory
    BY <1>5, ClaimNameType, MailboxAssumption DEF InstallResident, TypeOK
  <2>2. tasks' \in [Tasks -> Task]
    BY <1>5, AnswerType DEF InstallResident, Operations, Codes
  <2>. QED BY <1>5, <2>1, <2>2 DEF InstallResident, TypeOK
<1>. QED BY <1>1, <1>3, <1>4, <1>5

LEMMA ProfileTypes ==
  ASSUME TypeOK, NEW t \in Tasks, UpdateProfile(t) \/ PutProfile(t)
  PROVE  TypeOK'
<1>1. CASE UpdateProfile(t)
  <2>1. PICK caller \in Names, profile \in Profiles :
          Await(t, [op |-> "update_profile", caller |-> caller, profile |-> profile,
                    found |-> actors[caller]])
    BY <1>1 DEF UpdateProfile, UpdateProfileAs
  <2>2. [op |-> "update_profile", caller |-> caller, profile |-> profile,
         found |-> actors[caller]] \in Task
    BY MailboxAssumption DEF Task, ProfileTask, TypeOK, Directory
  <2>. QED BY <1>1, <2>1, <2>2, AwaitType DEF UpdateProfile, UpdateProfileAs, TypeOK
<1>2. CASE PutProfile(t)
  <2>1. tasks[t] \in ProfileTask
    BY <1>2, TaskShapes DEF PutProfile, TypeOK
  <2>2. actors' \in Directory
    BY <1>2, <2>1 DEF PutProfile, PutActor, TypeOK, Directory, ActorRow, Actor, ProfileTask
  <2>3. tasks' \in [Tasks -> Task]
    BY <1>2, AnswerType DEF PutProfile, Operations, Codes
  <2>. QED BY <1>2, <2>2, <2>3 DEF PutProfile, TypeOK
<1>. QED BY <1>1, <1>2

LEMMA SendTypes ==
  ASSUME TypeOK, NEW t \in Tasks,
         Send(t) \/ SendContext(t) \/ SendDecide(t) \/ SendAttach(t)
  PROVE  TypeOK'
<1>1. CASE Send(t)
  <2>1. PICK caller \in Names, to \in Audiences, cc \in Copies, parent \in Parents :
          StartSend(t, caller, to, cc, parent)
    BY <1>1 DEF Send, SendAs
  <2>2. [op |-> "send", at |-> "actor", caller |-> caller, to |-> to, cc |-> cc,
         parent |-> parent, found |-> actors[caller]] \in Task
    BY MailboxAssumption DEF Task, SendAtActor, TypeOK, Directory, Addresses
  <2>. QED BY <1>1, <2>1, <2>2, AwaitType DEF Send, SendAs, StartSend, TypeOK
<1>2. CASE SendContext(t)
  <2>1. tasks[t] \in SendAtActor
    BY <1>2, TaskShapes DEF SendContext, TypeOK
  <2>2. [op |-> "send", at |-> "context", caller |-> tasks[t].caller, to |-> tasks[t].to,
         cc |-> tasks[t].cc, parent |-> tasks[t].parent, acts |-> actors] \in Task
    BY <2>1 DEF Task, SendAtActor, SendAtContext, TypeOK
  <2>3. tasks' \in [Tasks -> Task]
    BY <1>2, <2>2, AnswerType, AwaitType DEF SendContext, Operations, Codes
  <2>. QED BY <1>2, <2>3 DEF SendContext, TypeOK
<1>3. ASSUME NEW task \in SendAtContext \cup SendAtThread,
             NEW parent \in Ids \cup {NoParent}, Store(t, task, parent)
      PROVE  tasks' \in [Tasks -> Task] /\ objects' \in Archive /\ unused' \subseteq Ids
  <2>1. PICK i \in unused :
          /\ AddObject(i, NewObject(task.caller, task.to, task.cc, parent, task.acts))
          /\ unused' = unused \ {i}
    BY <1>3 DEF Store
  <2>2. task.caller \in Names /\ task.acts \in Directory
    BY DEF SendAtContext, SendAtThread
  <2>3. NewObject(task.caller, task.to, task.cc, parent, task.acts) \in Object
    BY <2>2, NewObjectType DEF TypeOK
  <2>4. objects' \in Archive
    BY <2>1, <2>3 DEF AddObject, TypeOK, Archive, ObjectRow
  <2>5. tasks' \in [Tasks -> Task]
    BY <1>3, AnswerType DEF Store, Operations, Codes
  <2>. QED BY <2>1, <2>4, <2>5 DEF TypeOK
<1>4. CASE SendDecide(t)
  <2>1. tasks[t] \in SendAtContext
    BY <1>4, TaskShapes DEF SendDecide, TypeOK
  <2>2. CASE UnknownRecipients(tasks[t].to \cup tasks[t].cc, tasks[t].acts) # {}
    <3>1. Answer(t, "send", "unknown_recipient", {}) /\ UNCHANGED <<objects, unused>>
      BY <1>4, <2>2 DEF SendDecide
    <3>2. tasks' \in [Tasks -> Task]
      BY <3>1, AnswerType DEF Operations, Codes
    <3>. QED BY <1>4, <3>1, <3>2 DEF SendDecide, TypeOK
  <2>3. CASE Store(t, tasks[t], NoParent)
    BY <1>3, <1>4, <2>1, <2>3 DEF SendDecide, TypeOK
  <2>4. CASE /\ tasks[t].parent # NoParent
             /\ Await(t, [op |-> "send", at |-> "thread", caller |-> tasks[t].caller,
                          to |-> tasks[t].to, cc |-> tasks[t].cc,
                          parent |-> tasks[t].parent, acts |-> tasks[t].acts,
                          objs |-> objects])
             /\ UNCHANGED <<objects, unused>>
    <3>1. [op |-> "send", at |-> "thread", caller |-> tasks[t].caller,
           to |-> tasks[t].to, cc |-> tasks[t].cc, parent |-> tasks[t].parent,
           acts |-> tasks[t].acts, objs |-> objects] \in Task
      BY <2>1, <2>4 DEF Task, SendAtContext, SendAtThread, TypeOK
    <3>2. tasks' \in [Tasks -> Task]
      BY <2>4, <3>1, AwaitType
    <3>. QED BY <1>4, <2>4, <3>2 DEF SendDecide, TypeOK
  <2>. QED BY <1>4, <2>2, <2>3, <2>4 DEF SendDecide
<1>5. CASE SendAttach(t)
  <2>1. tasks[t] \in SendAtThread
    BY <1>5, TaskShapes DEF SendAttach, TypeOK
  <2>2. PICK parent \in Ids \cup {NoParent} : Store(t, tasks[t], parent)
    BY <1>5, <2>1 DEF SendAttach, SendAtThread
  <2>. QED BY <1>3, <1>5, <2>1, <2>2 DEF SendAttach, TypeOK
<1>. QED BY <1>1, <1>2, <1>4, <1>5

LEMMA FetchTypes ==
  ASSUME TypeOK, NEW t \in Tasks,
         \/ Read(t) \/ View(t) \/ Reply(t) \/ ReadReader(t)
         \/ VisibleActor(t) \/ VisibleObject(t)
  PROVE  TypeOK'
<1>1. ASSUME NEW op \in Fetching, NEW caller \in Names, NEW id \in Ids
      PROVE  Fetch(op, caller, id) \in Task
  BY DEF Fetch, Task, FetchAtActor, TypeOK, Directory
<1>2. CASE Read(t)
  <2>1. PICK caller \in Names, id \in Ids :
          Await(t, [op |-> "read", at |-> "reader", caller |-> caller, id |-> id,
                    found |-> actors[caller]])
    BY <1>2 DEF Read, ReadAs
  <2>2. [op |-> "read", at |-> "reader", caller |-> caller, id |-> id,
         found |-> actors[caller]] \in Task
    BY DEF Task, FetchAtReader, TypeOK, Directory
  <2>. QED BY <1>2, <2>1, <2>2, AwaitType DEF Read, ReadAs, TypeOK
<1>3. CASE View(t) \/ Reply(t)
  <2>1. PICK op \in Fetching, caller \in Names, id \in Ids :
          Await(t, Fetch(op, caller, id))
    BY <1>3 DEF View, Reply, ReplyAs, Fetching
  <2>. QED BY <1>1, <1>3, <2>1, AwaitType DEF View, Reply, ReplyAs, TypeOK
<1>4. CASE ReadReader(t)
  <2>1. tasks[t] \in FetchAtReader
    BY <1>4, TaskShapes DEF ReadReader, TypeOK, Fetching
  <2>2. Fetch("read", tasks[t].caller, tasks[t].id) \in Task
    BY <1>1, <2>1 DEF FetchAtReader, Fetching
  <2>3. tasks' \in [Tasks -> Task]
    BY <1>4, <2>2, AwaitType, AnswerType DEF ReadReader, Operations, Codes
  <2>. QED BY <1>4, <2>3 DEF ReadReader, TypeOK
<1>5. CASE VisibleActor(t)
  <2>1. tasks[t] \in FetchAtActor /\ tasks[t].op \in Operations
    BY <1>5, TaskShapes DEF VisibleActor, TypeOK, Fetching, Operations
  <2>2. [op |-> tasks[t].op, at |-> "object", caller |-> tasks[t].caller,
         id |-> tasks[t].id, got |-> objects[tasks[t].id]] \in Task
    BY <2>1 DEF Task, FetchAtActor, FetchAtObject, TypeOK, Archive
  <2>3. tasks' \in [Tasks -> Task]
    BY <1>5, <2>1, <2>2, AwaitType, AnswerType DEF VisibleActor, Codes
  <2>. QED BY <1>5, <2>3 DEF VisibleActor, TypeOK
<1>6. CASE VisibleObject(t)
  <2>1. tasks[t] \in FetchAtObject /\ tasks[t].op \in Operations
    BY <1>6, TaskShapes DEF VisibleObject, TypeOK, Fetching, Operations
  <2>2. [op |-> tasks[t].op, at |-> "context", caller |-> tasks[t].caller,
         id |-> tasks[t].id, got |-> tasks[t].got, acts |-> actors] \in Task
        \/ tasks[t].got = NoObject
    BY <2>1 DEF Task, FetchAtObject, FetchAtContext, TypeOK, ObjectRow
  <2>3. tasks' \in [Tasks -> Task]
    BY <1>6, <2>1, <2>2, AwaitType, AnswerType DEF VisibleObject, Codes
  <2>. QED BY <1>6, <2>3 DEF VisibleObject, TypeOK
<1>. QED BY <1>2, <1>3, <1>4, <1>5, <1>6

LEMMA FetchedTypes ==
  ASSUME TypeOK, NEW t \in Tasks,
         VisibleRefused(t) \/ MarkRead(t) \/ ViewAnswer(t) \/ ReplySend(t)
  PROVE  TypeOK'
<1>1. tasks[t] \in FetchAtContext /\ tasks[t].op \in Operations
  BY TaskShapes DEF VisibleRefused, MarkRead, ViewAnswer, ReplySend, TypeOK, Fetching,
                    Operations
<1>2. tasks[t].caller \in Names /\ tasks[t].id \in Ids
  BY <1>1 DEF FetchAtContext
<1>3. CASE VisibleRefused(t)
  BY <1>1, <1>3, AnswerType DEF VisibleRefused, Codes, TypeOK
<1>4. CASE MarkRead(t)
  <2>1. tasks' \in [Tasks -> Task]
    BY <1>2, <1>4, AnswerType DEF MarkRead, Operations, Codes
  <2>. QED BY <1>2, <1>4, <2>1 DEF MarkRead, TypeOK
<1>5. CASE ViewAnswer(t)
  <2>1. tasks' \in [Tasks -> Task]
    BY <1>2, <1>5, AnswerType DEF ViewAnswer, Operations, Codes
  <2>. QED BY <1>5, <2>1 DEF ViewAnswer, TypeOK
<1>6. CASE ReplySend(t)
  <2>1. tasks[t].got \in Object
    BY <1>1 DEF FetchAtContext
  <2>2. [op |-> "send", at |-> "actor", caller |-> tasks[t].caller,
         to |-> {tasks[t].got.from}, cc |-> {}, parent |-> tasks[t].id,
         found |-> actors[tasks[t].caller]] \in Task
    BY <1>2, <2>1 DEF Task, SendAtActor, TypeOK, Directory, Addresses, Object
  <2>. QED BY <1>6, <2>2, AwaitType DEF ReplySend, StartSend, TypeOK
<1>. QED BY <1>3, <1>4, <1>5, <1>6

LEMMA ListTypes ==
  ASSUME TypeOK, NEW t \in Tasks,
         \/ Peek(t) \/ Thread(t) \/ ListContext(t)
         \/ PeekObjects(t) \/ PeekAnswer(t) \/ ThreadAnswer(t)
  PROVE  TypeOK'
<1>1. CASE Peek(t)
  <2>1. PICK caller \in Names :
          Await(t, [op |-> "peek", at |-> "actor", caller |-> caller, id |-> NoParent,
                    found |-> actors[caller], waiting |-> WaitingFor(caller)])
    BY <1>1 DEF Peek, PeekAs
  <2>2. WaitingFor(caller) \subseteq Ids
    BY DEF WaitingFor, Stored, TypeOK, Archive
  <2>3. [op |-> "peek", at |-> "actor", caller |-> caller, id |-> NoParent,
         found |-> actors[caller], waiting |-> WaitingFor(caller)] \in Task
    BY <2>2 DEF Task, ListAtActor, TypeOK, Directory, Listing
  <2>. QED BY <1>1, <2>1, <2>3, AwaitType DEF Peek, PeekAs, TypeOK
<1>2. CASE Thread(t)
  <2>1. PICK caller \in Names, root \in Ids :
          Await(t, [op |-> "thread", at |-> "actor", caller |-> caller, id |-> root,
                    found |-> actors[caller], waiting |-> {}])
    BY <1>2 DEF Thread
  <2>2. [op |-> "thread", at |-> "actor", caller |-> caller, id |-> root,
         found |-> actors[caller], waiting |-> {}] \in Task
    BY DEF Task, ListAtActor, TypeOK, Directory, Listing
  <2>. QED BY <1>2, <2>1, <2>2, AwaitType DEF Thread, TypeOK
<1>3. CASE ListContext(t)
  <2>1. tasks[t] \in ListAtActor /\ tasks[t].op \in Operations
    BY <1>3, TaskShapes DEF ListContext, TypeOK, Listing, Operations
  <2>2. [op |-> tasks[t].op, at |-> "context", caller |-> tasks[t].caller,
         id |-> tasks[t].id, acts |-> actors, waiting |-> tasks[t].waiting] \in Task
    BY <2>1 DEF Task, ListAtActor, ListAtContext, TypeOK
  <2>3. tasks' \in [Tasks -> Task]
    BY <1>3, <2>1, <2>2, AwaitType, AnswerType DEF ListContext, Codes
  <2>. QED BY <1>3, <2>3 DEF ListContext, TypeOK
<1>4. CASE PeekObjects(t)
  <2>1. tasks[t] \in ListAtContext
    BY <1>4, TaskShapes DEF PeekObjects, TypeOK, Listing
  <2>2. [op |-> "peek", at |-> "objects", caller |-> tasks[t].caller, id |-> tasks[t].id,
         acts |-> tasks[t].acts, objs |-> objects, waiting |-> tasks[t].waiting] \in Task
    BY <2>1 DEF Task, ListAtContext, ListAtObjects, TypeOK
  <2>. QED BY <1>4, <2>2, AwaitType DEF PeekObjects, TypeOK
<1>5. CASE PeekAnswer(t)
  <2>1. tasks[t] \in ListAtObjects
    BY <1>5, TaskShapes DEF PeekAnswer, TypeOK, Listing
  <2>2. Unread(tasks[t].objs, tasks[t].caller, ReadBy(tasks[t].caller, tasks[t].objs),
               Joined(tasks[t].acts), GroupMemberships(tasks[t].acts)) \subseteq Ids
    BY <2>1 DEF Unread, Stored, ListAtObjects, Archive
  <2>3. tasks' \in [Tasks -> Task]
    BY <1>5, <2>2, AnswerType DEF PeekAnswer, Operations, Codes
  <2>. QED BY <1>5, <2>3 DEF PeekAnswer, TypeOK
<1>6. CASE ThreadAnswer(t)
  <2>1. VisibleTurns(objects, tasks[t].id, tasks[t].caller, Joined(tasks[t].acts),
                     GroupMemberships(tasks[t].acts)) \subseteq Ids
    BY DEF VisibleTurns, ThreadMembers, Stored, TypeOK, Archive
  <2>2. tasks' \in [Tasks -> Task]
    BY <1>6, <2>1, AnswerType DEF ThreadAnswer, Operations, Codes
  <2>. QED BY <1>6, <2>2 DEF ThreadAnswer, TypeOK
<1>. QED BY <1>1, <1>2, <1>3, <1>4, <1>5, <1>6

LEMMA ExpireTypes ==
  ASSUME TypeOK, NEW t \in Tasks, Expire(t) \/ ExpireRemove(t)
  PROVE  TypeOK'
<1>1. CASE Expire(t)
  <2>1. [op |-> "expire", cutoff |-> now - RetentionDays, objs |-> objects] \in Task
    BY MailboxAssumption DEF Task, ExpireTask, TypeOK, Time
  <2>2. tasks' \in [Tasks -> Task]
    BY <1>1, <2>1, AwaitType, AnswerType DEF Expire, Operations, Codes
  <2>. QED BY <1>1, <2>2 DEF Expire, TypeOK
<1>2. CASE ExpireRemove(t)
  <2>1. tasks[t] \in ExpireTask
    BY <1>2, TaskShapes DEF ExpireRemove, TypeOK
  <2>2. Doomed(tasks[t]) \subseteq Ids
    BY <2>1 DEF Doomed, ExpiredObjectIds, Stored, ExpireTask, Archive
  <2>3. tasks' \in [Tasks -> Task]
    BY <1>2, <2>2, AnswerType DEF ExpireRemove, Operations, Codes
  <2>4. objects' \in Archive /\ reads' \subseteq Ids \X Names
    BY <1>2 DEF ExpireRemove, RemoveObjects, TypeOK, Archive, ObjectRow
  <2>. QED BY <1>2, <2>3, <2>4 DEF ExpireRemove, TypeOK
<1>. QED BY <1>1, <1>2

LEMMA TypesStay ==
  ASSUME TypeOK, [Next]_vars
  PROVE  TypeOK'
<1>1. CASE Tick
  BY <1>1, MailboxAssumption DEF Tick, TypeOK, Time
<1>2. ASSUME NEW t \in Tasks, Call(t) PROVE TypeOK'
  BY <1>2, JoinTypes, ProfileTypes, SendTypes, FetchTypes, ListTypes, ExpireTypes
  DEF Call
<1>3. ASSUME NEW t \in Tasks, Resume(t) PROVE TypeOK'
  BY <1>3, JoinTypes, ProfileTypes, SendTypes, FetchTypes, FetchedTypes,
     ListTypes, ExpireTypes
  DEF Resume
<1>4. CASE UNCHANGED vars
  BY <1>4 DEF vars, TypeOK
<1>. QED BY <1>1, <1>2, <1>3, <1>4 DEF Next

(***************************************************************************)
(* TypesHold: TypeOK is an invariant of every instance: no interleaving    *)
(* leaves a coroutine with locals its next segment does not expect, and    *)
(* no row names an actor that is not one of the mailbox's names.           *)
(***************************************************************************)
THEOREM TypesHold == Spec => []TypeOK
<1>1. Init => TypeOK
  BY MailboxAssumption DEF Init, TypeOK, Directory, ActorRow, Actor, Archive, ObjectRow,
                           Time, Task, IdleTask
<1>. QED BY <1>1, TypesStay, PTL DEF Spec

(***************************************************************************)
(* Who mail belongs to, where no profile lists the name of an agent as a   *)
(* group.                                                                  *)
(*                                                                         *)
(* The invariant says what a coroutine may rely on after an await: a       *)
(* snapshot of the actors is an earlier state of a table that only grows,  *)
(* and a message it holds is the one stored under that id or has been      *)
(* removed, because no id is drawn twice.                                  *)
(***************************************************************************)

Agents == Requested \cup Issued \cup Residents \cup Enrolled
Groups == UNION Profiles

\* A table of agents whose profiles list groups only.
Plain(acts) ==
  \A n \in Joined(acts) : /\ n \in Agents
                          /\ acts[n].type = "Service"
                          /\ acts[n].groups \subseteq Groups

Past(acts) == Plain(acts) /\ Joined(acts) \subseteq Joined(actors)

\* Addressed to actors that have joined, the sender not among them.
Routed(obj) == /\ obj.to \cup obj.cc \subseteq Joined(actors)
               /\ obj.from \notin obj.to \cup obj.cc

\* A message fetched earlier.
Held(id, got) == Routed(got) /\ id \notin unused /\ objects[id] \in {got, NoObject}

TaskSafe(k) ==
  /\ k.op = "update_profile" =>
       /\ k.profile \in Profiles
       /\ k.found # NoActor => k.caller \in Agents /\ k.found.type = "Service"
  /\ (k.op = "send" /\ k.at \in {"context", "thread"}) => Past(k.acts)
  /\ (k.op \in Fetching /\ k.at = "object" /\ k.got # NoObject) => Held(k.id, k.got)
  /\ (k.op \in Fetching /\ k.at = "context") => Held(k.id, k.got) /\ Past(k.acts)

AllPlain == Plain(actors)
AllRouted == \A i \in Stored(objects) : Routed(objects[i]) /\ i \notin unused
NoReadsAhead == \A r \in reads : r[1] \notin unused
AllSafe == \A t \in Tasks : TaskSafe(tasks[t])

SafeInv == AllPlain /\ AllRouted /\ NoReadsAhead /\ ReadsByParties /\ AllSafe

(***************************************************************************)
(* What the rules return when names and groups are apart                   *)
(***************************************************************************)

LEMMA GroupNamesKnown ==
  ASSUME NEW acts, Plain(acts)
  PROVE  DOMAIN GroupMemberships(acts) \subseteq Groups
<1>1. DOMAIN GroupMemberships(acts)
        = {n \in Joined(acts) : acts[n].type = "Group"}
            \cup UNION {acts[n].groups : n \in Joined(acts)}
  BY DEF GroupMemberships
<1>2. \A n \in Joined(acts) : acts[n].type # "Group"
  BY DEF Plain
<1>3. UNION {acts[n].groups : n \in Joined(acts)} \subseteq Groups
  BY Zenon DEF Plain
<1>. QED BY <1>1, <1>2, <1>3

LEMMA ExpandAgent ==
  ASSUME NamesAndGroupsApart, NEW acts, Plain(acts), NEW n \in Agents
  PROVE  Expand(n, Joined(acts), GroupMemberships(acts)) = {n} \cap Joined(acts)
<1>1. n # Everyone
  BY MailboxAssumption DEF Agents
<1>2. n \notin Groups
  BY DEF NamesAndGroupsApart, Agents, Groups
<1>. QED BY <1>1, <1>2, GroupNamesKnown DEF Expand

\* A set of agents' names resolves to those of them who have joined.
LEMMA ResolveAgents ==
  ASSUME NamesAndGroupsApart, NEW acts, Plain(acts), NEW names \in SUBSET Agents
  PROVE  Reached(names, acts) = names \cap Joined(acts)
<1>. DEFINE To(n) == Expand(n, Joined(acts), GroupMemberships(acts))
<1>1. \A n \in names : To(n) = {n} \cap Joined(acts)
  BY ExpandAgent
<1>. HIDE DEF To
<1>2. UNION {To(n) : n \in names} = names \cap Joined(acts)
  <2>1. ASSUME NEW x \in UNION {To(n) : n \in names} PROVE x \in names \cap Joined(acts)
    <3>1. PICK n \in names : x \in To(n)
      BY <2>1, Zenon
    <3>. QED BY <1>1, <3>1
  <2>2. ASSUME NEW x \in names \cap Joined(acts) PROVE x \in UNION {To(n) : n \in names}
    <3>1. x \in names /\ x \in To(x)
      BY <1>1, <2>2
    <3>. QED BY <3>1, Zenon
  <2>. QED BY <2>1, <2>2
<1>. QED BY <1>2 DEF Reached, ResolveAudience, To

LEMMA RoutedToAgents ==
  ASSUME AllPlain, NEW obj, Routed(obj)
  PROVE  obj.to \cup obj.cc \in SUBSET Agents
BY DEF AllPlain, Plain, Routed

\* Resolved again through any earlier table, a stored message reaches nobody new.
LEMMA RecipientsStored ==
  ASSUME NamesAndGroupsApart, AllPlain, NEW obj, Routed(obj), NEW acts, Plain(acts)
  PROVE  RecipientsOf(obj, Joined(acts), GroupMemberships(acts))
           = (obj.to \cup obj.cc) \cap Joined(acts)
BY RoutedToAgents, ResolveAgents DEF RecipientsOf, Reached, Routed

LEMMA PartyStored ==
  ASSUME NamesAndGroupsApart, AllPlain, NEW obj, Routed(obj), NEW acts, Plain(acts),
         NEW n, Party(obj, n, acts)
  PROVE  n \in PartiesOf(obj)
BY RecipientsStored DEF Party, IsPartyTo, DeliversTo, PartiesOf

(***************************************************************************)
(* What a suspended coroutine may rely on                                  *)
(***************************************************************************)

\* No step takes an actor away, or puts another message under a used id.
Onward ==
  /\ Joined(actors) \subseteq Joined(actors')
  /\ unused' \subseteq unused
  /\ \A i \in Ids \ unused : objects'[i] \in {objects[i], NoObject}

LEMMA PastStays ==
  ASSUME Onward, NEW acts, Past(acts)
  PROVE  Past(acts)'
BY DEF Onward, Past, Plain

LEMMA HeldStays ==
  ASSUME Onward, NEW id \in Ids, NEW got, Held(id, got)
  PROVE  Held(id, got)'
BY DEF Onward, Held, Routed

LEMMA StillSafe ==
  ASSUME Onward, NEW k \in Task, TaskSafe(k)
  PROVE  TaskSafe(k)'
<1>1. k.op \in Fetching /\ k.at \in {"object", "context"} => k.id \in Ids
  BY TaskShapes DEF FetchAtObject, FetchAtContext
<1>. QED BY <1>1, PastStays, HeldStays DEF TaskSafe, Fetching

LEMMA AwaitSafe ==
  ASSUME TypeOK, AllSafe, Onward, NEW t \in Tasks, NEW k, Await(t, k), TaskSafe(k)'
  PROVE  AllSafe'
<1>1. tasks'[t] = k /\ \A u \in Tasks \ {t} : tasks'[u] = tasks[u]
  BY DEF Await, TypeOK
<1>2. ASSUME NEW u \in Tasks \ {t} PROVE TaskSafe(tasks[u])'
  <2>1. PICK c \in Task : c = tasks[u]
    BY DEF TypeOK
  <2>2. TaskSafe(c)'
    BY <2>1, StillSafe DEF AllSafe
  <2>. QED BY <1>1, <2>1, <2>2
<1>. QED BY <1>1, <1>2 DEF AllSafe

LEMMA AnswerSafe ==
  ASSUME TypeOK, AllSafe, Onward, NEW t \in Tasks, NEW call, NEW code, NEW ids,
         Answer(t, call, code, ids)
  PROVE  AllSafe'
<1>1. PICK k : Await(t, k) /\ k.op = "answered"
  BY DEF Answer
<1>2. TaskSafe(k)'
  BY <1>1 DEF TaskSafe, Fetching
<1>. QED BY <1>1, <1>2, AwaitSafe

\* Steps that leave the tables alone.
Quiet == UNCHANGED <<actors, objects, reads, unused>>

LEMMA QuietSteps ==
  ASSUME TypeOK, SafeInv, Quiet
  PROVE  /\ AllSafe' => SafeInv'
         /\ Onward
BY DEF SafeInv, Quiet, Onward, AllPlain, AllRouted, NoReadsAhead, ReadsByParties, Plain,
       Routed, PartiesOf, Stored, Joined

\* A coroutine that starts, or is at an await where it holds nothing yet.
Fresh(k) ==
  \/ k.op \in {"join", "expire"} \cup Listing
  \/ k.op \in {"send"} \cup Fetching /\ k.at \in {"actor", "reader"}

LEMMA FreshSafe ==
  ASSUME NEW k, Fresh(k)
  PROVE  TaskSafe(k)'
BY DEF Fresh, TaskSafe, Fetching, Listing

LEMMA CallSafe ==
  ASSUME TypeOK, SafeInv, NEW t \in Tasks,
         \/ Send(t) \/ Read(t) \/ View(t) \/ Reply(t)
         \/ Peek(t) \/ Thread(t) \/ Expire(t)
  PROVE  SafeInv'
<1>1. Quiet
  BY DEF Send, SendAs, Read, ReadAs, View, Reply, ReplyAs, Peek, PeekAs, Thread, Expire,
         Quiet
<1>2. CASE Expire(t) /\ RetentionDays = 0
  BY <1>1, <1>2, AnswerSafe, QuietSteps DEF Expire, SafeInv
<1>3. CASE ~(Expire(t) /\ RetentionDays = 0)
  <2>1. PICK k : Await(t, k) /\ Fresh(k)
    <3>1. CASE Send(t)
      BY <3>1 DEF Send, SendAs, StartSend, Fresh
    <3>2. CASE Read(t)
      BY <3>2 DEF Read, ReadAs, Fresh, Fetching
    <3>3. CASE View(t)
      BY <3>3 DEF View, Fetch, Fresh, Fetching
    <3>4. CASE Reply(t)
      BY <3>4 DEF Reply, ReplyAs, Fetch, Fresh, Fetching
    <3>5. CASE Peek(t)
      BY <3>5 DEF Peek, PeekAs, Fresh, Listing
    <3>6. CASE Thread(t)
      BY <3>6 DEF Thread, Fresh, Listing
    <3>7. CASE Expire(t)
      BY <1>3, <3>7 DEF Expire, Fresh
    <3>. QED BY <3>1, <3>2, <3>3, <3>4, <3>5, <3>6, <3>7
  <2>2. TaskSafe(k)'
    BY <2>1, FreshSafe
  <2>. QED BY <1>1, <2>1, <2>2, AwaitSafe, QuietSteps DEF SafeInv
<1>. QED BY <1>2, <1>3

LEMMA ListSafe ==
  ASSUME TypeOK, SafeInv, NEW t \in Tasks,
         ListContext(t) \/ PeekObjects(t) \/ PeekAnswer(t) \/ ThreadAnswer(t)
  PROVE  SafeInv'
<1>1. Quiet
  BY DEF ListContext, PeekObjects, PeekAnswer, ThreadAnswer, Quiet
<1>2. \/ \E call, code, ids : Answer(t, call, code, ids)
      \/ \E k : Await(t, k) /\ Fresh(k)
  <2>1. CASE ListContext(t)
    BY <2>1 DEF ListContext, Fresh
  <2>2. CASE PeekObjects(t)
    BY <2>2 DEF PeekObjects, Fresh, Listing
  <2>3. CASE PeekAnswer(t) \/ ThreadAnswer(t)
    BY <2>3 DEF PeekAnswer, ThreadAnswer
  <2>. QED BY <2>1, <2>2, <2>3
<1>. QED BY <1>1, <1>2, AnswerSafe, AwaitSafe, FreshSafe, QuietSteps DEF SafeInv

(***************************************************************************)
(* Steps that change the tables of actors                                  *)
(***************************************************************************)

\* The actors change, and nothing that is stored or read does.
ActorsOnly == UNCHANGED <<objects, reads, unused>>

LEMMA ActorSteps ==
  ASSUME SafeInv, ActorsOnly, Joined(actors) \subseteq Joined(actors')
  PROVE  /\ AllPlain' /\ AllSafe' => SafeInv'
         /\ Onward
BY DEF SafeInv, ActorsOnly, Onward, AllRouted, NoReadsAhead, ReadsByParties, Routed,
       PartiesOf, Stored

LEMMA ClaimSafe ==
  ASSUME TypeOK, AllPlain, NEW n \in Agents, NEW created, ClaimName(n, {}, created)
  PROVE  AllPlain' /\ Joined(actors) \subseteq Joined(actors')
<1>1. actors \in [Names -> ActorRow] /\ n \in Names
  BY MailboxAssumption DEF TypeOK, Directory, Agents
<1>2. CASE actors[n] # NoActor
  BY <1>2 DEF ClaimName, AllPlain, Plain, Joined
<1>3. CASE actors[n] = NoActor
  <2>1. actors' = [actors EXCEPT ![n] = [type |-> "Service", groups |-> {},
                                         created |-> created]]
    BY <1>3 DEF ClaimName
  <2>. QED BY <1>1, <1>3, <2>1 DEF AllPlain, Plain, Joined
<1>. QED BY <1>2, <1>3

LEMMA JoinSafe ==
  ASSUME TypeOK, SafeInv, NEW t \in Tasks,
         JoinNamed(t) \/ JoinIssued(t) \/ JoinRetry(t) \/ InstallResident(t)
  PROVE  SafeInv'
<1>1. ActorsOnly
  BY DEF JoinNamed, JoinAs, JoinIssued, JoinRetry, InstallResident, ActorsOnly
<1>2. \/ UNCHANGED actors
      \/ \E n \in Agents : \E created : ClaimName(n, {}, created)
  BY DEF JoinNamed, JoinAs, JoinIssued, JoinRetry, TryIssued, InstallResident, Agents
<1>3. AllPlain' /\ Joined(actors) \subseteq Joined(actors')
  <2>1. CASE UNCHANGED actors
    BY <2>1 DEF SafeInv, AllPlain, Plain, Joined
  <2>. QED BY <1>2, <2>1, ClaimSafe DEF SafeInv
<1>4. \/ \E call, code, ids : Answer(t, call, code, ids)
      \/ \E k : Await(t, k) /\ Fresh(k)
  <2>1. CASE JoinNamed(t)
    BY <2>1 DEF JoinNamed, JoinAs
  <2>2. ASSUME NEW created, NEW tries, TryIssued(t, created, tries)
        PROVE  \/ \E call, code, ids : Answer(t, call, code, ids)
               \/ \E k : Await(t, k) /\ Fresh(k)
    BY <2>2 DEF TryIssued, Fresh
  <2>3. CASE InstallResident(t)
    BY <2>3 DEF InstallResident
  <2>. QED BY <2>1, <2>2, <2>3 DEF JoinIssued, JoinRetry
<1>. QED BY <1>1, <1>3, <1>4, ActorSteps, AnswerSafe, AwaitSafe, FreshSafe DEF SafeInv

LEMMA PutSafe ==
  ASSUME TypeOK, SafeInv, NEW t \in Tasks, PutProfile(t)
  PROVE  AllPlain' /\ Joined(actors) \subseteq Joined(actors')
<1>1. tasks[t] \in ProfileTask /\ TaskSafe(tasks[t])
  BY TaskShapes DEF PutProfile, TypeOK, SafeInv, AllSafe
<1>2. CASE tasks[t].found = NoActor
  BY <1>2 DEF PutProfile, SafeInv, AllPlain, Plain, Joined
<1>3. CASE tasks[t].found # NoActor
  <2>1. /\ tasks[t].caller \in Agents /\ tasks[t].found.type = "Service"
        /\ tasks[t].profile \in Profiles
    BY <1>1, <1>3 DEF TaskSafe, PutProfile
  <2>2. PutActor(tasks[t].caller, "Service", tasks[t].profile, tasks[t].found.created)
    BY <1>3, <2>1 DEF PutProfile
  <2>3. tasks[t].profile \subseteq Groups
    BY <2>1 DEF Groups
  <2>4. /\ actors \in [Names -> ActorRow] /\ tasks[t].caller \in Names
        /\ tasks[t].profile \in SUBSET Names
        /\ tasks[t].found.created \in Time
    BY <1>1, <1>3 DEF TypeOK, Directory, ProfileTask, ActorRow, Actor
  <2> DEFINE old == actors[tasks[t].caller]
             row == [type |-> "Service", groups |-> tasks[t].profile,
                     created |-> IF old = NoActor THEN tasks[t].found.created
                                 ELSE old.created]
  <2>5. /\ actors' = [actors EXCEPT ![tasks[t].caller] = row]
        /\ row.type = "Service" /\ row.groups = tasks[t].profile
        /\ row \in Actor
    <3>1. actors' = [actors EXCEPT ![tasks[t].caller] = row]
      BY <2>2, <2>4 DEF PutActor
    <3>2. old \in ActorRow
      BY <2>4
    <3>3. row \in Actor
      BY <2>4, <3>2 DEF ActorRow, Actor
    <3>. QED BY <3>1, <3>3
  <2>. HIDE DEF row
  <2>6. row # NoActor
    BY <2>5, MailboxAssumption
  <2>. QED BY <2>1, <2>3, <2>4, <2>5, <2>6 DEF SafeInv, AllPlain, Plain, Joined
<1>. QED BY <1>2, <1>3

LEMMA ProfileSafe ==
  ASSUME TypeOK, SafeInv, NEW t \in Tasks, UpdateProfile(t) \/ PutProfile(t)
  PROVE  SafeInv'
<1>1. CASE UpdateProfile(t)
  <2>1. PICK k : /\ Await(t, k) /\ k.op = "update_profile" /\ k.profile \in Profiles
                 /\ k.caller \in Names /\ k.found = actors[k.caller]
    BY <1>1 DEF UpdateProfile, UpdateProfileAs
  <2>2. Quiet
    BY <1>1 DEF UpdateProfile, UpdateProfileAs, Quiet
  <2>3. k.found # NoActor => k.caller \in Agents /\ k.found.type = "Service"
    BY <2>1 DEF SafeInv, AllPlain, Plain, Joined, TypeOK, Directory
  <2>4. TaskSafe(k)'
    BY <2>1, <2>3 DEF TaskSafe, Fetching
  <2>. QED BY <2>1, <2>2, <2>4, AwaitSafe, QuietSteps DEF SafeInv
<1>2. CASE PutProfile(t)
  <2>1. ActorsOnly /\ \E code : Answer(t, "update_profile", code, {})
    BY <1>2 DEF PutProfile, ActorsOnly
  <2>2. AllPlain' /\ Joined(actors) \subseteq Joined(actors')
    BY <1>2, PutSafe
  <2>. QED BY <2>1, <2>2, ActorSteps, AnswerSafe DEF SafeInv
<1>. QED BY <1>1, <1>2

(***************************************************************************)
(* Sending                                                                 *)
(***************************************************************************)

\* The message that is stored goes to actors of an earlier snapshot.
LEMMA NewObjectRouted ==
  ASSUME NEW caller, NEW to, NEW cc, NEW parent, NEW acts, Past(acts)
  PROVE  Routed(NewObject(caller, to, cc, parent, acts))
BY ReachedJoined DEF NewObject, Routed, Past

LEMMA StoreSafe ==
  ASSUME TypeOK, SafeInv, NEW t \in Tasks, NEW task, NEW parent, Past(task.acts),
         Store(t, task, parent), UNCHANGED <<actors, reads>>
  PROVE  SafeInv'
<1>1. PICK i \in unused :
        /\ AddObject(i, NewObject(task.caller, task.to, task.cc, parent, task.acts))
        /\ unused' = unused \ {i}
  BY DEF Store
<1>2. PICK obj : /\ obj = NewObject(task.caller, task.to, task.cc, parent, task.acts)
                 /\ Routed(obj)
  BY NewObjectRouted
<1>3. objects' = [objects EXCEPT ![i] = obj] /\ i \in Ids
  BY <1>1, <1>2 DEF AddObject, TypeOK
<1>4. Onward
  BY <1>1, <1>3 DEF Onward, TypeOK, Archive
<1>5. AllSafe'
  BY <1>4, AnswerSafe DEF Store, SafeInv
<1>6. AllPlain' /\ NoReadsAhead'
  BY <1>1 DEF SafeInv, AllPlain, Plain, Joined, NoReadsAhead
<1>7. \A j \in Stored(objects)' :
        \/ j = i /\ objects'[j] = obj
        \/ j # i /\ objects'[j] = objects[j] /\ j \in Stored(objects)
  BY <1>3 DEF Stored, TypeOK, Archive
<1>8. AllRouted'
  <2>1. \A o : Routed(o) => Routed(o)'
    BY DEF Routed, Joined
  <2>. QED BY <1>1, <1>2, <1>7, <2>1 DEF SafeInv, AllRouted, Routed
<1>9. ReadsByParties'
  BY <1>1, <1>7 DEF SafeInv, ReadsByParties, NoReadsAhead, PartiesOf
<1>. QED BY <1>5, <1>6, <1>8, <1>9 DEF SafeInv

LEMMA SendSafe ==
  ASSUME TypeOK, SafeInv, NEW t \in Tasks,
         SendContext(t) \/ SendDecide(t) \/ SendAttach(t)
  PROVE  SafeInv'
<1>1. CASE SendContext(t)
  <2>1. Quiet
    BY <1>1 DEF SendContext, Quiet
  <2>2. CASE \E code : Answer(t, "send", code, {})
    BY <2>1, <2>2, AnswerSafe, QuietSteps DEF SafeInv
  <2>3. CASE \E k : Await(t, k) /\ k.op = "send" /\ k.acts = actors
    <3>1. PICK k : Await(t, k) /\ k.op = "send" /\ k.acts = actors
      BY <2>3
    <3>2. Past(k.acts)'
      BY <2>1, <3>1 DEF Past, Quiet, SafeInv, AllPlain, Plain, Joined
    <3>3. TaskSafe(k)'
      BY <3>1, <3>2 DEF TaskSafe, Fetching
    <3>. QED BY <2>1, <3>1, <3>3, AwaitSafe, QuietSteps DEF SafeInv
  <2>. QED BY <1>1, <2>2, <2>3 DEF SendContext
<1>2. CASE SendDecide(t)
  <2>1. Past(tasks[t].acts)
    BY <1>2 DEF SendDecide, SafeInv, AllSafe, TaskSafe
  <2>2. CASE Answer(t, "send", "unknown_recipient", {}) /\ UNCHANGED <<objects, unused>>
    <3>1. Quiet
      BY <1>2, <2>2 DEF SendDecide, Quiet
    <3>. QED BY <2>2, <3>1, AnswerSafe, QuietSteps DEF SafeInv
  <2>3. CASE Store(t, tasks[t], NoParent)
    BY <1>2, <2>1, <2>3, StoreSafe DEF SendDecide
  <2>4. CASE /\ \E k : Await(t, k) /\ k.op = "send" /\ k.acts = tasks[t].acts
             /\ UNCHANGED <<objects, unused>>
    <3>1. PICK k : Await(t, k) /\ k.op = "send" /\ k.acts = tasks[t].acts
      BY <2>4
    <3>2. Quiet
      BY <1>2, <2>4 DEF SendDecide, Quiet
    <3>3. Past(k.acts)'
      BY <2>1, <3>1, <3>2, PastStays, QuietSteps
    <3>4. TaskSafe(k)'
      BY <3>1, <3>3 DEF TaskSafe, Fetching
    <3>. QED BY <3>1, <3>2, <3>4, AwaitSafe, QuietSteps DEF SafeInv
  <2>. QED BY <1>2, <2>2, <2>3, <2>4 DEF SendDecide
<1>3. CASE SendAttach(t)
  <2>1. Past(tasks[t].acts)
    BY <1>3 DEF SendAttach, SafeInv, AllSafe, TaskSafe
  <2>. QED BY <1>3, <2>1, StoreSafe DEF SendAttach
<1>. QED BY <1>1, <1>2, <1>3

(***************************************************************************)
(* Fetching one message                                                    *)
(***************************************************************************)

LEMMA FetchSafe ==
  ASSUME TypeOK, SafeInv, NEW t \in Tasks,
         ReadReader(t) \/ VisibleActor(t) \/ VisibleObject(t)
  PROVE  SafeInv'
<1>1. Quiet
  BY DEF ReadReader, VisibleActor, VisibleObject, Quiet
<1>2. CASE \E call, code : Answer(t, call, code, {})
  BY <1>1, <1>2, AnswerSafe, QuietSteps DEF SafeInv
<1>3. ASSUME NEW k, Await(t, k), TaskSafe(k)' PROVE SafeInv'
  BY <1>1, <1>3, AwaitSafe, QuietSteps DEF SafeInv
<1>4. CASE ReadReader(t)
  <2>1. CASE \E k : Await(t, k) /\ Fresh(k)
    BY <1>3, <2>1, FreshSafe
  <2>2. tasks[t].found = NoActor \/ \E k : Await(t, k) /\ Fresh(k)
    BY <1>4 DEF ReadReader, Fetch, Fresh, Fetching
  <2>. QED BY <1>2, <1>4, <2>1, <2>2 DEF ReadReader
<1>5. CASE VisibleActor(t) /\ tasks[t].found # NoActor
  <2>1. tasks[t] \in FetchAtActor
    BY <1>5, TaskShapes DEF VisibleActor, TypeOK
  <2>2. PICK k : /\ Await(t, k) /\ k.op \in Fetching /\ k.at = "object"
                 /\ k.id = tasks[t].id /\ k.got = objects[tasks[t].id]
    BY <1>5 DEF VisibleActor
  <2>3. k.id \in Ids
    BY <2>1, <2>2 DEF FetchAtActor
  <2>4. k.got # NoObject => Held(k.id, k.got)
    BY <2>2, <2>3 DEF Held, SafeInv, AllRouted, Stored, TypeOK, Archive
  <2>5. k.got # NoObject => Held(k.id, k.got)'
    BY <1>1, <2>3, <2>4, HeldStays, QuietSteps
  <2>6. TaskSafe(k)'
    BY <2>2, <2>5 DEF TaskSafe, Fetching
  <2>. QED BY <1>3, <2>2, <2>6
<1>6. CASE VisibleObject(t) /\ tasks[t].got # NoObject
  <2>1. tasks[t] \in FetchAtObject /\ Held(tasks[t].id, tasks[t].got)
    BY <1>6, TaskShapes DEF VisibleObject, TypeOK, SafeInv, AllSafe, TaskSafe
  <2>2. PICK k : /\ Await(t, k) /\ k.op \in Fetching /\ k.at = "context"
                 /\ k.id = tasks[t].id /\ k.got = tasks[t].got /\ k.acts = actors
    BY <1>6 DEF VisibleObject
  <2>3. Held(k.id, k.got)'
    BY <1>1, <2>1, <2>2, HeldStays, QuietSteps DEF FetchAtObject
  <2>4. Past(k.acts)'
    BY <1>1, <2>2 DEF Past, Quiet, SafeInv, AllPlain, Plain, Joined
  <2>5. TaskSafe(k)'
    BY <2>2, <2>3, <2>4 DEF TaskSafe, Fetching
  <2>. QED BY <1>3, <2>2, <2>5
<1>. QED BY <1>2, <1>4, <1>5, <1>6 DEF VisibleActor, VisibleObject

LEMMA FetchedSafe ==
  ASSUME NamesAndGroupsApart, TypeOK, SafeInv, NEW t \in Tasks,
         VisibleRefused(t) \/ MarkRead(t) \/ ViewAnswer(t) \/ ReplySend(t)
  PROVE  SafeInv'
<1>1. CASE VisibleRefused(t) \/ ViewAnswer(t)
  <2>1. Quiet /\ \E call, code, ids : Answer(t, call, code, ids)
    BY <1>1 DEF VisibleRefused, ViewAnswer, Quiet
  <2>. QED BY <2>1, AnswerSafe, QuietSteps DEF SafeInv
<1>2. CASE ReplySend(t)
  <2>1. Quiet /\ \E k : Await(t, k) /\ Fresh(k)
    BY <1>2 DEF ReplySend, StartSend, Quiet, Fresh
  <2>. QED BY <2>1, FreshSafe, AwaitSafe, QuietSteps DEF SafeInv
<1>3. CASE MarkRead(t)
  <2>1. tasks[t] \in FetchAtContext
    BY <1>3, TaskShapes DEF MarkRead, TypeOK, Fetching
  <2>2. tasks[t].id \in Ids /\ tasks[t].caller \in Names /\ tasks[t].got \in Object
    BY <2>1 DEF FetchAtContext
  <2>3. Held(tasks[t].id, tasks[t].got) /\ Past(tasks[t].acts)
    BY <1>3 DEF MarkRead, Fetching, SafeInv, AllSafe, TaskSafe
  <2>4. tasks[t].caller \in PartiesOf(tasks[t].got)
    BY <1>3, <2>3, PartyStored DEF MarkRead, MayHave, Held, Past, SafeInv
  <2>5. /\ UNCHANGED <<actors, objects, unused>>
        /\ reads' = reads \cup {<<tasks[t].id, tasks[t].caller>>}
    BY <1>3 DEF MarkRead
  <2>6. Onward
    BY <2>5 DEF Onward
  <2>7. AllSafe'
    BY <1>3, <2>6, AnswerSafe DEF MarkRead, SafeInv
  <2>8. AllPlain' /\ AllRouted'
    BY <2>5 DEF SafeInv, AllPlain, Plain, AllRouted, Routed, Joined, Stored
  <2>9. NoReadsAhead'
    BY <2>3, <2>5 DEF SafeInv, NoReadsAhead, Held
  <2>10. ReadsByParties'
    <3>1. tasks[t].id \in Stored(objects) => objects[tasks[t].id] = tasks[t].got
      BY <2>3 DEF Held, Stored
    <3>. QED BY <2>4, <2>5, <3>1 DEF SafeInv, ReadsByParties, Stored, PartiesOf
  <2>. QED BY <2>7, <2>8, <2>9, <2>10 DEF SafeInv
<1>. QED BY <1>1, <1>2, <1>3

LEMMA ExpireSafe ==
  ASSUME TypeOK, SafeInv, NEW t \in Tasks, ExpireRemove(t)
  PROVE  SafeInv'
<1>1. /\ UNCHANGED <<actors, unused>> /\ reads' \subseteq reads
      /\ \A i \in Ids : objects'[i] \in {objects[i], NoObject}
      /\ DOMAIN objects' = Ids /\ DOMAIN objects = Ids
  BY DEF ExpireRemove, RemoveObjects, TypeOK, Archive
<1>2. Onward
  BY <1>1 DEF Onward
<1>3. AllSafe'
  BY <1>2, AnswerSafe DEF ExpireRemove, SafeInv
<1>4. \A i \in Stored(objects)' : i \in Stored(objects) /\ objects'[i] = objects[i]
  BY <1>1 DEF Stored
<1>5. AllPlain' /\ AllRouted' /\ NoReadsAhead'
  BY <1>1, <1>4 DEF SafeInv, AllPlain, Plain, AllRouted, Routed, Joined, NoReadsAhead
<1>6. ReadsByParties'
  BY <1>1, <1>4 DEF SafeInv, ReadsByParties, PartiesOf
<1>. QED BY <1>3, <1>5, <1>6 DEF SafeInv

(***************************************************************************)
(* The invariant and what it gives                                         *)
(***************************************************************************)

LEMMA Safe ==
  ASSUME NamesAndGroupsApart
  PROVE  Spec => [](TypeOK /\ SafeInv)
<1>1. Init => SafeInv
  <2>1. SUFFICES ASSUME Init PROVE SafeInv
    OBVIOUS
  <2>2. AllPlain
    <3>1. \A n \in Joined(actors) : n \in Enrolled /\ actors[n].type = "Service"
                                                 /\ actors[n].groups = {}
      BY <2>1 DEF Init, Joined
    <3>. QED BY <3>1 DEF AllPlain, Plain, Agents
  <2>3. AllRouted /\ NoReadsAhead /\ ReadsByParties
    BY <2>1 DEF Init, AllRouted, NoReadsAhead, ReadsByParties, Stored
  <2>4. AllSafe
    BY <2>1 DEF Init, AllSafe, TaskSafe, Fetching
  <2>. QED BY <2>2, <2>3, <2>4 DEF SafeInv
<1>2. TypeOK /\ SafeInv /\ [Next]_vars => SafeInv'
  <2>1. SUFFICES ASSUME TypeOK, SafeInv, [Next]_vars PROVE SafeInv'
    OBVIOUS
  <2>2. CASE Tick \/ UNCHANGED vars
    <3>1. Quiet /\ tasks' = tasks
      BY <2>2 DEF Tick, vars, Quiet
    <3>2. AllSafe'
      <4>1. ASSUME NEW t \in Tasks PROVE TaskSafe(tasks[t])'
        <5>1. PICK k \in Task : k = tasks[t]
          BY <2>1 DEF TypeOK
        <5>2. TaskSafe(k)'
          BY <2>1, <3>1, <5>1, StillSafe, QuietSteps DEF SafeInv, AllSafe
        <5>. QED BY <3>1, <5>1, <5>2
      <4>. QED BY <4>1 DEF AllSafe
    <3>. QED BY <2>1, <3>1, <3>2, QuietSteps
  <2>3. ASSUME NEW t \in Tasks, Call(t) PROVE SafeInv'
    BY <2>1, <2>3, CallSafe, JoinSafe, ProfileSafe DEF Call
  <2>4. ASSUME NEW t \in Tasks, Resume(t) PROVE SafeInv'
    BY <2>1, <2>4, JoinSafe, ProfileSafe, SendSafe, FetchSafe, FetchedSafe, ListSafe,
       ExpireSafe
    DEF Resume
  <2>. QED BY <2>1, <2>2, <2>3, <2>4 DEF Next
<1>. QED BY <1>1, <1>2, TypesHold, PTL DEF Spec

(***************************************************************************)
(* AudienceIsFixed: where no profile lists an agent's name as a group,     *)
(* resolving a stored message against any later actors and memberships     *)
(* gives exactly who it reached when it was sent, however sends, joins and *)
(* profile updates overlapped.                                             *)
(***************************************************************************)
THEOREM AudienceIsFixed ==
  ASSUME NamesAndGroupsApart
  PROVE  Spec => []StoredAudience
<1>1. SafeInv => StoredAudience
  <2>1. ASSUME SafeInv, NEW i \in Stored(objects)
        PROVE  RecipientsOf(objects[i], Joined(actors), GroupMemberships(actors))
                 = objects[i].to \cup objects[i].cc
    <3>1. Routed(objects[i]) /\ AllPlain /\ Plain(actors)
      BY <2>1 DEF SafeInv, AllRouted, AllPlain
    <3>2. PICK obj, acts : obj = objects[i] /\ acts = actors
      OBVIOUS
    <3>. QED BY <3>1, <3>2, RecipientsStored DEF Routed
  <2>. QED BY <2>1 DEF StoredAudience
<1>. QED BY <1>1, Safe, PTL

(***************************************************************************)
(* OnlyPartiesConsume: under the same assumption a read row of a stored    *)
(* message is its sender's or one of its recipients', although read()      *)
(* decides on a message and on actors fetched at earlier awaits.           *)
(***************************************************************************)
THEOREM OnlyPartiesConsume ==
  ASSUME NamesAndGroupsApart
  PROVE  Spec => []ReadsByParties
<1>1. SafeInv => ReadsByParties
  BY DEF SafeInv
<1>. QED BY <1>1, Safe, PTL
=============================================================================
