------------------------ MODULE MailboxThreadProofs ------------------------
(***************************************************************************)
(* Who sees which turn of a conversation, what a sweep takes and what      *)
(* becomes of an actor, proved for every instance in which no profile      *)
(* lists the name of an agent as a group.                                  *)
(*                                                                         *)
(* A reply is checked against a snapshot of the messages, and a listing is *)
(* filtered from one.  What such a snapshot holds is what is stored now or *)
(* has been removed, and a table of actors read before it can only know    *)
(* fewer actors; so what the rules decide on them still holds of the       *)
(* tables when the answer is given.                                        *)
(***************************************************************************)
EXTENDS MailboxProofs

Snapshot(objs) == \A i \in Stored(objs) : Held(i, objs[i]) /\ objs[i].published <= now

\* What a send on a thread, a listing and a sweep hold across their last await.
LooksBack(k) ==
  /\ (k.op = "send" /\ k.at = "thread") => Snapshot(k.objs)
  /\ (k.op \in Listing /\ k.at \in {"context", "objects"}) => Past(k.acts)
  /\ (k.op = "peek" /\ k.at = "objects") => Snapshot(k.objs)
  /\ k.op = "expire" => Snapshot(k.objs) /\ k.cutoff + RetentionDays <= now

AllLookBack == \A t \in Tasks : LooksBack(tasks[t])

\* A message answers one that was sent before it.
Ordered ==
  \A i \in Stored(objects) : objects[i].published <= now /\ objects[i].parent \notin unused

SightInv == Ordered /\ AttachedWithinSight /\ AllLookBack

\* Time goes on, and nothing comes back.
Later == Onward /\ now <= now'

(***************************************************************************)
(* Every step is one later                                                 *)
(***************************************************************************)

LEMMA CallsAreLater ==
  ASSUME TypeOK, TypeOK', SafeInv, NEW t \in Tasks, Call(t)
  PROVE  Later /\ UNCHANGED <<objects, unused, now>>
<1>1. UNCHANGED <<objects, unused, now>>
  BY DEF Call, JoinNamed, JoinAs, JoinIssued, UpdateProfile, UpdateProfileAs,
         InstallResident, Send, SendAs, Reply, ReplyAs, Read, ReadAs, View, Peek, PeekAs,
         Thread, Expire
<1>2. \/ UNCHANGED actors
      \/ \E n \in Agents : \E created : ClaimName(n, {}, created)
  BY DEF Call, JoinNamed, JoinAs, JoinIssued, TryIssued, UpdateProfile, UpdateProfileAs,
         InstallResident, Send, SendAs, Reply, ReplyAs, Read, ReadAs, View, Peek, PeekAs,
         Thread, Expire, Agents
<1>3. Joined(actors) \subseteq Joined(actors')
  BY <1>2, ClaimSafe DEF SafeInv
<1>4. now \in Int
  BY DEF TypeOK, Time
<1>. QED BY <1>1, <1>3, <1>4 DEF Later, Onward

Storing(t) ==
  \E caller \in Names, to, cc \in Addresses, parent \in Ids \cup {NoParent},
     acts \in Directory :
    /\ \E i \in unused : /\ AddObject(i, NewObject(caller, to, cc, parent, acts))
                         /\ unused' = unused \ {i}
    /\ Past(acts) /\ UNCHANGED <<actors, now>>
    /\ \/ parent = NoParent
       \/ \E objs \in Archive :
            /\ Snapshot(objs) /\ parent \in Stored(objs)
            /\ Party(objs[parent], caller, acts)

LEMMA SendsStore ==
  ASSUME TypeOK, SafeInv, AllLookBack, NEW t \in Tasks, SendDecide(t) \/ SendAttach(t)
  PROVE  UNCHANGED <<actors, objects, unused, now>> \/ Storing(t)
<1>1. tasks[t] \in Task /\ TaskSafe(tasks[t]) /\ LooksBack(tasks[t])
  BY DEF TypeOK, SafeInv, AllSafe, AllLookBack
<1>2. CASE SendDecide(t)
  <2>1. tasks[t] \in SendAtContext /\ Past(tasks[t].acts)
    BY <1>1, <1>2, TaskShapes DEF SendDecide, TaskSafe
  <2>2. CASE Store(t, tasks[t], NoParent)
    BY <1>2, <2>1, <2>2 DEF SendDecide, Store, Storing, SendAtContext
  <2>. QED BY <1>2, <2>2 DEF SendDecide
<1>3. CASE SendAttach(t)
  <2>1. tasks[t] \in SendAtThread /\ Past(tasks[t].acts) /\ Snapshot(tasks[t].objs)
    BY <1>1, <1>3, TaskShapes DEF SendAttach, TaskSafe, LooksBack
  <2>2. PICK parent \in Ids \cup {NoParent} :
                      /\ Store(t, tasks[t], parent)
                      /\ \/ parent = NoParent
                         \/ /\ parent \in Stored(tasks[t].objs)
                            /\ Party(tasks[t].objs[parent], tasks[t].caller, tasks[t].acts)
    BY <1>3, <2>1 DEF SendAttach, SendAtThread, MayAttachTo, Party
  <2>. QED BY <1>3, <2>1, <2>2 DEF SendAttach, Store, Storing, SendAtThread
<1>. QED BY <1>2, <1>3

LEMMA ResumesAreLater ==
  ASSUME TypeOK, SafeInv, AllLookBack, NEW t \in Tasks, Resume(t)
  PROVE  /\ Later
         /\ \/ UNCHANGED <<objects, unused, now>>
            \/ Storing(t)
            \/ ExpireRemove(t)
<1>1. now \in Int /\ objects \in Archive
  BY DEF TypeOK, Time
<1>2. CASE SendDecide(t) \/ SendAttach(t)
  <2>1. CASE Storing(t)
    <3>1. PICK i \in unused : /\ \E obj : AddObject(i, obj)
                              /\ unused' = unused \ {i}
      BY <2>1 DEF Storing
    <3>2. \A j \in Ids \ unused : objects'[j] = objects[j]
      BY <1>1, <3>1 DEF AddObject, Archive
    <3>3. UNCHANGED <<actors, now>>
      BY <2>1 DEF Storing
    <3>. QED BY <1>1, <2>1, <3>1, <3>2, <3>3 DEF Later, Onward
  <2>. QED BY <1>1, <1>2, <2>1, SendsStore DEF Later, Onward
<1>3. CASE ExpireRemove(t)
  <2>1. \A i \in Ids : objects'[i] \in {objects[i], NoObject}
    BY <1>3 DEF ExpireRemove, RemoveObjects
  <2>. QED BY <1>1, <1>3, <2>1 DEF ExpireRemove, Later, Onward
<1>4. CASE JoinRetry(t) \/ PutProfile(t)
  <2>1. UNCHANGED <<objects, unused, now>>
    BY <1>4 DEF JoinRetry, PutProfile
  <2>2. Joined(actors) \subseteq Joined(actors')
    <3>1. CASE JoinRetry(t)
      <4>1. PICK n \in Agents : \E created : ClaimName(n, {}, created)
        BY <3>1 DEF JoinRetry, TryIssued, Agents
      <4>. QED BY <4>1, ClaimSafe DEF SafeInv
    <3>2. CASE PutProfile(t)
      BY <3>2, PutSafe
    <3>. QED BY <1>4, <3>1, <3>2
  <2>. QED BY <1>1, <2>1, <2>2 DEF Later, Onward
<1>5. CASE \/ SendContext(t) \/ ReadReader(t) \/ VisibleActor(t) \/ VisibleObject(t)
           \/ VisibleRefused(t) \/ MarkRead(t) \/ ViewAnswer(t) \/ ReplySend(t)
           \/ ListContext(t) \/ PeekObjects(t) \/ PeekAnswer(t) \/ ThreadAnswer(t)
  <2>1. UNCHANGED <<actors, objects, unused, now>>
    BY <1>5 DEF SendContext, ReadReader, VisibleActor, VisibleObject, VisibleRefused,
                MarkRead, ViewAnswer, ReplySend, ListContext, PeekObjects, PeekAnswer,
                ThreadAnswer
  <2>. QED BY <1>1, <2>1 DEF Later, Onward
<1>. QED BY <1>2, <1>3, <1>4, <1>5 DEF Resume
(***************************************************************************)
(* What is held across an await stays true                                 *)
(***************************************************************************)

LEMMA SnapshotStays ==
  ASSUME TypeOK, TypeOK', Later, NEW objs \in Archive, Snapshot(objs)
  PROVE  Snapshot(objs)'
<1>1. Stored(objs) \subseteq Ids
  BY DEF Stored, Archive
<1>2. ASSUME NEW i \in Stored(objs) PROVE Held(i, objs[i])' /\ objs[i].published <= now'
  <2>1. Held(i, objs[i]) /\ objs[i].published <= now
    BY DEF Snapshot
  <2>2. objs[i].published \in Int /\ now \in Int /\ now' \in Int
    BY <1>1 DEF Stored, Archive, ObjectRow, Object, Time, TypeOK
  <2>3. PICK got : got = objs[i]
    OBVIOUS
  <2>4. Held(i, got)'
    BY <1>1, <2>1, <2>3, HeldStays DEF Later
  <2>. QED BY <2>1, <2>2, <2>3, <2>4 DEF Later
<1>. QED BY <1>2 DEF Snapshot

LEMMA LooksBackStays ==
  ASSUME TypeOK, TypeOK', Later, NEW k \in Task, LooksBack(k)
  PROVE  LooksBack(k)'
<1>1. (k.op = "send" /\ k.at = "thread") => k.objs \in Archive /\ Snapshot(k.objs)
  BY TaskShapes DEF SendAtThread, LooksBack
<1>2. (k.op = "peek" /\ k.at = "objects") => k.objs \in Archive /\ Snapshot(k.objs)
  BY TaskShapes DEF ListAtObjects, LooksBack, Listing
<1>3. (k.op \in Listing /\ k.at \in {"context", "objects"}) => Past(k.acts)
  BY DEF LooksBack
<1>4. k.op = "expire" => k.objs \in Archive /\ Snapshot(k.objs)
  BY TaskShapes DEF ExpireTask, LooksBack
<1>5. k.op = "expire" => k.cutoff + RetentionDays <= now'
  <2>1. SUFFICES ASSUME k.op = "expire" PROVE k.cutoff + RetentionDays <= now'
    OBVIOUS
  <2>2. k.cutoff \in Int /\ RetentionDays \in Int /\ now \in Int /\ now' \in Int
    BY <2>1, TaskShapes, MailboxAssumption DEF ExpireTask, TypeOK, Time
  <2>3. k.cutoff + RetentionDays <= now /\ now <= now'
    BY <2>1 DEF LooksBack, Later
  <2>. QED BY <2>2, <2>3
<1>. QED BY <1>1, <1>2, <1>3, <1>4, <1>5, SnapshotStays, PastStays DEF LooksBack, Later

\* A coroutine that holds nothing of the kind.
Blank(k) ==
  /\ ~(k.op = "send" /\ k.at = "thread")
  /\ ~(k.op \in Listing /\ k.at \in {"context", "objects"})
  /\ k.op # "expire"

LEMMA BlankLooksBack ==
  ASSUME NEW k, Blank(k)
  PROVE  LooksBack(k)'
BY DEF Blank, LooksBack, Listing

\* The tables as they are make a good snapshot.
LEMMA PresentSnapshot ==
  ASSUME TypeOK, SafeInv, Ordered
  PROVE  Snapshot(objects) /\ Past(actors)
BY DEF Snapshot, SafeInv, AllPlain, AllRouted, Ordered, Held, Past

LEMMA CallsHoldLittle ==
  ASSUME TypeOK, NEW t \in Tasks, Call(t)
  PROVE  \/ \E k : Await(t, k) /\ Blank(k)
         \/ \E k : /\ Await(t, k) /\ k.op = "expire" /\ k.objs = objects
                   /\ k.cutoff = now - RetentionDays
<1>1. CASE JoinNamed(t) \/ JoinIssued(t) \/ InstallResident(t)
  BY <1>1 DEF JoinNamed, JoinAs, JoinIssued, TryIssued, InstallResident, Answer, Blank,
              Listing
<1>2. CASE UpdateProfile(t)
  BY <1>2 DEF UpdateProfile, UpdateProfileAs, Blank, Listing
<1>3. CASE Send(t)
  BY <1>3 DEF Send, SendAs, StartSend, Blank, Listing
<1>4. CASE Reply(t)
  BY <1>4 DEF Reply, ReplyAs, Fetch, Blank, Listing
<1>5. CASE Read(t)
  BY <1>5 DEF Read, ReadAs, Blank, Listing
<1>6. CASE View(t)
  BY <1>6 DEF View, Fetch, Blank, Listing
<1>7. CASE Peek(t)
  BY <1>7 DEF Peek, PeekAs, Blank
<1>8. CASE Thread(t)
  BY <1>8 DEF Thread, Blank
<1>9. CASE Expire(t)
  BY <1>9 DEF Expire, Answer, Blank, Listing
<1>. QED BY <1>1, <1>2, <1>3, <1>4, <1>5, <1>6, <1>7, <1>8, <1>9 DEF Call

LEMMA CallsHold ==
  ASSUME TypeOK, TypeOK', SafeInv, Ordered, Later, NEW t \in Tasks, Call(t)
  PROVE  \E k : Await(t, k) /\ LooksBack(k)'
<1>1. CASE \E k : Await(t, k) /\ Blank(k)
  BY <1>1, BlankLooksBack
<1>2. ASSUME NEW k, Await(t, k), k.op = "expire", k.objs = objects,
             k.cutoff = now - RetentionDays
      PROVE  LooksBack(k)'
  <2>1. PICK objs \in Archive : objs = objects
    BY DEF TypeOK
  <2>2. Snapshot(objs)'
    BY <2>1, PresentSnapshot, SnapshotStays
  <2>3. k.cutoff + RetentionDays <= now'
    BY <1>2, MailboxAssumption DEF TypeOK, Time, Later
  <2>. QED BY <1>2, <2>1, <2>2, <2>3 DEF LooksBack, Listing
<1>. QED BY <1>1, <1>2, CallsHoldLittle

LEMMA ResumesHold ==
  ASSUME TypeOK, TypeOK', SafeInv, SafeInv', Ordered, AllLookBack, Later,
         NEW t \in Tasks, Resume(t)
  PROVE  \E k : Await(t, k) /\ LooksBack(k)'
<1>1. tasks[t] \in Task /\ LooksBack(tasks[t])
  BY DEF TypeOK, AllLookBack
<1>2. CASE \E call, code, ids : Answer(t, call, code, ids)
  <2>1. PICK k : Await(t, k) /\ k.op = "answered"
    BY <1>2 DEF Answer
  <2>2. Blank(k)
    BY <2>1 DEF Blank, Listing
  <2>. QED BY <2>1, <2>2, BlankLooksBack
<1>3. CASE \E k : Await(t, k) /\ Blank(k)
  BY <1>3, BlankLooksBack
<1>4. CASE JoinRetry(t) \/ PutProfile(t)
  BY <1>2, <1>3, <1>4 DEF JoinRetry, TryIssued, PutProfile, Blank, Listing
<1>5. CASE SendContext(t) \/ ReplySend(t)
  BY <1>2, <1>3, <1>5 DEF SendContext, ReplySend, StartSend, Blank, Listing
<1>6. CASE SendDecide(t)
  <2>1. CASE \E k : Await(t, k) /\ k.op = "send" /\ k.objs = objects
    <3>1. PICK k : Await(t, k) /\ k.op = "send" /\ k.objs = objects
      BY <2>1
    <3>2. PICK objs \in Archive : objs = objects
      BY DEF TypeOK
    <3>3. Snapshot(objs)'
      BY <3>2, PresentSnapshot, SnapshotStays
    <3>4. LooksBack(k)'
      BY <3>1, <3>2, <3>3 DEF LooksBack, Listing
    <3>. QED BY <3>1, <3>4
  <2>. QED BY <1>2, <1>6, <2>1 DEF SendDecide, Store
<1>7. CASE SendAttach(t) \/ ExpireRemove(t) \/ MarkRead(t) \/ ViewAnswer(t)
           \/ VisibleRefused(t) \/ PeekAnswer(t) \/ ThreadAnswer(t)
  BY <1>2, <1>7 DEF SendAttach, Store, ExpireRemove, MarkRead, ViewAnswer,
                    VisibleRefused, PeekAnswer, ThreadAnswer
<1>8. CASE ReadReader(t) \/ VisibleActor(t) \/ VisibleObject(t)
  BY <1>2, <1>3, <1>8 DEF ReadReader, Fetch, VisibleActor, VisibleObject, Fetching, Blank,
                          Listing
<1>9. CASE ListContext(t)
  <2>1. CASE \E k : Await(t, k) /\ k.at = "context" /\ k.op \in Listing /\ k.acts = actors
    <3>1. PICK k : Await(t, k) /\ k.at = "context" /\ k.op \in Listing /\ k.acts = actors
      BY <2>1
    <3>2. PICK acts : acts = actors
      OBVIOUS
    <3>3. Past(acts)'
      BY <3>2, PresentSnapshot, PastStays DEF Later
    <3>4. LooksBack(k)'
      BY <3>1, <3>2, <3>3 DEF LooksBack, Listing
    <3>. QED BY <3>1, <3>4
  <2>. QED BY <1>2, <1>9, <2>1 DEF ListContext
<1>10. CASE PeekObjects(t)
  <2>1. Past(tasks[t].acts)
    BY <1>1, <1>10 DEF PeekObjects, LooksBack, Listing
  <2>2. PICK k : Await(t, k) /\ k.op = "peek" /\ k.acts = tasks[t].acts /\ k.objs = objects
    BY <1>10 DEF PeekObjects
  <2>3. PICK objs \in Archive : objs = objects
    BY DEF TypeOK
  <2>4. PICK acts : acts = tasks[t].acts
    OBVIOUS
  <2>5. Snapshot(objs)' /\ Past(acts)'
    BY <2>1, <2>3, <2>4, PresentSnapshot, SnapshotStays, PastStays DEF Later
  <2>6. LooksBack(k)'
    BY <2>2, <2>3, <2>4, <2>5 DEF LooksBack
  <2>. QED BY <2>2, <2>6
<1>. QED BY <1>4, <1>5, <1>6, <1>7, <1>8, <1>9, <1>10 DEF Resume

(***************************************************************************)
(* Storing and removing                                                    *)
(***************************************************************************)

LEMMA NewObjectFields ==
  ASSUME NEW caller, NEW to, NEW cc, NEW parent, NEW acts
  PROVE  \E new : /\ new = NewObject(caller, to, cc, parent, acts)
                  /\ new.from = caller /\ new.parent = parent /\ new.published = now
<1>1. PICK reached : reached = Reached(to, acts) \ {caller}
  OBVIOUS
<1>2. PICK also : also = (Reached(cc, acts) \ {caller}) \ reached
  OBVIOUS
<1>3. NewObject(caller, to, cc, parent, acts)
        = [from |-> caller, to |-> reached, cc |-> also, parent |-> parent,
           published |-> now]
  BY <1>1, <1>2 DEF NewObject
<1>. QED BY <1>3

LEMMA StoringKeeps ==
  ASSUME NamesAndGroupsApart, TypeOK, TypeOK', SafeInv, Ordered, AttachedWithinSight,
         NEW t \in Tasks, Storing(t)
  PROVE  Ordered' /\ AttachedWithinSight'
<1>1. PICK caller \in Names, to \in Addresses, cc \in Addresses,
           parent \in Ids \cup {NoParent}, acts \in Directory, i \in unused :
        /\ AddObject(i, NewObject(caller, to, cc, parent, acts))
        /\ unused' = unused \ {i}
        /\ Past(acts) /\ UNCHANGED <<actors, now>>
        /\ \/ parent = NoParent
           \/ \E objs \in Archive :
                /\ Snapshot(objs) /\ parent \in Stored(objs)
                /\ Party(objs[parent], caller, acts)
  BY DEF Storing
<1>2. PICK new : /\ new = NewObject(caller, to, cc, parent, acts)
                 /\ new.from = caller /\ new.parent = parent /\ new.published = now
  BY NewObjectFields
<1>3. objects' = [objects EXCEPT ![i] = new] /\ i \in Ids /\ objects \in Archive
  BY <1>1, <1>2 DEF AddObject, TypeOK
<1>4. \A j \in Stored(objects)' :
        \/ j = i /\ objects'[j] = new
        \/ j # i /\ j \in Stored(objects) /\ objects'[j] = objects[j]
  BY <1>3 DEF Stored, Archive
<1>5. parent \notin unused
  BY <1>1, MailboxAssumption DEF Snapshot, Held, TypeOK
<1>6. Ordered'
  <2>1. now \in Int
    BY DEF TypeOK, Time
  <2>. QED BY <1>1, <1>2, <1>4, <1>5, <2>1 DEF Ordered
<1>7. ASSUME parent \in Stored(objects)
      PROVE  caller \in PartiesOf(objects[parent]) /\ objects[parent].published <= now
  <2>1. PICK objs \in Archive : /\ Snapshot(objs) /\ parent \in Stored(objs)
                                /\ Party(objs[parent], caller, acts)
    BY <1>1, <1>7, MailboxAssumption DEF Stored, TypeOK, Archive
  <2>2. PICK got : got = objs[parent]
    OBVIOUS
  <2>3. Held(parent, got) /\ got.published <= now
    BY <2>1, <2>2 DEF Snapshot
  <2>4. objects[parent] = got
    BY <1>7, <2>3 DEF Held, Stored
  <2>5. caller \in PartiesOf(got)
    BY <1>1, <2>1, <2>2, <2>3, PartyStored DEF SafeInv, Held, Past
  <2>. QED BY <2>3, <2>4, <2>5
<1>8. AttachedWithinSight'
  <2>1. SUFFICES ASSUME NEW j \in Stored(objects)',
                        objects'[j].parent \in Stored(objects)'
                 PROVE  /\ objects'[j].from \in PartiesOf(objects'[objects'[j].parent])
                        /\ objects'[objects'[j].parent].published <= objects'[j].published
    BY DEF AttachedWithinSight, PartiesOf
  <2>2. CASE j = i
    <3>1. objects'[j] = new /\ parent # i
      BY <1>4, <1>5, <2>2
    <3>2. parent \in Stored(objects) /\ objects'[parent] = objects[parent]
      BY <1>2, <1>4, <2>1, <3>1
    <3>. QED BY <1>2, <1>7, <3>1, <3>2
  <2>3. CASE j # i
    <3>1. j \in Stored(objects) /\ objects'[j] = objects[j]
      BY <1>4, <2>1, <2>3
    <3>2. objects[j].parent # i
      BY <3>1 DEF Ordered
    <3>3. /\ objects[j].parent \in Stored(objects)
          /\ objects'[objects[j].parent] = objects[objects[j].parent]
      BY <1>4, <2>1, <3>1, <3>2
    <3>. QED BY <3>1, <3>3 DEF AttachedWithinSight
  <2>. QED BY <2>2, <2>3
<1>. QED BY <1>6, <1>8

LEMMA RemovingKeeps ==
  ASSUME TypeOK, Ordered, AttachedWithinSight, NEW t \in Tasks, ExpireRemove(t)
  PROVE  Ordered' /\ AttachedWithinSight'
<1>1. /\ UNCHANGED <<now, unused>>
      /\ \A i \in Stored(objects)' : i \in Stored(objects) /\ objects'[i] = objects[i]
  BY DEF ExpireRemove, RemoveObjects, Stored, TypeOK, Archive
<1>. QED BY <1>1 DEF Ordered, AttachedWithinSight, PartiesOf

LEMMA SameObjectsKeep ==
  ASSUME TypeOK, TypeOK', Ordered, AttachedWithinSight, UNCHANGED <<objects, unused>>,
         now <= now'
  PROVE  Ordered' /\ AttachedWithinSight'
<1>1. now \in Int /\ now' \in Int
      /\ \A i \in Stored(objects) : objects[i].published \in Int
  BY DEF TypeOK, Time, Stored, Archive, ObjectRow, Object
<1>2. \A i \in Stored(objects) : objects[i].published <= now'
  BY <1>1 DEF Ordered
<1>. QED BY <1>2 DEF Ordered, AttachedWithinSight, PartiesOf, Stored

(***************************************************************************)
(* The invariant                                                           *)
(***************************************************************************)

LEMMA OneLooksBack ==
  ASSUME TypeOK, TypeOK', Later, AllLookBack, NEW t \in Tasks,
         \E k : Await(t, k) /\ LooksBack(k)'
  PROVE  AllLookBack'
<1>1. PICK k : Await(t, k) /\ LooksBack(k)'
  OBVIOUS
<1>2. tasks'[t] = k /\ \A u \in Tasks \ {t} : tasks'[u] = tasks[u]
  BY <1>1 DEF Await, TypeOK
<1>3. ASSUME NEW u \in Tasks \ {t} PROVE LooksBack(tasks[u])'
  <2>1. PICK c \in Task : c = tasks[u]
    BY DEF TypeOK
  <2>2. LooksBack(c)'
    BY <2>1, LooksBackStays DEF AllLookBack
  <2>. QED BY <1>2, <2>1, <2>2
<1>. QED BY <1>1, <1>2, <1>3 DEF AllLookBack

LEMMA Sight ==
  ASSUME NamesAndGroupsApart
  PROVE  Spec => [](TypeOK /\ SafeInv /\ SightInv)
<1>1. Init => SightInv
  BY DEF Init, SightInv, Ordered, AttachedWithinSight, AllLookBack, LooksBack, Stored,
         Listing
<1>2. TypeOK /\ SafeInv /\ SightInv /\ TypeOK' /\ SafeInv' /\ [Next]_vars => SightInv'
  <2>1. SUFFICES ASSUME TypeOK, SafeInv, SightInv, TypeOK', SafeInv', [Next]_vars
                 PROVE  SightInv'
    OBVIOUS
  <2>2. CASE Tick \/ UNCHANGED vars
    <3>1. UNCHANGED <<actors, objects, unused, tasks>> /\ now <= now'
      BY <2>1, <2>2 DEF Tick, vars, TypeOK, Time
    <3>2. Later
      BY <3>1 DEF Later, Onward
    <3>3. AllLookBack'
      <4>1. ASSUME NEW u \in Tasks PROVE LooksBack(tasks[u])'
        <5>1. PICK c \in Task : c = tasks[u]
          BY <2>1 DEF TypeOK
        <5>2. LooksBack(c)'
          BY <2>1, <3>2, <5>1, LooksBackStays DEF SightInv, AllLookBack
        <5>. QED BY <3>1, <5>1, <5>2
      <4>. QED BY <4>1 DEF AllLookBack
    <3>. QED BY <2>1, <3>1, <3>3, SameObjectsKeep DEF SightInv
  <2>3. ASSUME NEW t \in Tasks, Call(t) PROVE SightInv'
    <3>1. Later /\ UNCHANGED <<objects, unused, now>>
      BY <2>1, <2>3, CallsAreLater
    <3>2. AllLookBack'
      BY <2>1, <2>3, <3>1, CallsHold, OneLooksBack DEF SightInv
    <3>. QED BY <2>1, <3>1, <3>2, SameObjectsKeep DEF SightInv, Later
  <2>4. ASSUME NEW t \in Tasks, Resume(t) PROVE SightInv'
    <3>1. /\ Later
          /\ UNCHANGED <<objects, unused, now>> \/ Storing(t) \/ ExpireRemove(t)
      BY <2>1, <2>4, ResumesAreLater DEF SightInv
    <3>2. AllLookBack'
      BY <2>1, <2>4, <3>1, ResumesHold, OneLooksBack DEF SightInv
    <3>3. Ordered' /\ AttachedWithinSight'
      BY <2>1, <3>1, StoringKeeps, RemovingKeeps, SameObjectsKeep DEF SightInv, Later
    <3>. QED BY <3>2, <3>3 DEF SightInv
  <2>. QED BY <2>1, <2>2, <2>3, <2>4 DEF Next
<1>. QED BY <1>1, <1>2, Safe, PTL DEF Spec

(***************************************************************************)
(* RepliesStayInSight: where no profile lists an agent's name as a group,  *)
(* whoever attached a message to another one was party to it and came      *)
(* after it, although the check is made on snapshots of both tables that   *)
(* joins, sends and a sweep may have overtaken.                            *)
(***************************************************************************)
THEOREM RepliesStayInSight ==
  ASSUME NamesAndGroupsApart
  PROVE  Spec => []AttachedWithinSight
<1>1. SightInv => AttachedWithinSight
  BY DEF SightInv
<1>. QED BY <1>1, Sight, PTL

(***************************************************************************)
(* TheLiveAreSpared: with every call free to overlap, a sweep removes no   *)
(* message younger than the retention period: its snapshot and its cutoff  *)
(* are of the same moment, and both only grow older.                       *)
(***************************************************************************)
THEOREM TheLiveAreSpared ==
  ASSUME NamesAndGroupsApart
  PROVE  Spec => ExpirySparesTheLive
<1>. DEFINE Spared == \A i \in Stored(objects) \ Stored(objects') :
                        objects[i].published + RetentionDays < now
<1>1. TypeOK /\ TypeOK' /\ SafeInv /\ SightInv /\ [Next]_vars => Spared
  <2>1. SUFFICES ASSUME TypeOK, TypeOK', SafeInv, SightInv, [Next]_vars,
                        NEW i \in Stored(objects) \ Stored(objects')
                 PROVE  objects[i].published + RetentionDays < now
    OBVIOUS
  <2>2. PICK t \in Tasks : ExpireRemove(t) \/ Storing(t)
    BY <2>1, CallsAreLater, ResumesAreLater DEF Next, Tick, vars, SightInv, Stored
  <2>3. CASE Storing(t)
    <3>1. PICK new \in Object, j \in Ids : objects' = [objects EXCEPT ![j] = new]
      <4>1. PICK caller \in Names, to \in Addresses, cc \in Addresses,
                 parent \in Ids \cup {NoParent}, acts \in Directory, j \in unused :
                   AddObject(j, NewObject(caller, to, cc, parent, acts))
        BY <2>3 DEF Storing
      <4>2. NewObject(caller, to, cc, parent, acts) \in Object
        BY <2>1, NewObjectType DEF TypeOK
      <4>. QED BY <2>1, <4>1, <4>2 DEF AddObject, TypeOK
    <3>2. i \in Stored(objects')
      BY <2>1, <3>1, MailboxAssumption DEF Stored, TypeOK, Archive
    <3>. QED BY <2>1, <3>2
  <2>4. CASE ExpireRemove(t)
    <3>1. PICK k : k = tasks[t]
      OBVIOUS
    <3>2. k \in ExpireTask /\ LooksBack(k) /\ k.op = "expire"
      BY <2>1, <2>4, <3>1, TaskShapes DEF ExpireRemove, TypeOK, SightInv, AllLookBack
    <3>3. i \in ExpiredObjectIds(k.objs, k.cutoff)
      BY <2>1, <2>4, <3>1 DEF ExpireRemove, Doomed, RemoveObjects, Stored, TypeOK, Archive
    <3>4. i \in Stored(k.objs) /\ k.objs[i].published < k.cutoff
      BY <3>3 DEF ExpiredObjectIds
    <3>5. objects[i] = k.objs[i]
      BY <2>1, <3>2, <3>4 DEF LooksBack, Snapshot, Held, Stored
    <3>6. /\ k.objs[i].published \in Int /\ k.cutoff \in Int /\ now \in Int
          /\ RetentionDays \in Int /\ k.cutoff + RetentionDays <= now
      BY <2>1, <3>2, <3>4, MailboxAssumption
      DEF LooksBack, ExpireTask, Archive, ObjectRow, Object, Stored, Time, TypeOK
    <3>. QED BY <3>4, <3>5, <3>6
  <2>. QED BY <2>2, <2>3, <2>4
<1>. QED BY <1>1, Sight, PTL DEF Spec, ExpirySparesTheLive

(***************************************************************************)
(* Steps that answer a call                                                *)
(***************************************************************************)

LEMMA ResumesAwait ==
  ASSUME NEW t \in Tasks, Resume(t)
  PROVE  \E k : Await(t, k)
BY DEF Resume, JoinRetry, TryIssued, PutProfile, SendContext, SendDecide, SendAttach, Store,
       ReadReader, VisibleActor, VisibleObject, VisibleRefused, MarkRead, ViewAnswer,
       ReplySend, StartSend, ListContext, PeekObjects, PeekAnswer, ThreadAnswer,
       ExpireRemove, Answer

\* The step in which a call is answered is the last one of its own coroutine.
LEMMA AnsweredByItself ==
  ASSUME TypeOK, [Next]_vars, NEW t \in Tasks, NEW call \in Operations, NEW code,
         Answered(t, call, code)
  PROVE  Resume(t)
<1>1. /\ tasks[t].op = call /\ call # "none" /\ call # "answered"
      /\ tasks'[t].op = "answered"
  BY DEF Answered, Operations
<1>2. tasks' # tasks
  BY <1>1
<1>3. PICK u \in Tasks : Call(u) \/ Resume(u)
  BY <1>2 DEF Next, Tick, vars
<1>4. \E k : Await(u, k)
  BY <1>3, CallsHoldLittle, ResumesAwait
<1>5. u = t
  BY <1>1, <1>4 DEF Await, TypeOK
<1>6. ~Call(t)
  BY <1>1 DEF Call, JoinNamed, JoinAs, JoinIssued, UpdateProfile, UpdateProfileAs,
         InstallResident, Send, SendAs, Reply, ReplyAs, Read, ReadAs, View, Peek, PeekAs,
         Thread, Expire, Free
<1>. QED BY <1>3, <1>5, <1>6

(***************************************************************************)
(* NobodyReadsOthersMail: what peek, thread, view and read hand over was   *)
(* sent by the caller or delivered to it, although the caller was matched  *)
(* against a table of actors and messages read at earlier awaits.          *)
(***************************************************************************)
THEOREM NobodyReadsOthersMail ==
  ASSUME NamesAndGroupsApart
  PROVE  Spec => AnswersAreOwnMail
<1>. DEFINE Own == \A t \in Tasks : \A op \in {"peek", "thread", "view", "read"} :
                     Answered(t, op, "ok") =>
                       \A i \in tasks[t]'.ids \cap Stored(objects) :
                         tasks[t].caller \in PartiesOf(objects[i])
<1>1. TypeOK /\ SafeInv /\ SightInv /\ [Next]_vars => Own
  <2>1. SUFFICES ASSUME TypeOK, SafeInv, SightInv, [Next]_vars, NEW t \in Tasks,
                        NEW op \in {"peek", "thread", "view", "read"},
                        Answered(t, op, "ok"),
                        NEW i \in tasks[t]'.ids \cap Stored(objects)
                 PROVE  tasks[t].caller \in PartiesOf(objects[i])
    OBVIOUS
  <2>2. Resume(t)
    BY <2>1, AnsweredByItself DEF Operations
  <2>3. PICK k \in Task : k = tasks[t] /\ TaskSafe(k) /\ LooksBack(k)
    BY <2>1 DEF TypeOK, SafeInv, AllSafe, SightInv, AllLookBack
  <2>4. \/ MarkRead(t) \/ ViewAnswer(t) \/ PeekAnswer(t) \/ ThreadAnswer(t)
    <3>1. /\ tasks[t].op = op /\ tasks'[t].op = "answered" /\ tasks'[t].code = "ok"
      BY <2>1 DEF Answered
    <3>2. ~(JoinRetry(t) \/ PutProfile(t) \/ SendContext(t) \/ SendDecide(t)
             \/ SendAttach(t) \/ ExpireRemove(t) \/ ReplySend(t))
      BY <3>1 DEF JoinRetry, PutProfile, SendContext, SendDecide, SendAttach,
                  ExpireRemove, ReplySend
    <3>3. ~(ReadReader(t) \/ VisibleActor(t) \/ VisibleObject(t) \/ VisibleRefused(t)
             \/ ListContext(t) \/ PeekObjects(t))
      BY <2>1, <3>1 DEF ReadReader, VisibleActor, VisibleObject, VisibleRefused,
             ListContext, PeekObjects, Answer, Await, Fetch, TypeOK, Fetching, Listing
    <3>. QED BY <2>2, <3>2, <3>3 DEF Resume
  <2>5. i \in tasks'[t].ids
    OBVIOUS
  <2>6. CASE MarkRead(t) \/ ViewAnswer(t)
    <3>1. k.op \in Fetching /\ k.at = "context" /\ MayHave(k)
      BY <2>3, <2>6 DEF MarkRead, ViewAnswer, Fetching
    <3>2. Held(k.id, k.got) /\ Past(k.acts) /\ Party(k.got, k.caller, k.acts)
      BY <2>3, <3>1 DEF TaskSafe, MayHave
    <3>3. i = k.id
      BY <2>1, <2>3, <2>5, <2>6 DEF MarkRead, ViewAnswer, Answer, Await, TypeOK
    <3>4. objects[i] = k.got
      BY <3>2, <3>3 DEF Held, Stored
    <3>5. k.caller \in PartiesOf(k.got)
      BY <2>1, <3>2, PartyStored DEF SafeInv, Held, Past
    <3>. QED BY <2>3, <3>4, <3>5
  <2>7. CASE PeekAnswer(t)
    <3>1. Snapshot(k.objs) /\ Past(k.acts)
      BY <2>3, <2>7 DEF PeekAnswer, LooksBack, Listing
    <3>2. i \in Unread(k.objs, k.caller, ReadBy(k.caller, k.objs), Joined(k.acts),
                       GroupMemberships(k.acts))
      BY <2>1, <2>3, <2>5, <2>7 DEF PeekAnswer, Answer, Await, TypeOK
    <3>3. i \in Stored(k.objs) /\ Party(k.objs[i], k.caller, k.acts)
      BY <3>2 DEF Unread, Party, IsPartyTo
    <3>4. Held(i, k.objs[i])
      BY <3>1, <3>3 DEF Snapshot
    <3>5. objects[i] = k.objs[i]
      BY <3>4 DEF Held, Stored
    <3>6. k.caller \in PartiesOf(k.objs[i])
      BY <2>1, <3>1, <3>3, <3>4, PartyStored DEF SafeInv, Held, Past
    <3>. QED BY <2>3, <3>5, <3>6
  <2>8. CASE ThreadAnswer(t)
    <3>1. Past(k.acts)
      BY <2>3, <2>8 DEF ThreadAnswer, LooksBack, Listing
    <3>2. i \in VisibleTurns(objects, k.id, k.caller, Joined(k.acts),
                             GroupMemberships(k.acts))
      BY <2>1, <2>3, <2>5, <2>8 DEF ThreadAnswer, Answer, Await, TypeOK
    <3>3. Party(objects[i], k.caller, k.acts)
      BY <3>2 DEF VisibleTurns, Party
    <3>4. Routed(objects[i])
      BY <2>1 DEF SafeInv, AllRouted
    <3>. QED BY <2>1, <2>3, <3>1, <3>3, <3>4, PartyStored DEF SafeInv, Past
  <2>. QED BY <2>4, <2>6, <2>7, <2>8
<1>. QED BY <1>1, Sight, PTL DEF Spec, AnswersAreOwnMail

(***************************************************************************)
(* IdentitiesArePermanent: an actor never disappears, changes type or is   *)
(* created again, and its profile is its own to change: the claim of a     *)
(* name is one statement that leaves an incumbent alone, and the record    *)
(* an update writes back is of an actor that was there when it was read.   *)
(***************************************************************************)
THEOREM IdentitiesArePermanent ==
  ASSUME NamesAndGroupsApart
  PROVE  Spec => IdentityPermanent
<1>. DEFINE Lasting ==
       \A n \in Joined(actors) :
         /\ n \in Joined(actors')
         /\ actors'[n].type = actors[n].type
         /\ actors'[n].created = actors[n].created
         /\ actors'[n].groups # actors[n].groups =>
              \E t \in Tasks : /\ Answered(t, "update_profile", "ok")
                               /\ tasks[t].caller = n
<1>1. TypeOK /\ SafeInv /\ [Next]_vars => Lasting
  <2>. DEFINE Lasts(n) ==
         /\ n \in Joined(actors')
         /\ actors'[n].type = actors[n].type
         /\ actors'[n].created = actors[n].created
         /\ actors'[n].groups # actors[n].groups =>
              \E t \in Tasks : Answered(t, "update_profile", "ok") /\ tasks[t].caller = n
  <2>1. SUFFICES ASSUME TypeOK, SafeInv, [Next]_vars, NEW n \in Joined(actors)
                 PROVE  Lasts(n)
    OBVIOUS
  <2>2. actors \in [Names -> ActorRow] /\ n \in Names /\ actors[n] # NoActor
    BY <2>1 DEF TypeOK, Directory, Joined
  <2>3. CASE UNCHANGED actors
    BY <2>1, <2>3
  <2>4. ASSUME NEW m \in Agents, NEW created, ClaimName(m, {}, created)
        PROVE  Lasts(n)
    <3>1. actors'[n] = actors[n] /\ n \in Joined(actors')
      BY <2>2, <2>4 DEF ClaimName, Joined
    <3>. QED BY <3>1
  <2>5. ASSUME NEW t \in Tasks, PutProfile(t), tasks[t].found # NoActor
        PROVE  Lasts(n)
    <3>1. /\ tasks[t] \in ProfileTask /\ tasks[t].found.type = "Service"
          /\ Joined(actors) \subseteq Joined(actors')
      BY <2>1, <2>5, TaskShapes, PutSafe
      DEF PutProfile, TypeOK, SafeInv, AllSafe, TaskSafe
    <3>2. PutActor(tasks[t].caller, "Service", tasks[t].profile, tasks[t].found.created)
      BY <2>5, <3>1 DEF PutProfile
    <3>3. CASE n # tasks[t].caller
      <4>1. actors'[n] = actors[n]
        BY <2>2, <3>2, <3>3 DEF PutActor
      <4>. QED BY <2>1, <3>1, <4>1
    <3>4. CASE n = tasks[t].caller
      <4>1. actors' = [actors EXCEPT ![n] = [type |-> "Service",
                         groups |-> tasks[t].profile, created |-> actors[n].created]]
        BY <2>2, <3>2, <3>4 DEF PutActor
      <4>2. actors'[n].type = "Service" /\ actors'[n].created = actors[n].created
        BY <2>2, <4>1
      <4>3. actors[n].type = "Service"
        BY <2>1 DEF SafeInv, AllPlain, Plain
      <4>4. Answered(t, "update_profile", "ok")
        BY <2>1, <2>5 DEF PutProfile, Answer, Await, Answered, TypeOK
      <4>. QED BY <2>1, <3>1, <3>4, <4>2, <4>3, <4>4
    <3>. QED BY <3>3, <3>4
  <2>6. \/ UNCHANGED actors
        \/ \E m \in Agents : \E created : ClaimName(m, {}, created)
        \/ \E t \in Tasks : PutProfile(t) /\ tasks[t].found # NoActor
    <3>1. ASSUME NEW t \in Tasks, Call(t)
          PROVE  \/ UNCHANGED actors
                 \/ \E m \in Agents : \E created : ClaimName(m, {}, created)
      BY <3>1 DEF Call, JoinNamed, JoinAs, JoinIssued, TryIssued, UpdateProfile,
             UpdateProfileAs, InstallResident, Send, SendAs, Reply, ReplyAs, Read, ReadAs,
             View, Peek, PeekAs, Thread, Expire, Agents
    <3>2. ASSUME NEW t \in Tasks, Resume(t), ~PutProfile(t), ~JoinRetry(t)
          PROVE  UNCHANGED actors
      BY <3>2 DEF Resume, SendContext, SendDecide, SendAttach, ReadReader, VisibleActor,
             VisibleObject, VisibleRefused, MarkRead, ViewAnswer, ReplySend, ListContext,
             PeekObjects, PeekAnswer, ThreadAnswer, ExpireRemove
    <3>3. ASSUME NEW t \in Tasks, JoinRetry(t)
          PROVE  \E m \in Agents : \E created : ClaimName(m, {}, created)
      BY <3>3 DEF JoinRetry, TryIssued, Agents
    <3>4. ASSUME NEW t \in Tasks, PutProfile(t)
          PROVE  UNCHANGED actors \/ tasks[t].found # NoActor
      BY <3>4 DEF PutProfile
    <3>5. CASE Tick \/ UNCHANGED vars
      BY <3>5 DEF Tick, vars
    <3>. QED BY <2>1, <3>1, <3>2, <3>3, <3>4, <3>5 DEF Next
  <2>. QED BY <2>3, <2>4, <2>5, <2>6
<1>. QED BY <1>1, Sight, PTL DEF Spec, IdentityPermanent

(***************************************************************************)
(* Conversations are trees, and what a sweep leaves of them.               *)
(*                                                                         *)
(* ThreadRoot is a recursive function, and induction over data is done by  *)
(* hand: that the function exists is shown from the sets of positions its  *)
(* walk passes, and what holds of every message is shown at a message of a *)
(* counterexample set whose parent is not in the set, which is what being  *)
(* acyclic gives.  The test for a message met twice then never decides,    *)
(* and the root of a message is the root of its parent.                    *)
(***************************************************************************)

(***************************************************************************)
(* The walk up in_reply_to                                                 *)
(***************************************************************************)

Ways(objs) == (SUBSET Stored(objs)) \X Stored(objs)
Ends(objs, way) == way[2] \in way[1] \/ objs[way[2]].parent \notin Stored(objs)
Up(objs, way) == <<way[1] \cup {way[2]}, objs[way[2]].parent>>

Walks(objs, walk) ==
  walk = [way \in Ways(objs) |-> IF Ends(objs, way) THEN way[2] ELSE walk[Up(objs, way)]]
Walk(objs) == CHOOSE walk : Walks(objs, walk)

LEMMA RootIsWalked ==
  ASSUME NEW objs, NEW id \in Stored(objs)
  PROVE  ThreadRoot(objs, id) = Walk(objs)[<<{}, id>>]
BY DEF ThreadRoot, Walk, Walks, Ways, Ends, Up

\* The positions a walk passes, without walking: those in every set that has the
\* first one and each next one.
Passing(objs, ways) == \A way \in ways : Ends(objs, way) \/ Up(objs, way) \in ways
Passed(objs, way) ==
  {z \in Ways(objs) :
     \A ways \in SUBSET Ways(objs) : way \in ways /\ Passing(objs, ways) => z \in ways}
Last(objs, way) == {z \in Passed(objs, way) : Ends(objs, z)}

LEMMA UpIsWay ==
  ASSUME NEW objs, NEW way \in Ways(objs), ~Ends(objs, way)
  PROVE  Up(objs, way) \in Ways(objs)
BY DEF Ways, Ends, Up

LEMMA LastAtEnd ==
  ASSUME NEW objs, NEW way \in Ways(objs), Ends(objs, way)
  PROVE  Last(objs, way) = {way}
<1>1. Passing(objs, {way}) /\ {way} \in SUBSET Ways(objs)
  BY DEF Passing
<1>2. Passed(objs, way) \subseteq {way}
  BY <1>1 DEF Passed
<1>3. way \in Passed(objs, way)
  BY DEF Passed
<1>. QED BY <1>2, <1>3 DEF Last

LEMMA LastOnTheWay ==
  ASSUME NEW objs, NEW way \in Ways(objs), ~Ends(objs, way)
  PROVE  Last(objs, way) = Last(objs, Up(objs, way))
<1>. DEFINE up == Up(objs, way)
            Rest == Passed(objs, up)
<1>1. up \in Ways(objs)
  BY UpIsWay
<1>. HIDE DEF up
<1>2. Rest \subseteq Passed(objs, way)
  <2>1. \A ways : way \in ways /\ Passing(objs, ways) => up \in ways
    BY DEF Passing, up
  <2>. QED BY <2>1 DEF Passed
<1>3. Passing(objs, Rest)
  <2>1. ASSUME NEW z \in Rest, ~Ends(objs, z) PROVE Up(objs, z) \in Rest
    <3>1. Up(objs, z) \in Ways(objs)
      BY <2>1, UpIsWay DEF Passed
    <3>2. ASSUME NEW ways \in SUBSET Ways(objs), up \in ways, Passing(objs, ways)
          PROVE  Up(objs, z) \in ways
      <4>1. z \in ways
        BY <3>2 DEF Passed
      <4>. QED BY <2>1, <3>2, <4>1 DEF Passing
    <3>. QED BY <3>1, <3>2 DEF Passed
  <2>. QED BY <2>1 DEF Passing
<1>4. up \in Rest
  BY <1>1 DEF Passed
<1>5. Passing(objs, {way} \cup Rest) /\ {way} \cup Rest \in SUBSET Ways(objs)
  BY <1>3, <1>4 DEF Passing, Passed, up
<1>6. Passed(objs, way) \subseteq {way} \cup Rest
  BY <1>5 DEF Passed
<1>. QED BY <1>2, <1>6 DEF Last, up

\* There is a function that walks: it answers with where the positions passed end.
LEMMA WalkExists ==
  ASSUME NEW objs
  PROVE  Walks(objs, Walk(objs))
<1>. DEFINE End(way) == (CHOOSE z : z \in Last(objs, way))[2]
            walk == [way \in Ways(objs) |-> End(way)]
<1>1. ASSUME NEW way \in Ways(objs)
      PROVE  walk[way] = IF Ends(objs, way) THEN way[2] ELSE walk[Up(objs, way)]
  <2>1. CASE Ends(objs, way)
    <3>1. Last(objs, way) = {way}
      BY <2>1, LastAtEnd
    <3>2. (CHOOSE z : z \in {way}) = way
      OBVIOUS
    <3>. QED BY <2>1, <3>1, <3>2
  <2>2. CASE ~Ends(objs, way)
    <3>1. Last(objs, way) = Last(objs, Up(objs, way)) /\ Up(objs, way) \in Ways(objs)
      BY <2>2, LastOnTheWay, UpIsWay
    <3>. QED BY <2>2, <3>1
  <2>. QED BY <2>1, <2>2
<1>2. Walks(objs, walk)
  <2>1. \A way \in Ways(objs) :
          End(way) = IF Ends(objs, way) THEN way[2] ELSE walk[Up(objs, way)]
    BY <1>1
  <2>. HIDE DEF End
  <2>2. walk = [way \in Ways(objs) |->
                 IF Ends(objs, way) THEN way[2] ELSE walk[Up(objs, way)]]
    BY <2>1
  <2>. QED BY <2>2 DEF Walks
<1>. QED BY <1>2, Zenon DEF Walk

LEMMA WalkStep ==
  ASSUME NEW objs, NEW way \in Ways(objs)
  PROVE  Walk(objs)[way] = IF Ends(objs, way) THEN way[2]
                           ELSE Walk(objs)[Up(objs, way)]
BY WalkExists, Zenon DEF Walks
(***************************************************************************)
(* Roots when no message is among its own ancestors                        *)
(***************************************************************************)

\* Every set of messages has one whose parent is outside it.
Acyclic(objs) ==
  \A ids \in SUBSET Stored(objs) : ids # {} => \E i \in ids : objs[i].parent \notin ids

\* A message and its ancestors: what every set that climbs from it has.
Climbing(objs, ids) ==
  \A i \in ids : objs[i].parent \in Stored(objs) => objs[i].parent \in ids
Above(objs, i) ==
  {j \in Stored(objs) :
     \A ids \in SUBSET Stored(objs) : i \in ids /\ Climbing(objs, ids) => j \in ids}

LEMMA AboveParent ==
  ASSUME NEW objs, NEW i \in Stored(objs)
  PROVE  /\ i \in Above(objs, i)
         /\ objs[i].parent \notin Stored(objs) => Above(objs, i) = {i}
         /\ objs[i].parent \in Stored(objs) =>
              Above(objs, i) = {i} \cup Above(objs, objs[i].parent)
<1>1. i \in Above(objs, i)
  BY DEF Above
<1>2. ASSUME objs[i].parent \notin Stored(objs) PROVE Above(objs, i) = {i}
  <2>1. Climbing(objs, {i})
    BY <1>2 DEF Climbing
  <2>. QED BY <1>1, <2>1 DEF Above
<1>3. ASSUME objs[i].parent \in Stored(objs)
      PROVE  Above(objs, i) = {i} \cup Above(objs, objs[i].parent)
  <2>1. PICK p \in Stored(objs) : p = objs[i].parent
    BY <1>3
  <2>2. Above(objs, p) \subseteq Above(objs, i)
    <3>1. \A ids : i \in ids /\ Climbing(objs, ids) => p \in ids
      BY <2>1 DEF Climbing
    <3>. QED BY <3>1 DEF Above
  <2>3. Climbing(objs, Above(objs, p)) /\ p \in Above(objs, p)
    <3>1. ASSUME NEW j \in Above(objs, p), objs[j].parent \in Stored(objs),
                 NEW ids \in SUBSET Stored(objs), p \in ids, Climbing(objs, ids)
          PROVE  objs[j].parent \in ids
      <4>1. j \in ids
        BY <3>1 DEF Above
      <4>. QED BY <3>1, <4>1 DEF Climbing
    <3>2. Climbing(objs, Above(objs, p))
      BY <3>1 DEF Climbing, Above
    <3>. QED BY <3>2 DEF Above
  <2>4. Climbing(objs, {i} \cup Above(objs, p))
    BY <2>1, <2>3 DEF Climbing
  <2>5. {i} \cup Above(objs, p) \in SUBSET Stored(objs)
    BY DEF Above
  <2>6. Above(objs, i) \subseteq {i} \cup Above(objs, p)
    BY <2>4, <2>5 DEF Above
  <2>. QED BY <1>1, <2>1, <2>2, <2>6
<1>. QED BY <1>1, <1>2, <1>3

LEMMA NotItsOwnAncestor ==
  ASSUME NEW objs, Acyclic(objs), NEW i \in Stored(objs), NEW p \in Stored(objs),
         p = objs[i].parent
  PROVE  i \notin Above(objs, p)
<1>1. SUFFICES ASSUME i \in Above(objs, p) PROVE FALSE
  OBVIOUS
<1>. DEFINE Loop == {x \in Stored(objs) : i \in Above(objs, x)}
<1>2. ASSUME NEW x \in Loop PROVE objs[x].parent \in Loop
  <2>1. CASE x = i
    BY <1>1, <2>1
  <2>2. CASE x # i
    BY <1>2, <2>2, AboveParent
  <2>. QED BY <2>1, <2>2
<1>3. i \in Loop
  BY AboveParent
<1>. HIDE DEF Loop
<1>4. Loop \in SUBSET Stored(objs)
  BY DEF Loop
<1>. QED BY <1>2, <1>3, <1>4 DEF Acyclic

\* What has been seen decides nothing while it is not among the ancestors.
LEMMA SeenElsewhere ==
  ASSUME NEW objs, Acyclic(objs), NEW i \in Stored(objs),
         NEW seen \in SUBSET Stored(objs), NEW other \in SUBSET Stored(objs),
         seen \cap Above(objs, i) = {}, other \cap Above(objs, i) = {}
  PROVE  Walk(objs)[<<seen, i>>] = Walk(objs)[<<other, i>>]
<1>. DEFINE Clear(s, c) == s \in SUBSET Stored(objs) /\ s \cap Above(objs, c) = {}
            Same(c) == \A s, o : Clear(s, c) /\ Clear(o, c) =>
                                   Walk(objs)[<<s, c>>] = Walk(objs)[<<o, c>>]
            Bad == {c \in Stored(objs) : ~Same(c)}
<1>1. ASSUME NEW c \in Stored(objs), objs[c].parent \notin Bad PROVE Same(c)
  <2>1. SUFFICES ASSUME NEW s, NEW o, Clear(s, c), Clear(o, c)
                 PROVE  Walk(objs)[<<s, c>>] = Walk(objs)[<<o, c>>]
    OBVIOUS
  <2>2. <<s, c>> \in Ways(objs) /\ <<o, c>> \in Ways(objs)
    BY <2>1 DEF Ways
  <2>3. c \notin s /\ c \notin o
    BY <2>1, AboveParent
  <2>4. CASE objs[c].parent \notin Stored(objs)
    BY <2>2, <2>4, WalkStep DEF Ends
  <2>5. CASE objs[c].parent \in Stored(objs)
    <3>1. PICK p \in Stored(objs) : p = objs[c].parent
      BY <2>5
    <3>2. /\ Walk(objs)[<<s, c>>] = Walk(objs)[<<s \cup {c}, p>>]
          /\ Walk(objs)[<<o, c>>] = Walk(objs)[<<o \cup {c}, p>>]
      BY <2>2, <2>3, <3>1, WalkStep DEF Ends, Up
    <3>3. Clear(s \cup {c}, p) /\ Clear(o \cup {c}, p)
      BY <2>1, <3>1, AboveParent, NotItsOwnAncestor
    <3>4. Same(p)
      BY <1>1, <3>1
    <3>. QED BY <3>2, <3>3, <3>4
  <2>. QED BY <2>4, <2>5
<1>. HIDE DEF Same
<1>2. Bad = {}
  <2>1. Bad \in SUBSET Stored(objs)
    OBVIOUS
  <2>2. \A c \in Bad : objs[c].parent \in Bad
    BY <1>1
  <2>. HIDE DEF Bad
  <2>. QED BY <2>1, <2>2 DEF Acyclic
<1>3. Same(i)
  BY <1>2
<1>. QED BY <1>3 DEF Same

\* The root of a message is the root of its parent.
LEMMA RootOfParent ==
  ASSUME NEW objs, Acyclic(objs), NEW i \in Stored(objs)
  PROVE  ThreadRoot(objs, i) = IF objs[i].parent \in Stored(objs)
                               THEN ThreadRoot(objs, objs[i].parent) ELSE i
<1>1. <<{}, i>> \in Ways(objs) /\ ThreadRoot(objs, i) = Walk(objs)[<<{}, i>>]
  BY RootIsWalked DEF Ways
<1>2. CASE objs[i].parent \notin Stored(objs)
  BY <1>1, <1>2, WalkStep DEF Ends
<1>3. CASE objs[i].parent \in Stored(objs)
  <2>1. PICK p \in Stored(objs) : p = objs[i].parent
    BY <1>3
  <2>2. Walk(objs)[<<{}, i>>] = Walk(objs)[<<{i}, p>>]
    BY <1>1, <2>1, WalkStep DEF Ends, Up
  <2>3. Walk(objs)[<<{i}, p>>] = Walk(objs)[<<{}, p>>]
    BY <2>1, NotItsOwnAncestor, SeenElsewhere
  <2>. QED BY <1>1, <1>3, <2>1, <2>2, <2>3, RootIsWalked
<1>. QED BY <1>2, <1>3

LEMMA RootsAreRoots ==
  ASSUME NEW objs, Acyclic(objs), NEW i \in Stored(objs)
  PROVE  /\ ThreadRoot(objs, i) \in Stored(objs)
         /\ objs[ThreadRoot(objs, i)].parent \notin Stored(objs)
<1>. DEFINE Good(c) == /\ ThreadRoot(objs, c) \in Stored(objs)
                       /\ objs[ThreadRoot(objs, c)].parent \notin Stored(objs)
            Bad == {c \in Stored(objs) : ~Good(c)}
<1>1. \A c \in Bad : objs[c].parent \in Bad
  <2>1. SUFFICES ASSUME NEW c \in Stored(objs), objs[c].parent \notin Bad PROVE Good(c)
    OBVIOUS
  <2>. QED BY <2>1, RootOfParent
<1>2. Bad \in SUBSET Stored(objs)
  OBVIOUS
<1>. HIDE DEF Bad
<1>3. Bad = {}
  BY <1>1, <1>2 DEF Acyclic
<1>. QED BY <1>3 DEF Bad
(***************************************************************************)
(* What no step changes                                                    *)
(***************************************************************************)

\* No id is drawn twice: what is stored under one is there or gone for good.
Drawn(objs) == Stored(objs) \cap unused = {}

\* A sweep's snapshot has every stored parent of what it saw.
Sees(objs) ==
  /\ Acyclic(objs) /\ Drawn(objs)
  /\ \A i \in Stored(objs) :
       /\ objs[i].parent \notin unused
       /\ objs[i].parent \in Stored(objects) => objs[i].parent \in Stored(objs)
       /\ i \in Stored(objects) => objects[i] = objs[i]

Minds(k) ==
  /\ (k.op = "send" /\ k.at = "thread") => Drawn(k.objs)
  /\ k.op = "expire" => Sees(k.objs)

AllMind == \A t \in Tasks : Minds(tasks[t])

\* The tables as they are make a good snapshot of themselves.
TreeInv == Sees(objects) /\ AllMind

\* Ids are drawn, and messages removed.
Aging ==
  /\ unused' \subseteq unused
  /\ \A i \in Ids \ unused : objects'[i] \in {objects[i], NoObject}

\* A message is stored under an id just drawn, which nothing stored answers.
Filing ==
  \E i, new : /\ i \in unused /\ unused' = unused \ {i}
              /\ objects' = [objects EXCEPT ![i] = new]
              /\ new.parent \notin unused

LEMMA SeesStays ==
  ASSUME TypeOK, TypeOK', Aging, NEW objs \in Archive
  PROVE  /\ Drawn(objs) => Drawn(objs)'
         /\ Sees(objs) => Sees(objs)'
<1>1. Drawn(objs) => Drawn(objs)'
  BY DEF Drawn, Aging
<1>2. ASSUME Sees(objs) PROVE Sees(objs)'
  <2>1. ASSUME NEW i \in Ids \ unused, i \in Stored(objects)'
        PROVE  i \in Stored(objects) /\ objects'[i] = objects[i]
    BY <2>1 DEF Aging, Stored, TypeOK, Archive
  <2>2. Stored(objs) \subseteq Ids \ unused /\ Stored(objects)' \subseteq Ids
    BY <1>2 DEF Sees, Drawn, Stored, Archive, TypeOK
  <2>3. ASSUME NEW i \in Stored(objs)
        PROVE  /\ objs[i].parent \notin unused'
               /\ objs[i].parent \in Stored(objects)' => objs[i].parent \in Stored(objs)
               /\ i \in Stored(objects)' => objects'[i] = objs[i]
    BY <1>2, <2>1, <2>2 DEF Sees, Aging
  <2>. QED BY <1>1, <1>2, <2>3 DEF Sees
<1>. QED BY <1>1, <1>2

LEMMA MindsStays ==
  ASSUME TypeOK, TypeOK', Aging, NEW k \in Task, Minds(k)
  PROVE  Minds(k)'
<1>1. (k.op = "send" /\ k.at = "thread") => k.objs \in Archive
  BY TaskShapes DEF SendAtThread
<1>2. k.op = "expire" => k.objs \in Archive
  BY TaskShapes DEF ExpireTask
<1>. QED BY <1>1, <1>2, SeesStays DEF Minds

LEMMA FilingKeeps ==
  ASSUME TypeOK, TypeOK', Sees(objects), Filing
  PROVE  Sees(objects)' /\ Aging
<1>1. PICK i, new : /\ i \in unused /\ unused' = unused \ {i}
                    /\ objects' = [objects EXCEPT ![i] = new]
                    /\ new.parent \notin unused
  BY DEF Filing
<1>2. i \in Ids /\ \A j \in Ids \ {i} : objects'[j] = objects[j]
  BY <1>1 DEF TypeOK, Archive
<1>3. \A j \in Stored(objects)' :
        \/ j = i /\ objects'[j] = new
        \/ j # i /\ j \in Stored(objects) /\ objects'[j] = objects[j]
  BY <1>1, <1>2 DEF Stored, TypeOK, Archive
<1>4. Aging
  BY <1>1, <1>2 DEF Aging, TypeOK
<1>5. Drawn(objects)'
  BY <1>1, <1>3 DEF Drawn, Sees
<1>6. \A j \in Stored(objects)' : objects'[j].parent \notin unused
  BY <1>1, <1>3 DEF Sees
<1>7. ASSUME NEW ids \in SUBSET Stored(objects)', ids # {}
      PROVE  \E j \in ids : objects'[j].parent \notin ids
  <2>1. CASE ids \subseteq {i}
    BY <1>1, <1>6, <1>7, <2>1
  <2>2. CASE ~(ids \subseteq {i})
    <3>1. ids \ {i} \in SUBSET Stored(objects) /\ ids \ {i} # {}
      BY <1>3, <2>2
    <3>2. PICK j \in ids \ {i} : objects[j].parent \notin ids \ {i}
      BY <3>1 DEF Sees, Acyclic
    <3>3. j \in Stored(objects)' /\ j # i
      BY <1>7, <3>2
    <3>4. objects'[j] = objects[j]
      BY <1>3, <3>3
    <3>5. objects'[j].parent # i
      BY <1>1, <1>6, <3>3
    <3>. QED BY <3>2, <3>4, <3>5
  <2>. QED BY <2>1, <2>2
<1>8. Acyclic(objects)'
  BY <1>7 DEF Acyclic
<1>9. \A j \in Stored(objects)' : objects'[j].parent \notin unused'
  BY <1>1, <1>6
<1>. QED BY <1>4, <1>5, <1>8, <1>9 DEF Sees

LEMMA RemovingKeepsTrees ==
  ASSUME TypeOK, Sees(objects), NEW t \in Tasks, ExpireRemove(t)
  PROVE  Sees(objects)' /\ Aging
<1>1. /\ UNCHANGED unused
      /\ \A i \in Ids : objects'[i] \in {objects[i], NoObject}
      /\ \A i \in Stored(objects)' : i \in Stored(objects) /\ objects'[i] = objects[i]
  BY DEF ExpireRemove, RemoveObjects, Stored, TypeOK, Archive
<1>2. Aging
  BY <1>1 DEF Aging
<1>3. ASSUME NEW ids \in SUBSET Stored(objects)', ids # {}
      PROVE  \E j \in ids : objects'[j].parent \notin ids
  <2>1. ids \in SUBSET Stored(objects)
    BY <1>1
  <2>. QED BY <1>1, <1>3, <2>1 DEF Sees, Acyclic
<1>4. Acyclic(objects)'
  BY <1>3 DEF Acyclic
<1>. QED BY <1>1, <1>2, <1>4 DEF Sees, Drawn

(***************************************************************************)
(* Steps                                                                   *)
(***************************************************************************)

LEMMA SendsFile ==
  ASSUME TypeOK, AllMind, NEW t \in Tasks, SendDecide(t) \/ SendAttach(t)
  PROVE  UNCHANGED <<objects, unused>> \/ Filing
<1>1. tasks[t] \in Task /\ Minds(tasks[t])
  BY DEF TypeOK, AllMind
<1>2. ASSUME NEW parent, parent \notin unused, Store(t, tasks[t], parent) PROVE Filing
  <2>1. PICK k : k = tasks[t]
    OBVIOUS
  <2>2. PICK new : /\ new = NewObject(k.caller, k.to, k.cc, parent, k.acts)
                   /\ new.parent = parent
    BY NewObjectFields
  <2>. QED BY <1>2, <2>1, <2>2 DEF Store, AddObject, Filing
<1>3. NoParent \notin unused
  BY MailboxAssumption DEF TypeOK
<1>4. CASE SendDecide(t)
  BY <1>2, <1>3, <1>4 DEF SendDecide
<1>5. CASE SendAttach(t)
  <2>1. PICK parent : /\ Store(t, tasks[t], parent)
                      /\ parent = NoParent \/ parent \in Stored(tasks[t].objs)
    BY <1>5 DEF SendAttach, MayAttachTo
  <2>2. Drawn(tasks[t].objs)
    BY <1>1, <1>5 DEF SendAttach, Minds
  <2>. QED BY <1>2, <1>3, <2>1, <2>2 DEF Drawn
<1>. QED BY <1>4, <1>5

LEMMA StepsOnTrees ==
  ASSUME TypeOK, AllMind, [Next]_vars
  PROVE  UNCHANGED <<objects, unused>> \/ Filing \/ \E t \in Tasks : ExpireRemove(t)
<1>1. CASE Tick \/ UNCHANGED vars
  BY <1>1 DEF Tick, vars
<1>2. ASSUME NEW t \in Tasks, Call(t) PROVE UNCHANGED <<objects, unused>>
  BY <1>2 DEF Call, JoinNamed, JoinAs, JoinIssued, UpdateProfile, UpdateProfileAs,
         InstallResident, Send, SendAs, Reply, ReplyAs, Read, ReadAs, View, Peek, PeekAs,
         Thread, Expire
<1>3. ASSUME NEW t \in Tasks,
             \/ JoinRetry(t) \/ PutProfile(t) \/ SendContext(t) \/ ReadReader(t)
             \/ VisibleActor(t) \/ VisibleObject(t) \/ VisibleRefused(t) \/ MarkRead(t)
             \/ ViewAnswer(t) \/ ReplySend(t) \/ ListContext(t) \/ PeekObjects(t)
             \/ PeekAnswer(t) \/ ThreadAnswer(t)
      PROVE  UNCHANGED <<objects, unused>>
  BY <1>3 DEF JoinRetry, PutProfile, SendContext, ReadReader, VisibleActor, VisibleObject,
              VisibleRefused, MarkRead, ViewAnswer, ReplySend, ListContext, PeekObjects,
              PeekAnswer, ThreadAnswer
<1>. QED BY <1>1, <1>2, <1>3, SendsFile DEF Next, Resume

\* A coroutine that is resumed takes a snapshot for a send on a thread only.
LEMMA ResumesTakeNoSweep ==
  ASSUME NEW t \in Tasks, Resume(t)
  PROVE  \E k : /\ Await(t, k) /\ k.op # "expire"
                /\ (k.op = "send" /\ k.at = "thread") => k.objs = objects
<1>. DEFINE Fine == \E k : /\ Await(t, k) /\ k.op # "expire"
                           /\ (k.op = "send" /\ k.at = "thread") => k.objs = objects
<1>1. ASSUME NEW call, NEW code, NEW ids, Answer(t, call, code, ids) PROVE Fine
  BY <1>1 DEF Answer
<1>2. CASE JoinRetry(t) \/ PutProfile(t)
  BY <1>1, <1>2 DEF JoinRetry, TryIssued, PutProfile
<1>3. CASE SendContext(t)
  BY <1>1, <1>3 DEF SendContext
<1>4. CASE ReplySend(t)
  BY <1>4 DEF ReplySend, StartSend
<1>5. CASE SendDecide(t)
  BY <1>1, <1>5 DEF SendDecide, Store
<1>6. CASE SendAttach(t) \/ ExpireRemove(t) \/ MarkRead(t) \/ ViewAnswer(t)
           \/ VisibleRefused(t) \/ PeekAnswer(t) \/ ThreadAnswer(t)
  BY <1>1, <1>6 DEF SendAttach, Store, ExpireRemove, MarkRead, ViewAnswer,
                    VisibleRefused, PeekAnswer, ThreadAnswer
<1>7. CASE ReadReader(t)
  BY <1>1, <1>7 DEF ReadReader, Fetch
<1>8. CASE VisibleActor(t) \/ VisibleObject(t)
  BY <1>1, <1>8 DEF VisibleActor, VisibleObject, Fetching
<1>9. CASE ListContext(t) \/ PeekObjects(t)
  BY <1>1, <1>9 DEF ListContext, PeekObjects, Listing
<1>. QED BY <1>2, <1>3, <1>4, <1>5, <1>6, <1>7, <1>8, <1>9 DEF Resume

LEMMA MindsNext ==
  ASSUME TypeOK, TypeOK', TreeInv, [Next]_vars, Aging
  PROVE  AllMind'
<1>1. PICK objs \in Archive : objs = objects
  BY DEF TypeOK
<1>2. Sees(objs)' /\ Drawn(objs)'
  BY <1>1, SeesStays DEF TreeInv, Sees
<1>3. ASSUME NEW t \in Tasks, UNCHANGED tasks[t] PROVE Minds(tasks[t])'
  <2>1. PICK k \in Task : k = tasks[t]
    BY DEF TypeOK
  <2>2. Minds(k)'
    BY <2>1, MindsStays DEF TreeInv, AllMind
  <2>. QED BY <1>3, <2>1, <2>2
<1>4. ASSUME NEW t \in Tasks, Call(t) \/ Resume(t) PROVE AllMind'
  <2>1. \E k : /\ Await(t, k)
               /\ (k.op = "send" /\ k.at = "thread") \/ k.op = "expire" => k.objs = objects
    BY <1>4, CallsHoldLittle, ResumesTakeNoSweep DEF Blank
  <2>2. PICK k : /\ Await(t, k)
                 /\ (k.op = "send" /\ k.at = "thread") \/ k.op = "expire" => k.objs = objs
    BY <1>1, <2>1
  <2>3. Minds(k)'
    BY <1>2, <2>2 DEF Minds
  <2>4. tasks'[t] = k /\ \A u \in Tasks \ {t} : tasks'[u] = tasks[u]
    BY <2>2 DEF Await, TypeOK
  <2>. QED BY <1>3, <2>3, <2>4 DEF AllMind
<1>5. CASE Tick \/ UNCHANGED vars
  BY <1>3, <1>5 DEF Tick, vars, AllMind
<1>. QED BY <1>4, <1>5 DEF Next

LEMMA Trees == Spec => [](TypeOK /\ TreeInv)
<1>1. Init => TreeInv
  BY DEF Init, TreeInv, Sees, Acyclic, Drawn, AllMind, Minds, Stored
<1>2. TypeOK /\ TypeOK' /\ TreeInv /\ [Next]_vars => TreeInv'
  <2>1. SUFFICES ASSUME TypeOK, TypeOK', TreeInv, [Next]_vars PROVE TreeInv'
    OBVIOUS
  <2>2. ASSUME UNCHANGED <<objects, unused>> PROVE Sees(objects)' /\ Aging
    BY <2>1, <2>2 DEF TreeInv, Sees, Acyclic, Drawn, Stored, Aging
  <2>3. Sees(objects)' /\ Aging
    BY <2>1, <2>2, StepsOnTrees, FilingKeeps, RemovingKeepsTrees DEF TreeInv
  <2>. QED BY <2>1, <2>3, MindsNext DEF TreeInv
<1>. QED BY <1>1, <1>2, TypesHold, PTL DEF Spec

(***************************************************************************)
(* ConversationsAreTrees: following in_reply_to from any stored message    *)
(* ends at one whose parent is not stored, whatever is sent and swept      *)
(* meanwhile: a reply is attached to a message that was stored before the  *)
(* id of the reply was drawn.                                              *)
(***************************************************************************)
THEOREM ConversationsAreTrees == Spec => []ThreadsAreTrees
<1>1. TreeInv => ThreadsAreTrees
  BY RootsAreRoots DEF TreeInv, Sees, ThreadsAreTrees
<1>. QED BY <1>1, Trees, PTL

(***************************************************************************)
(* Sweeps                                                                  *)
(***************************************************************************)

\* Messages the snapshot has of one stored conversation are one conversation there.
LEMMA SeenTogether ==
  ASSUME Sees(objects), NEW objs, Sees(objs),
         NEW i \in Stored(objects) \cap Stored(objs)
  PROVE  ThreadRoot(objs, i) = ThreadRoot(objs, ThreadRoot(objects, i))
<1>. DEFINE Good(c) == ThreadRoot(objs, c) = ThreadRoot(objs, ThreadRoot(objects, c))
            Bad == {c \in Stored(objects) \cap Stored(objs) : ~Good(c)}
<1>1. \A c \in Bad : objects[c].parent \in Bad
  <2>1. SUFFICES ASSUME NEW c \in Stored(objects) \cap Stored(objs),
                        objects[c].parent \notin Bad
                 PROVE  Good(c)
    OBVIOUS
  <2>2. objects[c] = objs[c] /\ Acyclic(objs) /\ Acyclic(objects)
    BY DEF Sees
  <2>3. CASE objects[c].parent \notin Stored(objects)
    BY <2>2, <2>3, RootOfParent
  <2>4. CASE objects[c].parent \in Stored(objects)
    <3>1. objects[c].parent \in Stored(objs)
      BY <2>2, <2>4 DEF Sees
    <3>2. Good(objects[c].parent)
      BY <2>1, <2>4, <3>1
    <3>. QED BY <2>2, <2>4, <3>1, <3>2, RootOfParent
  <2>. QED BY <2>3, <2>4
<1>2. Bad \in SUBSET Stored(objects)
  OBVIOUS
<1>. HIDE DEF Bad
<1>3. Bad = {}
  BY <1>1, <1>2 DEF Sees, Acyclic
<1>. QED BY <1>3 DEF Bad

\* What a sweep sees of a conversation it dooms whole.
LEMMA DoomedTogether ==
  ASSUME NEW objs, NEW cutoff, NEW i \in ExpiredObjectIds(objs, cutoff),
         NEW j \in Stored(objs), ThreadRoot(objs, i) = ThreadRoot(objs, j)
  PROVE  j \in ExpiredObjectIds(objs, cutoff)
BY DEF ExpiredObjectIds

\* The messages of a removal are the sweep's.
LEMMA RemovedAreDoomed ==
  ASSUME TypeOK, NEW t \in Tasks, ExpireRemove(t)
  PROVE  \A i \in Stored(objects) :
           i \in Stored(objects') <=> i \notin Doomed(tasks[t])
BY MailboxAssumption DEF ExpireRemove, RemoveObjects, Stored, TypeOK, Archive

(***************************************************************************)
(* SweepsSplitNothingTheySaw: whatever calls overlap a sweep, the turns of *)
(* a conversation that were stored when it took its snapshot go or stay    *)
(* together; another sweep in between may only have taken some away.       *)
(***************************************************************************)
THEOREM SweepsSplitNothingTheySaw == Spec => SplitOnlyByLateTurns
<1>. DEFINE Splits == \A t \in Tasks : Answered(t, "expire", "ok") =>
                        \A i \in Stored(objects) \ Stored(objects'),
                           j \in Stored(objects) \cap Stored(objects') :
                             SameThread(i, j) => j \notin Stored(tasks[t].objs)
<1>1. TypeOK /\ TreeInv /\ [Next]_vars => Splits
  <2>1. SUFFICES ASSUME TypeOK, TreeInv, [Next]_vars, NEW t \in Tasks,
                        Answered(t, "expire", "ok"),
                        NEW i \in Stored(objects) \ Stored(objects'),
                        NEW j \in Stored(objects) \cap Stored(objects'),
                        SameThread(i, j), j \in Stored(tasks[t].objs)
                 PROVE  FALSE
    OBVIOUS
  <2>2. ExpireRemove(t)
    <3>1. Resume(t) /\ tasks[t].op = "expire"
      BY <2>1, AnsweredByItself DEF Operations, Answered
    <3>. QED BY <3>1 DEF Resume, JoinRetry, PutProfile, SendContext, SendDecide, SendAttach,
           ReadReader, VisibleActor, VisibleObject, VisibleRefused, MarkRead, ViewAnswer,
           ReplySend, ListContext, PeekObjects, PeekAnswer, ThreadAnswer, Fetching, Listing
  <2>3. PICK objs, cutoff : objs = tasks[t].objs /\ cutoff = tasks[t].cutoff
    OBVIOUS
  <2>4. Sees(objs) /\ Sees(objects)
    BY <2>1, <2>2, <2>3 DEF TreeInv, AllMind, Minds, ExpireRemove
  <2>5. /\ i \in ExpiredObjectIds(objs, cutoff)
        /\ j \notin ExpiredObjectIds(objs, cutoff)
    BY <2>1, <2>2, <2>3, RemovedAreDoomed DEF Doomed
  <2>6. i \in Stored(objs)
    BY <2>5 DEF ExpiredObjectIds
  <2>7. ThreadRoot(objs, i) = ThreadRoot(objs, j)
    BY <2>1, <2>3, <2>4, <2>6, SeenTogether DEF SameThread
  <2>. QED BY <2>1, <2>3, <2>5, <2>7, DoomedTogether
<1>. QED BY <1>1, Trees, PTL DEF Spec, SplitOnlyByLateTurns
=============================================================================
