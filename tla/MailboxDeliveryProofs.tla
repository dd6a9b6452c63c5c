----------------------- MODULE MailboxDeliveryProofs -----------------------
(***************************************************************************)
(* How mail reaches its readers: the mailbox implements Delivery, and a    *)
(* peek lists what waits, although it asks for the actors, for the         *)
(* messages and for what its caller has read at three different moments.   *)
(*                                                                         *)
(* The abstract mail is routed by today's actors and groups.  It only      *)
(* moves when a message is stored, read or swept because a stored message, *)
(* resolved again, gives the names it was stored with; and a message just  *)
(* stored waits for all its readers because no read row runs ahead of it.  *)
(*                                                                         *)
(* Nothing that waits is missed by a peek because what was waiting at the  *)
(* call, and still does, was there at every moment in between.  Nothing    *)
(* consumed is listed because what was read is asked for last, but only as *)
(* long as no sweep takes the read rows away.                              *)
(***************************************************************************)
EXTENDS MailboxDelivers, MailboxThreadProofs

(***************************************************************************)
(* What a suspended peek may rely on                                       *)
(***************************************************************************)

Peeking(k) == k.op = "peek" /\ k.at \in {"actor", "context", "objects"}

WatchSafe(k) ==
  /\ Peeking(k) => k.waiting \cap unused = {}
  /\ Peeking(k) /\ k.at = "actor" /\ k.found # NoActor => k.caller \in Joined(actors)
  /\ Peeking(k) /\ k.at \in {"context", "objects"} => k.caller \in Joined(k.acts)
  /\ Peeking(k) /\ k.at = "objects" =>
       \A i \in k.waiting \cap Stored(objects) : k.objs[i] = objects[i]

AllWatch == \A t \in Tasks : WatchSafe(tasks[t])

LEMMA WatchStays ==
  ASSUME TypeOK, Onward, NEW k \in Task, WatchSafe(k)
  PROVE  WatchSafe(k)'
<1>1. Peeking(k) => k.waiting \subseteq Ids /\ k.waiting \cap unused = {}
  BY TaskShapes DEF WatchSafe, Peeking, Listing, ListAtActor, ListAtContext, ListAtObjects
<1>2. Peeking(k) => k.waiting \cap unused' = {}
  BY <1>1 DEF Onward
<1>3. Peeking(k) => \A i \in k.waiting \cap Stored(objects)' :
                      i \in Stored(objects) /\ objects'[i] = objects[i]
  BY <1>1 DEF Onward, Stored, TypeOK, Archive
<1>. QED BY <1>2, <1>3 DEF WatchSafe, Peeking, Onward

LEMMA AwaitWatch ==
  ASSUME TypeOK, AllWatch, Onward, NEW t \in Tasks, NEW k, Await(t, k), WatchSafe(k)'
  PROVE  AllWatch'
<1>1. tasks'[t] = k /\ \A u \in Tasks \ {t} : tasks'[u] = tasks[u]
  BY DEF Await, TypeOK
<1>2. ASSUME NEW u \in Tasks \ {t} PROVE WatchSafe(tasks[u])'
  <2>1. PICK c \in Task : c = tasks[u]
    BY DEF TypeOK
  <2>2. WatchSafe(c)'
    BY <2>1, WatchStays DEF AllWatch
  <2>. QED BY <1>1, <2>1, <2>2
<1>. QED BY <1>1, <1>2 DEF AllWatch

\* A coroutine that is not a peek under way.
LEMMA ElsewhereWatch ==
  ASSUME NEW k, ~Peeking(k)
  PROVE  WatchSafe(k)'
BY DEF WatchSafe, Peeking

(***************************************************************************)
(* Steps                                                                   *)
(***************************************************************************)

LEMMA CallsWatch ==
  ASSUME TypeOK, SafeInv, NEW t \in Tasks, Call(t)
  PROVE  \E k : Await(t, k) /\ WatchSafe(k)'
<1>1. CASE \E k : Await(t, k) /\ k.op # "peek"
  BY <1>1, ElsewhereWatch DEF Peeking
<1>2. CASE JoinNamed(t) \/ JoinIssued(t) \/ InstallResident(t)
  BY <1>1, <1>2 DEF JoinNamed, JoinAs, JoinIssued, TryIssued, InstallResident, Answer
<1>3. CASE UpdateProfile(t)
  BY <1>1, <1>3 DEF UpdateProfile, UpdateProfileAs
<1>4. CASE Send(t)
  BY <1>1, <1>4 DEF Send, SendAs, StartSend
<1>5. CASE Reply(t)
  BY <1>1, <1>5 DEF Reply, ReplyAs, Fetch
<1>6. CASE Read(t)
  BY <1>1, <1>6 DEF Read, ReadAs
<1>7. CASE View(t)
  BY <1>1, <1>7 DEF View, Fetch
<1>8. CASE Peek(t)
  <2>1. PICK caller \in Names : PeekAs(t, caller)
    BY <1>8 DEF Peek
  <2>2. PICK waiting, found : waiting = WaitingFor(caller) /\ found = actors[caller]
    OBVIOUS
  <2>3. PICK k : k = [op |-> "peek", at |-> "actor", caller |-> caller, id |-> NoParent,
                      found |-> found, waiting |-> waiting]
    OBVIOUS
  <2>4. Await(t, k) /\ UNCHANGED <<actors, unused>>
    BY <2>1, <2>2, <2>3 DEF PeekAs
  <2>5. waiting \cap unused' = {}
    BY <2>2, <2>4 DEF WaitingFor, SafeInv, AllRouted
  <2>6. found # NoActor => caller \in Joined(actors)'
    BY <2>2, <2>4 DEF TypeOK, Directory, Joined
  <2>7. WatchSafe(k)'
    BY <2>3, <2>5, <2>6 DEF WatchSafe, Peeking
  <2>. QED BY <2>4, <2>7
<1>9. CASE Thread(t)
  BY <1>1, <1>9 DEF Thread
<1>10. CASE Expire(t)
  BY <1>1, <1>10 DEF Expire, Answer
<1>. QED BY <1>2, <1>3, <1>4, <1>5, <1>6, <1>7, <1>8, <1>9, <1>10 DEF Call

LEMMA ResumesWatch ==
  ASSUME TypeOK, AllWatch, NEW t \in Tasks, Resume(t)
  PROVE  \E k : Await(t, k) /\ WatchSafe(k)'
<1>1. CASE \E k : Await(t, k) /\ k.op # "peek"
  BY <1>1, ElsewhereWatch DEF Peeking
<1>2. CASE JoinRetry(t) \/ PutProfile(t)
  BY <1>1, <1>2 DEF JoinRetry, TryIssued, PutProfile, Answer
<1>3. CASE SendContext(t) \/ SendDecide(t) \/ SendAttach(t)
  BY <1>1, <1>3 DEF SendContext, SendDecide, SendAttach, Store, Answer
<1>4. CASE ReadReader(t) \/ VisibleRefused(t) \/ MarkRead(t) \/ ViewAnswer(t)
  BY <1>1, <1>4 DEF ReadReader, VisibleRefused, MarkRead, ViewAnswer, Fetch, Answer
<1>5. CASE VisibleActor(t) \/ VisibleObject(t)
  BY <1>1, <1>5 DEF VisibleActor, VisibleObject, Fetching, Answer
<1>6. CASE ReplySend(t)
  BY <1>1, <1>6 DEF ReplySend, StartSend
<1>7. CASE PeekAnswer(t) \/ ThreadAnswer(t) \/ ExpireRemove(t)
  BY <1>1, <1>7 DEF PeekAnswer, ThreadAnswer, ExpireRemove, Answer
<1>8. CASE ListContext(t)
  <2>1. CASE tasks[t].found = NoActor \/ tasks[t].op # "peek"
    BY <1>1, <1>8, <2>1 DEF ListContext, Answer
  <2>2. CASE tasks[t].found # NoActor /\ tasks[t].op = "peek"
    <3>1. PICK k : /\ Await(t, k) /\ k.op = "peek" /\ k.at = "context"
                   /\ k.caller = tasks[t].caller /\ k.acts = actors
                   /\ k.waiting = tasks[t].waiting /\ UNCHANGED <<actors, unused>>
      BY <1>8, <2>2 DEF ListContext
    <3>2. k.waiting \cap unused' = {}
      BY <1>8, <2>2, <3>1 DEF AllWatch, WatchSafe, Peeking, ListContext
    <3>3. k.caller \in Joined(k.acts)
      BY <1>8, <2>2, <3>1 DEF AllWatch, WatchSafe, Peeking, ListContext
    <3>. QED BY <3>1, <3>2, <3>3 DEF WatchSafe, Peeking
  <2>. QED BY <2>1, <2>2
<1>9. CASE PeekObjects(t)
  <2>1. PICK k : /\ Await(t, k) /\ k.op = "peek" /\ k.at = "objects"
                 /\ k.caller = tasks[t].caller /\ k.acts = tasks[t].acts
                 /\ k.objs = objects /\ k.waiting = tasks[t].waiting
                 /\ UNCHANGED <<objects, unused>>
    BY <1>9 DEF PeekObjects
  <2>2. k.waiting \cap unused' = {} /\ k.caller \in Joined(k.acts)
    BY <1>9, <2>1 DEF AllWatch, WatchSafe, Peeking, PeekObjects
  <2>3. WatchSafe(k)'
    BY <2>1, <2>2 DEF WatchSafe, Peeking
  <2>. QED BY <2>1, <2>3
<1>. QED BY <1>2, <1>3, <1>4, <1>5, <1>6, <1>7, <1>8, <1>9 DEF Resume

LEMMA Watch ==
  ASSUME NamesAndGroupsApart
  PROVE  Spec => [](TypeOK /\ SafeInv /\ SightInv /\ AllWatch)
<1>1. Init => AllWatch
  BY DEF Init, AllWatch, WatchSafe, Peeking
<1>2. TypeOK /\ SafeInv /\ SightInv /\ AllWatch /\ TypeOK' /\ [Next]_vars => AllWatch'
  <2>1. SUFFICES ASSUME TypeOK, SafeInv, SightInv, AllWatch, TypeOK', [Next]_vars
                 PROVE  AllWatch'
    OBVIOUS
  <2>2. CASE Tick \/ UNCHANGED vars
    <3>1. UNCHANGED <<actors, objects, unused, tasks>>
      BY <2>2 DEF Tick, vars
    <3>. QED BY <2>1, <3>1 DEF AllWatch, WatchSafe, Peeking, Joined, Stored
  <2>3. ASSUME NEW t \in Tasks, Call(t) PROVE AllWatch'
    <3>1. Onward
      BY <2>1, <2>3, CallsAreLater DEF Later
    <3>. QED BY <2>1, <2>3, <3>1, CallsWatch, AwaitWatch
  <2>4. ASSUME NEW t \in Tasks, Resume(t) PROVE AllWatch'
    <3>1. Onward
      BY <2>1, <2>4, ResumesAreLater DEF Later, SightInv
    <3>. QED BY <2>1, <2>4, <3>1, ResumesWatch, AwaitWatch
  <2>. QED BY <2>1, <2>2, <2>3, <2>4 DEF Next
<1>. QED BY <1>1, <1>2, Sight, PTL DEF Spec

LEMMA PeekAnswered ==
  ASSUME TypeOK, [Next]_vars, NEW t \in Tasks, Answered(t, "peek", "ok")
  PROVE  /\ PeekAnswer(t)
         /\ tasks'[t].ids = Unread(tasks[t].objs, tasks[t].caller,
                                   ReadBy(tasks[t].caller, tasks[t].objs),
                                   Joined(tasks[t].acts), GroupMemberships(tasks[t].acts))
<1>1. Resume(t)
  BY AnsweredByItself DEF Operations
<1>2. tasks[t].op = "peek" /\ tasks'[t].op = "answered" /\ tasks'[t].code = "ok"
  BY DEF Answered
<1>3. ListContext(t) \/ PeekObjects(t) \/ PeekAnswer(t)
  BY <1>1, <1>2
  DEF Resume, JoinRetry, PutProfile, SendContext, SendDecide, SendAttach, ReadReader,
      VisibleActor, VisibleObject, VisibleRefused, MarkRead, ViewAnswer, ReplySend,
      ThreadAnswer, ExpireRemove, Fetching
<1>4. ~ListContext(t)
  BY <1>2 DEF ListContext, Answer, Await, TypeOK
<1>5. ~PeekObjects(t)
  BY <1>2 DEF PeekObjects, Await, TypeOK
<1>. QED BY <1>3, <1>4, <1>5 DEF PeekAnswer, Answer, Await, TypeOK

(***************************************************************************)
(* WhatWaitsIsListed: a message that waited for the caller when it called  *)
(* peek, and still does when peek answers, is in the answer: it was in the *)
(* snapshot of the messages, and the snapshot of the actors taken before   *)
(* that one already knew the caller.                                       *)
(***************************************************************************)
THEOREM WhatWaitsIsListed ==
  ASSUME NamesAndGroupsApart
  PROVE  Spec => PeekMissesNothing
<1>. DEFINE Listed == \A t \in Tasks : Answered(t, "peek", "ok") =>
                        tasks[t].waiting \cap WaitingFor(tasks[t].caller)
                          \subseteq tasks[t]'.ids
<1>1. TypeOK /\ SafeInv /\ SightInv /\ AllWatch /\ [Next]_vars => Listed
  <2>1. SUFFICES ASSUME TypeOK, SafeInv, SightInv, AllWatch, [Next]_vars,
                        NEW t \in Tasks, Answered(t, "peek", "ok"),
                        NEW i \in tasks[t].waiting \cap WaitingFor(tasks[t].caller)
                 PROVE  i \in tasks'[t].ids
    OBVIOUS
  <2>2. /\ PeekAnswer(t)
        /\ tasks'[t].ids = Unread(tasks[t].objs, tasks[t].caller,
                                  ReadBy(tasks[t].caller, tasks[t].objs),
                                  Joined(tasks[t].acts), GroupMemberships(tasks[t].acts))
    BY <2>1, PeekAnswered
  <2>3. PICK k \in Task : k = tasks[t] /\ WatchSafe(k) /\ LooksBack(k)
    BY <2>1 DEF TypeOK, AllWatch, SightInv, AllLookBack
  <2>4. k.op = "peek" /\ k.at = "objects"
    BY <2>2, <2>3 DEF PeekAnswer
  <2>5. k.objs \in Archive /\ Past(k.acts) /\ k.caller \in Joined(k.acts)
    BY <2>3, <2>4, TaskShapes DEF ListAtObjects, LooksBack, WatchSafe, Peeking, Listing
  <2>6. /\ i \in Stored(objects) /\ <<i, k.caller>> \notin reads
        /\ k.caller # objects[i].from /\ Party(objects[i], k.caller, actors)
    BY <2>3 DEF WaitingFor
  <2>7. k.objs[i] = objects[i] /\ i \in Stored(k.objs)
    BY <2>1, <2>3, <2>4, <2>5, <2>6 DEF WatchSafe, Peeking, Stored, Archive, TypeOK
  <2>8. PICK obj : obj = objects[i]
    OBVIOUS
  <2>9. Routed(obj)
    BY <2>1, <2>6, <2>8 DEF SafeInv, AllRouted
  <2>10. k.caller \in obj.to \cup obj.cc
    BY <2>1, <2>6, <2>8, <2>9, PartyStored DEF SafeInv, AllPlain, PartiesOf
  <2>11. DeliversTo(obj, k.caller, Joined(k.acts), GroupMemberships(k.acts))
    BY <2>1, <2>5, <2>9, <2>10, RecipientsStored DEF SafeInv, Past, DeliversTo
  <2>12. i \notin ReadBy(k.caller, k.objs)
    BY <2>6 DEF ReadBy
  <2>. QED BY <2>2, <2>3, <2>7, <2>8, <2>11, <2>12 DEF Unread
<1>. QED BY <1>1, Watch, PTL DEF Spec, PeekMissesNothing

(***************************************************************************)
(* WhatIsReadIsNotListed: where nothing sweeps, a peek lists no message    *)
(* its caller has been answered by `read`, however the two overlapped: the *)
(* read rows are asked for last, and none is ever taken back.              *)
(***************************************************************************)
THEOREM WhatIsReadIsNotListed ==
  ASSUME "expire" \notin Ops
  PROVE  Spec => ConsumedStaysConsumed
<1>. DEFINE Kept == acked \subseteq reads /\ \A t \in Tasks : tasks[t].op # "expire"
            OnlyNews == \A t \in Tasks : Answered(t, "peek", "ok") =>
                          \A i \in tasks[t]'.ids : <<i, tasks[t].caller>> \notin acked
<1>1. Init => Kept
  BY DEF Init
<1>2. TypeOK /\ Kept /\ [Next]_vars => Kept'
  <2>1. SUFFICES ASSUME TypeOK, Kept, [Next]_vars PROVE Kept'
    OBVIOUS
  <2>2. CASE Tick \/ UNCHANGED vars
    BY <2>1, <2>2 DEF Tick, vars
  <2>3. ASSUME NEW t \in Tasks, Call(t) PROVE Kept'
    <3>1. UNCHANGED <<reads, acked>> /\ ~Expire(t)
      BY <2>3 DEF Call, JoinNamed, JoinAs, JoinIssued, UpdateProfile, UpdateProfileAs,
             InstallResident, Send, SendAs, Reply, ReplyAs, Read, ReadAs, View, Peek,
             PeekAs, Thread, Expire
    <3>2. \E k : Await(t, k) /\ k.op # "expire"
      <4>1. CASE JoinNamed(t) \/ JoinIssued(t) \/ InstallResident(t)
        BY <4>1 DEF JoinNamed, JoinAs, JoinIssued, TryIssued, InstallResident, Answer
      <4>2. CASE UpdateProfile(t)
        BY <4>2 DEF UpdateProfile, UpdateProfileAs
      <4>3. CASE Send(t)
        BY <4>3 DEF Send, SendAs, StartSend
      <4>4. CASE Reply(t)
        BY <4>4 DEF Reply, ReplyAs, Fetch
      <4>5. CASE Read(t)
        BY <4>5 DEF Read, ReadAs
      <4>6. CASE View(t)
        BY <4>6 DEF View, Fetch
      <4>7. CASE Peek(t)
        BY <4>7 DEF Peek, PeekAs
      <4>8. CASE Thread(t)
        BY <4>8 DEF Thread
      <4>. QED BY <2>3, <3>1, <4>1, <4>2, <4>3, <4>4, <4>5, <4>6, <4>7, <4>8 DEF Call
    <3>. QED BY <2>1, <3>1, <3>2 DEF Await, TypeOK
  <2>4. ASSUME NEW t \in Tasks, Resume(t) PROVE Kept'
    <3>1. ~ExpireRemove(t)
      BY <2>1 DEF ExpireRemove
    <3>2. \/ UNCHANGED <<reads, acked>>
          \/ \E r : reads' = reads \cup {r} /\ acked' = acked \cup {r}
      BY <2>4, <3>1 DEF Resume, JoinRetry, PutProfile, SendContext, SendDecide, SendAttach,
             ReadReader, VisibleActor, VisibleObject, VisibleRefused, MarkRead, ViewAnswer,
             ReplySend, ListContext, PeekObjects, PeekAnswer, ThreadAnswer
    <3>3. acked' \subseteq reads'
      BY <2>1, <3>2
    <3>4. \E k : Await(t, k) /\ k.op # "expire"
      <4>1. CASE JoinRetry(t) \/ PutProfile(t)
        BY <4>1 DEF JoinRetry, TryIssued, PutProfile, Answer
      <4>2. CASE SendContext(t) \/ SendDecide(t) \/ SendAttach(t)
        BY <4>2 DEF SendContext, SendDecide, SendAttach, Store, Answer
      <4>3. CASE ReadReader(t) \/ VisibleActor(t) \/ VisibleObject(t) \/ VisibleRefused(t)
        BY <4>3 DEF ReadReader, VisibleActor, VisibleObject, VisibleRefused, Fetch,
                    Fetching, Answer
      <4>4. CASE MarkRead(t) \/ ViewAnswer(t) \/ ReplySend(t)
        BY <4>4 DEF MarkRead, ViewAnswer, ReplySend, StartSend, Answer
      <4>5. CASE ListContext(t) \/ PeekObjects(t) \/ PeekAnswer(t) \/ ThreadAnswer(t)
        BY <4>5 DEF ListContext, PeekObjects, PeekAnswer, ThreadAnswer, Listing, Answer
      <4>. QED BY <2>4, <3>1, <4>1, <4>2, <4>3, <4>4, <4>5 DEF Resume
    <3>. QED BY <2>1, <3>3, <3>4 DEF Await, TypeOK
  <2>. QED BY <2>1, <2>2, <2>3, <2>4 DEF Next
<1>3. TypeOK /\ Kept /\ [Next]_vars => OnlyNews
  <2>1. SUFFICES ASSUME TypeOK, Kept, [Next]_vars, NEW t \in Tasks,
                        Answered(t, "peek", "ok"), NEW i \in tasks'[t].ids
                 PROVE  <<i, tasks[t].caller>> \notin acked
    OBVIOUS
  <2>2. i \in Stored(tasks[t].objs) \ ReadBy(tasks[t].caller, tasks[t].objs)
    BY <2>1, PeekAnswered DEF Unread
  <2>. QED BY <2>1, <2>2 DEF ReadBy
<1>. QED BY <1>1, <1>2, <1>3, TypesHold, PTL DEF Spec, ConsumedStaysConsumed
(***************************************************************************)
(* The abstract mail                                                       *)
(***************************************************************************)

\* A stored message as it was sealed: its readers are those it was stored with.
Sealed(i, obj, consumed) ==
  LET readers == obj.to \cup obj.cc
  IN  [from |-> obj.from, readers |-> readers,
       waiting |-> {r \in readers : <<i, r>> \notin consumed}]

Mail(objs, consumed) ==
  [i \in Ids |-> IF objs[i] = NoObject THEN NoObject ELSE Sealed(i, objs[i], consumed)]

LEMMA TodaysReaders ==
  ASSUME NamesAndGroupsApart, NEW acts, Plain(acts), NEW obj,
         obj.to \cup obj.cc \subseteq Joined(acts), obj.from \notin obj.to \cup obj.cc
  PROVE  RecipientsOf(obj, Joined(acts), GroupMemberships(acts)) = obj.to \cup obj.cc
<1>1. obj.to \cup obj.cc \in SUBSET Agents
  BY DEF Plain
<1>. QED BY <1>1, ResolveAgents DEF RecipientsOf, Reached

\* Routed by today's actors and groups, the mail is what was sealed.
LEMMA LettersAre ==
  ASSUME NamesAndGroupsApart
  PROVE  TypeOK /\ SafeInv => Letters = Mail(objects, reads)
<1>1. SUFFICES ASSUME TypeOK, SafeInv PROVE Letters = Mail(objects, reads)
  OBVIOUS
<1>2. ASSUME NEW i \in Ids, objects[i] # NoObject
      PROVE  RecipientsOf(objects[i], Joined(actors), GroupMemberships(actors))
               = objects[i].to \cup objects[i].cc
  <2>1. Routed(objects[i]) /\ Plain(actors)
    BY <1>1, <1>2 DEF SafeInv, AllRouted, AllPlain, Stored, TypeOK, Archive
  <2>. QED BY <2>1, TodaysReaders DEF Routed
<1>. QED BY <1>2 DEF Letters, Mail, Sealed

(***************************************************************************)
(* Steps                                                                   *)
(***************************************************************************)

LEMMA StepsOnMail ==
  ASSUME TypeOK, SafeInv, SightInv, [Next]_vars
  PROVE  \/ UNCHANGED <<objects, reads, unused>>
         \/ \E t \in Tasks : \/ (Storing(t) /\ UNCHANGED reads)
                             \/ MarkRead(t)
                             \/ ExpireRemove(t)
<1>1. CASE Tick \/ UNCHANGED vars
  BY <1>1 DEF Tick, vars
<1>2. ASSUME NEW t \in Tasks, Call(t) PROVE UNCHANGED <<objects, reads, unused>>
  BY <1>2 DEF Call, JoinNamed, JoinAs, JoinIssued, UpdateProfile, UpdateProfileAs,
         InstallResident, Send, SendAs, Reply, ReplyAs, Read, ReadAs, View, Peek, PeekAs,
         Thread, Expire
<1>3. ASSUME NEW t \in Tasks, SendDecide(t) \/ SendAttach(t)
      PROVE  UNCHANGED <<objects, reads, unused>> \/ (Storing(t) /\ UNCHANGED reads)
  <2>1. UNCHANGED reads
    BY <1>3 DEF SendDecide, SendAttach
  <2>. QED BY <1>3, <2>1, SendsStore DEF SightInv
<1>4. ASSUME NEW t \in Tasks,
             \/ JoinRetry(t) \/ PutProfile(t) \/ SendContext(t) \/ ReadReader(t)
             \/ VisibleActor(t) \/ VisibleObject(t) \/ VisibleRefused(t) \/ ViewAnswer(t)
             \/ ReplySend(t) \/ ListContext(t) \/ PeekObjects(t) \/ PeekAnswer(t)
             \/ ThreadAnswer(t)
      PROVE  UNCHANGED <<objects, reads, unused>>
  BY <1>4 DEF JoinRetry, PutProfile, SendContext, ReadReader, VisibleActor, VisibleObject,
              VisibleRefused, ViewAnswer, ReplySend, ListContext, PeekObjects, PeekAnswer,
              ThreadAnswer
<1>. QED BY <1>1, <1>2, <1>3, <1>4 DEF Next, Resume

\* Storing a message is delivering it, to all its readers at once.
LEMMA StoringDelivers ==
  ASSUME NamesAndGroupsApart, TypeOK, TypeOK', SafeInv, SafeInv', NEW t \in Tasks,
         Storing(t), UNCHANGED reads,
         Letters = Mail(objects, reads), Letters' = Mail(objects', reads')
  PROVE  \E i \in unused :
           /\ unused' = unused \ {i}
           /\ \E from \in Names, readers \in SUBSET Names :
                Abstract!Deliver(i, from, readers \ {from})
<1>1. PICK i, new : /\ i \in unused /\ unused' = unused \ {i}
                    /\ objects' = [objects EXCEPT ![i] = new]
  BY DEF Storing, AddObject
<1>2. i \in Ids /\ objects \in [Ids -> ObjectRow] /\ objects' \in [Ids -> ObjectRow]
  BY <1>1 DEF TypeOK, Archive
<1>3. new # NoObject
  <2>1. PICK caller \in Names, to \in Addresses, cc \in Addresses,
             parent \in Ids \cup {NoParent}, acts \in Directory, j \in unused :
               /\ AddObject(j, NewObject(caller, to, cc, parent, acts))
               /\ unused' = unused \ {j}
    BY DEF Storing
  <2>2. j = i /\ new = NewObject(caller, to, cc, parent, acts)
    BY <1>1, <1>2, <2>1 DEF AddObject, TypeOK
  <2>. QED BY <2>1, <2>2, NewObjectType, MailboxAssumption DEF TypeOK
<1>4. /\ new \in Object /\ objects'[i] = new
      /\ \A j \in Ids \ {i} : objects'[j] = objects[j]
  BY <1>1, <1>2, <1>3 DEF ObjectRow
<1>5. new.from \in Names /\ new.to \cup new.cc \in SUBSET Names
  BY <1>4 DEF Object
<1>6. new.from \notin new.to \cup new.cc
  BY <1>2, <1>3, <1>4 DEF SafeInv, AllRouted, Routed, Stored
<1>7. \A r : <<i, r>> \notin reads
  BY <1>1 DEF SafeInv, NoReadsAhead
<1>. DEFINE readers == new.to \cup new.cc
            letter == [from |-> new.from, readers |-> readers, waiting |-> readers]
<1>8. Sealed(i, new, reads) = letter
  <2>1. {r \in readers : <<i, r>> \notin reads} = readers
    BY <1>7
  <2>2. Sealed(i, new, reads)
          = [from |-> new.from, readers |-> readers,
             waiting |-> {r \in readers : <<i, r>> \notin reads}]
    BY DEF Sealed
  <2>. QED BY <2>1, <2>2
<1>9. Mail(objects', reads') = [Mail(objects, reads) EXCEPT ![i] = letter]
  BY <1>2, <1>3, <1>4, <1>8 DEF Mail
<1>10. Abstract!Deliver(i, new.from, readers \ {new.from})
  <2>1. readers \ {new.from} = readers
    BY <1>6
  <2>. QED BY <1>9, <2>1 DEF Abstract!Deliver
<1>. QED BY <1>1, <1>5, <1>10

\* A read takes the caller's own copy, or nothing: a sender's, or one read again.
LEMMA ReadingConsumes ==
  ASSUME TypeOK, SafeInv, NEW t \in Tasks, MarkRead(t),
         Letters = Mail(objects, reads), Letters' = Mail(objects', reads')
  PROVE  /\ UNCHANGED unused
         /\ \/ UNCHANGED Letters
            \/ \E i \in Ids, reader \in Names : Abstract!Consume(i, reader)
<1>1. tasks[t] \in FetchAtContext
  BY TaskShapes DEF MarkRead, TypeOK, Fetching
<1>2. PICK i \in Ids, reader \in Names :
        UNCHANGED <<objects, unused>> /\ reads' = reads \cup {<<i, reader>>}
  BY <1>1 DEF MarkRead, FetchAtContext
<1>3. \A j \in Ids \ {i} : Sealed(j, objects[j], reads') = Sealed(j, objects[j], reads)
  BY <1>2 DEF Sealed
<1>4. Sealed(i, objects[i], reads')
        = [Sealed(i, objects[i], reads) EXCEPT !.waiting = @ \ {reader}]
  <2>1. {r \in objects[i].to \cup objects[i].cc : <<i, r>> \notin reads'}
          = {r \in objects[i].to \cup objects[i].cc : <<i, r>> \notin reads} \ {reader}
    BY <1>2
  <2>2. /\ Sealed(i, objects[i], reads').from = Sealed(i, objects[i], reads).from
        /\ Sealed(i, objects[i], reads').readers = Sealed(i, objects[i], reads).readers
        /\ Sealed(i, objects[i], reads').waiting
             = Sealed(i, objects[i], reads).waiting \ {reader}
    BY <2>1 DEF Sealed
  <2>. QED BY <2>2 DEF Sealed
<1>5. CASE objects[i] = NoObject
  BY <1>2, <1>3, <1>5 DEF Mail
<1>6. CASE objects[i] # NoObject /\ reader \notin Sealed(i, objects[i], reads).waiting
  <2>1. Sealed(i, objects[i], reads') = Sealed(i, objects[i], reads)
    BY <1>4, <1>6 DEF Sealed
  <2>. QED BY <1>2, <1>3, <2>1 DEF Mail
<1>7. CASE objects[i] # NoObject /\ reader \in Sealed(i, objects[i], reads).waiting
  <2>1. Letters[i] = Sealed(i, objects[i], reads)
    BY <1>7 DEF Mail
  <2>2. Letters[i] # NoObject
    <3>1. objects[i] \in Object
      BY <1>7 DEF TypeOK, Archive, ObjectRow
    <3>2. Sealed(i, objects[i], reads) \in Abstract!Letter
      BY <3>1 DEF Sealed, Object, Abstract!Letter
    <3>. QED BY <2>1, <3>2, LetterAssumption
  <2>3. Letters' = [Letters EXCEPT ![i].waiting = @ \ {reader}]
    BY <1>2, <1>3, <1>4, <1>7, <2>1 DEF Mail
  <2>. QED BY <1>2, <1>7, <2>1, <2>2, <2>3 DEF Abstract!Consume
<1>. QED BY <1>2, <1>5, <1>6, <1>7

\* A sweep takes messages away whole, and no reader's copy of the others.
LEMMA SweepingDiscards ==
  ASSUME TypeOK, NEW t \in Tasks, ExpireRemove(t),
         Letters = Mail(objects, reads), Letters' = Mail(objects', reads')
  PROVE  UNCHANGED unused /\ Abstract!Discard
<1>1. PICK ids : RemoveObjects(ids)
  BY DEF ExpireRemove
<1>2. ASSUME NEW i \in Ids PROVE Mail(objects', reads')[i] \in {Mail(objects, reads)[i], NoObject}
  <2>1. CASE i \in ids
    BY <1>1, <2>1 DEF RemoveObjects, Mail
  <2>2. CASE i \notin ids
    <3>1. objects'[i] = objects[i] /\ \A r : <<i, r>> \in reads' <=> <<i, r>> \in reads
      BY <1>1, <2>2 DEF RemoveObjects
    <3>2. Sealed(i, objects[i], reads') = Sealed(i, objects[i], reads)
      BY <3>1 DEF Sealed
    <3>. QED BY <3>1, <3>2 DEF Mail
  <2>. QED BY <2>1, <2>2
<1>. QED BY <1>2 DEF Abstract!Discard, ExpireRemove

(***************************************************************************)
(* MailboxImplementsDelivery: where no profile lists an agent's name as a  *)
(* group, every behaviour of the mailbox is one of Delivery, whatever      *)
(* calls overlap: a message reaches all its readers in one step, joins and *)
(* profile updates move no mail, a read takes only the reader's own copy,  *)
(* and nothing consumed waits again.                                       *)
(***************************************************************************)
THEOREM MailboxImplementsDelivery ==
  ASSUME NamesAndGroupsApart
  PROVE  Spec => Delivers
<1>. DEFINE Inv == TypeOK /\ SafeInv /\ SightInv
            Same == Letters = Mail(objects, reads)
<1>1. Inv => Same
  BY LettersAre
<1>2. Init => Abstract!Nothing
  BY DEF Init, Letters, Abstract!Nothing
<1>3. Inv /\ Inv' /\ Same /\ Same' /\ [Next]_vars
        => [Abstract!Promise]_<<Letters, unused>>
  <2>1. SUFFICES ASSUME Inv, Inv', Same, Same', [Next]_vars
                 PROVE  [Abstract!Promise]_<<Letters, unused>>
    OBVIOUS
  <2>2. CASE UNCHANGED <<objects, reads, unused>>
    BY <2>1, <2>2
  <2>3. ASSUME NEW t \in Tasks, Storing(t) /\ UNCHANGED reads PROVE Abstract!Promise
    BY <2>1, <2>3, StoringDelivers DEF Abstract!Promise
  <2>4. ASSUME NEW t \in Tasks, MarkRead(t) PROVE [Abstract!Promise]_<<Letters, unused>>
    BY <2>1, <2>4, ReadingConsumes DEF Abstract!Promise
  <2>5. ASSUME NEW t \in Tasks, ExpireRemove(t) PROVE Abstract!Promise
    BY <2>1, <2>5, SweepingDiscards DEF Abstract!Promise
  <2>. QED BY <2>1, <2>2, <2>3, <2>4, <2>5, StepsOnMail
<1>. QED BY <1>1, <1>2, <1>3, Sight, PTL DEF Spec, Delivers, Abstract!Delivered
=============================================================================
