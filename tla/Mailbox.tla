------------------------------ MODULE Mailbox ------------------------------
(***************************************************************************)
(* The mailbox engine of src/agent_mailbox/mailbox.py: every operation an  *)
(* agent or the house can ask for, run as asyncio coroutines that          *)
(* interleave at each await of the storage port.                           *)
(*                                                                         *)
(* An action is one segment of a coroutine: it takes the answer of the     *)
(* previous port call from the task's record, computes, and issues the     *)
(* next port call, whose effect (or snapshot) happens in the same step,    *)
(* because the one connection serves calls in the order they are issued.   *)
(* The last segment, which only returns what it holds, is merged with the  *)
(* one that issues the last call.  A port call is atomic here; SqliteStore *)
(* models what happens inside one.                                         *)
(*                                                                         *)
(* Left out: subjects, bodies, the document, last_seen and the profile     *)
(* beyond its groups, none of which any rule reads.  The wall clock is     *)
(* taken not to run backwards.                                             *)
(***************************************************************************)
EXTENDS Rules, Integers, FiniteSets

CONSTANTS
  Tasks,         \* requests in flight at once
  Names,         \* names of actors and of groups
  Elsewhere,     \* an address addressing.local_name refuses: another hub, or none
  Reserved,      \* names naming.validate refuses to an agent
  Requested,     \* names agents ask for when they join
  Issued,        \* names naming.generate may produce
  Residents,     \* names policy installs at startup
  Enrolled,      \* actors already in the store when it is opened
  Profiles,      \* the sets of groups a profile may list
  Audiences,     \* what callers put in `to`
  Copies,        \* what callers put in `cc`
  Ids,           \* object ids uuid4 may draw; bounds the messages ever sent
  Parents,       \* what callers put in in_reply_to
  RetentionDays,
  NameAttempts,  \* _NAME_ATTEMPTS
  MaxTime,       \* bound on the clock
  Ops            \* the operations clients call in this instance

VARIABLES
  actors,   \* the actors table: name -> type, groups, created
  objects,  \* the objects table: id -> from, to, cc, parent, published
  reads,    \* the reads table: pairs <<object id, reader>>
  now,      \* the clock, in days
  tasks,    \* what each task is doing and the locals it holds across an await
  unused,   \* ids uuid4 has not drawn yet
  acked     \* history: the pairs <<object id, reader>> `read` has ever answered

vars == <<actors, objects, reads, now, tasks, unused, acked>>

(***************************************************************************)
(* Types                                                                   *)
(***************************************************************************)

Time == 0 .. MaxTime

Actor == [type : {"Service", "Group"}, groups : SUBSET Names, created : Time]

Object == [from : Names, to : SUBSET Names, cc : SUBSET Names,
           parent : Ids \cup {NoParent}, published : Time]

ASSUME MailboxAssumption ==
  /\ Everyone \notin Names /\ Elsewhere \notin Names /\ Everyone # Elsewhere
  /\ NoParent \notin Ids /\ NoActor \notin Actor /\ NoObject \notin Object
  /\ Reserved \cup Requested \cup Issued \cup Residents \cup Enrolled \subseteq Names
  /\ Profiles \subseteq SUBSET Names
  /\ Audiences \cup Copies \subseteq SUBSET (Names \cup {Everyone, Elsewhere})
  /\ Parents \subseteq Ids \cup {NoParent}
  /\ RetentionDays \in Nat /\ NameAttempts \in Nat \ {0} /\ MaxTime \in Nat

ActorRow == Actor \cup {NoActor}
ObjectRow == Object \cup {NoObject}

\* A whole table, as _context and objects() return it.
Directory == [Names -> ActorRow]
Archive == [Ids -> ObjectRow]

Addresses == SUBSET (Names \cup {Everyone, Elsewhere})

(***************************************************************************)
(* The locals of each coroutine, by the await it is suspended at.          *)
(***************************************************************************)

Operations == {"join", "update_profile", "install_resident", "send", "read", "view",
               "reply", "peek", "thread", "expire"}
Codes == {"ok", "name_unavailable", "unknown_actor", "address_error",
          "unknown_recipient", "no_such_message", "policy_refusal"}

IdleTask == [op : {"none"}]
AnsweredTask == [op : {"answered"}, call : Operations, code : Codes, ids : SUBSET Ids]

JoinTask == [op : {"join"}, created : Time, tries : 1 .. NameAttempts]

ProfileTask == [op : {"update_profile"}, caller : Names, profile : SUBSET Names,
                found : ActorRow]

SendAtActor == [op : {"send"}, at : {"actor"}, caller : Names, to : Addresses,
                cc : Addresses, parent : Ids \cup {NoParent}, found : ActorRow]
SendAtContext == [op : {"send"}, at : {"context"}, caller : Names, to : Addresses,
                  cc : Addresses, parent : Ids \cup {NoParent}, acts : Directory]
SendAtThread == [op : {"send"}, at : {"thread"}, caller : Names, to : Addresses,
                 cc : Addresses, parent : Ids, acts : Directory, objs : Archive]

\* read, view and reply all begin with _visible_object.
Fetching == {"read", "view", "reply"}
FetchAtReader == [op : {"read"}, at : {"reader"}, caller : Names, id : Ids,
                  found : ActorRow]
FetchAtActor == [op : Fetching, at : {"actor"}, caller : Names, id : Ids,
                 found : ActorRow]
FetchAtObject == [op : Fetching, at : {"object"}, caller : Names, id : Ids,
                  got : ObjectRow]
FetchAtContext == [op : Fetching, at : {"context"}, caller : Names, id : Ids,
                   got : Object, acts : Directory]

Listing == {"peek", "thread"}
ListAtActor == [op : Listing, at : {"actor"}, caller : Names, id : Ids \cup {NoParent},
                found : ActorRow, waiting : SUBSET Ids]
ListAtContext == [op : Listing, at : {"context"}, caller : Names,
                  id : Ids \cup {NoParent}, acts : Directory, waiting : SUBSET Ids]
ListAtObjects == [op : {"peek"}, at : {"objects"}, caller : Names,
                  id : Ids \cup {NoParent}, acts : Directory, objs : Archive,
                  waiting : SUBSET Ids]

ExpireTask == [op : {"expire"}, cutoff : Int, objs : Archive]

Task == IdleTask \cup AnsweredTask \cup JoinTask \cup ProfileTask
          \cup SendAtActor \cup SendAtContext \cup SendAtThread
          \cup FetchAtReader \cup FetchAtActor \cup FetchAtObject \cup FetchAtContext
          \cup ListAtActor \cup ListAtContext \cup ListAtObjects \cup ExpireTask

(***************************************************************************)
(* Helpers                                                                 *)
(***************************************************************************)

Free(t) == tasks[t].op \in {"none", "answered"}

\* The coroutine is suspended on a port call, or has returned or raised.
Await(t, locals) == tasks' = [tasks EXCEPT ![t] = locals]
Answer(t, call, code, ids) ==
  Await(t, [op |-> "answered", call |-> call, code |-> code, ids |-> ids])

\* What _context returns from a snapshot of the actors table.
Party(obj, actor, acts) == IsPartyTo(obj, actor, Joined(acts), GroupMemberships(acts))
Reached(names, acts) == ResolveAudience(names, Joined(acts), GroupMemberships(acts))

\* Slip: INSERT OR REPLACE.
ClaimNameReplaces(n, groups, created) ==
  actors' = [actors EXCEPT ![n] = [type |-> "Service", groups |-> groups,
                                   created |-> created]]

\* INSERT OR IGNORE: the incumbent is never touched.
ClaimName(n, groups, created) ==
  actors' = IF actors[n] # NoActor THEN actors
            ELSE [actors EXCEPT ![n] = [type |-> "Service", groups |-> groups,
                                        created |-> created]]

\* The upsert rewrites what the record carries, except `created`.
PutActor(n, type, groups, created) ==
  actors' = [actors EXCEPT ![n] =
               [type |-> type, groups |-> groups,
                created |-> IF @ = NoActor THEN created ELSE @.created]]

AddObject(i, obj) == objects' = [objects EXCEPT ![i] = obj]

\* Slip: the second DELETE is lost.
RemoveReadsOnly(ids) ==
  /\ UNCHANGED objects
  /\ reads' = {r \in reads : r[1] \notin ids}

\* The rows of both tables go in one transaction.
RemoveObjects(ids) ==
  /\ objects' = [i \in Ids |-> IF i \in ids THEN NoObject ELSE objects[i]]
  /\ reads' = {r \in reads : r[1] \notin ids}

(***************************************************************************)
(* Identity: join, update_profile, install_resident                        *)
(***************************************************************************)

\* A requested name is validated, then claimed in one statement.
JoinAs(t, n) ==
  /\ Free(t) /\ "join" \in Ops
  /\ IF n \in Reserved
     THEN Answer(t, "join", "name_unavailable", {}) /\ UNCHANGED actors
     ELSE /\ ClaimName(n, {}, now)
          /\ Answer(t, "join", IF actors[n] # NoActor THEN "name_unavailable"
                               ELSE "ok", {})
  /\ UNCHANGED <<objects, reads, now, unused, acked>>

JoinNamed(t) == \E n \in Requested : JoinAs(t, n)

\* Slip: the attempts are not counted.
TryIssuedForever(t, created, tries) ==
  \E n \in Issued :
    /\ ClaimName(n, {}, created)
    /\ IF actors[n] = NoActor THEN Answer(t, "join", "ok", {})
       ELSE Await(t, [op |-> "join", created |-> created, tries |-> tries])

\* One turn of the loop over generated candidates: claim, and give up when the
\* attempts are spent.
TryIssued(t, created, tries) ==
  \E n \in Issued :
    /\ ClaimName(n, {}, created)
    /\ IF actors[n] = NoActor THEN Answer(t, "join", "ok", {})
       ELSE IF tries = 1 THEN Answer(t, "join", "name_unavailable", {})
       ELSE Await(t, [op |-> "join", created |-> created, tries |-> tries - 1])

JoinIssued(t) ==
  /\ Free(t) /\ "join" \in Ops
  /\ TryIssued(t, now, NameAttempts)
  /\ UNCHANGED <<objects, reads, now, unused, acked>>

JoinRetry(t) ==
  /\ tasks[t].op = "join"
  /\ TryIssued(t, tasks[t].created, tasks[t].tries)
  /\ UNCHANGED <<objects, reads, now, unused, acked>>

UpdateProfileAs(t, caller, profile) ==
  /\ Free(t) /\ "update_profile" \in Ops
  /\ Await(t, [op |-> "update_profile", caller |-> caller, profile |-> profile,
               found |-> actors[caller]])
  /\ UNCHANGED <<actors, objects, reads, now, unused, acked>>

UpdateProfile(t) ==
  \E caller \in Names, profile \in Profiles : UpdateProfileAs(t, caller, profile)

\* The record written back is built from the one read before the await.
PutProfile(t) ==
  LET task == tasks[t] IN
  /\ task.op = "update_profile"
  /\ IF task.found = NoActor
     THEN Answer(t, "update_profile", "unknown_actor", {}) /\ UNCHANGED actors
     ELSE LET actor == task.found
          IN  /\ PutActor(task.caller, actor.type, task.profile, actor.created)
              /\ Answer(t, "update_profile", "ok", {})
  /\ UNCHANGED <<objects, reads, now, unused, acked>>

InstallResident(t) ==
  /\ Free(t) /\ "install_resident" \in Ops
  /\ \E n \in Residents : ClaimName(n, {}, now)
  /\ Answer(t, "install_resident", "ok", {})
  /\ UNCHANGED <<objects, reads, now, unused, acked>>

(***************************************************************************)
(* Sending                                                                 *)
(***************************************************************************)

\* Where send() starts, whether a client called it or reply() did.
StartSend(t, caller, to, cc, parent) ==
  Await(t, [op |-> "send", at |-> "actor", caller |-> caller, to |-> to, cc |-> cc,
            parent |-> parent, found |-> actors[caller]])

\* Tasks that may still store a message: with one unused id for each, uuid4 never
\* runs dry half-way through a call.
Senders == {t \in Tasks : tasks[t].op \in {"send", "reply"}}
MayStartSend == Cardinality(unused) > Cardinality(Senders)

SendAs(t, caller, to, cc, parent) ==
  /\ Free(t) /\ "send" \in Ops /\ MayStartSend
  /\ StartSend(t, caller, to, cc, parent)
  /\ UNCHANGED <<actors, objects, reads, now, unused, acked>>

Send(t) ==
  \E caller \in Names, to \in Audiences, cc \in Copies, parent \in Parents :
    SendAs(t, caller, to, cc, parent)

SendContext(t) ==
  LET task == tasks[t] IN
  /\ task.op = "send" /\ task.at = "actor"
  /\ IF task.found = NoActor THEN Answer(t, "send", "unknown_actor", {})
     ELSE IF Elsewhere \in task.to \cup task.cc
     THEN Answer(t, "send", "address_error", {})
     ELSE Await(t, [op |-> "send", at |-> "context", caller |-> task.caller,
                    to |-> task.to, cc |-> task.cc, parent |-> task.parent,
                    acts |-> actors])
  /\ UNCHANGED <<actors, objects, reads, now, unused, acked>>

\* Slip: what was typed is stored, to be resolved whenever somebody looks.
NewObjectAsTyped(caller, to, cc, parent, acts) ==
  [from |-> caller, to |-> to, cc |-> cc, parent |-> parent, published |-> now]

\* The audience is resolved when the message is built, and what is stored is who it
\* reached: the sender left out, and nobody listed twice.
NewObject(caller, to, cc, parent, acts) ==
  LET reached == Reached(to, acts) \ {caller}
      also == (Reached(cc, acts) \ {caller}) \ reached
  IN  [from |-> caller, to |-> reached, cc |-> also, parent |-> parent,
       published |-> now]

Store(t, task, parent) ==
  /\ \E i \in unused :
       /\ AddObject(i, NewObject(task.caller, task.to, task.cc, parent, task.acts))
       /\ unused' = unused \ {i}
  /\ Answer(t, "send", "ok", {})

UnknownRecipients(names, acts) ==
  names \ (Joined(acts) \cup DOMAIN GroupMemberships(acts) \cup {Everyone})

SendDecide(t) ==
  LET task == tasks[t] IN
  /\ task.op = "send" /\ task.at = "context"
  /\ IF UnknownRecipients(task.to \cup task.cc, task.acts) # {}
     THEN Answer(t, "send", "unknown_recipient", {}) /\ UNCHANGED <<objects, unused>>
     ELSE IF task.parent = NoParent
     THEN Store(t, task, NoParent)
     ELSE /\ Await(t, [op |-> "send", at |-> "thread", caller |-> task.caller,
                       to |-> task.to, cc |-> task.cc, parent |-> task.parent,
                       acts |-> task.acts, objs |-> objects])
          /\ UNCHANGED <<objects, unused>>
  /\ UNCHANGED <<actors, reads, now, acked>>

\* A parent the sender may not attach to is dropped in silence.
SendAttach(t) ==
  LET task == tasks[t]
      allowed == MayAttachTo(task.objs, task.caller, task.parent, Joined(task.acts),
                             GroupMemberships(task.acts))
  IN
  /\ task.op = "send" /\ task.at = "thread"
  /\ Store(t, task, IF allowed THEN task.parent ELSE NoParent)
  /\ UNCHANGED <<actors, reads, now, acked>>

(***************************************************************************)
(* One message: read, view, reply, and the _visible_object they share      *)
(***************************************************************************)

Fetch(op, caller, id) ==
  [op |-> op, at |-> "actor", caller |-> caller, id |-> id,
   found |-> actors[caller]]

ReadAs(t, caller, id) ==
  /\ Free(t) /\ "read" \in Ops
  /\ Await(t, [op |-> "read", at |-> "reader", caller |-> caller, id |-> id,
               found |-> actors[caller]])
  /\ UNCHANGED <<actors, objects, reads, now, unused, acked>>

Read(t) == \E caller \in Names, id \in Ids : ReadAs(t, caller, id)

View(t) ==
  /\ Free(t) /\ "view" \in Ops
  /\ \E caller \in Names, id \in Ids : Await(t, Fetch("view", caller, id))
  /\ UNCHANGED <<actors, objects, reads, now, unused, acked>>

ReplyAs(t, caller, id) ==
  /\ Free(t) /\ "reply" \in Ops /\ MayStartSend
  /\ Await(t, Fetch("reply", caller, id))
  /\ UNCHANGED <<actors, objects, reads, now, unused, acked>>

Reply(t) == \E caller \in Names, id \in Ids : ReplyAs(t, caller, id)

\* read() checks the caller itself and then again inside _visible_object.
ReadReader(t) ==
  LET task == tasks[t] IN
  /\ task.op = "read" /\ task.at = "reader"
  /\ IF task.found = NoActor THEN Answer(t, "read", "unknown_actor", {})
     ELSE Await(t, Fetch("read", task.caller, task.id))
  /\ UNCHANGED <<actors, objects, reads, now, unused, acked>>

VisibleActor(t) ==
  LET task == tasks[t] IN
  /\ task.op \in Fetching /\ task.at = "actor"
  /\ IF task.found = NoActor THEN Answer(t, task.op, "unknown_actor", {})
     ELSE Await(t, [op |-> task.op, at |-> "object", caller |-> task.caller,
                    id |-> task.id, got |-> objects[task.id]])
  /\ UNCHANGED <<actors, objects, reads, now, unused, acked>>

VisibleObject(t) ==
  LET task == tasks[t] IN
  /\ task.op \in Fetching /\ task.at = "object"
  /\ IF task.got = NoObject THEN Answer(t, task.op, "no_such_message", {})
     ELSE Await(t, [op |-> task.op, at |-> "context", caller |-> task.caller,
                    id |-> task.id, got |-> task.got, acts |-> actors])
  /\ UNCHANGED <<actors, objects, reads, now, unused, acked>>

\* Slip: having found the message is taken for being party to it.
MayHaveAnything(task) == task.got # NoObject

\* What each caller of _visible_object does with the message, or the same refusal
\* as for a message that does not exist.
MayHave(task) == Party(task.got, task.caller, task.acts)

VisibleRefused(t) ==
  LET task == tasks[t] IN
  /\ task.op \in Fetching /\ task.at = "context"
  /\ ~MayHave(task)
  /\ Answer(t, task.op, "no_such_message", {})
  /\ UNCHANGED <<actors, objects, reads, now, unused, acked>>

\* Slip: one row per message, the first reader's.
MarkReadFirstOnly(t) ==
  LET task == tasks[t] IN
  /\ task.op = "read" /\ task.at = "context"
  /\ MayHave(task)
  /\ reads' = IF \E r \in reads : r[1] = task.id THEN reads
              ELSE reads \cup {<<task.id, task.caller>>}
  /\ acked' = acked \cup {<<task.id, task.caller>>}
  /\ Answer(t, "read", "ok", {task.id})
  /\ UNCHANGED <<actors, objects, now, unused>>

MarkRead(t) ==
  LET task == tasks[t] IN
  /\ task.op = "read" /\ task.at = "context"
  /\ MayHave(task)
  /\ reads' = reads \cup {<<task.id, task.caller>>}
  /\ acked' = acked \cup {<<task.id, task.caller>>}
  /\ Answer(t, "read", "ok", {task.id})
  /\ UNCHANGED <<actors, objects, now, unused>>

ViewAnswer(t) ==
  LET task == tasks[t] IN
  /\ task.op = "view" /\ task.at = "context"
  /\ MayHave(task)
  /\ Answer(t, "view", "ok", {task.id})
  /\ UNCHANGED <<actors, objects, reads, now, unused, acked>>

\* reply() goes through send() from the start, to the original's author.
ReplySend(t) ==
  LET task == tasks[t] IN
  /\ task.op = "reply" /\ task.at = "context"
  /\ MayHave(task)
  /\ StartSend(t, task.caller, {task.got.from}, {}, task.id)
  /\ UNCHANGED <<actors, objects, reads, now, unused, acked>>

(***************************************************************************)
(* Many messages: peek and thread                                          *)
(***************************************************************************)

\* History for PeekMissesNothing: what was waiting for the caller at the call.
WaitingFor(n) ==
  {i \in Stored(objects) : <<i, n>> \notin reads /\ n # objects[i].from
                            /\ Party(objects[i], n, actors)}

PeekAs(t, caller) ==
  /\ Free(t) /\ "peek" \in Ops
  /\ Await(t, [op |-> "peek", at |-> "actor", caller |-> caller, id |-> NoParent,
               found |-> actors[caller], waiting |-> WaitingFor(caller)])
  /\ UNCHANGED <<actors, objects, reads, now, unused, acked>>

Peek(t) == \E caller \in Names : PeekAs(t, caller)

Thread(t) ==
  /\ Free(t) /\ "thread" \in Ops
  /\ \E caller \in Names, root \in Ids :
       Await(t, [op |-> "thread", at |-> "actor", caller |-> caller, id |-> root,
                 found |-> actors[caller], waiting |-> {}])
  /\ UNCHANGED <<actors, objects, reads, now, unused, acked>>

ListContext(t) ==
  LET task == tasks[t] IN
  /\ task.op \in Listing /\ task.at = "actor"
  /\ IF task.found = NoActor THEN Answer(t, task.op, "unknown_actor", {})
     ELSE Await(t, [op |-> task.op, at |-> "context", caller |-> task.caller,
                    id |-> task.id, acts |-> actors, waiting |-> task.waiting])
  /\ UNCHANGED <<actors, objects, reads, now, unused, acked>>

PeekObjects(t) ==
  LET task == tasks[t] IN
  /\ task.op = "peek" /\ task.at = "context"
  /\ Await(t, [op |-> "peek", at |-> "objects", caller |-> task.caller,
               id |-> task.id, acts |-> task.acts, objs |-> objects,
               waiting |-> task.waiting])
  /\ UNCHANGED <<actors, objects, reads, now, unused, acked>>

\* Slip: has anyone read it, instead of has this reader.
ReadByAnyone(caller, objs) == {i \in Stored(objs) : \E n \in Names : <<i, n>> \in reads}

\* _read_by: of the listed objects, those this caller has consumed by now.
ReadBy(caller, objs) == {i \in Stored(objs) : <<i, caller>> \in reads}

PeekAnswer(t) ==
  LET task == tasks[t] IN
  /\ task.op = "peek" /\ task.at = "objects"
  /\ Answer(t, "peek", "ok",
            Unread(task.objs, task.caller, ReadBy(task.caller, task.objs),
                   Joined(task.acts), GroupMemberships(task.acts)))
  /\ UNCHANGED <<actors, objects, reads, now, unused, acked>>

ThreadAnswer(t) ==
  LET task == tasks[t] IN
  /\ task.op = "thread" /\ task.at = "context"
  /\ Answer(t, "thread", "ok",
            VisibleTurns(objects, task.id, task.caller, Joined(task.acts),
                         GroupMemberships(task.acts)))
  /\ UNCHANGED <<actors, objects, reads, now, unused, acked>>

(***************************************************************************)
(* Housekeeping                                                            *)
(***************************************************************************)

\* Retention of zero days or less means never.
Expire(t) ==
  /\ Free(t) /\ "expire" \in Ops
  /\ IF RetentionDays = 0
     THEN Answer(t, "expire", "ok", {})
     ELSE Await(t, [op |-> "expire", cutoff |-> now - RetentionDays,
                    objs |-> objects])
  /\ UNCHANGED <<actors, objects, reads, now, unused, acked>>

Doomed(task) == ExpiredObjectIds(task.objs, task.cutoff)

ExpireRemove(t) ==
  /\ tasks[t].op = "expire"
  /\ RemoveObjects(Doomed(tasks[t]))
  /\ Answer(t, "expire", "ok", Doomed(tasks[t]))
  /\ UNCHANGED <<actors, now, unused, acked>>

Tick ==
  /\ now < MaxTime
  /\ now' = now + 1
  /\ UNCHANGED <<actors, objects, reads, tasks, unused, acked>>

(***************************************************************************)
(* Specification                                                           *)
(***************************************************************************)

\* The store is opened holding the actors of an earlier run and no mail.
Init ==
  /\ actors = [n \in Names |->
                 IF n \in Enrolled
                 THEN [type |-> "Service", groups |-> {}, created |-> 0]
                 ELSE NoActor]
  /\ objects = [i \in Ids |-> NoObject]
  /\ reads = {}
  /\ now = 0
  /\ tasks = [t \in Tasks |-> [op |-> "none"]]
  /\ unused = Ids
  /\ acked = {}

\* A client calls an operation ...
Call(t) ==
  \/ JoinNamed(t) \/ JoinIssued(t) \/ UpdateProfile(t) \/ InstallResident(t)
  \/ Send(t) \/ Reply(t) \/ Read(t) \/ View(t) \/ Peek(t) \/ Thread(t) \/ Expire(t)

\* ... and the event loop resumes it each time the connection has answered.
Resume(t) ==
  \/ JoinRetry(t) \/ PutProfile(t)
  \/ SendContext(t) \/ SendDecide(t) \/ SendAttach(t)
  \/ ReadReader(t) \/ VisibleActor(t) \/ VisibleObject(t) \/ VisibleRefused(t)
  \/ MarkRead(t) \/ ViewAnswer(t) \/ ReplySend(t)
  \/ ListContext(t) \/ PeekObjects(t) \/ PeekAnswer(t) \/ ThreadAnswer(t)
  \/ ExpireRemove(t)

Next == Tick \/ \E t \in Tasks : Call(t) \/ Resume(t)

Spec == Init /\ [][Next]_vars

\* Every port call is answered and asyncio runs every ready coroutine; nothing
\* obliges a client to call, or the clock to reach any day.
FairSpec == Spec /\ \A t \in Tasks : WF_vars(Resume(t))
=============================================================================
