----------------------------- MODULE DeskProofs -----------------------------
(***************************************************************************)
(* What the desk insists on, for any clients and any spelling they use.    *)
(*                                                                         *)
(* A request is decoded in one step and answered several awaits later.     *)
(* The argument follows what was decoded: the history variable `asked`     *)
(* says what a request was about, and the invariants say that the locals   *)
(* of its coroutine are still about that.                                  *)
(***************************************************************************)
EXTENDS Desk, MailboxProofs, SequenceTheorems, FiniteSetTheorems, WellFoundedInduction

(***************************************************************************)
(* Decoding                                                                *)
(***************************************************************************)

LEMMA ForeignIsElsewhere ==
  ASSUME NEW text, text.host = "away"
  PROVE  LocalName(NameFrom(text)) = Elsewhere
BY DEF LocalName, NameFrom, At, Bare

\* Rendering an owner's URI and parsing it give the name that parsing alone gives.
LEMMA RenderedIsParsed ==
  ASSUME NEW text
  PROVE  LocalName(NameFrom(text)) = LocalName(text)
BY DEF LocalName, NameFrom, At, Bare

LEMMA OwnerIsCaller ==
  ASSUME NEW who \in Entitled
  PROVE  who[2] \in Names /\ LocalName(who[1]) = who[2]
BY RenderedIsParsed DEF Entitled, Owns

\* A note that is not refused as a whole goes to the names it lists and to no other.
LEMMA ListedIsAddressed ==
  ASSUME NEW texts, Elsewhere \notin Recipients(texts)
  PROVE  {Lower(text.name) : text \in texts} = Recipients(texts)
<1>1. ASSUME NEW text \in texts PROVE LocalName(NameFrom(text)) = Lower(text.name)
  <2>1. LocalName(NameFrom(text)) # Elsewhere
    BY DEF Recipients
  <2>. QED BY <2>1, RenderedIsParsed DEF LocalName
<1>. QED BY <1>1 DEF Recipients

(***************************************************************************)
(* What a request leaves behind                                            *)
(***************************************************************************)

BeginsSend(k, q, who, texts, parent) ==
  /\ q = AboutPost(LocalName(who[1]), texts, parent)
  /\ \/ parent # NoParent /\ texts = {} /\ k = Fetch("reply", who[2], parent)
     \/ /\ parent = NoParent \/ texts # {}
        /\ k = [op |-> "send", at |-> "actor", caller |-> who[2],
                to |-> Recipients(texts), cc |-> {}, parent |-> parent,
                found |-> actors[who[2]]]

BeginsAs(k, q, who) ==
  \/ /\ q = About(LocalName(who[1]), {}, NoParent, FALSE)
     /\ \/ \E profile \in Profiles :
             k = [op |-> "update_profile", caller |-> who[2], profile |-> profile,
                  found |-> actors[who[2]]]
        \/ k = [op |-> "peek", at |-> "actor", caller |-> who[2], id |-> NoParent,
                found |-> actors[who[2]], waiting |-> WaitingFor(who[2])]
  \/ \E texts \in Lists, parent \in Parents : BeginsSend(k, q, who, texts, parent)

Begins(k, q) ==
  \/ k.op \in {"answered", "read"}
  \/ k.op = "join" /\ k.created = now
  \/ \E who \in Entitled : BeginsAs(k, q, who)

LEMMA RequestBegins ==
  ASSUME NEW t \in Tasks, Request(t)
  PROVE  /\ Free(t)
         /\ \E k, q : Await(t, k) /\ asked' = [asked EXCEPT ![t] = q] /\ Begins(k, q)
<1>1. ASSUME NEW call, NEW code, Refuse(t, call, code)
      PROVE  Free(t) /\ \E k : Await(t, k) /\ k.op = "answered"
  BY <1>1 DEF Refuse, Answer
<1>2. CASE RefuseOwner(t)
  BY <1>1, <1>2 DEF RefuseOwner, Asking, Begins
<1>3. ASSUME NEW n \in Claimable, JoinAs(t, n)
      PROVE  Free(t) /\ \E k : Await(t, k) /\ k.op = "answered"
  BY <1>3 DEF JoinAs, Answer
<1>4. ASSUME JoinIssued(t)
      PROVE  Free(t) /\ \E k : /\ Await(t, k)
                               /\ k.op # "answered" => k.op = "join" /\ k.created = now
  BY <1>4 DEF JoinIssued, TryIssued, Answer
<1>5. CASE PostActors(t)
  BY <1>1, <1>3, <1>4, <1>5 DEF PostActors, Asking, Begins
<1>6. CASE PutActors(t)
  BY <1>6 DEF PutActors, UpdateProfileAs, Asking, Begins, BeginsAs
<1>7. CASE GetInbox(t)
  BY <1>7 DEF GetInbox, PeekAs, Asking, Begins, BeginsAs
<1>8. CASE PostRead(t)
  <2>1. Free(t) /\ \E k : Await(t, k) /\ k.op \in {"answered", "read"}
    <3>1. CASE \E caller, id : ReadAs(t, caller, id)
      BY <3>1 DEF ReadAs
    <3>2. CASE Refuse(t, "read", "address_error")
      BY <1>1, <3>2
    <3>. QED BY <1>8, <3>1, <3>2 DEF PostRead
  <2>. QED BY <1>8, <2>1 DEF PostRead, Asking, Begins
<1>9. CASE PostOutbox(t)
  <2>1. PICK who \in Entitled, texts \in Lists, parent \in Parents :
          /\ Outbox(t, who[2], texts, parent)
          /\ Asking(t, AboutPost(LocalName(who[1]), texts, parent))
    BY <1>9 DEF PostOutbox
  <2>2. Free(t) /\ \E k : /\ Await(t, k)
                          /\ \/ /\ parent # NoParent /\ texts = {}
                                /\ k = Fetch("reply", who[2], parent)
                             \/ /\ parent = NoParent \/ texts # {}
                                /\ k = [op |-> "send", at |-> "actor", caller |-> who[2],
                                        to |-> Recipients(texts), cc |-> {},
                                        parent |-> parent, found |-> actors[who[2]]]
    BY <2>1 DEF Outbox, ReplyAs, SendAs, StartSend
  <2>. QED BY <2>1, <2>2 DEF Asking, Begins, BeginsAs, BeginsSend
<1>. QED BY <1>2, <1>5, <1>6, <1>7, <1>8, <1>9 DEF Request

\* A request that is resumed: what becomes of its locals, action by action.
LEMMA RowChanges ==
  ASSUME DOMAIN tasks = Tasks, NEW t \in Tasks, NEW k, Await(t, k)
  PROVE  /\ DOMAIN tasks' = Tasks /\ tasks'[t] = k
         /\ \A s \in Tasks \ {t} : tasks'[s] = tasks[s]
BY DEF Await

LEMMA AskedChanges ==
  ASSUME DOMAIN asked = Tasks, NEW t \in Tasks, NEW q, asked' = [asked EXCEPT ![t] = q]
  PROVE  /\ DOMAIN asked' = Tasks /\ asked'[t] = q
         /\ \A s \in Tasks \ {t} : asked'[s] = asked[s]
OBVIOUS

LEMMA ResumedOne ==
  ASSUME DOMAIN tasks = Tasks, NEW t \in Tasks, Resume(t)
  PROVE  /\ DOMAIN tasks' = Tasks /\ \A s \in Tasks \ {t} : tasks'[s] = tasks[s]
         /\ tasks[t].op \notin {"none", "answered"}
<1>1. \E k : Await(t, k)
  BY DEF Resume, JoinRetry, TryIssued, PutProfile, SendContext, SendDecide, SendAttach, Store,
     ReadReader, VisibleActor, VisibleObject, VisibleRefused, MarkRead, ViewAnswer,
     ReplySend, StartSend, ListContext, PeekObjects, PeekAnswer, ThreadAnswer,
     ExpireRemove, Answer
<1>2. tasks[t].op \notin {"none", "answered"}
  BY DEF Resume, JoinRetry, PutProfile, SendContext, SendDecide, SendAttach,
     ReadReader, VisibleActor, VisibleObject, VisibleRefused, MarkRead, ViewAnswer,
     ReplySend, ListContext, PeekObjects, PeekAnswer, ThreadAnswer, ExpireRemove,
     Fetching, Listing
<1>. QED BY <1>1, <1>2, RowChanges

\* What a resumed send can turn into, and what turns into a send.
LEMMA ResumedSends ==
  ASSUME DOMAIN tasks = Tasks, NEW t \in Tasks, Resume(t), tasks'[t].op # "answered"
  PROVE  /\ DOMAIN tasks' = Tasks /\ \A s \in Tasks \ {t} : tasks'[s] = tasks[s]
         /\ tasks'[t].op \notin {"update_profile", "expire"}
         /\ tasks'[t].op = "reply" => tasks[t].op = "reply"
         /\ tasks'[t].op = "send" =>
              \/ tasks[t].op = "reply"
              \/ /\ tasks[t].op = "send"
                 /\ tasks[t].at = "actor" => Elsewhere \notin tasks[t].to
<1>1. ASSUME NEW call, NEW code, NEW ids, Answer(t, call, code, ids) PROVE FALSE
  <2>1. tasks'[t] = [op |-> "answered", call |-> call, code |-> code, ids |-> ids]
    BY <1>1 DEF Answer, Await
  <2>. QED BY <2>1
<1>2. CASE JoinRetry(t)
  <2>1. \E k : Await(t, k) /\ k.op = "join"
    BY <1>1, <1>2 DEF JoinRetry, TryIssued
  <2>. QED BY <2>1, RowChanges
<1>3. CASE PutProfile(t)
  BY <1>1, <1>3 DEF PutProfile
<1>4. CASE SendContext(t)
  <2>1. /\ tasks[t].op = "send" /\ tasks[t].at = "actor" /\ Elsewhere \notin tasks[t].to
        /\ \E k : Await(t, k) /\ k.op = "send"
    BY <1>1, <1>4 DEF SendContext
  <2>. QED BY <2>1, RowChanges
<1>5. CASE SendDecide(t)
  <2>1. /\ tasks[t].op = "send" /\ tasks[t].at = "context"
        /\ \E k : Await(t, k) /\ k.op = "send"
    BY <1>1, <1>5 DEF SendDecide, Store
  <2>. QED BY <2>1, RowChanges
<1>6. CASE SendAttach(t) \/ MarkRead(t) \/ ViewAnswer(t) \/ VisibleRefused(t)
  BY <1>1, <1>6 DEF SendAttach, Store, MarkRead, ViewAnswer, VisibleRefused
<1>7. CASE ReadReader(t)
  <2>1. \E k : Await(t, k) /\ k.op = "read"
    BY <1>1, <1>7 DEF ReadReader, Fetch
  <2>. QED BY <2>1, RowChanges
<1>8. CASE VisibleActor(t) \/ VisibleObject(t)
  <2>1. tasks[t].op \in Fetching /\ \E k : Await(t, k) /\ k.op = tasks[t].op
    BY <1>1, <1>8 DEF VisibleActor, VisibleObject
  <2>. QED BY <2>1, RowChanges DEF Fetching
<1>9. CASE ReplySend(t)
  <2>1. tasks[t].op = "reply" /\ \E k : Await(t, k) /\ k.op = "send"
    BY <1>9 DEF ReplySend, StartSend
  <2>. QED BY <2>1, RowChanges
<1>10. CASE ListContext(t) \/ PeekObjects(t)
  <2>1. \E k : Await(t, k) /\ k.op \in Listing
    BY <1>1, <1>10 DEF ListContext, PeekObjects, Listing
  <2>. QED BY <2>1, RowChanges DEF Listing
<1>11. CASE PeekAnswer(t) \/ ThreadAnswer(t) \/ ExpireRemove(t)
  BY <1>1, <1>11 DEF PeekAnswer, ThreadAnswer, ExpireRemove
<1>. QED BY <1>2, <1>3, <1>4, <1>5, <1>6, <1>7, <1>8, <1>9, <1>10, <1>11 DEF Resume

(***************************************************************************)
(* Foreign addresses                                                       *)
(***************************************************************************)

\* A request that lists somebody abroad is a send that will be refused.
Turned(k, q) ==
  q.abroad => /\ k.op # "reply"
              /\ k.op = "send" => k.at = "actor" /\ Elsewhere \in k.to

ForeignInv ==
  /\ DOMAIN tasks = Tasks /\ DOMAIN asked = Tasks
  /\ \A t \in Tasks : Turned(tasks[t], asked[t])

LEMMA BegunTurned ==
  ASSUME NEW k, NEW q, Begins(k, q)
  PROVE  Turned(k, q)
<1>1. ASSUME NEW who, NEW texts, NEW parent, BeginsSend(k, q, who, texts, parent), q.abroad
      PROVE  Turned(k, q)
  <2>1. PICK text \in texts : text.host = "away"
    BY <1>1 DEF BeginsSend, AboutPost, About
  <2>2. Elsewhere \in Recipients(texts)
    BY <2>1, ForeignIsElsewhere DEF Recipients
  <2>. QED BY <1>1, <2>1, <2>2 DEF BeginsSend, Turned
<1>2. ASSUME NEW who, BeginsAs(k, q, who) PROVE Turned(k, q)
  BY <1>1, <1>2 DEF BeginsAs, Turned, About
<1>. QED BY <1>2 DEF Begins, Turned

LEMMA ForeignStays ==
  ASSUME ForeignInv, [DeskNext]_desk
  PROVE  ForeignInv'
<1>1. ASSUME NEW t \in Tasks, Request(t) PROVE ForeignInv'
  <2>1. PICK k, q : Await(t, k) /\ asked' = [asked EXCEPT ![t] = q] /\ Begins(k, q)
    BY <1>1, RequestBegins
  <2>2. Turned(k, q)
    BY <2>1, BegunTurned
  <2>. QED BY <2>1, <2>2, RowChanges, AskedChanges DEF ForeignInv, Turned
<1>2. ASSUME NEW t \in Tasks, Resume(t), UNCHANGED asked PROVE ForeignInv'
  <2>1. CASE tasks'[t].op # "answered"
    BY <1>2, <2>1, ResumedSends DEF ForeignInv, Turned
  <2>2. CASE tasks'[t].op = "answered"
    BY <1>2, <2>2, ResumedOne DEF ForeignInv, Turned
  <2>. QED BY <2>1, <2>2
<1>3. CASE UNCHANGED desk
  BY <1>3 DEF desk, vars, ForeignInv, Turned
<1>. QED BY <1>1, <1>2, <1>3 DEF DeskNext

\* An accepted send was decided on after its addresses had been parsed.
LEMMA AcceptedIsParsed ==
  ASSUME DOMAIN tasks = Tasks, NEW t \in Tasks, Answered(t, "send", "ok"), DeskNext
  PROVE  /\ tasks[t].at \in {"context", "thread"}
         /\ SendDecide(t) \/ SendAttach(t)
         /\ UNCHANGED asked
<1>1. PICK s \in Tasks : Request(s) \/ (Resume(s) /\ UNCHANGED asked)
  BY DEF DeskNext
<1>2. s = t
  <2>1. CASE Request(s)
    BY <2>1, RequestBegins, RowChanges DEF Answered
  <2>2. CASE Resume(s)
    BY <2>2, ResumedOne DEF Answered
  <2>. QED BY <1>1, <2>1, <2>2
<1>3. ~Free(t)
  BY DEF Answered, Free
<1>4. Resume(t) /\ UNCHANGED asked
  BY <1>1, <1>2, <1>3, RequestBegins
<1>5. ~SendContext(t)
  <2>1. ASSUME SendContext(t), NEW code, Answer(t, "send", code, {}) PROVE tasks'[t].code = code
    BY <2>1, RowChanges DEF Answer
  <2>2. ASSUME SendContext(t), NEW k, Await(t, k) PROVE tasks'[t] = k
    BY <2>2, RowChanges
  <2>. QED BY <2>1, <2>2 DEF SendContext, Answered
<1>6. SendDecide(t) \/ SendAttach(t)
  BY <1>4, <1>5 DEF Resume, Answered, JoinRetry, PutProfile, ReadReader, VisibleActor,
     VisibleObject, VisibleRefused, MarkRead, ViewAnswer, ReplySend, ListContext,
     PeekObjects, PeekAnswer, ThreadAnswer, ExpireRemove, Fetching, Listing
<1>. QED BY <1>4, <1>6 DEF SendDecide, SendAttach

(***************************************************************************)
(* ForeignNeverLands: no post that lists anybody on another hub is ever    *)
(* accepted, for any notes, any clients and any number of requests.        *)
(***************************************************************************)
THEOREM ForeignNeverLands == DeskSpec => ForeignStaysForeign
<1>. DEFINE Stays == \A t \in Tasks : Answered(t, "send", "ok") => ~asked[t].abroad
<1>1. DeskInit => ForeignInv
  BY DEF DeskInit, Init, ForeignInv, Turned, NothingAsked, About
<1>2. ForeignInv /\ [DeskNext]_desk => ForeignInv'
  BY ForeignStays
<1>3. ForeignInv /\ DeskNext => Stays
  BY AcceptedIsParsed DEF ForeignInv, Turned, Answered
<1>4. ForeignInv /\ [DeskNext]_desk => [Stays]_desk
  BY <1>3
<1>. QED BY <1>1, <1>2, <1>4, PTL DEF DeskSpec, ForeignStaysForeign
(***************************************************************************)
(* Who becomes an actor                                                    *)
(***************************************************************************)

\* Only a join makes a new actor: what a profile is written for was one before.
LEMMA NewcomersJoined ==
  ASSUME NEW t \in Tasks, Request(t) \/ Resume(t),
         NEW n \in Joined(actors') \ Joined(actors)
  PROVE  \/ n \in Claimable \cup Issued
         \/ /\ tasks[t].op = "update_profile" /\ tasks[t].found # NoActor
            /\ n = tasks[t].caller
<1>1. actors' # actors
  OBVIOUS
<1>2. ASSUME NEW m, NEW groups, NEW created, ClaimName(m, groups, created)
      PROVE  n = m
  BY <1>2 DEF ClaimName, Joined
<1>3. ASSUME NEW created, NEW tries, TryIssued(t, created, tries) PROVE n \in Issued
  BY <1>2, <1>3 DEF TryIssued
<1>4. CASE Request(t)
  <2>1. PostActors(t)
    BY <1>1, <1>4 DEF Request, RefuseOwner, Refuse, PutActors, UpdateProfileAs, GetInbox,
       PeekAs, PostRead, ReadAs, PostOutbox, Outbox, ReplyAs, SendAs
  <2>. QED BY <1>1, <1>2, <1>3, <2>1 DEF PostActors, Refuse, JoinIssued, JoinAs
<1>5. CASE Resume(t)
  <2>1. JoinRetry(t) \/ PutProfile(t)
    BY <1>1, <1>5 DEF Resume, SendContext, SendDecide, SendAttach, ReadReader, VisibleActor,
       VisibleObject, VisibleRefused, MarkRead, ViewAnswer, ReplySend, ListContext,
       PeekObjects, PeekAnswer, ThreadAnswer, ExpireRemove
  <2>2. CASE PutProfile(t)
    BY <1>1, <2>2 DEF PutProfile, PutActor, Joined
  <2>. QED BY <1>3, <2>1, <2>2 DEF JoinRetry
<1>. QED BY <1>4, <1>5

LEMMA BegunProfile ==
  ASSUME NEW k, NEW q, Begins(k, q), k.op = "update_profile"
  PROVE  k.caller \in Names /\ k.found = actors[k.caller] /\ k.profile \in Profiles
<1>1. PICK who \in Entitled : BeginsAs(k, q, who)
  BY DEF Begins
<1>2. ASSUME NEW texts, NEW parent, BeginsSend(k, q, who, texts, parent)
      PROVE  FALSE
  <2>1. CASE k = Fetch("reply", who[2], parent)
    BY <2>1 DEF Fetch
  <2>2. CASE k = [op |-> "send", at |-> "actor", caller |-> who[2],
                  to |-> Recipients(texts), cc |-> {}, parent |-> parent,
                  found |-> actors[who[2]]]
    BY <2>2
  <2>. QED BY <1>2, <2>1, <2>2 DEF BeginsSend
<1>3. PICK profile \in Profiles :
        k = [op |-> "update_profile", caller |-> who[2], profile |-> profile,
             found |-> actors[who[2]]]
  <2>1. k # [op |-> "peek", at |-> "actor", caller |-> who[2], id |-> NoParent,
             found |-> actors[who[2]], waiting |-> WaitingFor(who[2])]
    OBVIOUS
  <2>2. ~ \E texts \in Lists, parent \in Parents : BeginsSend(k, q, who, texts, parent)
    BY <1>2
  <2>. QED BY <1>1, <2>1, <2>2, Zenon DEF BeginsAs
<1>. QED BY <1>3, OwnerIsCaller

NamesWithTables == DOMAIN actors = Names /\ DOMAIN tasks = Tasks

\* Every name held is in S, and a profile under way is that of an actor already there.
NamesWithin(S) ==
  /\ NamesWithTables
  /\ Joined(actors) \subseteq S
  /\ \A t \in Tasks : tasks[t].op = "update_profile" /\ tasks[t].found # NoActor
                        => tasks[t].caller \in S

LEMMA WithinAtFirst ==
  ASSUME NEW S, DeskInit, Enrolled \subseteq S
  PROVE  NamesWithin(S)
BY DEF DeskInit, Init, NamesWithin, NamesWithTables, Joined

LEMMA GeneratedIsPair ==
  ASSUME NEW name \in Generated
  PROVE  \E given \in Given, family \in Family : name = given \o <<"under">> \o family
<1>. DEFINE both(given, family) == given \o <<"under">> \o family
<1>1. Generated = {both(given, family) : given \in Given, family \in Family}
  BY DEF Generated
<1>. HIDE DEF both
<1>2. \E given \in Given, family \in Family : name = both(given, family)
  BY <1>1
<1>. QED BY <1>2 DEF both

\* Two letters and an underscore between them are no word of letters.
LEMMA IssuedAreCompound ==
  ASSUME Given \cup Family \subseteq Seq(Characters), ReservedNames \subseteq Seq(Letters)
  PROVE  Generated \cap ReservedNames = {}
<1>1. ASSUME NEW given \in Given, NEW family \in Family
      PROVE  given \o <<"under">> \o family \notin ReservedNames
  <2>1. given \in Seq(Characters) /\ family \in Seq(Characters)
    OBVIOUS
  <2>2. /\ Len(given) + 1 \in 1 .. Len(given \o <<"under">> \o family)
        /\ (given \o <<"under">> \o family)[Len(given) + 1] = "under"
    BY <2>1 DEF Characters
  <2>3. "under" \notin Letters
    BY DEF Letters
  <2>. HIDE DEF Letters, Characters
  <2>4. ASSUME given \o <<"under">> \o family \in Seq(Letters) PROVE FALSE
    BY <2>2, <2>3, <2>4
  <2>. QED BY <2>4
<1>2. ASSUME NEW name \in Generated PROVE name \notin ReservedNames
  <2>1. PICK given \in Given, family \in Family : name = given \o <<"under">> \o family
    BY GeneratedIsPair
  <2>. QED BY <1>1, <2>1
<1>. QED BY <1>2

LEMMA WithinStays ==
  ASSUME NEW S, NamesWithin(S), [DeskNext]_desk, Claimable \cup Issued \subseteq S
  PROVE  NamesWithin(S)'
<1>1. CASE UNCHANGED desk
  BY <1>1 DEF desk, vars, NamesWithin, NamesWithTables, Joined
<1>2. ASSUME NEW t \in Tasks, Request(t) \/ Resume(t) PROVE Joined(actors') \subseteq S
  <2>1. ASSUME NEW n \in Joined(actors') \ Joined(actors) PROVE n \in S
    BY <1>2, <2>1, NewcomersJoined DEF NamesWithin
  <2>. QED BY <2>1 DEF NamesWithin
<1>3. ASSUME NEW t \in Tasks, Request(t) \/ Resume(t) PROVE DOMAIN actors' = Names
  <2>1. ASSUME NEW m, NEW groups, NEW created, ClaimName(m, groups, created)
        PROVE  DOMAIN actors' = Names
    BY <2>1 DEF NamesWithin, NamesWithTables, ClaimName
  <2>2. CASE UNCHANGED actors
    BY <2>2 DEF NamesWithin, NamesWithTables
  <2>3. CASE actors' # actors /\ Request(t)
    <3>1. PostActors(t)
      BY <2>3 DEF Request, RefuseOwner, Refuse, PutActors, UpdateProfileAs, GetInbox,
         PeekAs, PostRead, ReadAs, PostOutbox, Outbox, ReplyAs, SendAs
    <3>. QED BY <2>1, <2>2, <3>1 DEF PostActors, Refuse, JoinIssued, TryIssued, JoinAs
  <2>4. CASE actors' # actors /\ Resume(t)
    <3>1. JoinRetry(t) \/ PutProfile(t)
      BY <2>4 DEF Resume, SendContext, SendDecide, SendAttach, ReadReader, VisibleActor,
         VisibleObject, VisibleRefused, MarkRead, ViewAnswer, ReplySend, ListContext,
         PeekObjects, PeekAnswer, ThreadAnswer, ExpireRemove
    <3>2. CASE PutProfile(t)
      BY <2>2, <3>2 DEF PutProfile, PutActor, NamesWithin, NamesWithTables
    <3>. QED BY <2>1, <3>1, <3>2 DEF JoinRetry, TryIssued
  <2>. QED BY <1>3, <2>2, <2>3, <2>4
<1>4. ASSUME NEW t \in Tasks, Request(t) PROVE NamesWithin(S)'
  <2>1. PICK k, q : Await(t, k) /\ Begins(k, q)
    BY <1>4, RequestBegins
  <2>2. k.op = "update_profile" /\ k.found # NoActor => k.caller \in S
    BY <2>1, BegunProfile DEF NamesWithin, NamesWithTables, Joined
  <2>. QED BY <1>2, <1>3, <1>4, <2>1, <2>2, RowChanges DEF NamesWithin, NamesWithTables
<1>5. ASSUME NEW t \in Tasks, Resume(t) PROVE NamesWithin(S)'
  <2>1. tasks'[t].op # "update_profile"
    BY <1>5, ResumedSends DEF NamesWithin, NamesWithTables
  <2>. QED BY <1>2, <1>3, <1>5, <2>1, ResumedOne DEF NamesWithin, NamesWithTables
<1>. QED BY <1>1, <1>4, <1>5 DEF DeskNext

(***************************************************************************)
(* NoReservedName: whatever spelling is asked for, and however joins and   *)
(* profile updates overlap, no agent ever holds a reserved word, provided  *)
(* the store was opened without one, the words are letters only and what   *)
(* is issued comes from the pool: then no issued name can be such a word.  *)
(***************************************************************************)
THEOREM NoReservedName ==
  ASSUME Enrolled \cap ReservedNames = {}, Issued \subseteq Generated,
         Given \cup Family \subseteq Seq(Characters), ReservedNames \subseteq Seq(Letters)
  PROVE  DeskSpec => []ReservedStayFree
<1>. DEFINE S == Names \ ReservedNames
<1>1. Issued \cap ReservedNames = {}
  BY IssuedAreCompound
<1>2. Claimable \cup Issued \subseteq S
  BY <1>1, MailboxAssumption DEF Claimable, Refusable, Valid
<1>3. Enrolled \subseteq S
  BY MailboxAssumption
<1>. HIDE DEF S
<1>4. DeskInit => NamesWithin(S)
  BY <1>3, WithinAtFirst
<1>5. NamesWithin(S) /\ [DeskNext]_desk => NamesWithin(S)'
  BY <1>2, WithinStays
<1>6. NamesWithin(S) => ReservedStayFree
  BY DEF NamesWithin, ReservedStayFree, S
<1>. QED BY <1>4, <1>5, <1>6, PTL DEF DeskSpec

(***************************************************************************)
(* Spelling                                                                *)
(***************************************************************************)

LEMMA LeastOf ==
  ASSUME NEW T, T \subseteq Nat, T # {}
  PROVE  \E m \in T : \A n \in T : m <= n
<1>1. PICK R : R = {ss \in Nat \X Nat : ss[1] < ss[2]}
  OBVIOUS
<1>2. ASSUME NEW x \in Nat, NEW y \in Nat PROVE <<y, x>> \in R <=> y < x
  <2>1. PICK ss : ss = <<y, x>>
    OBVIOUS
  <2>2. ss \in Nat \X Nat /\ ss[1] = y /\ ss[2] = x
    BY <2>1
  <2>3. ss \in R <=> ss[1] < ss[2]
    BY <1>1, <2>2
  <2>. QED BY <2>1, <2>2, <2>3
<1>3. IsWellFoundedOn(R, Nat)
  BY <1>1, NatLessThanWellFounded DEF OpToRel
<1>4. PICK x \in T : \A y \in T : ~(<<y, x>> \in R)
  BY <1>3, WFMin
<1>5. ASSUME NEW y \in T PROVE x <= y
  <2>1. x \in Nat /\ y \in Nat
    OBVIOUS
  <2>2. ~(y < x)
    BY <1>2, <1>4, <2>1
  <2>. QED BY <2>1, <2>2
<1>. QED BY <1>5

\* Of finitely many positions there is a first, and there is a last.
LEMMA EndsOf ==
  ASSUME NEW n \in Nat, NEW T, T \subseteq 1 .. n, T # {}
  PROVE  Min(T) \in T /\ Max(T) \in T
<1>. T \subseteq Nat
  OBVIOUS
<1>1. PICK x \in T : \A y \in T : x <= y
  BY LeastOf
<1>2. PICK B : B = {m \in Nat : \A y \in T : y <= m}
  OBVIOUS
<1>3. n \in B
  BY <1>2
<1>4. PICK m \in B : \A b \in B : m <= b
  BY <1>2, <1>3, LeastOf
<1>5. m \in Nat /\ \A y \in T : y <= m
  BY <1>2, <1>4
<1>6. m \in T
  <2>1. SUFFICES ASSUME m \notin T PROVE FALSE
    OBVIOUS
  <2>2. m - 1 \in Nat
    BY <1>1, <1>5
  <2>3. \A y \in T : y <= m - 1
    BY <1>5, <2>1
  <2>4. m - 1 \in B
    BY <1>2, <2>2, <2>3
  <2>. QED BY <1>4, <1>5, <2>4
<1>7. Min(T) \in T
  BY <1>1 DEF Min
<1>8. \A y \in T : m >= y
  BY <1>5
<1>9. Max(T) \in T
  BY <1>6, <1>8 DEF Max
<1>. QED BY <1>7, <1>9

\* The k-th of finitely many positions.
LEMMA NthOf ==
  ASSUME NEW n \in Nat, NEW T, T \subseteq 1 .. n, NEW k \in 1 .. Cardinality(T)
  PROVE  \E i \in T : Cardinality({j \in T : j <= i}) = k
<1>. DEFINE Upto(m) == {j \in T : j <= m}
<1>1. IsFiniteSet(T) /\ Cardinality(T) \in Nat
  <2>1. IsFiniteSet(1 .. n) /\ T \in SUBSET (1 .. n)
    BY FS_Interval
  <2>2. IsFiniteSet(T)
    BY <2>1, FS_Subset
  <2>. QED BY <2>2, FS_CardinalityType
<1>2. ASSUME NEW m \in Nat PROVE IsFiniteSet(Upto(m)) /\ Cardinality(Upto(m)) \in Nat
  <2>1. Upto(m) \in SUBSET T
    OBVIOUS
  <2>. HIDE DEF Upto
  <2>2. IsFiniteSet(Upto(m))
    BY <1>1, <2>1, FS_Subset
  <2>. QED BY <2>2, FS_CardinalityType
<1>3. Upto(n) = T /\ Upto(0) = {}
  <2>1. \A j \in T : j <= n /\ ~(j <= 0)
    OBVIOUS
  <2>. QED BY <2>1, Zenon
<1>4. PICK B : B = {m \in Nat : Cardinality(Upto(m)) >= k}
  OBVIOUS
<1>5. n \in B
  BY <1>1, <1>3, <1>4
<1>6. PICK m \in B : \A b \in B : m <= b
  BY <1>4, <1>5, LeastOf
<1>7. m \in Nat /\ Cardinality(Upto(m)) >= k
  BY <1>4, <1>6
<1>8. m # 0
  BY <1>3, <1>7, FS_EmptySet
<1>9. m - 1 \in Nat /\ m - 1 \notin B
  BY <1>6, <1>7, <1>8
<1>10. Cardinality(Upto(m - 1)) < k
  <2>1. ~(Cardinality(Upto(m - 1)) >= k)
    BY <1>4, <1>9
  <2>2. Cardinality(Upto(m - 1)) \in Nat
    BY <1>2, <1>9
  <2>. QED BY <2>1, <2>2
<1>11. m \in T
  <2>1. SUFFICES ASSUME m \notin T PROVE FALSE
    OBVIOUS
  <2>2. \A j \in T : j <= m <=> j <= m - 1
    BY <1>7, <2>1
  <2>3. Upto(m) = Upto(m - 1)
    BY <2>2, Zenon
  <2>. HIDE DEF Upto
  <2>. QED BY <1>2, <1>7, <1>9, <1>10, <2>3
<1>12. Upto(m) = Upto(m - 1) \cup {m} /\ m \notin Upto(m - 1)
  <2>1. \A j \in T : j <= m <=> j <= m - 1 \/ j = m
    BY <1>7
  <2>2. m <= m /\ ~(m <= m - 1)
    BY <1>7
  <2>. QED BY <1>11, <2>1, <2>2, Zenon
<1>. HIDE DEF Upto
<1>13. Cardinality(Upto(m)) = Cardinality(Upto(m - 1)) + 1
  BY <1>2, <1>9, <1>12, FS_AddElement
<1>14. Cardinality(Upto(m)) = k
  BY <1>2, <1>7, <1>9, <1>10, <1>13
<1>. QED BY <1>11, <1>14 DEF Upto

\* What is picked was there.
LEMMA PickedFrom ==
  ASSUME NEW S, NEW s, NEW n \in Nat, NEW kept, kept \subseteq 1 .. n,
         \A i \in kept : s[i] \in S
  PROVE  Picked(s, kept) \in Seq(S)
<1>1. Cardinality(kept) \in Nat
  <2>1. IsFiniteSet(1 .. n) /\ kept \in SUBSET (1 .. n)
    BY FS_Interval
  <2>2. IsFiniteSet(kept)
    BY <2>1, FS_Subset
  <2>. QED BY <2>2, FS_CardinalityType
<1>2. ASSUME NEW k \in 1 .. Cardinality(kept)
      PROVE  s[CHOOSE i \in kept : Cardinality({j \in kept : j <= i}) = k] \in S
  BY NthOf
<1>3. PICK f : f = [k \in 1 .. Cardinality(kept) |->
                      s[CHOOSE i \in kept : Cardinality({j \in kept : j <= i}) = k]]
  OBVIOUS
<1>4. f \in [1 .. Cardinality(kept) -> S]
  BY <1>2, <1>3, Zenon
<1>5. f \in Seq(S)
  BY <1>1, <1>4
<1>. QED BY <1>3, <1>5, Zenon DEF Picked

LEMMA CollapsedFrom ==
  ASSUME NEW S, NEW s \in Seq(S)
  PROVE  Collapsed(s) \in Seq(S)
BY PickedFrom DEF Collapsed

LEMMA AsciiFrom ==
  ASSUME NEW S, NEW s \in Seq(S)
  PROVE  Ascii(s) \in Seq(S \ {"other"})
BY PickedFrom DEF Ascii

LEMMA StrippedFrom ==
  ASSUME NEW S, NEW s \in Seq(S)
  PROVE  Stripped(s) \in Seq(S)
<1>1. PICK kept : kept = {i \in DOMAIN s : s[i] # "under"}
  OBVIOUS
<1>2. CASE kept = {}
  BY <1>1, <1>2 DEF Stripped
<1>3. CASE kept # {}
  <2>1. Min(kept) \in 1 .. Len(s) /\ Max(kept) \in 1 .. Len(s)
    <3>1. Len(s) \in Nat /\ kept \subseteq 1 .. Len(s)
      BY <1>1
    <3>2. Min(kept) \in kept /\ Max(kept) \in kept
      BY <1>3, <3>1, EndsOf
    <3>. QED BY <3>1, <3>2
  <2>2. \A i \in Min(kept) .. Max(kept) : s[i] \in S
    BY <2>1
  <2>3. SubSeq(s, Min(kept), Max(kept)) \in Seq(S)
    BY <2>1, <2>2, SubSeqProperties
  <2>. QED BY <1>1, <1>3, <2>3 DEF Stripped
<1>. QED BY <1>2, <1>3

\* The names a hub gives out: small letters and underscores.
Canonical == Seq({"low", "under"}) \ {<<>>}

LEMMA FoldedFrom ==
  ASSUME NEW s \in Seq(Characters)
  PROVE  Folded(s) \in Seq({"low", "under", "other"})
<1>1. PICK f : f = [c \in Characters |-> IF c \in Letters THEN "low"
                                  ELSE IF c = "sep" THEN "under" ELSE c]
  OBVIOUS
<1>2. \A c \in Characters : f[c] \in {"low", "under", "other"}
  BY <1>1 DEF Characters, Letters
<1>3. \A i \in 1 .. Len(s) : f[s[i]] \in {"low", "under", "other"}
  <2>. HIDE DEF Characters
  <2>. QED BY <1>2
<1>4. [i \in DOMAIN s |-> f[s[i]]] \in Seq({"low", "under", "other"})
  BY <1>3
<1>5. Folded(s) = [i \in DOMAIN s |-> f[s[i]]]
  BY <1>1 DEF Folded, Mapped
<1>. QED BY <1>4, <1>5

LEMMA NormalizeIsCanonical ==
  ASSUME NEW raw \in Seq(Characters)
  PROVE  Normalize(raw) \in Seq({"low", "under"})
<1>1. Ascii(Collapsed(Folded(raw))) \in Seq({"low", "under", "other"} \ {"other"})
  BY FoldedFrom, CollapsedFrom, AsciiFrom
<1>2. {"low", "under", "other"} \ {"other"} = {"low", "under"}
  OBVIOUS
<1>3. Ascii(Collapsed(Folded(raw))) \in Seq({"low", "under"})
  BY <1>1, <1>2
<1>. QED BY <1>3, StrippedFrom DEF Normalize

\* Parsing an address lowers its case, which is all a canonical name can gain.
LEMMA LowerIsName ==
  ASSUME NEW n \in Seq({"low", "under"})
  PROVE  Lower(n) = n /\ Lower(Upper(n)) = n
<1>1. \A i \in DOMAIN n : n[i] \in {"low", "under"}
  OBVIOUS
<1>2. n = [i \in DOMAIN n |-> n[i]]
  OBVIOUS
<1>3. Lower(n) = [i \in DOMAIN n |-> n[i]]
  BY <1>1 DEF Lower, Mapped, Characters, Letters
<1>4. Lower(Upper(n)) = [i \in DOMAIN n |-> n[i]]
  BY <1>1 DEF Lower, Upper, Mapped, Characters, Letters
<1>. QED BY <1>2, <1>3, <1>4

\* A canonical name, however its address is written, is what the address comes to.
LEMMA SpelledIsName ==
  ASSUME NEW n \in Canonical
  PROVE  Recipients(Spellings(n)) = {n}
<1>1. Lower(n) = n /\ Lower(Upper(n)) = n
  BY LowerIsName DEF Canonical
<1>2. n # <<>> /\ Upper(n) # <<>>
  BY DEF Canonical, Upper, Mapped
<1>3. ASSUME NEW text \in Spellings(n) PROVE LocalName(NameFrom(text)) = n
  BY <1>1, <1>2, <1>3 DEF Spellings, LocalName, NameFrom, Bare, At, Uri
<1>4. Bare(n) \in Spellings(n)
  BY DEF Spellings
<1>. QED BY <1>3, <1>4 DEF Recipients

\* An underscore joins two entries of the pool.
LEMMA GeneratedIsCanonical ==
  ASSUME Given \cup Family \subseteq Seq({"low"}) \ {<<>>}
  PROVE  Generated \subseteq Canonical
<1>1. ASSUME NEW given \in Given, NEW family \in Family
      PROVE  given \o <<"under">> \o family \in Canonical
  <2>1. given \in Seq({"low", "under"}) /\ family \in Seq({"low", "under"})
    OBVIOUS
  <2>2. given \o <<"under">> \o family \in Seq({"low", "under"})
    BY <2>1
  <2>3. Len(given \o <<"under">> \o family) = Len(given) + 1 + Len(family)
    BY <2>1
  <2>. QED BY <2>1, <2>2, <2>3 DEF Canonical
<1>2. ASSUME NEW name \in Generated PROVE name \in Canonical
  <2>1. PICK given \in Given, family \in Family : name = given \o <<"under">> \o family
    BY GeneratedIsPair
  <2>. QED BY <1>1, <2>1
<1>. QED BY <1>2

LEMMA ClaimableIsCanonical ==
  ASSUME Typed \subseteq Seq(Characters)
  PROVE  Claimable \subseteq Canonical
<1>1. ASSUME NEW raw \in Requests \ Refusable PROVE Normalize(raw) \in Canonical
  <2>1. Len(Normalize(raw)) \in 1 .. MaxName /\ MaxName \in Nat
    BY <1>1, DeskAssumption DEF Refusable, Valid
  <2>2. Normalize(raw) \in Seq({"low", "under"})
    BY <1>1, NormalizeIsCanonical DEF Requests
  <2>. QED BY <2>1, <2>2 DEF Canonical
<1>. QED BY <1>1 DEF Claimable

(***************************************************************************)
(* EverySpellingAgrees: whatever strings agents ask to be called, every    *)
(* way of writing the address of an actor reaches that actor, provided the *)
(* store was opened with canonical names only and the entries of the pool  *)
(* are lower case letters, as the data in name_pool.py is.                 *)
(***************************************************************************)
THEOREM EverySpellingAgrees ==
  ASSUME Enrolled \subseteq Canonical, Issued \subseteq Generated,
         Given \cup Family \subseteq Seq({"low"}) \ {<<>>}, Typed \subseteq Seq(Characters)
  PROVE  DeskSpec => []SpellingsAgree
<1>1. Claimable \cup Issued \subseteq Canonical
  BY ClaimableIsCanonical, GeneratedIsCanonical
<1>2. DeskInit => NamesWithin(Canonical)
  BY WithinAtFirst
<1>3. NamesWithin(Canonical) /\ [DeskNext]_desk => NamesWithin(Canonical)'
  BY <1>1, WithinStays
<1>4. NamesWithin(Canonical) => SpellingsAgree
  BY SpelledIsName DEF NamesWithin, SpellingsAgree
<1>. QED BY <1>2, <1>3, <1>4, PTL DEF DeskSpec

(***************************************************************************)
(* Owners                                                                  *)
(***************************************************************************)

\* What is held for a request is still about the owner in its path, and of what the
\* mailbox was when it was looked up.
Minds(k, q) ==
  /\ k.op # "expire"
  /\ k.op = "join" => k.created \in Time
  /\ k.op = "update_profile" =>
       /\ k.profile \in Profiles
       /\ k.found # NoActor => /\ k.found \in Actor /\ k.found.type = "Service"
                               /\ k.caller \in Joined(actors)
  /\ k.op \in {"send", "reply", "peek"} => k.caller = q.owner /\ k.caller \in Names
  /\ k.op = "send" =>
       /\ k.at \in {"actor", "context", "thread"}
       /\ k.at # "actor" \/ k.found # NoActor => k.caller \in Joined(actors)
       /\ k.at # "actor" => Past(k.acts)
  /\ k.op = "peek" =>
       /\ k.at # "actor" => Past(k.acts)
       /\ k.at = "objects" =>
            \A i \in Stored(k.objs) : i \in Stored(objects) /\ k.objs[i] = objects[i]

Tables ==
  /\ actors \in Directory /\ now \in Time /\ unused \subseteq Ids
  /\ DOMAIN objects = Ids /\ DOMAIN tasks = Tasks /\ DOMAIN asked = Tasks

AuthorsJoined == \A i \in Stored(objects) : objects[i].from \in Joined(actors)
AllMinded == \A t \in Tasks : Minds(tasks[t], asked[t])

OwnerInv == Tables /\ AllPlain /\ AllRouted /\ AuthorsJoined /\ AllMinded

\* At the desk messages are never swept.
Grows ==
  /\ Joined(actors) \subseteq Joined(actors')
  /\ \A i \in Stored(objects) : i \in Stored(objects') /\ objects'[i] = objects[i]

LEMMA MindsStays ==
  ASSUME Grows, NEW k, NEW q, Minds(k, q)
  PROVE  Minds(k, q)'
BY DEF Grows, Minds, Past, Plain

\* The names the desk lets anyone join with are names agents ask for.
OnlyRequested == Claimable \subseteq Requested

LEMMA ClaimPlain ==
  ASSUME Tables, AllPlain, NEW n \in Agents, NEW created \in Time,
         ClaimName(n, {}, created)
  PROVE  actors' \in Directory /\ AllPlain' /\ Joined(actors) \subseteq Joined(actors')
<1>1. actors \in [Names -> ActorRow] /\ n \in Names
  BY MailboxAssumption DEF Tables, Directory, Agents
<1>2. CASE actors[n] # NoActor
  BY <1>1, <1>2 DEF ClaimName, AllPlain, Plain, Joined, Directory
<1>3. CASE actors[n] = NoActor
  <2>. DEFINE row == [type |-> "Service", groups |-> {}, created |-> created]
  <2>1. actors' = [actors EXCEPT ![n] = row]
    BY <1>3 DEF ClaimName
  <2>2. row \in Actor /\ row.type = "Service" /\ row.groups = {}
    BY DEF Actor
  <2>3. row # NoActor
    BY <2>2, MailboxAssumption
  <2>. HIDE DEF row
  <2>4. actors' \in Directory
    BY <1>1, <2>1, <2>2 DEF Directory, ActorRow
  <2>5. AllPlain' /\ Joined(actors) \subseteq Joined(actors')
    BY <1>1, <1>3, <2>1, <2>2, <2>3 DEF AllPlain, Plain, Joined
  <2>. QED BY <2>4, <2>5
<1>. QED BY <1>2, <1>3

LEMMA PutPlain ==
  ASSUME OwnerInv, NEW t \in Tasks, PutProfile(t)
  PROVE  actors' \in Directory /\ AllPlain' /\ Joined(actors) \subseteq Joined(actors')
<1>1. Minds(tasks[t], asked[t]) /\ tasks[t].op = "update_profile"
  BY DEF OwnerInv, AllMinded, PutProfile
<1>2. CASE tasks[t].found = NoActor
  BY <1>2 DEF PutProfile, OwnerInv, Tables, AllPlain, Plain, Joined
<1>3. CASE tasks[t].found # NoActor
  <2>. DEFINE n == tasks[t].caller
             old == actors[n]
             row == [type |-> "Service", groups |-> tasks[t].profile,
                     created |-> IF old = NoActor THEN tasks[t].found.created
                                 ELSE old.created]
  <2>1. /\ actors \in [Names -> ActorRow] /\ n \in Joined(actors) /\ n \in Names
        /\ tasks[t].found \in Actor /\ tasks[t].found.type = "Service"
        /\ tasks[t].profile \in Profiles
    BY <1>1, <1>3 DEF Minds, OwnerInv, Tables, Directory, Joined
  <2>2. PutActor(n, "Service", tasks[t].profile, tasks[t].found.created)
    BY <1>3, <2>1 DEF PutProfile
  <2>3. actors' = [actors EXCEPT ![n] = row]
    BY <2>1, <2>2 DEF PutActor
  <2>4. row \in Actor /\ row.type = "Service" /\ row.groups = tasks[t].profile
    <3>1. tasks[t].found.created \in Time /\ tasks[t].profile \in SUBSET Names
      BY <2>1, MailboxAssumption DEF Actor
    <3>2. old \in ActorRow
      BY <2>1
    <3>. QED BY <3>1, <3>2 DEF ActorRow, Actor
  <2>5. row # NoActor
    BY <2>4, MailboxAssumption
  <2>6. tasks[t].profile \subseteq Groups
    BY <2>1 DEF Groups
  <2>. HIDE DEF row
  <2>7. actors' \in Directory
    BY <2>1, <2>3, <2>4 DEF Directory, ActorRow
  <2>8. AllPlain' /\ Joined(actors) \subseteq Joined(actors')
    BY <2>1, <2>3, <2>4, <2>5, <2>6 DEF OwnerInv, AllPlain, Plain, Joined
  <2>. QED BY <2>7, <2>8
<1>. QED BY <1>2, <1>3

\* A step that stores nothing keeps what is said of messages.
LEMMA NothingStored ==
  ASSUME OwnerInv, UNCHANGED <<objects, now, unused>>, DOMAIN tasks' = Tasks,
         DOMAIN asked' = Tasks,
         actors' \in Directory /\ AllPlain' /\ Joined(actors) \subseteq Joined(actors')
  PROVE  /\ AllMinded' => OwnerInv'
         /\ Grows
<1>1. Grows
  BY DEF Grows, Stored
<1>2. AllRouted' /\ AuthorsJoined' /\ Tables'
  BY DEF OwnerInv, AllRouted, AuthorsJoined, Tables, Routed, Stored
<1>. QED BY <1>1, <1>2 DEF OwnerInv

\* One task moves on, the others are where they were.
LEMMA OneMinds ==
  ASSUME OwnerInv, Grows, NEW t \in Tasks, Minds(tasks[t], asked[t])',
         \A s \in Tasks \ {t} : tasks'[s] = tasks[s] /\ asked'[s] = asked[s]
  PROVE  AllMinded'
<1>1. ASSUME NEW s \in Tasks \ {t} PROVE Minds(tasks[s], asked[s])'
  <2>1. PICK k, q : k = tasks[s] /\ q = asked[s]
    OBVIOUS
  <2>2. Minds(k, q)'
    BY <2>1, MindsStays DEF OwnerInv, AllMinded
  <2>. QED BY <1>1, <2>1, <2>2
<1>. QED BY <1>1 DEF AllMinded
LEMMA FoundPlain ==
  ASSUME OwnerInv, NEW n \in Names, actors[n] # NoActor
  PROVE  n \in Joined(actors) /\ actors[n] \in Actor /\ actors[n].type = "Service"
BY DEF OwnerInv, Tables, Directory, ActorRow, AllPlain, Plain, Joined

LEMMA BegunMinds ==
  ASSUME OwnerInv, NEW k, NEW q, Begins(k, q)
  PROVE  Minds(k, q)
<1>1. CASE k.op \in {"answered", "read"}
  BY <1>1 DEF Minds
<1>2. CASE k.op = "join" /\ k.created = now
  BY <1>2 DEF Minds, OwnerInv, Tables
<1>3. ASSUME NEW who \in Entitled, BeginsAs(k, q, who) PROVE Minds(k, q)
  <2>1. who[2] \in Names /\ LocalName(who[1]) = who[2]
    BY OwnerIsCaller
  <2>2. /\ who[2] \in Names
        /\ actors[who[2]] # NoActor =>
             /\ who[2] \in Joined(actors) /\ actors[who[2]] \in Actor
             /\ actors[who[2]].type = "Service"
    BY <2>1, FoundPlain
  <2>3. ASSUME NEW profile \in Profiles,
               k = [op |-> "update_profile", caller |-> who[2], profile |-> profile,
                    found |-> actors[who[2]]]
        PROVE  Minds(k, q)
    BY <2>2, <2>3 DEF Minds
  <2>4. ASSUME k = [op |-> "peek", at |-> "actor", caller |-> who[2], id |-> NoParent,
                    found |-> actors[who[2]], waiting |-> WaitingFor(who[2])],
               q.owner = who[2]
        PROVE  Minds(k, q)
    BY <2>1, <2>4 DEF Minds
  <2>5. ASSUME NEW texts, NEW parent, BeginsSend(k, q, who, texts, parent)
        PROVE  Minds(k, q)
    <3>1. q.owner = who[2]
      BY <2>1, <2>5 DEF BeginsSend, AboutPost, About
    <3>2. CASE k = Fetch("reply", who[2], parent)
      BY <2>1, <3>1, <3>2 DEF Minds, Fetch
    <3>3. CASE k = [op |-> "send", at |-> "actor", caller |-> who[2],
                    to |-> Recipients(texts), cc |-> {}, parent |-> parent,
                    found |-> actors[who[2]]]
      BY <2>2, <3>1, <3>3 DEF Minds
    <3>. QED BY <2>5, <3>2, <3>3 DEF BeginsSend
  <2>. QED BY <1>3, <2>1, <2>3, <2>4, <2>5 DEF BeginsAs, About
<1>. QED BY <1>1, <1>2, <1>3 DEF Begins

LEMMA RequestTables ==
  ASSUME NEW t \in Tasks, Request(t)
  PROVE  /\ UNCHANGED <<objects, now, unused>>
         /\ \/ UNCHANGED actors
            \/ \E n \in Claimable \cup Issued : ClaimName(n, {}, now)
<1>1. CASE PostActors(t)
  <2>1. ASSUME NEW n \in Claimable, JoinAs(t, n)
        PROVE  /\ UNCHANGED <<objects, now, unused>>
               /\ UNCHANGED actors \/ ClaimName(n, {}, now)
    BY <2>1 DEF JoinAs
  <2>2. CASE JoinIssued(t)
    BY <2>2 DEF JoinIssued, TryIssued
  <2>. QED BY <1>1, <2>1, <2>2 DEF PostActors, Refuse
<1>. QED BY <1>1 DEF Request, RefuseOwner, Refuse, PutActors, UpdateProfileAs, GetInbox,
            PeekAs, PostRead, ReadAs, PostOutbox, Outbox, ReplyAs, SendAs

LEMMA RequestOwner ==
  ASSUME OnlyRequested, OwnerInv, NEW t \in Tasks, Request(t)
  PROVE  OwnerInv' /\ Grows
<1>1. PICK k, q : Await(t, k) /\ asked' = [asked EXCEPT ![t] = q] /\ Begins(k, q)
  BY RequestBegins
<1>2. /\ DOMAIN tasks' = Tasks /\ DOMAIN asked' = Tasks
      /\ tasks'[t] = k /\ asked'[t] = q
      /\ \A s \in Tasks \ {t} : tasks'[s] = tasks[s] /\ asked'[s] = asked[s]
  BY <1>1, RowChanges, AskedChanges DEF OwnerInv, Tables
<1>3. /\ UNCHANGED <<objects, now, unused>>
      /\ UNCHANGED actors \/ \E n \in Agents : ClaimName(n, {}, now)
  BY RequestTables DEF Agents, OnlyRequested
<1>4. actors' \in Directory /\ AllPlain' /\ Joined(actors) \subseteq Joined(actors')
  <2>1. CASE UNCHANGED actors
    BY <2>1 DEF OwnerInv, Tables, AllPlain, Plain, Joined
  <2>2. CASE \E n \in Agents : ClaimName(n, {}, now)
    BY <2>2, ClaimPlain DEF OwnerInv, Tables
  <2>. QED BY <1>3, <2>1, <2>2
<1>5. Grows /\ (AllMinded' => OwnerInv')
  BY <1>2, <1>3, <1>4, NothingStored
<1>6. Minds(k, q)'
  BY <1>1, <1>5, BegunMinds, MindsStays
<1>7. AllMinded'
  BY <1>2, <1>5, <1>6, OneMinds
<1>. QED BY <1>5, <1>7

\* The locals of a coroutine that goes on are those of the same request.
LEMMA ResumedMinds ==
  ASSUME OwnerInv, NEW t \in Tasks, Resume(t)
  PROVE  \E k : Await(t, k) /\ Minds(k, asked[t])
<1>1. Minds(tasks[t], asked[t]) /\ Past(actors)
  BY DEF OwnerInv, AllMinded, AllPlain, Past
<1>2. ASSUME NEW call, NEW code, NEW ids, Answer(t, call, code, ids)
      PROVE  \E k : Await(t, k) /\ Minds(k, asked[t])
  <2>1. PICK k : /\ k = [op |-> "answered", call |-> call, code |-> code, ids |-> ids]
                 /\ Await(t, k)
    BY <1>2 DEF Answer
  <2>2. k.op = "answered"
    BY <2>1
  <2>. QED BY <2>1, <2>2 DEF Minds
<1>3. CASE JoinRetry(t)
  <2>1. \/ \E code : Answer(t, "join", code, {})
        \/ \E k : Await(t, k) /\ k.op = "join" /\ k.created = tasks[t].created
    BY <1>3 DEF JoinRetry, TryIssued
  <2>2. tasks[t].created \in Time
    BY <1>1, <1>3 DEF JoinRetry, Minds
  <2>3. ASSUME NEW k, k.op = "join", k.created = tasks[t].created
        PROVE  Minds(k, asked[t])
    BY <2>2, <2>3 DEF Minds
  <2>. QED BY <1>2, <2>1, <2>3
<1>4. CASE SendContext(t)
  <2>. DEFINE k == [op |-> "send", at |-> "context", caller |-> tasks[t].caller,
                    to |-> tasks[t].to, cc |-> tasks[t].cc, parent |-> tasks[t].parent,
                    acts |-> actors]
  <2>1. (\E code : Answer(t, "send", code, {})) \/ (Await(t, k) /\ tasks[t].found # NoActor)
    BY <1>4 DEF SendContext
  <2>2. tasks[t].found # NoActor => Minds(k, asked[t])
    BY <1>1, <1>4 DEF SendContext, Minds
  <2>. QED BY <1>2, <2>1, <2>2
<1>5. CASE SendDecide(t)
  <2>. DEFINE k == [op |-> "send", at |-> "thread", caller |-> tasks[t].caller,
                    to |-> tasks[t].to, cc |-> tasks[t].cc, parent |-> tasks[t].parent,
                    acts |-> tasks[t].acts, objs |-> objects]
  <2>1. (\E code : Answer(t, "send", code, {})) \/ Await(t, k)
    BY <1>5 DEF SendDecide, Store
  <2>2. Minds(k, asked[t])
    BY <1>1, <1>5 DEF SendDecide, Minds
  <2>. QED BY <1>2, <2>1, <2>2
<1>6. CASE ReadReader(t)
  <2>1. (\E code : Answer(t, "read", code, {})) \/ (\E k : Await(t, k) /\ k.op = "read")
    BY <1>6 DEF ReadReader, Fetch
  <2>. QED BY <1>2, <2>1 DEF Minds
<1>7. CASE VisibleActor(t) \/ VisibleObject(t)
  <2>1. \/ \E code : Answer(t, tasks[t].op, code, {})
        \/ \E k : /\ Await(t, k) /\ k.op = tasks[t].op /\ k.op \in Fetching
                  /\ k.caller = tasks[t].caller
    BY <1>7 DEF VisibleActor, VisibleObject
  <2>2. ASSUME NEW k, k.op = tasks[t].op, k.op \in Fetching, k.caller = tasks[t].caller
        PROVE  Minds(k, asked[t])
    BY <1>1, <2>2 DEF Minds, Fetching
  <2>. QED BY <1>2, <2>1, <2>2
<1>8. CASE ReplySend(t)
  <2>. DEFINE k == [op |-> "send", at |-> "actor", caller |-> tasks[t].caller,
                    to |-> {tasks[t].got.from}, cc |-> {}, parent |-> tasks[t].id,
                    found |-> actors[tasks[t].caller]]
  <2>1. Await(t, k)
    BY <1>8 DEF ReplySend, StartSend
  <2>2. Minds(k, asked[t])
    <3>1. tasks[t].caller = asked[t].owner /\ tasks[t].caller \in Names
      BY <1>1, <1>8 DEF ReplySend, Minds
    <3>2. k.found # NoActor => k.caller \in Joined(actors)
      BY <3>1 DEF OwnerInv, Tables, Directory, Joined
    <3>. QED BY <3>1, <3>2 DEF Minds
  <2>. QED BY <2>1, <2>2
<1>9. CASE ListContext(t)
  <2>. DEFINE k == [op |-> tasks[t].op, at |-> "context", caller |-> tasks[t].caller,
                    id |-> tasks[t].id, acts |-> actors, waiting |-> tasks[t].waiting]
  <2>1. (\E code : Answer(t, tasks[t].op, code, {})) \/ Await(t, k)
    BY <1>9 DEF ListContext
  <2>2. Minds(k, asked[t])
    BY <1>1, <1>9 DEF ListContext, Listing, Minds
  <2>. QED BY <1>2, <2>1, <2>2
<1>10. CASE PeekObjects(t)
  <2>. DEFINE k == [op |-> "peek", at |-> "objects", caller |-> tasks[t].caller,
                    id |-> tasks[t].id, acts |-> tasks[t].acts, objs |-> objects,
                    waiting |-> tasks[t].waiting]
  <2>1. Await(t, k)
    BY <1>10 DEF PeekObjects
  <2>2. Minds(k, asked[t])
    BY <1>1, <1>10 DEF PeekObjects, Minds
  <2>. QED BY <2>1, <2>2
<1>11. CASE \/ PutProfile(t) \/ SendAttach(t) \/ MarkRead(t) \/ ViewAnswer(t)
            \/ VisibleRefused(t) \/ PeekAnswer(t) \/ ThreadAnswer(t) \/ ExpireRemove(t)
  BY <1>2, <1>11 DEF PutProfile, SendAttach, Store, MarkRead, ViewAnswer, VisibleRefused,
                     PeekAnswer, ThreadAnswer, ExpireRemove
<1>. QED BY <1>3, <1>4, <1>5, <1>6, <1>7, <1>8, <1>9, <1>10, <1>11 DEF Resume
\* The only message that can appear in a step is the one its sender composed.
StoresFor(t) ==
  \A i \in unused \ unused' : \E parent :
    objects'[i] = NewObject(tasks[t].caller, tasks[t].to, tasks[t].cc, parent,
                            tasks[t].acts)

LEMMA SentByCaller ==
  ASSUME NEW caller, NEW to, NEW cc, NEW parent, NEW acts
  PROVE  NewObject(caller, to, cc, parent, acts).from = caller
BY DEF NewObject

LEMMA StoredByOwner ==
  ASSUME OwnerInv, NEW t \in Tasks, tasks[t].op = "send", tasks[t].at # "actor",
         NEW parent, Store(t, tasks[t], parent), UNCHANGED <<actors, now, asked>>
  PROVE  /\ Tables' /\ AllPlain' /\ AllRouted' /\ AuthorsJoined' /\ Grows
         /\ StoresFor(t)
<1>1. PICK i \in unused :
        /\ AddObject(i, NewObject(tasks[t].caller, tasks[t].to, tasks[t].cc, parent,
                                  tasks[t].acts))
        /\ unused' = unused \ {i}
  BY DEF Store
<1>2. Past(tasks[t].acts) /\ tasks[t].caller \in Joined(actors)
  BY DEF OwnerInv, AllMinded, Minds
<1>3. PICK obj : /\ obj = NewObject(tasks[t].caller, tasks[t].to, tasks[t].cc, parent,
                                    tasks[t].acts)
                 /\ Routed(obj) /\ obj.from = tasks[t].caller
  BY <1>2, NewObjectRouted, SentByCaller
<1>4. objects' = [objects EXCEPT ![i] = obj] /\ i \in Ids /\ i \notin Stored(objects)
  BY <1>1, <1>3 DEF AddObject, OwnerInv, Tables, AllRouted
<1>5. \A j \in Stored(objects)' :
        \/ j = i /\ objects'[j] = obj
        \/ j # i /\ objects'[j] = objects[j] /\ j \in Stored(objects)
  BY <1>4 DEF Stored
<1>6. Grows
  BY <1>4 DEF Grows, Stored
<1>7. Tables' /\ AllPlain'
  BY <1>1, <1>4, RowChanges DEF OwnerInv, Tables, Store, Answer, AllPlain, Plain, Joined
<1>8. AllRouted' /\ AuthorsJoined'
  <2>1. \A o : Routed(o) => Routed(o)'
    BY DEF Routed, Joined
  <2>2. Joined(actors') = Joined(actors)
    OBVIOUS
  <2>3. AuthorsJoined'
    BY <1>2, <1>3, <1>5, <2>2 DEF OwnerInv, AuthorsJoined
  <2>4. AllRouted'
    BY <1>1, <1>3, <1>5, <2>1 DEF OwnerInv, AllRouted
  <2>. QED BY <2>3, <2>4
<1>9. StoresFor(t)
  BY <1>1, <1>3, <1>4 DEF StoresFor, OwnerInv, Tables
<1>. QED BY <1>6, <1>7, <1>8, <1>9

LEMMA ResumeOwner ==
  ASSUME OwnerInv, NEW t \in Tasks, Resume(t), UNCHANGED asked
  PROVE  OwnerInv' /\ Grows
<1>1. PICK k : Await(t, k) /\ Minds(k, asked[t])
  BY ResumedMinds
<1>2. /\ DOMAIN tasks' = Tasks /\ DOMAIN asked' = Tasks
      /\ tasks'[t] = k /\ asked'[t] = asked[t]
      /\ \A s \in Tasks \ {t} : tasks'[s] = tasks[s] /\ asked'[s] = asked[s]
  BY <1>1, RowChanges DEF OwnerInv, Tables
<1>3. Grows => AllMinded'
  <2>1. SUFFICES ASSUME Grows PROVE AllMinded'
    OBVIOUS
  <2>2. PICK q : q = asked[t]
    OBVIOUS
  <2>3. Minds(k, q)'
    BY <1>1, <2>1, <2>2, MindsStays
  <2>. QED BY <1>2, <2>1, <2>2, <2>3, OneMinds
<1>4. CASE /\ UNCHANGED <<objects, now, unused>>
           /\ actors' \in Directory /\ AllPlain' /\ Joined(actors) \subseteq Joined(actors')
  BY <1>2, <1>3, <1>4, NothingStored
<1>5. CASE UNCHANGED <<actors, objects, now, unused>>
  <2>1. actors' \in Directory /\ AllPlain' /\ Joined(actors) \subseteq Joined(actors')
    BY <1>5 DEF OwnerInv, Tables, AllPlain, Plain, Joined
  <2>. QED BY <1>4, <1>5, <2>1
<1>6. CASE JoinRetry(t)
  <2>1. tasks[t].created \in Time
    BY <1>6 DEF JoinRetry, OwnerInv, AllMinded, Minds
  <2>2. \E n \in Agents : ClaimName(n, {}, tasks[t].created)
    BY <1>6 DEF JoinRetry, TryIssued, Agents
  <2>3. actors' \in Directory /\ AllPlain' /\ Joined(actors) \subseteq Joined(actors')
    BY <2>1, <2>2, ClaimPlain DEF OwnerInv
  <2>. QED BY <1>4, <1>6, <2>3 DEF JoinRetry
<1>7. CASE PutProfile(t)
  BY <1>4, <1>7, PutPlain DEF PutProfile
<1>8. ASSUME NEW parent, Store(t, tasks[t], parent), UNCHANGED <<actors, now>>,
             tasks[t].op = "send", tasks[t].at # "actor"
      PROVE  OwnerInv' /\ Grows
  <2>1. Tables' /\ AllPlain' /\ AllRouted' /\ AuthorsJoined' /\ Grows
    BY <1>8, StoredByOwner
  <2>. QED BY <1>3, <2>1 DEF OwnerInv
<1>9. CASE SendDecide(t)
  <2>1. CASE Store(t, tasks[t], NoParent)
    BY <1>8, <1>9, <2>1 DEF SendDecide
  <2>2. CASE UNCHANGED <<objects, unused>>
    BY <1>5, <1>9, <2>2 DEF SendDecide
  <2>. QED BY <1>9, <2>1, <2>2 DEF SendDecide
<1>10. CASE SendAttach(t)
  BY <1>8, <1>10 DEF SendAttach
<1>11. ~ExpireRemove(t)
  BY DEF ExpireRemove, OwnerInv, AllMinded, Minds
<1>12. CASE \/ SendContext(t) \/ ReadReader(t) \/ VisibleActor(t) \/ VisibleObject(t)
            \/ VisibleRefused(t) \/ MarkRead(t) \/ ViewAnswer(t) \/ ReplySend(t)
            \/ ListContext(t) \/ PeekObjects(t) \/ PeekAnswer(t) \/ ThreadAnswer(t)
  BY <1>5, <1>12 DEF SendContext, ReadReader, VisibleActor, VisibleObject, VisibleRefused,
     MarkRead, ViewAnswer, ReplySend, ListContext, PeekObjects, PeekAnswer, ThreadAnswer
<1>. QED BY <1>6, <1>7, <1>9, <1>10, <1>11, <1>12 DEF Resume

LEMMA OwnerStays ==
  ASSUME OnlyRequested, OwnerInv, [DeskNext]_desk
  PROVE  OwnerInv' /\ Grows
<1>1. CASE UNCHANGED desk
  BY <1>1 DEF desk, vars, OwnerInv, Tables, AllPlain, Plain, AllRouted, Routed, AuthorsJoined,
     AllMinded, Minds, Past, Joined, Stored, Grows
<1>. QED BY <1>1, RequestOwner, ResumeOwner DEF DeskNext

LEMMA AcceptedStores ==
  ASSUME OwnerInv, NEW t \in Tasks, Answered(t, "send", "ok"), DeskNext
  PROVE  StoresFor(t)
<1>1. /\ tasks[t].op = "send" /\ tasks[t].at # "actor"
      /\ SendDecide(t) \/ SendAttach(t)
      /\ UNCHANGED asked
  BY AcceptedIsParsed DEF OwnerInv, Tables, Answered
<1>2. ASSUME NEW parent, Store(t, tasks[t], parent), UNCHANGED <<actors, now>>
      PROVE  StoresFor(t)
  BY <1>1, <1>2, StoredByOwner
<1>3. CASE SendDecide(t)
  BY <1>2, <1>3 DEF SendDecide, StoresFor
<1>4. CASE SendAttach(t)
  BY <1>2, <1>4 DEF SendAttach
<1>. QED BY <1>1, <1>3, <1>4

LEMMA ListedIsOwned ==
  ASSUME NamesAndGroupsApart, OwnerInv, NEW t \in Tasks, Answered(t, "peek", "ok"), DeskNext,
         NEW i \in tasks'[t].ids \cap Stored(objects)
  PROVE  asked[t].owner \in PartiesOf(objects[i])
<1>1. PICK s \in Tasks : Request(s) \/ Resume(s)
  BY DEF DeskNext
<1>2. s = t /\ Resume(t)
  <2>1. CASE Request(s)
    BY <2>1, RequestBegins, RowChanges DEF Answered, OwnerInv, Tables, Free
  <2>2. CASE Resume(s)
    BY <2>2, ResumedOne DEF Answered, OwnerInv, Tables
  <2>. QED BY <1>1, <2>1, <2>2
<1>3. PeekAnswer(t)
  <2>1. ~ListContext(t)
    <3>1. ASSUME NEW call, Answer(t, call, "unknown_actor", {}) PROVE FALSE
      BY <3>1, RowChanges DEF Answer, Answered, OwnerInv, Tables
    <3>2. ASSUME NEW k, Await(t, k), k.op \in Listing PROVE FALSE
      BY <3>2, RowChanges DEF Answered, OwnerInv, Tables, Listing
    <3>. QED BY <3>1, <3>2 DEF ListContext
  <2>2. ~PeekObjects(t)
    BY RowChanges DEF PeekObjects, Answered, OwnerInv, Tables
  <2>. QED BY <1>2, <2>1, <2>2 DEF Resume, Answered, JoinRetry, PutProfile, SendContext,
     SendDecide, SendAttach, ReadReader, VisibleActor, VisibleObject, VisibleRefused,
     MarkRead, ViewAnswer, ReplySend, ThreadAnswer, ExpireRemove, Fetching
<1>4. Minds(tasks[t], asked[t]) /\ tasks[t].op = "peek" /\ tasks[t].at = "objects"
  BY <1>3 DEF PeekAnswer, OwnerInv, AllMinded
<1>5. i \in Unread(tasks[t].objs, tasks[t].caller,
                   ReadBy(tasks[t].caller, tasks[t].objs),
                   Joined(tasks[t].acts), GroupMemberships(tasks[t].acts))
  BY <1>3, RowChanges DEF PeekAnswer, Answer, OwnerInv, Tables
<1>6. i \in Stored(tasks[t].objs) /\ Party(tasks[t].objs[i], tasks[t].caller, tasks[t].acts)
  BY <1>5 DEF Unread, Party, IsPartyTo
<1>7. tasks[t].objs[i] = objects[i] /\ Plain(tasks[t].acts)
  BY <1>4, <1>6 DEF Minds, Past
<1>8. Routed(objects[i]) /\ AllPlain
  BY DEF OwnerInv, AllRouted
<1>9. tasks[t].caller \in PartiesOf(objects[i])
  BY <1>6, <1>7, <1>8, PartyStored
<1>. QED BY <1>4, <1>9 DEF Minds

LEMMA OwnersAtFirst ==
  ASSUME DeskInit
  PROVE  OwnerInv
<1>1. \A n \in Names :
        /\ [type |-> "Service", groups |-> {}, created |-> 0] \in Actor
        /\ actors[n] \in ActorRow
  BY MailboxAssumption DEF DeskInit, Init, Actor, ActorRow, Time
<1>2. Tables
  BY <1>1, MailboxAssumption DEF DeskInit, Init, Tables, Directory, Time
<1>3. AllPlain
  BY DEF DeskInit, Init, AllPlain, Plain, Joined, Agents
<1>4. AllRouted /\ AuthorsJoined
  BY DEF DeskInit, Init, AllRouted, AuthorsJoined, Stored
<1>5. AllMinded
  BY DEF DeskInit, Init, AllMinded, Minds
<1>. QED BY <1>2, <1>3, <1>4, <1>5 DEF OwnerInv

(***************************************************************************)
(* PathsAreOwners: what an outbox accepts is sent by the owner in its      *)
(* path and what an inbox lists is mail of that owner, for any headers and *)
(* any spelling of the path, and however the requests overlap, provided no *)
(* profile lists the name of an actor as a group.                          *)
(***************************************************************************)
THEOREM PathsAreOwners ==
  ASSUME NamesAndGroupsApart, OnlyRequested
  PROVE  DeskSpec => PathIsOwner
<1>. DEFINE Owned == \A t \in Tasks :
       /\ Answered(t, "send", "ok") =>
            \A i \in unused \ unused' : objects'[i].from = asked[t].owner
       /\ Answered(t, "peek", "ok") =>
            \A i \in tasks[t]'.ids \cap Stored(objects) :
              asked[t].owner \in PartiesOf(objects[i])
<1>1. DeskInit => OwnerInv
  BY OwnersAtFirst
<1>2. OwnerInv /\ [DeskNext]_desk => OwnerInv'
  BY OwnerStays
<1>3. OwnerInv /\ DeskNext => Owned
  <2>1. SUFFICES ASSUME OwnerInv, DeskNext PROVE Owned
    OBVIOUS
  <2>2. ASSUME NEW t \in Tasks, Answered(t, "send", "ok"), NEW i \in unused \ unused'
        PROVE  objects'[i].from = asked[t].owner
    <3>1. tasks[t].caller = asked[t].owner
      BY <2>1, <2>2 DEF OwnerInv, AllMinded, Minds, Answered
    <3>. QED BY <2>1, <2>2, <3>1, AcceptedStores, SentByCaller DEF StoresFor
  <2>. QED BY <2>1, <2>2, ListedIsOwned
<1>4. OwnerInv /\ [DeskNext]_desk => [Owned]_desk
  BY <1>3
<1>. QED BY <1>1, <1>2, <1>4, PTL DEF DeskSpec, PathIsOwner
(***************************************************************************)
(* Whom a post is for                                                      *)
(***************************************************************************)

\* What is addressed to whom: to those a request listed or, when it listed nobody, to
\* the author of what it answers.
AimedAt(to, q) ==
  \/ q.answers = NoParent /\ to = q.listed
  \/ q.answers \in Stored(objects) /\ q.listed = {} /\ to = {objects[q.answers].from}

\* A message looked up for a reply is the one the request answers.
LookedUp(k, q) ==
  /\ k.at \in {"actor", "object", "context"}
  /\ q.listed = {} /\ q.answers = k.id /\ k.id \in Ids
  /\ k.at # "actor" /\ k.got # NoObject =>
       q.answers \in Stored(objects) /\ k.got = objects[q.answers]
  /\ k.at = "context" => k.got # NoObject

\* What is held for a post goes to whom it is for, unless it will be refused, and was
\* looked up after the request came.
Aims(k, q) ==
  /\ k.op \in {"send", "reply"} => q.joined \subseteq Joined(actors)
  /\ k.op = "send" =>
       /\ k.cc = {}
       /\ AimedAt(k.to, q) \/ (k.at = "actor" /\ Elsewhere \in k.to)
       /\ k.at # "actor" => q.joined \subseteq Joined(k.acts)
       /\ k.at = "thread" => UnknownRecipients(k.to \cup k.cc, k.acts) = {}
  /\ k.op = "reply" => LookedUp(k, q)

AllAimed == \A t \in Tasks : Aims(tasks[t], asked[t])

LEMMA AimsStay ==
  ASSUME Grows, NEW k, NEW q, Aims(k, q)
  PROVE  Aims(k, q)'
BY DEF Grows, Aims, AimedAt, LookedUp

LEMMA BegunAims ==
  ASSUME NEW k, NEW q, Begins(k, q)
  PROVE  Aims(k, q)
<1>1. ASSUME NEW who, NEW texts, NEW parent \in Parents,
             BeginsSend(k, q, who, texts, parent)
      PROVE  Aims(k, q)
  <2>1. /\ q.joined = Joined(actors) /\ q.listed = {Lower(text.name) : text \in texts}
        /\ q.answers = IF texts = {} THEN parent ELSE NoParent
    BY <1>1 DEF BeginsSend, AboutPost, About
  <2>2. CASE k = Fetch("reply", who[2], parent) /\ texts = {} /\ parent # NoParent
    <3>1. parent \in Ids
      BY <1>1, <2>2, MailboxAssumption
    <3>. QED BY <2>1, <2>2, <3>1 DEF Aims, LookedUp, Fetch
  <2>3. CASE /\ parent = NoParent \/ texts # {}
             /\ k = [op |-> "send", at |-> "actor", caller |-> who[2],
                     to |-> Recipients(texts), cc |-> {}, parent |-> parent,
                     found |-> actors[who[2]]]
    <3>1. q.listed = Recipients(texts) \/ Elsewhere \in Recipients(texts)
      BY <2>1, ListedIsAddressed
    <3>. QED BY <2>1, <2>3, <3>1 DEF Aims, AimedAt
  <2>. QED BY <1>1, <2>2, <2>3 DEF BeginsSend
<1>2. ASSUME k.op \notin {"send", "reply"} PROVE Aims(k, q)
  BY <1>2 DEF Aims
<1>3. ASSUME NEW who \in Entitled, BeginsAs(k, q, who) PROVE Aims(k, q)
  <2>1. CASE \E texts \in Lists, parent \in Parents : BeginsSend(k, q, who, texts, parent)
    BY <1>1, <2>1
  <2>2. CASE k.op \in {"update_profile", "peek"}
    BY <1>2, <2>2
  <2>3. ASSUME NEW profile,
               k = [op |-> "update_profile", caller |-> who[2], profile |-> profile,
                    found |-> actors[who[2]]]
        PROVE  k.op = "update_profile"
    BY <2>3
  <2>4. ASSUME k = [op |-> "peek", at |-> "actor", caller |-> who[2], id |-> NoParent,
                    found |-> actors[who[2]], waiting |-> WaitingFor(who[2])]
        PROVE  k.op = "peek"
    BY <2>4
  <2>. QED BY <1>3, <2>1, <2>2, <2>3, <2>4, Zenon DEF BeginsAs
<1>. QED BY <1>2, <1>3 DEF Begins

LEMMA ResumedAims ==
  ASSUME OwnerInv, AllAimed, NEW t \in Tasks, Resume(t)
  PROVE  \E k : Await(t, k) /\ Aims(k, asked[t])
<1>1. Aims(tasks[t], asked[t])
  BY DEF AllAimed
<1>2. ASSUME NEW k, Await(t, k), k.op \notin {"send", "reply"}
      PROVE  \E l : Await(t, l) /\ Aims(l, asked[t])
  BY <1>2 DEF Aims
<1>3. ASSUME NEW call, NEW code, NEW ids, Answer(t, call, code, ids)
      PROVE  \E k : Await(t, k) /\ Aims(k, asked[t])
  BY <1>2, <1>3 DEF Answer
<1>4. CASE SendContext(t)
  <2>. DEFINE k == [op |-> "send", at |-> "context", caller |-> tasks[t].caller,
                    to |-> tasks[t].to, cc |-> tasks[t].cc, parent |-> tasks[t].parent,
                    acts |-> actors]
  <2>1. \/ \E code : Answer(t, "send", code, {})
        \/ Await(t, k) /\ Elsewhere \notin tasks[t].to
    BY <1>4 DEF SendContext
  <2>2. Elsewhere \notin tasks[t].to => Aims(k, asked[t])
    BY <1>1, <1>4 DEF SendContext, Aims
  <2>. QED BY <1>3, <2>1, <2>2
<1>5. CASE SendDecide(t)
  <2>. DEFINE k == [op |-> "send", at |-> "thread", caller |-> tasks[t].caller,
                    to |-> tasks[t].to, cc |-> tasks[t].cc, parent |-> tasks[t].parent,
                    acts |-> tasks[t].acts, objs |-> objects]
  <2>1. \/ \E code : Answer(t, "send", code, {})
        \/ /\ Await(t, k)
           /\ UnknownRecipients(tasks[t].to \cup tasks[t].cc, tasks[t].acts) = {}
    BY <1>5 DEF SendDecide, Store
  <2>2. UnknownRecipients(tasks[t].to \cup tasks[t].cc, tasks[t].acts) = {}
          => Aims(k, asked[t])
    BY <1>1, <1>5 DEF SendDecide, Aims
  <2>. QED BY <1>3, <2>1, <2>2
<1>6. CASE VisibleActor(t) /\ tasks[t].op = "reply"
  <2>. DEFINE k == [op |-> tasks[t].op, at |-> "object", caller |-> tasks[t].caller,
                    id |-> tasks[t].id, got |-> objects[tasks[t].id]]
  <2>1. (\E code : Answer(t, tasks[t].op, code, {})) \/ Await(t, k)
    BY <1>6 DEF VisibleActor
  <2>2. Aims(k, asked[t])
    BY <1>1, <1>6 DEF VisibleActor, Aims, LookedUp, Stored, OwnerInv, Tables
  <2>. QED BY <1>3, <2>1, <2>2
<1>7. CASE VisibleObject(t) /\ tasks[t].op = "reply"
  <2>. DEFINE k == [op |-> tasks[t].op, at |-> "context", caller |-> tasks[t].caller,
                    id |-> tasks[t].id, got |-> tasks[t].got, acts |-> actors]
  <2>1. \/ \E code : Answer(t, tasks[t].op, code, {})
        \/ Await(t, k) /\ tasks[t].got # NoObject
    BY <1>7 DEF VisibleObject
  <2>2. tasks[t].got # NoObject => Aims(k, asked[t])
    BY <1>1, <1>7 DEF VisibleObject, Aims, LookedUp
  <2>. QED BY <1>3, <2>1, <2>2
<1>8. CASE ReplySend(t)
  <2>. DEFINE k == [op |-> "send", at |-> "actor", caller |-> tasks[t].caller,
                    to |-> {tasks[t].got.from}, cc |-> {}, parent |-> tasks[t].id,
                    found |-> actors[tasks[t].caller]]
  <2>1. Await(t, k)
    BY <1>8 DEF ReplySend, StartSend
  <2>2. Aims(k, asked[t])
    BY <1>1, <1>8 DEF ReplySend, Aims, LookedUp, AimedAt
  <2>. QED BY <2>1, <2>2
<1>9. CASE JoinRetry(t)
  <2>1. (\E code : Answer(t, "join", code, {})) \/ (\E k : Await(t, k) /\ k.op = "join")
    BY <1>9 DEF JoinRetry, TryIssued
  <2>. QED BY <1>2, <1>3, <2>1
<1>10. CASE ReadReader(t)
  <2>1. (\E code : Answer(t, "read", code, {})) \/ (\E k : Await(t, k) /\ k.op = "read")
    BY <1>10 DEF ReadReader, Fetch
  <2>. QED BY <1>2, <1>3, <2>1
<1>11. CASE VisibleActor(t) /\ tasks[t].op # "reply"
  <2>1. \/ \E code : Answer(t, tasks[t].op, code, {})
        \/ \E k : Await(t, k) /\ k.op \in Fetching \ {"reply"}
    BY <1>11 DEF VisibleActor
  <2>. QED BY <1>2, <1>3, <2>1 DEF Fetching
<1>12. CASE VisibleObject(t) /\ tasks[t].op # "reply"
  <2>1. \/ \E code : Answer(t, tasks[t].op, code, {})
        \/ \E k : Await(t, k) /\ k.op \in Fetching \ {"reply"}
    BY <1>12 DEF VisibleObject
  <2>. QED BY <1>2, <1>3, <2>1 DEF Fetching
<1>13. CASE ListContext(t) \/ PeekObjects(t)
  <2>1. \/ \E code : Answer(t, tasks[t].op, code, {})
        \/ \E k : Await(t, k) /\ k.op \in Listing
    BY <1>13 DEF ListContext, PeekObjects, Listing
  <2>. QED BY <1>2, <1>3, <2>1 DEF Listing
<1>14. CASE \/ PutProfile(t) \/ SendAttach(t) \/ MarkRead(t) \/ ViewAnswer(t)
            \/ VisibleRefused(t) \/ PeekAnswer(t) \/ ThreadAnswer(t) \/ ExpireRemove(t)
  BY <1>3, <1>14 DEF PutProfile, SendAttach, Store, MarkRead, ViewAnswer, VisibleRefused,
                     PeekAnswer, ThreadAnswer, ExpireRemove
<1>. QED BY <1>4, <1>5, <1>6, <1>7, <1>8, <1>9, <1>10, <1>11, <1>12, <1>13, <1>14 DEF Resume

LEMMA OneAims ==
  ASSUME AllAimed, Grows, NEW t \in Tasks, NEW k, NEW q, Aims(k, q),
         tasks'[t] = k, asked'[t] = q,
         \A s \in Tasks \ {t} : tasks'[s] = tasks[s] /\ asked'[s] = asked[s]
  PROVE  AllAimed'
<1>1. ASSUME NEW s \in Tasks PROVE Aims(tasks[s], asked[s])'
  <2>1. PICK l, r : l = tasks'[s] /\ r = asked'[s]
    OBVIOUS
  <2>2. Aims(l, r)
    BY <2>1 DEF AllAimed
  <2>. QED BY <2>1, <2>2, AimsStay
<1>. QED BY <1>1 DEF AllAimed

LEMMA AimStays ==
  ASSUME OnlyRequested, OwnerInv, AllAimed, [DeskNext]_desk
  PROVE  AllAimed'
<1>1. Grows
  BY OwnerStays
<1>2. CASE UNCHANGED desk
  BY <1>2 DEF desk, vars, AllAimed, Aims, AimedAt, LookedUp, Stored
<1>3. ASSUME NEW t \in Tasks, Request(t) PROVE AllAimed'
  <2>1. PICK k, q : Await(t, k) /\ asked' = [asked EXCEPT ![t] = q] /\ Begins(k, q)
    BY <1>3, RequestBegins
  <2>. QED BY <1>1, <2>1, BegunAims, OneAims, RowChanges, AskedChanges DEF OwnerInv, Tables
<1>4. ASSUME NEW t \in Tasks, Resume(t), UNCHANGED asked PROVE AllAimed'
  <2>1. PICK k : Await(t, k) /\ Aims(k, asked[t])
    BY <1>4, ResumedAims
  <2>2. PICK q : q = asked[t]
    OBVIOUS
  <2>. QED BY <1>1, <1>4, <2>1, <2>2, OneAims, RowChanges DEF OwnerInv, Tables
<1>. QED BY <1>2, <1>3, <1>4 DEF DeskNext

\* An audience that was aimed at is whom the request was for.
LEMMA AimedIsWhom ==
  ASSUME Tables, NEW to, NEW q, AimedAt(to, q)
  PROVE  to = WhomFor(q)
<1>1. NoParent \notin Stored(objects)
  BY MailboxAssumption DEF Stored, Tables
<1>2. CASE q.answers = NoParent /\ to = q.listed
  <2>1. Stored(objects) \cap {q.answers} = {}
    BY <1>1, <1>2
  <2>. QED BY <1>2, <2>1 DEF WhomFor
<1>3. CASE q.answers \in Stored(objects) /\ q.listed = {} /\ to = {objects[q.answers].from}
  <2>1. Stored(objects) \cap {q.answers} = {q.answers}
    BY <1>3
  <2>. QED BY <1>3, <2>1 DEF WhomFor
<1>. QED BY <1>2, <1>3 DEF AimedAt

\* Without copies a message is stored for its sender and whom its audience comes to.
LEMMA StoredForReached ==
  ASSUME NEW caller, NEW to, NEW parent, NEW acts
  PROVE  PartiesOf(NewObject(caller, to, {}, parent, acts)) = {caller} \cup Reached(to, acts)
<1>1. Reached({}, acts) = {}
  BY Zenon DEF Reached, ResolveAudience
<1>. QED BY <1>1 DEF NewObject, PartiesOf

LEMMA NamedIsReached ==
  ASSUME NEW acts, NEW to, UnknownRecipients(to, acts) = {}, NEW n \in to \ Collective(acts)
  PROVE  n \in Reached(to, acts)
<1>1. n \in Joined(acts) /\ n # Everyone /\ n \notin DOMAIN GroupMemberships(acts)
  BY DEF UnknownRecipients, Collective
<1>2. n \in Expand(n, Joined(acts), GroupMemberships(acts))
  BY <1>1 DEF Expand
<1>. QED BY <1>2, Zenon DEF Reached, ResolveAudience

(***************************************************************************)
(* TheNamedAreReached: an accepted post is stored for its sender and       *)
(* exactly the actors it is for, as a directory read after the post        *)
(* arrived resolves them, groups and everyone included, and for every      *)
(* actor it is for by name: whatever the notes list, however profiles      *)
(* change and requests overlap.                                            *)
(***************************************************************************)
THEOREM TheNamedAreReached ==
  ASSUME OnlyRequested
  PROVE  DeskSpec => PostsReachTheNamed
<1>. DEFINE Reach == \A t \in Tasks : Answered(t, "send", "ok") =>
       LET acts == tasks[t].acts
           whom == WhomFor(asked[t])
       IN
       /\ asked[t].joined \subseteq Joined(acts) /\ Joined(acts) \subseteq Joined(actors)
       /\ \A i \in unused \ unused' :
            /\ PartiesOf(objects'[i]) = {asked[t].owner} \cup Reached(whom, acts)
            /\ whom \ Collective(acts) \subseteq PartiesOf(objects'[i])
<1>1. DeskInit => OwnerInv /\ AllAimed
  BY OwnersAtFirst DEF DeskInit, Init, AllAimed, Aims
<1>2. OwnerInv /\ AllAimed /\ [DeskNext]_desk => OwnerInv' /\ AllAimed'
  BY OwnerStays, AimStays
<1>3. OwnerInv /\ AllAimed /\ DeskNext => Reach
  <2>1. SUFFICES ASSUME OwnerInv, AllAimed, DeskNext,
                        NEW t \in Tasks, Answered(t, "send", "ok")
                 PROVE  LET acts == tasks[t].acts
                            whom == WhomFor(asked[t])
                        IN
                        /\ asked[t].joined \subseteq Joined(acts)
                        /\ Joined(acts) \subseteq Joined(actors)
                        /\ \A i \in unused \ unused' :
                             /\ PartiesOf(objects'[i])
                                  = {asked[t].owner} \cup Reached(whom, acts)
                             /\ whom \ Collective(acts) \subseteq PartiesOf(objects'[i])
    OBVIOUS
  <2>. DEFINE acts == tasks[t].acts
              whom == WhomFor(asked[t])
  <2>2. /\ tasks[t].op = "send" /\ tasks[t].at \in {"context", "thread"}
        /\ SendDecide(t) \/ SendAttach(t)
    BY <2>1, AcceptedIsParsed DEF OwnerInv, Tables, Answered
  <2>3. Aims(tasks[t], asked[t]) /\ Minds(tasks[t], asked[t])
    BY <2>1 DEF OwnerInv, AllMinded, AllAimed
  <2>4. /\ asked[t].joined \subseteq Joined(acts) /\ Joined(acts) \subseteq Joined(actors)
        /\ tasks[t].caller = asked[t].owner /\ tasks[t].cc = {}
        /\ AimedAt(tasks[t].to, asked[t])
    BY <2>2, <2>3 DEF Aims, Minds, Past
  <2>5. tasks[t].to = whom
    BY <2>1, <2>4, AimedIsWhom DEF OwnerInv
  <2>6. UnknownRecipients(whom, acts) = {}
    <3>1. UnknownRecipients(tasks[t].to \cup tasks[t].cc, acts) = {}
      <4>1. CASE SendDecide(t)
        <5>1. ASSUME Answer(t, "send", "unknown_recipient", {}) PROVE FALSE
          BY <2>1, <5>1, RowChanges DEF Answer, Answered, OwnerInv, Tables
        <5>. QED BY <4>1, <5>1 DEF SendDecide
      <4>2. CASE SendAttach(t)
        BY <2>2, <2>3, <4>2 DEF SendAttach, Aims
      <4>. QED BY <2>2, <4>1, <4>2
    <3>. QED BY <2>4, <2>5, <3>1
  <2>7. ASSUME NEW i \in unused \ unused'
        PROVE  /\ PartiesOf(objects'[i]) = {asked[t].owner} \cup Reached(whom, acts)
               /\ whom \ Collective(acts) \subseteq PartiesOf(objects'[i])
    <3>1. PICK parent : objects'[i] = NewObject(asked[t].owner, whom, {}, parent, acts)
      BY <2>1, <2>4, <2>5, <2>7, AcceptedStores DEF StoresFor
    <3>2. PartiesOf(objects'[i]) = {asked[t].owner} \cup Reached(whom, acts)
      BY <3>1, StoredForReached
    <3>. QED BY <2>6, <3>2, NamedIsReached
  <2>. QED BY <2>4, <2>7
<1>4. OwnerInv /\ AllAimed /\ [DeskNext]_desk => [Reach]_desk
  BY <1>3
<1>. QED BY <1>1, <1>2, <1>4, PTL DEF DeskSpec, PostsReachTheNamed
=============================================================================
