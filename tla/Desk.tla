-------------------------------- MODULE Desk --------------------------------
(***************************************************************************)
(* The HTTP routes of src/agent_mailbox/api.py in front of the mailbox,    *)
(* with the conversions a request passes through: naming.normalize and     *)
(* validate, wire.name_from, addressing.parse and local_name.  A route     *)
(* decodes what it was sent and starts one call of the engine, or refuses. *)
(*                                                                         *)
(* A name is a sequence of characters, and a character is only what the    *)
(* conversions tell apart; one letter stands for all letters and digits.   *)
(* The house's own checks are in module House.  A note lists its `to` and  *)
(* its `cc` together: both are decoded alike and either makes it a post.   *)
(* Routes that only look up (hub, health, directory, actor, object,        *)
(* thread) start no call that changes state and are left out.              *)
(***************************************************************************)
EXTENDS MailboxProps, SequencesExt

CONSTANTS
  ReservedNames, \* naming.RESERVED_NAMES
  MaxName,       \* the longest usable name
  Given,         \* name_pool.GIVEN_NAMES
  Family,        \* name_pool.FAMILY_NAMES
  Typed,         \* what clients send as the name they would like
  Headers,       \* what clients send in X-Agent-Name, and as the owner of a path
  Lists          \* what clients list as recipients

ASSUME DeskAssumption == Everyone \in ReservedNames /\ MaxName \in Nat

VARIABLE asked  \* history: what the last request of each task was about

desk == <<vars, asked>>

(***************************************************************************)
(* Names                                                                   *)
(***************************************************************************)

\* A letter in lower case, in upper case or with a diacritic; a space, hyphen, dot
\* or apostrophe; an underscore; and anything else.
Letters == {"low", "cap", "accent"}
Characters == Letters \cup {"sep", "under", "other"}

Mapped(s, f) == [i \in DOMAIN s |-> f[s[i]]]

\* str.lower keeps the diacritic, which normalize folds before.
Lower(s) == Mapped(s, [c \in Characters |-> IF c = "cap" THEN "low" ELSE c])

Folded(s) ==
  Mapped(s, [c \in Characters |-> IF c \in Letters THEN "low"
                                  ELSE IF c = "sep" THEN "under" ELSE c])

\* What is left of a string when only the positions in `kept` stay.
Picked(s, kept) ==
  [k \in 1 .. Cardinality(kept) |->
     s[CHOOSE i \in kept : Cardinality({j \in kept : j <= i}) = k]]

Collapsed(s) == Picked(s, {i \in DOMAIN s : s[i] # "under" \/ i = 1 \/ s[i - 1] # "under"})

Ascii(s) == Picked(s, {i \in DOMAIN s : s[i] # "other"})

Stripped(s) ==
  LET kept == {i \in DOMAIN s : s[i] # "under"}
  IN  IF kept = {} THEN <<>> ELSE SubSeq(s, Min(kept), Max(kept))

\* Slip: the case is kept.
NormalizeKeepingCase(raw) ==
  LET folded == Mapped(raw, [c \in Characters |-> IF c = "accent" THEN "low"
                                                  ELSE IF c = "sep" THEN "under" ELSE c])
  IN  Stripped(Ascii(Collapsed(folded)))

\* What cannot be folded is dropped after the underscores have been collapsed.
Normalize(raw) == Stripped(Ascii(Collapsed(Folded(raw))))

\* Slip: the reserved words are looked up as typed.
ValidTyped(raw) ==
  /\ raw \notin ReservedNames
  /\ Len(Normalize(raw)) \in 1 .. MaxName

\* Once normalized, only the length can still be wrong: the letter at each end is
\* what stripping leaves.
Valid(raw) ==
  LET name == Normalize(raw) IN
  /\ name \notin ReservedNames
  /\ Len(name) \in 1 .. MaxName

\* generate() draws a given and a family name independently.
Generated == {given \o <<"under">> \o family : given \in Given, family \in Family}

(***************************************************************************)
(* Addresses: a bare name, name@hub, or the URI of an actor on some host   *)
(***************************************************************************)

Text == [form : {"bare", "at", "uri"}, name : Seq(Characters),
         host : {"local", "hub", "away"}]

Bare(name) == [form |-> "bare", name |-> name, host |-> "local"]
At(name, host) == [form |-> "at", name |-> name, host |-> host]
Uri(name, host) == [form |-> "uri", name |-> name, host |-> host]

\* Slip: any URI is stripped to its last segment.
NameFromAnyUri(text) == IF text.form = "uri" THEN Bare(text.name) ELSE text

\* Renderer.name_from: our own URIs name our own actors, others stay foreign.
NameFrom(text) ==
  IF text.form # "uri" THEN text
  ELSE IF text.host = "hub" THEN Bare(text.name)
  ELSE At(text.name, text.host)

\* local_name: a hub answers to its own name and to `local`.
LocalName(text) ==
  IF text.name = <<>> \/ text.host \notin {"local", "hub"} THEN Elsewhere
  ELSE Lower(text.name)

Recipients(texts) == {LocalName(NameFrom(text)) : text \in texts}

(***************************************************************************)
(* Requests                                                                *)
(***************************************************************************)

\* Whose mailbox it is, the names a note lists in lower case, the message it answers,
\* whether it lists anybody on another hub, and who had joined when it arrived.
About(owner, listed, answers, abroad) ==
  [owner |-> owner, listed |-> listed, answers |-> answers, abroad |-> abroad,
   joined |-> Joined(actors)]

NothingAsked == About(Elsewhere, {}, NoParent, FALSE)

AboutPost(owner, texts, parent) ==
  About(owner, {Lower(text.name) : text \in texts},
        IF texts = {} THEN parent ELSE NoParent,
        \E text \in texts : text.host = "away")

Asking(t, request) == asked' = [asked EXCEPT ![t] = request]

Refuse(t, call, code) ==
  /\ Free(t) /\ call \in Ops
  /\ Answer(t, call, code, {})
  /\ UNCHANGED <<actors, objects, reads, now, unused, acked>>

\* Slip: the owner in the path is decoration.
OwnsAnything(path, header) == TRUE

\* The path and the header are compared as they came.
Owns(path, header) == NameFrom(path) = header

\* The requests that get past their route's own checks: the path, and who is calling.
Entitled ==
  {who \in Headers \X Names :
     \E header \in Headers : Owns(who[1], header) /\ LocalName(header) = who[2]}

\* A path that is not the caller's, or a caller whose own address is refused.
RefuseOwner(t) ==
  /\ \E call \in {"update_profile", "peek", "send"}, path \in Headers, header \in Headers :
       \/ ~Owns(path, header) /\ Refuse(t, call, "forbidden")
       \/ Owns(path, header) /\ LocalName(header) = Elsewhere
                             /\ Refuse(t, call, "address_error")
  /\ Asking(t, NothingAsked)

\* An empty name is no name: one is issued.
Requests == Typed \ {<<>>}
Refusable == {raw \in Requests : ~Valid(raw)}
Claimable == {Normalize(raw) : raw \in Requests \ Refusable} \cap Names

PostActors(t) ==
  /\ \/ <<>> \in Typed /\ JoinIssued(t)
     \/ Refusable # {} /\ Refuse(t, "join", "name_unavailable")
     \/ \E name \in Claimable : JoinAs(t, name)
  /\ Asking(t, NothingAsked)

PutActors(t) ==
  \E who \in Entitled, profile \in Profiles :
    /\ UpdateProfileAs(t, who[2], profile)
    /\ Asking(t, About(LocalName(who[1]), {}, NoParent, FALSE))

GetInbox(t) ==
  \E who \in Entitled : PeekAs(t, who[2]) /\ Asking(t, About(LocalName(who[1]), {}, NoParent, FALSE))

\* Reading names no owner: the message is looked up for whoever calls.
PostRead(t) ==
  /\ LET callers == {LocalName(header) : header \in Headers} IN
     \/ \E caller \in callers \cap Names, id \in Ids : ReadAs(t, caller, id)
     \/ Elsewhere \in callers /\ Refuse(t, "read", "address_error")
  /\ Asking(t, NothingAsked)

\* Slip: a note without recipients is sent as it is.
OutboxAsIs(t, caller, texts, parent) == SendAs(t, caller, Recipients(texts), {}, parent)

\* A note with a parent and no recipients is a reply.
Outbox(t, caller, texts, parent) ==
  IF parent # NoParent /\ texts = {}
  THEN ReplyAs(t, caller, parent)
  ELSE SendAs(t, caller, Recipients(texts), {}, parent)

PostOutbox(t) ==
  \E who \in Entitled, texts \in Lists, parent \in Parents :
    /\ Outbox(t, who[2], texts, parent)
    /\ Asking(t, AboutPost(LocalName(who[1]), texts, parent))

(***************************************************************************)
(* Specification                                                           *)
(***************************************************************************)

DeskInit == Init /\ asked = [t \in Tasks |-> NothingAsked]

Request(t) ==
  \/ RefuseOwner(t) \/ PostActors(t) \/ PutActors(t) \/ GetInbox(t) \/ PostRead(t)
  \/ PostOutbox(t)

DeskNext == \E t \in Tasks : Request(t) \/ (Resume(t) /\ UNCHANGED asked)

DeskSpec == DeskInit /\ [][DeskNext]_desk

(***************************************************************************)
(* What the desk insists on                                                *)
(***************************************************************************)

\* The ways of writing the address of an actor: bare, capitalised, on `local`, on the
\* hub by name, and as the URI the hub prints.
Upper(s) == Mapped(s, [c \in Characters |-> IF c = "low" THEN "cap" ELSE c])
Spellings(n) ==
  {Bare(n), Bare(Upper(n)), At(n, "local"), At(n, "hub"), Uri(n, "hub")}

(***************************************************************************)
(* SpellingsAgree: however an agent spelled the name it asked for, or was  *)
(* issued one, every way of writing the address of the actor it became     *)
(* reaches that actor ("these three are the same actor, today and always", *)
(* docs/messaging-rules.md).                                               *)
(***************************************************************************)
SpellingsAgree == \A n \in Joined(actors) : Recipients(Spellings(n)) = {n}

(***************************************************************************)
(* ReservedStayFree: no spelling gets an agent a word that addressing      *)
(* keeps for itself or that a standing resident will claim.                *)
(***************************************************************************)
ReservedStayFree == Joined(actors) \cap ReservedNames = {}

(***************************************************************************)
(* ForeignStaysForeign: a post that lists anybody on another hub stores    *)
(* nothing, and never lands with the local actor of the same name.         *)
(***************************************************************************)
ForeignStaysForeign ==
  [][\A t \in Tasks : Answered(t, "send", "ok") => ~asked[t].abroad]_desk

\* Whom a post is for: those it lists or, when it lists nobody, the author of the
\* message it answers.
WhomFor(request) ==
  request.listed \cup {objects[i].from : i \in Stored(objects) \cap {request.answers}}

\* Names that stand for whoever is in them, which may be nobody.
Collective(acts) == {Everyone} \cup DOMAIN GroupMemberships(acts)

(***************************************************************************)
(* PostsReachTheNamed: an accepted post is stored for its sender and       *)
(* exactly the actors it is for, looked up in a directory read while the   *)
(* post was in flight: it holds everyone who had joined when the post      *)
(* arrived.  Each actor it is for by name is among them, whether listed in *)
(* any spelling or as the author of the message answered.                  *)
(***************************************************************************)
PostsReachTheNamed ==
  [][\A t \in Tasks : Answered(t, "send", "ok") =>
       LET acts == tasks[t].acts
           whom == WhomFor(asked[t])
       IN
       /\ asked[t].joined \subseteq Joined(acts) /\ Joined(acts) \subseteq Joined(actors)
       /\ \A i \in unused \ unused' :
            /\ PartiesOf(objects'[i]) = {asked[t].owner} \cup Reached(whom, acts)
            /\ whom \ Collective(acts) \subseteq PartiesOf(objects'[i])]_desk

(***************************************************************************)
(* PathIsOwner: whoever the header names, what is sent from an outbox is   *)
(* sent by the owner in its path, and what an inbox lists is mail of that  *)
(* owner.                                                                  *)
(***************************************************************************)
PathIsOwner ==
  [][\A t \in Tasks :
       /\ Answered(t, "send", "ok") =>
            \A i \in unused \ unused' : objects'[i].from = asked[t].owner
       /\ Answered(t, "peek", "ok") =>
            \A i \in tasks[t]'.ids \cap Stored(objects) :
              asked[t].owner \in PartiesOf(objects[i])]_desk
=============================================================================
