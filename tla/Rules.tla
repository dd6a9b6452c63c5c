------------------------------- MODULE Rules -------------------------------
(***************************************************************************)
(* The messaging rules of src/agent_mailbox/rules.py: pure functions from  *)
(* records to decisions.  The state every caller passes in is              *)
(*                                                                         *)
(*   acts   a table from names to actor records, NoActor where nobody has  *)
(*          joined; acts[n].type is "Service" or "Group", acts[n].groups   *)
(*          the set of names listed under profile["groups"];               *)
(*   objs   a table from object ids to object records, NoObject where      *)
(*          nothing is stored, with the fields from (attributed_to), to,   *)
(*          cc, parent (in_reply_to) and published.                        *)
(*                                                                         *)
(* The code passes objects as a sequence ordered by (published, id) and    *)
(* every rule is a filter of it, so a set of ids stands for each answer.   *)
(***************************************************************************)
EXTENDS Naturals

CONSTANTS Everyone,   \* rules.EVERYONE, the reserved audience
          NoParent,   \* in_reply_to is None
          NoActor,    \* no row in the actors table
          NoObject    \* no row in the objects table

Joined(acts) == {n \in DOMAIN acts : acts[n] # NoActor}
Stored(objs) == {i \in DOMAIN objs : objs[i] # NoObject}

(***************************************************************************)
(* Membership and audience                                                 *)
(***************************************************************************)

\* Groups exist because an actor of type Group holds the name, or because some
\* profile lists it; the members are the actors whose profile lists it.
GroupMemberships(acts) ==
  LET groups == {n \in Joined(acts) : acts[n].type = "Group"}
                  \cup UNION {acts[n].groups : n \in Joined(acts)}
  IN  [g \in groups |-> {n \in Joined(acts) : g \in acts[n].groups}]

\* `everyone` is looked up first, then groups, then actors: a name that is both a
\* group and an actor means the group, and an unknown name means nobody.
Expand(name, all, members) ==
  CASE name = Everyone -> all
    [] name # Everyone /\ name \in DOMAIN members -> members[name]
    [] OTHER -> {name} \cap all

ResolveAudience(names, all, members) == UNION {Expand(n, all, members) : n \in names}

RecipientsOf(obj, all, members) ==
  ResolveAudience(obj.to \cup obj.cc, all, members) \ {obj.from}

DeliversTo(obj, reader, all, members) == reader \in RecipientsOf(obj, all, members)

IsPartyTo(obj, actor, all, members) ==
  obj.from = actor \/ DeliversTo(obj, actor, all, members)

\* Ids waiting for the reader, given the ids the reader has consumed.
Unread(objs, reader, already, all, members) ==
  {i \in Stored(objs) \ already : DeliversTo(objs[i], reader, all, members)}

(***************************************************************************)
(* Threads                                                                 *)
(***************************************************************************)

\* The walk up in_reply_to stops at a message with no parent, at a message whose
\* parent is not among objs, or on meeting a message for the second time.
ThreadRoot(objs, id) ==
  LET walk[way \in (SUBSET Stored(objs)) \X Stored(objs)] ==
        LET seen == way[1]
            cur == way[2]
        IN  IF cur \in seen \/ objs[cur].parent \notin Stored(objs)
            THEN cur
            ELSE walk[<<seen \cup {cur}, objs[cur].parent>>]
  IN  IF id \in Stored(objs) THEN walk[<<{}, id>>] ELSE id

ThreadMembers(objs, root) == {i \in Stored(objs) : ThreadRoot(objs, i) = root}

\* Slip: party to any turn unlocks them all.
VisibleTurnsGated(objs, root, viewer, all, members) ==
  IF \E i \in ThreadMembers(objs, root) : IsPartyTo(objs[i], viewer, all, members)
  THEN ThreadMembers(objs, root) ELSE {}

\* A filter, turn by turn; never a gate on the whole thread.
VisibleTurns(objs, root, viewer, all, members) ==
  {i \in ThreadMembers(objs, root) : IsPartyTo(objs[i], viewer, all, members)}

\* Slip: only checks that the parent is there.
MayAttachToStored(objs, sender, parent, all, members) ==
  parent = NoParent \/ parent \in Stored(objs)

\* Slip: lets a parent nobody has stored through.
MayAttachToMissing(objs, sender, parent, all, members) ==
  parent \in Stored(objs) => IsPartyTo(objs[parent], sender, all, members)

\* A parent that is not stored is refused exactly like one the sender may not see.
MayAttachTo(objs, sender, parent, all, members) ==
  \/ parent = NoParent
  \/ /\ parent \in Stored(objs)
     /\ IsPartyTo(objs[parent], sender, all, members)

(***************************************************************************)
(* Expiry                                                                  *)
(***************************************************************************)

\* Slip: message by message.
ExpiredOneByOne(objs, cutoff) == {i \in Stored(objs) : objs[i].published < cutoff}

\* Slip: one old turn condemns its thread.
ExpiredByOldest(objs, cutoff) ==
  {i \in Stored(objs) :
     \E j \in Stored(objs) : /\ ThreadRoot(objs, i) = ThreadRoot(objs, j)
                             /\ objs[j].published < cutoff}

\* A thread is dead when its latest message is older than the cutoff, that is when
\* every message of it is.
ExpiredObjectIds(objs, cutoff) ==
  LET root == [i \in Stored(objs) |-> ThreadRoot(objs, i)]
      dead == {r \in {root[i] : i \in Stored(objs)} :
                 \A i \in Stored(objs) : root[i] = r => objs[i].published < cutoff}
  IN  {i \in Stored(objs) : root[i] \in dead}
=============================================================================
