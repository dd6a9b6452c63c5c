----------------------------- MODULE MCMailbox -----------------------------
(***************************************************************************)
(* Small instances of the mailbox for TLC.                                 *)
(***************************************************************************)
EXTENDS MailboxDelivers, TLC

CONSTANTS ann, bob, cat, crew,   \* three agents, and a group or a fourth name
          t1, t2,                \* requests in flight
          m1, m2                 \* object ids

FourNames == {ann, bob, cat, crew}
ThreeNames == {ann, bob, cat}
OneName == {ann}
TwoNames == {ann, bob}
TwoTasks == {t1, t2}
OneTask == {t1}
OneId == {m1}
TwoIds == {m1, m2}

\* Requests in flight are interchangeable and so are the ids uuid4 draws.
Alike == Permutations(Tasks) \cup Permutations(Ids)

InCrew == {{}, {crew}}
NoProfiles == {{}}
ShadowBob == {{}, {bob}}
NoCopies == {{}}
NoParents == {NoParent}
AnyParent == Ids \cup {NoParent}

GroupMail == {{crew}, {Everyone}}
GroupCopies == {{ann}, {Elsewhere}}
ThreadMail == {{bob}, {Everyone}}
Broadcast == {{Everyone}}
=============================================================================
