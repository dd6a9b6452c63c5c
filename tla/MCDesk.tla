------------------------------- MODULE MCDesk -------------------------------
(***************************************************************************)
(* A small desk for TLC: `a`, `a_a` and `a__a` can join, `aa` and `aaa`    *)
(* are reserved, and `aaa` is everyone.                                    *)
(***************************************************************************)
EXTENDS Desk

CONSTANTS t1,       \* the request in flight
          m1, m2    \* object ids

a == <<"low">>
me == a \o a
all == a \o a \o a

OneTask == {t1}
TwoIds == {m1, m2}
OneLetter == {a}
Words == {me, all}

joint == <<"under">>
full == a \o joint \o a

\* The longest is what `a_!_a` becomes; `A` nobody can hold, unless case were kept.
DeskNames == {a, <<"cap">>, me, full, a \o joint \o joint \o a}

\* Every string of up to five characters.
Strings == BoundedSeq(Characters, 5)

Callers == {Bare(a), At(a, "hub"), Bare(<<"cap">>), Bare(full), At(a, "away")}

Mailings ==
  {{}, {At(a, "local")}, {Uri(full, "hub")}, {Bare(<<"accent">>)},
   {Bare(all)}, {Uri(all, "away")}, {Bare(full), Uri(a, "away")}}

NoProfiles == {{}}
AnyParent == Ids \cup {NoParent}

\* What the theorems on names assume of a pool and of what is typed holds here.
ASSUME PoolAssumption ==
  /\ Issued \subseteq Generated /\ Typed \subseteq Seq(Characters)
  /\ Given \cup Family \subseteq Seq({"low"}) \ {<<>>}

\* The ids uuid4 draws are interchangeable.
DeskAlike == Permutations(Ids)
=============================================================================
