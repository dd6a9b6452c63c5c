------------------------------ MODULE MCHouse ------------------------------
(***************************************************************************)
(* A small house for TLC: one agent and one resident.                      *)
(***************************************************************************)
EXTENDS House, TLC

CONSTANTS ann, host,    \* an agent, and a standing resident
          t1, t2,       \* requests in flight
          m1, m2        \* object ids

HouseTasks == {t1, t2}
HouseNames == {ann, host}
HouseIds == {m1, m2}
NoGroups == {{}}
ToAnyone == {{host}, {ann, host}}
OneAgent == {ann}
NoCc == {{}}
NoThread == {NoParent}

\* Requests in flight are interchangeable and so are the ids uuid4 draws.
HouseAlike == Permutations(Tasks) \cup Permutations(Ids)
=============================================================================
