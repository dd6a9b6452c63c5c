--------------------------- MODULE MCSqliteStore ---------------------------
(***************************************************************************)
(* Small instances of the SQLite adapter for TLC.                          *)
(***************************************************************************)
EXTENDS SqliteStore, TLC

CONSTANTS ann, bob,    \* names
          old, new,    \* what a profile says
          m1, m2,      \* messages
          t1, t2       \* requests in flight

TwoTasks == {t1, t2}
OneTask == {t1}
OneName == {ann}
TwoIds == {m1, m2}
OneId == {m1}
TwoProfiles == {old, new}
OneProfile == {old}

\* Names, ids, profiles and requests are interchangeable.
Alike == Permutations(Tasks) \cup Permutations(Names) \cup Permutations(Ids)
           \cup Permutations(Profiles)
=============================================================================
