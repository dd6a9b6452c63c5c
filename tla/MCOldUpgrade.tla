---------------------------- MODULE MCOldUpgrade ----------------------------
(***************************************************************************)
(* Two processes opening one old store.                                    *)
(***************************************************************************)
EXTENDS OldUpgrade

CONSTANT oa

Plainly == [name |-> oa, role |-> FALSE]
InRole == [name |-> oa, role |-> TRUE]

Row(id, kind, to, acked) ==
  [id |-> id, kind |-> kind, to |-> to, role |-> to = InRole, acked |-> acked]

MCOldRows == {Row("d", "direct", Plainly, FALSE), Row("e", "direct", Plainly, TRUE),
              Row("f", "any", Nobody, TRUE), Row("g", "public", Nobody, FALSE),
              Row("h", "direct", InRole, TRUE)}
=============================================================================
