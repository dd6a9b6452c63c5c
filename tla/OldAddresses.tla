---------------------------- MODULE OldAddresses ----------------------------
(***************************************************************************)
(* Addresses of the superseded implementation (config.py): what a string   *)
(* like `proj/agent/role` means, and whom it reaches.                      *)
(*                                                                         *)
(* A string is the sequence of its parts between slashes, and a part is a  *)
(* token: equality of strings is equality of sequences, which is what the  *)
(* forwards, the senders and the readers of the store are compared by.     *)
(* Letter case and the spaces that strip() takes are abstracted.           *)
(***************************************************************************)
EXTENDS Sequences, Naturals

CONSTANTS
  Literals,  \* the tokens _VALID_TOKEN accepts, the reserved words left out
  Globs,     \* tokens with a star inside, mapped to what replacing it gives
  None,      \* a position that matches every value; an agent that holds no role
  Malformed  \* what parsing answers instead of raising ConfigError

ASSUME AddressAssumption ==
  /\ None \notin Literals /\ Malformed \notin Literals \cup {None}
  /\ Malformed \notin [{"project", "agent", "role"} -> Literals \cup {None}]
  /\ Literals \cap DOMAIN Globs = {}
  /\ {"all", "any", "*", ""} \cap (Literals \cup DOMAIN Globs) = {}

Positions == {"project", "agent", "role"}

\* An identity: an agent always has a project and a name, and may hold a role.
Identities == [project : Literals, agent : Literals, role : Literals \cup {None}]

Targets == [Positions -> Literals \cup {None}]

\* The canonical string of an identity.
FormatAddress(who) ==
  IF who.role = None THEN <<who.project, who.agent>>
                     ELSE <<who.project, who.agent, who.role>>

\* An empty part and a star say the same as `all`; a star inside a token is spelled
\* out as well.
Spelled(token) ==
  IF token \in {"", "*"} THEN "all"
  ELSE IF token \in DOMAIN Globs THEN Globs[token] ELSE token

\* `any` is retired: it falls through to Malformed with everything that is no token.
ParsePart(token) ==
  LET word == Spelled(token)
  IN  IF word = "all" THEN None ELSE IF word \in Literals THEN word ELSE Malformed

ParseAddress(raw) ==
  LET part(i) == IF i <= Len(raw) THEN ParsePart(raw[i]) ELSE None
  IN  IF Len(raw) > 3 \/ \E i \in 1 .. 3 : part(i) = Malformed THEN Malformed
      ELSE [project |-> part(1), agent |-> part(2), role |-> part(3)]

\* Target.is_specific: one agent, whatever its role.
IsSpecific(target) == target.project # None /\ target.agent # None

(***************************************************************************)
(* The two-part grammar some callers still use.  It splits at the first    *)
(* slash only, so that a third part ends up inside the agent's name and is *)
(* refused; it knows nothing of the retirement of `any`.                   *)
(***************************************************************************)
ParseTarget(raw) ==
  LET scope == Spelled(raw[1])
      fan   == IF Len(raw) > 1 THEN Spelled(raw[2])
               ELSE IF scope = "any" THEN "any" ELSE "all"
      kind  == CASE scope \in {"all", "any"} /\ fan = "all" -> "public"
                 [] scope \in {"all", "any"} /\ fan = "any" -> "global_any"
                 [] scope \in Literals /\ fan = "all"       -> "broadcast"
                 [] scope \in Literals /\ fan = "any"       -> "any"
                 [] scope \in Literals /\ fan \in Literals  -> "direct"
                 [] OTHER                                   -> "none"
  IN  IF Len(raw) > 2 \/ kind = "none" THEN Malformed
      ELSE [kind    |-> kind,
            project |-> IF scope \in Literals THEN scope ELSE None,
            agent   |-> IF fan \in Literals THEN fan ELSE None]

\* _ROUTES_TO: every position matches the reader's value or is a wildcard.  A reader
\* without a role is matched by no literal one.
RoutesTo(target, who) == \A p \in Positions : target[p] \in {None, who[p]}
=============================================================================
