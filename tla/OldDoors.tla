------------------------------ MODULE OldDoors ------------------------------
(***************************************************************************)
(* How the superseded implementation finds out who calls: the URL paths of *)
(* its HTTP server (mcp_server.py, identity.py), the identity header of    *)
(* its API (api.py) and the settings of its command line and console.      *)
(*                                                                         *)
(* A path is the sequence of its segments.  The console and the prompts    *)
(* are served, and the MCP mount is the default one.  The query string and *)
(* the X-Agent headers, which the middleware falls back to when the path   *)
(* names nobody, are left out.                                             *)
(***************************************************************************)
EXTENDS OldAddresses, SequencesExt

\* The URL to connect on, as the answer to a rename spells it.
Url(who) == Append(FormatAddress(who), "mcp")

\* Slip: the URL is taken to be the agent's own.
ProbeOfWhole(url) == Append(url, "unread")

\* What the mail check of an agent's loop makes of that URL.
ProbeOf(url) == Append(IF Last(url) = "mcp" THEN Front(url) ELSE url, "unread")

\* project, agent and, in a longer path, the role.
Claim(path, n) ==
  [project |-> path[1], agent |-> path[2], role |-> IF n = 3 THEN path[3] ELSE None]

\* _extract: a role is taken where there is one, and what follows the mount is handed
\* on.
Extract(path) ==
  IF Len(path) >= 4 /\ path[4] = "mcp" THEN Claim(path, 3)
  ELSE IF Len(path) >= 3 /\ path[3] = "mcp" THEN Claim(path, 2) ELSE None

IsProbe(path) == Len(path) \in {3, 4} /\ Last(path) = "unread"

\* The middleware, in the order it tries its doors.
Served(path) ==
  IF path = <<"health">>          THEN [door |-> "health", who |-> None]
  ELSE IF IsProbe(path)           THEN [door |-> "probe",
                                        who |-> Claim(path, Len(path) - 1)]
  ELSE IF path = <<>>             THEN [door |-> "hub", who |-> None]
  ELSE IF path[1] = "ui"          THEN [door |-> "console", who |-> None]
  ELSE IF path = <<"hub">>        THEN [door |-> "hub", who |-> None]
  ELSE IF path[1] = "prompts"     THEN [door |-> "prompts", who |-> None]
  ELSE [door |-> "mcp", who |-> Extract(path)]

\* resolve_identity: the request's claim, else the configured one, if it is valid.
ResolveIdentity(claim, configured) ==
  LET one == IF claim # None THEN claim ELSE configured
  IN  IF one \in Identities THEN one ELSE Malformed

\* _caller: a header that names one agent.  A role may be missing, nothing else.
CallerOf(header) ==
  LET target == ParseAddress(header)
  IN  IF target = Malformed \/ ~IsSpecific(target) THEN Malformed ELSE target

\* require_address: the command line knows a project and a name, and no role.
RequireAddress(configured) == [configured EXCEPT !.role = None]

\* WebConsole._split: an operator setting that does not parse stops the console, and
\* one that names no agent is replaced.
Operator(configured) ==
  LET one == ParseTarget(configured)
  IN  IF one = Malformed THEN Malformed
      ELSE IF one.kind # "direct"
      THEN [project |-> "agent-inbox", agent |-> "human", role |-> None]
      ELSE [project |-> one.project, agent |-> one.agent, role |-> None]
=============================================================================
