------------------------------ MODULE MCOldHub ------------------------------
(***************************************************************************)
(* A small instance of the superseded hub: two agents of one project, over *)
(* MCP and over HTTP, the command line and the console.                    *)
(***************************************************************************)
EXTENDS OldHubProps

CONSTANTS ann, bob, vcard

MCDesk == (ann :> {"mcp"}) @@ (bob :> {"api", "cli", "ui"})
MCSettings == (ann :> [project |-> "p", agent |-> "a", role |-> "mcp"])
           @@ (bob :> [project |-> "p", agent |-> "b", role |-> None])
MCGlobs == [x \in {"a*"} |-> "aall"]
MCAddressees == {<<"p", "a", "mcp">>, <<"p">>}
MCNewNames == {<<"p", "a", "mcp">>, <<"p", "b">>, <<"p", "unread", "mcp">>}
MCGhosts == {<< <<"p", "b">> >>}

\* The two agents are told apart as the theorems on renamed agents suppose.
ASSUME ToldApart == OneSelf /\ HandlesApart
=============================================================================
