------------------------------ MODULE OldDesks ------------------------------
(***************************************************************************)
(* The surfaces of the superseded implementation (mcp_server.py, api.py,   *)
(* cli.py, webui.py): which steps on the mailbox each entry point takes,   *)
(* in which order, and for whom.  Every entry point opens the file anew.   *)
(*                                                                         *)
(* A desk maps what a caller wants to the steps it takes; a desk without   *)
(* an entry does not offer it.  `view` and `probe` stand for everything    *)
(* that only looks.                                                        *)
(***************************************************************************)
EXTENDS OldHub, OldDoors

CONSTANTS
  Desk,       \* the surfaces each client uses: "mcp", "api", "cli", "ui"
  Settings,   \* the identity each client is configured with
  Addressees, \* the strings mail is sent to
  NewNames,   \* the strings a client asks to be renamed to
  Ghosts,     \* the lists of former names a client asks to supersede
  Roles,      \* the roles a client registers under
  MaxCalls    \* bound: calls begun

ASSUME DeskAssumption ==
  /\ Desk \in [Clients -> SUBSET {"mcp", "api", "cli", "ui"}]
  /\ Settings \in [Clients -> Identities]
  /\ Roles \subseteq Literals /\ MaxCalls \in Nat

VARIABLE begun  \* how many calls have been begun

desks == <<hub, begun>>

Opened(plan) == <<"open">> \o plan
Announced(plan) == <<"open", "touch">> \o plan

McpMail ==
  [send |-> Announced(Deliver), view |-> Announced(<<>>), read |-> Announced(Consume),
   reply |-> Announced(Consume \o Deliver), ping |-> Announced(Deliver \o Consume)]

McpPresence ==
  [probe |-> Opened(<<>>), register |-> Opened(<<"register", "supersede">>),
   status |-> Opened(<<"profile", "register">>)]

\* The mail check of an agent's loop, which needs no session.
HttpProbe == [probe |-> Opened(<<>>)]

\* list_agents, list_threads and read_thread.
McpLooks == [view |-> Announced(<<>>)]

McpNames == [rename |-> Opened(<<"vacant", "hop", "carry", "move">>),
             probe |-> Opened(<<>>)]

\* Over HTTP a caller announces itself by sending, peeking and pinging only.
ApiDesk ==
  [send |-> Announced(Deliver), view |-> Announced(<<>>), probe |-> Opened(<<>>),
   read |-> Opened(Consume), reply |-> Opened(Consume \o Deliver),
   register |-> Opened(<<"register">>), status |-> Opened(<<"profile", "register">>)]

\* The command line never announces its caller.
CliMail == [send |-> Opened(Deliver), probe |-> Opened(<<>>), read |-> Opened(Consume),
            reply |-> Opened(Consume \o Deliver)]

CliHub == [ping |-> Opened(Deliver \o Consume), probe |-> Opened(<<>>)]

CliDirectory == [register |-> Opened(<<"register">>), probe |-> Opened(<<>>)]

\* The screens that only look, and they too open the file.
UiLooks == [probe |-> Opened(<<>>)]

UiMail == [send |-> Announced(Deliver), read |-> Opened(Consume),
           reply |-> Opened(Consume \o Deliver)]

\* The tools, routes, commands and forms of each surface.
Desks == [mcp |-> {McpMail, McpPresence, McpLooks, McpNames, HttpProbe},
          api |-> {ApiDesk},
          cli |-> {CliMail, CliHub, CliDirectory}, ui |-> {UiLooks, UiMail}]

\* Whom a surface takes the client for.  The command line and the console know no role.
ConnectsAs(c, desk) ==
  CASE desk = "mcp" -> ResolveIdentity(Served(Url(who[c])).who, Malformed)
    [] desk = "api" -> CallerOf(FormatAddress(who[c]))
    [] desk = "cli" -> RequireAddress(who[c])
    [] desk = "ui"  -> Operator(FormatAddress(RequireAddress(who[c])))

\* What a call for `wish` starts from, on each surface that offers it.
Fresh(c, wish) ==
  UNION {{[plan |-> table[wish], me |-> ConnectsAs(c, d), as |-> ConnectsAs(c, d),
           alone |-> TRUE, id |-> 0, original |-> 0, to |-> <<>>, asked |-> <<>>,
           thread |-> 0, since |-> day, card |-> None, entry |-> None, list |-> <<>>]
          : table \in {x \in Desks[d] : wish \in DOMAIN x}}
         : d \in {x \in Desk[c] : ConnectsAs(c, x) # Malformed}}

Begin(c, now) ==
  /\ begun' = begun + 1
  /\ call' = [call EXCEPT ![c] = now]
  /\ UNCHANGED <<stored, day, who, history>>

\* A call that composes a message draws a fresh id for it.
Draft(n) == drafted + n <= MaxId /\ drafted' = drafted + n

\* A thread is named by the message that started it; a caller may name any.
BeginSend(c) ==
  /\ Draft(1)
  /\ \E now \in Fresh(c, "send"), to \in Addressees, thread \in 1 .. drafted' :
       Begin(c, [now EXCEPT !.id = drafted', !.thread = thread, !.to = to, !.asked = to])

BeginPing(c) ==
  /\ Draft(1)
  /\ \E now \in Fresh(c, "ping") :
       LET me == FormatAddress(now.me)
       IN  Begin(c, [now EXCEPT !.id = drafted', !.thread = drafted',
                       !.original = drafted', !.to = me, !.asked = me])

BeginRead(c) ==
  /\ Draft(0)
  /\ \E now \in Fresh(c, "read"), id \in 1 .. drafted :
       Begin(c, [now EXCEPT !.original = id])

BeginReply(c) ==
  /\ Draft(1)
  /\ \E now \in Fresh(c, "reply"), id \in 1 .. drafted :
       Begin(c, [now EXCEPT !.original = id, !.id = drafted'])

BeginLooking(c) ==
  /\ Draft(0)
  /\ \E now \in Fresh(c, "view") \cup Fresh(c, "probe") : Begin(c, now)

\* A role in the URL is the stronger claim; without one the argument counts.
BeginRegister(c) ==
  /\ Draft(0)
  /\ \E now \in Fresh(c, "register"), card \in Cards :
       LET mcp == "supersede" \in ToSet(now.plan)
       IN  \E list \in IF mcp THEN Ghosts \cup {<<>>} ELSE {<<>>},
              role \in IF mcp /\ now.me.role = None THEN Roles \cup {None}
                       ELSE {now.me.role} :
             Begin(c, [now EXCEPT !.card = card, !.list = list, !.as.role = role,
                !.plan = IF list = <<>> THEN <<"open", "register">> ELSE @])

BeginStatus(c) == Draft(0) /\ \E now \in Fresh(c, "status") : Begin(c, now)

BeginRename(c) ==
  /\ Draft(0)
  /\ \E now \in Fresh(c, "rename"), to \in NewNames : Begin(c, [now EXCEPT !.to = to])

Request(c) ==
  /\ call[c] = Idle /\ begun < MaxCalls
  /\ \/ BeginSend(c) \/ BeginPing(c) \/ BeginRead(c) \/ BeginReply(c)
     \/ BeginLooking(c) \/ BeginRegister(c) \/ BeginStatus(c) \/ BeginRename(c)

Init ==
  /\ messages = <<>> /\ reads = {} /\ agents = <<>> /\ forwards = <<>>
  /\ day = 0 /\ drafted = 0 /\ begun = 0
  /\ call = [c \in Clients |-> Idle]
  /\ who = Settings
  /\ handed = {} /\ left = <<>> /\ sharing = {}

Next ==
  \/ (Sleep \/ \E c \in Clients : Step(c)) /\ UNCHANGED begun
  \/ \E c \in Clients : Request(c)

Spec == Init /\ [][Next]_desks
=============================================================================
