---------------------------- MODULE OldHubProps ----------------------------
(***************************************************************************)
(* What the superseded implementation promises its agents, in the face of  *)
(* renames, stale names, expiry and calls that interleave.  Clients whose  *)
(* name another one took, or who took one, share a mailbox from then on    *)
(* and are left out: whoever connects as X is X.                           *)
(***************************************************************************)
EXTENDS OldDesks

Apart == Clients \ sharing

\* Every client is configured as somebody else, and whoever writes or reads by way of the
\* command line or the console, which know of no role and follow no rename, is known by
\* that one name.
OneSelf ==
  /\ \A c, d \in Clients : Settings[c] = Settings[d] => c = d
  /\ \A c \in Clients : Desk[c] \cap {"cli", "ui"} # {} =>
       "mcp" \notin Desk[c] /\ Settings[c].role = None

\* The names clients may come to have.
Handles == {Settings[c] : c \in Clients} \cup {ParseAddress(raw) : raw \in NewNames}

\* No two of them differ in the role only.
HandlesApart ==
  \A v, w \in Handles \cap Identities :
    v.project = w.project /\ v.agent = w.agent => v = w

\* The step is one of c's, and nobody else has worked since c's call began.
AloneStep(c) == call[c] # Idle /\ call[c].alone /\ call'[c].plan # call[c].plan

\* The store holds well-formed rows: every message is routed by positions and not from
\* the future, and the directory has one entry to a name.
OldTypeOK ==
  /\ \A i \in DOMAIN messages :
       /\ i \in 1 .. drafted /\ messages[i].thread \in 1 .. drafted
       /\ messages[i].target \in Targets /\ messages[i].created <= day
  /\ \A r \in reads : r[1] \in 1 .. drafted
  /\ \A e, f \in DOMAIN agents : agents[e].who = agents[f].who => e = f
  /\ \A e \in ToSet(agents) : e.who \in Identities /\ e.seen <= day
  /\ \A c \in Clients : who[c] \in Identities

\* What an agent was handed as unread stays read, under whatever name it has since
\* taken: a rename takes what was consumed along ("anything it had already read stays
\* read under the new name").
HandedStaysRead ==
  \A h \in handed :
    h[1] \in Apart /\ h[2] \in DOMAIN messages
      => <<h[2], FormatAddress(who[h[1]])>> \in reads

\* Mail follows the agent it was meant for.  As long as it is kept, a message sent to
\* an agent's present or former name is on a thread the agent sees, and in its inbox
\* until it was handed out.
MailFollows ==
  \A i \in DOMAIN messages : \A c \in messages[i].for \cap Apart :
    /\ i \in Turns(messages[i].thread, who[c])
    /\ i \in Peek(who[c]) \/ <<c, i>> \in handed

\* An agent is never offered its own messages and keeps them in its threads, also
\* those it sent under a former name.
OwnMailIsOwn ==
  \A i \in DOMAIN messages :
    messages[i].by \in Apart =>
      /\ i \notin Peek(who[messages[i].by])
      /\ i \in Turns(messages[i].thread, who[messages[i].by])

\* A sender is told it waits for an answer exactly as long as the other side, whatever
\* it is called by now, still has the last message unread.
AwaitingIsWaiting ==
  \A i \in DOMAIN messages : \A c, d \in Apart :
    LET turns == Turns(messages[i].thread, who[c])
    IN  messages[i].by = c /\ messages[i].for = {d} /\ (\A j \in turns : j <= i)
          => (messages[i].thread \in Awaiting(who[c]) <=> i \in Peek(who[d]))

\* It answers another message on that message's thread, not on one of its own.
Answers(m, i) == m.root # 0 /\ m.thread # i

\* Housekeeping takes an answer and what it answers together: what was stored with its
\* original in place has it in place as long as it is kept, whatever others did between
\* the reading of the original and the sending of the reply.
RepliesKeepTheirRoot ==
  \A i \in DOMAIN messages :
    Answers(messages[i], i) /\ ~messages[i].late => messages[i].root \in DOMAIN messages

\* "Our own housekeeping then never manufactures an orphan": every answer that is kept
\* has what it answers.
NoOrphans ==
  \A i \in DOMAIN messages :
    Answers(messages[i], i) => messages[i].root \in DOMAIN messages

\* The URL to connect on, the mail check made of it and the address in a header all lead
\* to the agent `name`.
LeadHome(name) ==
  /\ Served(Url(name)) = [door |-> "mcp", who |-> name]
  /\ Served(ProbeOf(Url(name))) = [door |-> "probe", who |-> name]
  /\ CallerOf(FormatAddress(name)) = name

\* Whoever renames itself is told a URL on which it reaches its own mailbox: nobody
\* else's, and no page of the hub.  (A project called `ui` or `prompts` ends up at pages.)
DoorsLeadHome ==
  [][\A c \in Clients :
       who'[c] # who[c] /\ who'[c].project \notin {"ui", "prompts"} =>
         LeadHome(who'[c])]_desks

\* Nobody evicts an agent that is around: a call that nothing interleaves with leaves
\* the entries of others alone unless they are stale.
LiveAreLeftAlone ==
  [][\A c \in Clients : AloneStep(c) /\ agents' # agents =>
       \A e \in ToSet(agents) :
         \/ Stale(e) \/ e \in ToSet(agents')
         \/ /\ e.who.project = call[c].me.project
            /\ e.who.agent = call[c].me.agent]_desks

\* There are strings that the forwards never lead away from: they run in a circle.
Cyclic ==
  \E S \in SUBSET DOMAIN forwards : S # {} /\ \A s \in S : forwards[s].new \in S

\* A rename that nothing interleaves with never closes a circle of forwards.
ForwardsEnd ==
  [][\A c \in Clients : AloneStep(c) /\ forwards' # forwards /\ ~Cyclic => ~Cyclic']_desks
=============================================================================
