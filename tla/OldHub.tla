------------------------------- MODULE OldHub -------------------------------
(***************************************************************************)
(* The mailbox of the superseded implementation (mailbox.py): one SQLite   *)
(* file that every call, in whatever process, opens for itself.  A         *)
(* statement and its commit are one step; between two awaits of a call     *)
(* other calls proceed, and what a call read may have changed when it      *)
(* writes.                                                                 *)
(*                                                                         *)
(* A call is the sequence of steps its entry point still has to take, with *)
(* the arguments and what it has read so far.  Module OldDesks says which  *)
(* entry point takes which steps.  Bodies, subjects, intents and profiles  *)
(* beyond one card are abstracted; time is counted in days.                *)
(***************************************************************************)
EXTENDS OldAddresses, SequencesExt

CONSTANTS
  Clients,    \* agents and the operator, each making one call at a time
  Cards,      \* what a profile can say
  MaxId,      \* bound: messages drafted
  Dates,      \* bound: the days on which something happens
  TtlDays,    \* ttl_days: 0 keeps everything
  StaleDays,  \* stale_days: 0 never
  GraceDays   \* rename_grace_days

ASSUME HubAssumption ==
  /\ {MaxId, TtlDays, StaleDays, GraceDays} \subseteq Nat
  /\ Dates \subseteq Nat /\ 0 \in Dates

VARIABLES
  messages,   \* stored messages; `by`, `for`, `root` and `late` are history: who
              \* wrote it, whom it named when nobody else was at work, what it
              \* answers and whether that was gone when the answer was stored
  reads,      \* broadcast_reads: which string has consumed which message
  agents,     \* the directory, most recently seen first
  forwards,   \* former string to the present one and the day it stops delivering
  day,        \* the wall clock
  drafted,    \* how many messages have been composed
  call,       \* what each client has in flight
  who,        \* the identity each client connects with
  handed,     \* history: what each client was handed as unread
  left,       \* history: string to the client that last moved away from it
  sharing     \* history: clients whose name another one took, and the takers

stored  == <<messages, reads, agents, forwards>>
history == <<handed, left, sharing>>
hub     == <<stored, day, drafted, call, who, history>>

Ids == 1 .. MaxId
Idle == [plan |-> <<>>]

\* A dictionary with one more entry, and with fewer.
Put(f, k, v) == [x \in DOMAIN f \cup {k} |-> IF x = k THEN v ELSE f[x]]
Keep(f, S) == [x \in DOMAIN f \cap S |-> f[x]]

(***************************************************************************)
(* Looking things up                                                       *)
(***************************************************************************)

Stale(entry) == StaleDays > 0 /\ day - entry.seen > StaleDays

\* Where the directory has a name, 0 where nobody holds it.  An omitted role matches any;
\* the most recently seen entry wins.
Held(name) ==
  SelectInSeq(agents, LAMBDA e : /\ e.who.project = name.project
                                 /\ e.who.agent = name.agent
                                 /\ name.role \in {None, e.who.role})

Whois(name) == IF Held(name) = 0 THEN None ELSE agents[Held(name)]

\* Slip: an upsert that only inserts.
WithoutNone(entries, name) == entries

\* DELETE by the primary key, and what an upsert replaces.
Without(entries, name) == RemoveFirstMatch(entries, LAMBDA e : e.who = name)

\* An upsert makes the entry the most recently seen one.
Seen(name, card, others) == <<[who |-> name, seen |-> day, card |-> card]>> \o others

\* _party_clause: sent by `name` or routed to it.
PartyTo(m, name) == m.from = FormatAddress(name) \/ RoutesTo(m.target, name)

\* peek and unread_count: routed, not one's own, not yet consumed.
Peek(name) ==
  {i \in DOMAIN messages :
     /\ RoutesTo(messages[i].target, name)
     /\ messages[i].from # FormatAddress(name)
     /\ <<i, FormatAddress(name)>> \notin reads}

\* read_thread, for an agent: its own turns and those routed to it.
Turns(thread, name) ==
  {i \in DOMAIN messages : messages[i].thread = thread /\ PartyTo(messages[i], name)}

\* Slip: nobody's reading counts.
AwaitingAlways(name) ==
  {t \in {messages[i].thread : i \in DOMAIN messages} :
     \E last \in Turns(t, name) :
       /\ \A i \in Turns(t, name) : i <= last
       /\ messages[last].from = FormatAddress(name)}

\* list_threads: conversations in which the last word is `name`'s and unread.
Awaiting(name) ==
  {t \in {messages[i].thread : i \in DOMAIN messages} :
     \E last \in Turns(t, name) :
       /\ \A i \in Turns(t, name) : i <= last
       /\ messages[last].from = FormatAddress(name)
       /\ \A r \in reads : r[1] # last}

(***************************************************************************)
(* A call proceeds                                                         *)
(***************************************************************************)

At(c, step) == call[c] # Idle /\ call[c].plan[1] = step

\* The call goes on with `now`, or is over when nothing is left of it.  Everyone else
\* in flight is no longer alone with what they have read.
Continue(c, now) ==
  call' = [d \in Clients |->
             IF d = c THEN IF now.plan = <<>> THEN Idle ELSE now
             ELSE IF call[d] = Idle THEN Idle ELSE [call[d] EXCEPT !.alone = FALSE]]

Onward(c, now) == Continue(c, [now EXCEPT !.plan = Tail(@)])
Stop(c) == Continue(c, Idle)

Me(c) == FormatAddress(call[c].me)

\* Sending, and reading one message, in the steps they take.
Deliver == <<"resolve", "join", "insert">>
Consume == <<"look", "mark">>

\* A reply is a read followed by a send; so a read that fails is made up for.
Replying(c) == "resolve" \in ToSet(call[c].plan)

(***************************************************************************)
(* Opening and presence                                                    *)
(***************************************************************************)

\* Slip: every message has its own age.
QuietTurn(i) == messages[i].created + TtlDays < day

\* _purge_expired: conversations quiet for too long go whole, and consumption goes
\* with its message.
Quiet(i) ==
  \A j \in DOMAIN messages :
    messages[j].thread = messages[i].thread => messages[j].created + TtlDays < day

PurgeExpired ==
  LET kept == IF TtlDays = 0 THEN DOMAIN messages
              ELSE {i \in DOMAIN messages : ~Quiet(i)}
  IN  /\ messages' = Keep(messages, kept)
      /\ reads' = IF TtlDays = 0 THEN reads ELSE {r \in reads : r[1] \in kept}
      /\ handed' = {h \in handed : h[2] \in kept}

Open(c) ==
  /\ At(c, "open")
  /\ PurgeExpired
  /\ Onward(c, call[c])
  /\ UNCHANGED <<agents, forwards, day, drafted, who, left, sharing>>

Touch(c) ==
  /\ At(c, "touch")
  /\ LET known == SelectInSeq(agents, LAMBDA e : e.who = call[c].me)
         card  == IF known = 0 THEN None ELSE agents[known].card
     IN  agents' = Seen(call[c].me, card, Without(agents, call[c].me))
  /\ Onward(c, call[c])
  /\ UNCHANGED <<messages, reads, forwards, day, drafted, who, history>>

(***************************************************************************)
(* Sending                                                                 *)
(***************************************************************************)

\* The string was renamed and the forwarding period has ended.
Ended(string) == string \in DOMAIN forwards /\ forwards[string].until <= day

\* send looks the string up as it was given; a forward that has expired refuses.
Resolve(c) ==
  /\ At(c, "resolve")
  /\ LET to == call[c].to
     IN  IF Ended(to) THEN Stop(c)
         ELSE IF to \notin DOMAIN forwards THEN Onward(c, call[c])
         ELSE Onward(c, [call[c] EXCEPT !.to = forwards[to].new])
  /\ UNCHANGED <<stored, day, drafted, who, history>>

\* _thread_sender_may_join: is there such a thread, and is the sender party to it?  A
\* message that may not join starts a thread of its own.
Join(c) ==
  /\ At(c, "join")
  /\ LET now   == call[c]
         known == \E i \in DOMAIN messages : messages[i].thread = now.thread
     IN  Onward(c, IF now.thread # now.id /\ known
                   THEN [now EXCEPT !.plan = <<"join", "party">> \o Tail(@)]
                   ELSE now)
  /\ UNCHANGED <<stored, day, drafted, who, history>>

Party(c) ==
  /\ At(c, "party")
  /\ LET now == call[c]
     IN  Onward(c, IF Turns(now.thread, now.me) # {} THEN now
                   ELSE [now EXCEPT !.thread = now.id])
  /\ UNCHANGED <<stored, day, drafted, who, history>>

\* Whom a string names: who last moved away from it, else who holds it.
Named(string) ==
  IF string \in DOMAIN left THEN {left[string]}
  ELSE {d \in Clients : FormatAddress(who[d]) = string}

\* A reply answers its original; a ping names itself.
Root(now) == IF now.original = now.id THEN 0 ELSE now.original

\* A message over the cap, or to an address that does not parse, is refused.
Insert(c) ==
  /\ At(c, "insert")
  /\ LET now    == call[c]
         target == ParseAddress(now.to)
         entry  == [from |-> Me(c), target |-> target, thread |-> now.thread,
                    created |-> now.since, by |-> c,
                    for |-> IF now.alone THEN Named(now.asked) \ {c} ELSE {},
                    root |-> Root(now), late |-> Root(now) \notin DOMAIN messages \cup {0}]
     IN  \/ /\ target # Malformed
            /\ messages' = Put(messages, now.id, entry)
            /\ Onward(c, now)
         \/ Stop(c) /\ UNCHANGED messages
  /\ UNCHANGED <<reads, agents, forwards, day, drafted, who, history>>

(***************************************************************************)
(* Reading and replying                                                    *)
(***************************************************************************)

Readable(c) ==
  LET now == call[c]
  IN  now.original \in DOMAIN messages /\ RoutesTo(messages[now.original].target, now.me)

\* The draft of a reply: to the sender, on the thread of the original.
Answering(now, original) ==
  [now EXCEPT !.to = original.from, !.asked = original.from,
              !.thread = original.thread, !.since = day]

\* reply catches the refusal of read, looks again, consumed or not, and sends.
LookAgain(c) ==
  IF Replying(c) THEN Continue(c, [call[c] EXCEPT !.plan = <<"again">> \o Deliver])
  ELSE Stop(c)

Look(c) ==
  /\ At(c, "look")
  /\ IF Readable(c)
     THEN Onward(c, IF Replying(c) THEN Answering(call[c], messages[call[c].original])
                    ELSE call[c])
     ELSE LookAgain(c)
  /\ UNCHANGED <<stored, day, drafted, who, history>>

\* The insert into a primary key: only the first one hands the message out.
Mark(c) ==
  /\ At(c, "mark")
  /\ LET row == <<call[c].original, Me(c)>>
     IN  IF row \in reads THEN LookAgain(c) /\ UNCHANGED <<reads, handed>>
         ELSE /\ reads' = reads \cup {row}
              /\ handed' = handed \cup {<<c, call[c].original>>}
              /\ Onward(c, call[c])
  /\ UNCHANGED <<messages, agents, forwards, day, drafted, who, left, sharing>>

Again(c) ==
  /\ At(c, "again")
  /\ IF Readable(c) THEN Onward(c, Answering(call[c], messages[call[c].original]))
     ELSE Stop(c)
  /\ UNCHANGED <<stored, day, drafted, who, history>>

(***************************************************************************)
(* The directory                                                           *)
(***************************************************************************)

\* The upsert of register, under the role the caller announces.
Register(c) ==
  /\ At(c, "register")
  /\ agents' = Seen(call[c].as, call[c].card, Without(agents, call[c].as))
  /\ Onward(c, call[c])
  /\ UNCHANGED <<messages, reads, forwards, day, drafted, who, history>>

\* update_status looks the profile up to keep the rest of it, and registers.
Profile(c) ==
  /\ At(c, "profile")
  /\ LET entry == Whois(call[c].me)
     IN  Onward(c, [call[c] EXCEPT !.card = IF entry = None THEN None ELSE entry.card])
  /\ UNCHANGED <<stored, day, drafted, who, history>>

\* The next of the names to supersede; the step stays while there is one.
NextName(now) ==
  [now EXCEPT !.list = Tail(@), !.plan = IF Len(now.list) > 1 THEN @ ELSE Tail(@)]

Ghost(now) ==
  LET name == ParseTarget(now.list[1])
  IN  [project |-> name.project, agent |-> name.agent, role |-> None]

\* supersede: a name that does not parse aborts what is left of the list.
Supersede(c) ==
  /\ At(c, "supersede")
  /\ LET now  == call[c]
         name == ParseTarget(now.list[1])
     IN  IF name = Malformed THEN Stop(c)
         ELSE IF /\ name.kind = "direct"
                 /\ now.list[1] # FormatAddress(now.as)
                 /\ Held(Ghost(now)) # 0
                 /\ Stale(Whois(Ghost(now)))
         THEN Continue(c, [now EXCEPT !.plan = <<"retire">> \o @])
         ELSE Continue(c, NextName(now))
  /\ UNCHANGED <<stored, day, drafted, who, history>>

Retire(c) ==
  /\ At(c, "retire")
  /\ agents' = Without(agents, Ghost(call[c]))
  /\ Continue(c, NextName([call[c] EXCEPT !.plan = Tail(@)]))
  /\ UNCHANGED <<messages, reads, forwards, day, drafted, who, history>>

(***************************************************************************)
(* Renaming                                                                *)
(***************************************************************************)

\* Slip: a new name takes over whoever holds it.
VacantAlways(name) == TRUE

VacantName(name) == Held(name) = 0 \/ Stale(Whois(name))

\* The new name is a specific one, another one, and nobody active holds it.
Vacant(c) ==
  /\ At(c, "vacant")
  /\ LET new == ParseAddress(call[c].to)
     IN  IF /\ new # Malformed /\ IsSpecific(new)
            /\ new # call[c].me
            /\ VacantName(new)
         THEN Onward(c, [call[c] EXCEPT !.as = new, !.asked = FormatAddress(new)])
         ELSE Stop(c)
  /\ UNCHANGED <<stored, day, drafted, who, history>>

\* Slip: the forwards are not followed.
HopNot(c) ==
  At(c, "hop") /\ Onward(c, call[c]) /\ UNCHANGED <<stored, day, drafted, who, history>>

\* _resolves_to: one hop along the forwards; coming back to the caller refuses.
Hop(c) ==
  /\ At(c, "hop")
  /\ LET now == call[c]
     IN  IF now.asked \notin DOMAIN forwards \/ now.asked \in ToSet(now.list)
         THEN Onward(c, [now EXCEPT !.list = <<>>])
         ELSE IF forwards[now.asked].new = Me(c) THEN Stop(c)
         ELSE Continue(c, [now EXCEPT !.list = Append(@, now.asked),
                                      !.asked = forwards[now.asked].new])
  /\ UNCHANGED <<stored, day, drafted, who, history>>

Carry(c) ==
  /\ At(c, "carry")
  /\ Onward(c, [call[c] EXCEPT !.entry = Whois(call[c].me)])
  /\ UNCHANGED <<stored, day, drafted, who, history>>

\* Slip: what was sent under the old name keeps it.
MoveMailReceived(old, new) ==
  [i \in DOMAIN messages |->
     [messages[i] EXCEPT !.target = IF @ = old THEN new ELSE @]]

\* Slip: mail that already waits stays where it is.
MoveMailSent(old, new) ==
  [i \in DOMAIN messages |->
     [messages[i] EXCEPT !.from = IF @ = FormatAddress(old) THEN FormatAddress(new)
                                  ELSE @]]

MoveMail(old, new) ==
  [i \in DOMAIN messages |->
     [messages[i] EXCEPT
        !.target = IF @ = old THEN new ELSE @,
        !.from = IF @ = FormatAddress(old) THEN FormatAddress(new) ELSE @]]

\* Slip: what was consumed is forgotten.
MoveReadsNot(old, new) == reads

\* UPDATE OR IGNORE: a row that the new name already has stays behind.
MoveReads(old, new) ==
  {r \in reads : r[2] # old \/ <<r[1], new>> \in reads}
    \cup {<<r[1], new>> : r \in {x \in reads : x[2] = old}}

MoveForwards(old, new) ==
  LET all == Put(forwards, old, [new |-> new, until |-> day + GraceDays])
  IN  [s \in DOMAIN all |-> IF all[s].new = old THEN [all[s] EXCEPT !.new = new]
                                                ELSE all[s]]

\* The writes of rename, which one commit makes permanent together.
Move(c) ==
  /\ At(c, "move")
  /\ LET old   == call[c].me
         new   == call[c].as
         entry == call[c].entry
         taken == {d \in Clients \ {c} : who[d] = new}
     IN  /\ agents' = IF entry = None THEN agents
                      ELSE Seen(new, entry.card, Without(Without(agents, new), old))
         /\ messages' = MoveMail(old, new)
         /\ reads' = MoveReads(FormatAddress(old), FormatAddress(new))
         /\ forwards' = MoveForwards(FormatAddress(old), FormatAddress(new))
         /\ who' = [who EXCEPT ![c] = new]
         /\ left' = Put(left, FormatAddress(old), c)
         /\ sharing' = IF taken = {} THEN sharing ELSE sharing \cup taken \cup {c}
  /\ Onward(c, call[c])
  /\ UNCHANGED <<day, drafted, handed>>

(***************************************************************************)
(* The specification                                                       *)
(***************************************************************************)

\* The process stops, or the connection it serves is dropped, between two awaits.
Abandon(c) ==
  /\ call[c] # Idle
  /\ Stop(c)
  /\ UNCHANGED <<stored, day, drafted, who, history>>

Sleep ==
  /\ day' \in {d \in Dates : d > day}
  /\ UNCHANGED <<stored, drafted, call, who, history>>

Step(c) ==
  \/ Open(c) \/ Touch(c)
  \/ Resolve(c) \/ Join(c) \/ Party(c) \/ Insert(c)
  \/ Look(c) \/ Mark(c) \/ Again(c)
  \/ Register(c) \/ Profile(c) \/ Supersede(c) \/ Retire(c)
  \/ Vacant(c) \/ Hop(c) \/ Carry(c) \/ Move(c)
  \/ Abandon(c)
=============================================================================
