------------------------------- MODULE House -------------------------------
(***************************************************************************)
(* The house of src/agent_mailbox/house.py around the mailbox, and the     *)
(* process it lives in: the store is opened, the standing residents are    *)
(* established, requests are served through check, act, record, and the    *)
(* process stops, at a good moment or a bad one, and starts again.         *)
(*                                                                         *)
(* The policies are the default ones: StandingResidents, MessageLimits and *)
(* AuditLog.  A body is only small or large, and the log is the set of     *)
(* messages whose sending it reports.                                      *)
(***************************************************************************)
EXTENDS MailboxDelivers

CONSTANT MaxRecipients    \* MessageLimits.max_recipients

VARIABLES
  phase,     \* whether the process is down, opening the house or serving
  standing,  \* residents StandingResidents.on_open has dealt with
  body,      \* the size of the body a task was called with
  noted,     \* the last call of a task has been recorded and returned
  owing,     \* messages a task has stored and not recorded yet
  audited,   \* messages whose sending the audit log reports
  bulky,     \* history: messages stored with a large body
  lost       \* history: messages stored, and not recorded when the process stopped

house == <<phase, standing, body, noted, owing, audited, bulky, lost>>
allvars == <<vars, house>>

ASSUME HouseAssumption ==
  MaxRecipients \in Nat /\ Residents \subseteq Reserved /\ Issued \cap Reserved = {}

(***************************************************************************)
(* Startup and stopping                                                    *)
(***************************************************************************)

\* serve.py inserts the hook that opens the store before the one that opens the house.
OpenStore ==
  /\ phase = "down"
  /\ phase' = "opening"
  /\ standing' = {}
  /\ UNCHANGED <<vars, body, noted, owing, audited, bulky, lost>>

\* Nobody is served yet, so looking the resident up and installing it are one step.
StandUp(n) ==
  /\ phase = "opening" /\ n \notin standing
  /\ ClaimName(n, {}, now)
  /\ standing' = standing \cup {n}
  /\ UNCHANGED <<objects, reads, now, tasks, unused, acked>>
  /\ UNCHANGED <<phase, body, noted, owing, audited, bulky, lost>>

\* Slip: requests are let in before the startup hooks are done.
ServeAtOnce ==
  /\ phase = "opening"
  /\ phase' = "serving"
  /\ UNCHANGED <<vars, standing, body, noted, owing, audited, bulky, lost>>

Serve ==
  /\ phase = "opening" /\ standing = Residents
  /\ phase' = "serving"
  /\ UNCHANGED <<vars, standing, body, noted, owing, audited, bulky, lost>>

\* A shutdown, or a crash with requests in flight: only the tables are kept.
Stop ==
  /\ phase # "down"
  /\ phase' = "down"
  /\ tasks' = [t \in Tasks |-> [op |-> "none"]]
  /\ noted' = [t \in Tasks |-> TRUE]
  /\ owing' = [t \in Tasks |-> {}]
  /\ lost' = lost \cup UNION {owing[t] : t \in Tasks}
  /\ UNCHANGED <<actors, objects, reads, now, unused, acked>>
  /\ UNCHANGED <<standing, body, audited, bulky>>

(***************************************************************************)
(* Check                                                                   *)
(***************************************************************************)

Sizes == {"small", "large"}

\* MessageLimits.check.
Fits(size, recipients) == size = "small" /\ recipients <= MaxRecipients

\* Slip: a reply is sent by the mailbox, past the policies.
MaySendAnything(t) == TRUE

\* House.reply calls House.send, so that a reply is checked as it turns into one.
MaySend(t) ==
  (tasks[t].op = "reply" /\ tasks'[t].op = "send") => Fits(body[t], 1)

\* Everything else of the mailbox's surface: nothing refuses it beforehand.
Unchecked(t) ==
  \/ JoinNamed(t) \/ JoinIssued(t) \/ UpdateProfile(t) \/ Reply(t) \/ Read(t) \/ View(t)
  \/ Peek(t) \/ Thread(t) \/ Expire(t)

Ready(t) == phase = "serving" /\ noted[t] /\ Free(t)

Begin(t) ==
  /\ Ready(t)
  /\ \E size \in Sizes :
       /\ \/ Unchecked(t)
          \/ /\ Send(t)
             /\ Fits(size, Cardinality(tasks'[t].to) + Cardinality(tasks'[t].cc))
       /\ body' = [body EXCEPT ![t] = IF tasks'[t].op \in {"send", "reply"} THEN size
                                      ELSE "small"]
  /\ noted' = [noted EXCEPT ![t] = FALSE]
  /\ UNCHANGED <<phase, standing, owing, audited, bulky, lost>>

\* The check runs before the try: no observer hears of what it refuses.
RefuseSend(t) ==
  /\ Ready(t) /\ "send" \in Ops
  /\ \E size \in Sizes, to \in Audiences, cc \in Copies :
       ~Fits(size, Cardinality(to) + Cardinality(cc))
  /\ Answer(t, "send", "policy_refusal", {})
  /\ UNCHANGED <<actors, objects, reads, now, unused, acked, house>>

RefuseReply(t) ==
  /\ tasks[t].op = "reply" /\ tasks[t].at = "context"
  /\ MayHave(tasks[t]) /\ ~Fits(body[t], 1)
  /\ Answer(t, "send", "policy_refusal", {})
  /\ noted' = [noted EXCEPT ![t] = TRUE]
  /\ UNCHANGED <<actors, objects, reads, now, unused, acked>>
  /\ UNCHANGED <<phase, standing, body, owing, audited, bulky, lost>>

(***************************************************************************)
(* Act and record                                                          *)
(***************************************************************************)

Act(t) ==
  /\ Resume(t)
  /\ MaySend(t)
  /\ LET stored == unused \ unused' IN
     /\ owing' = [owing EXCEPT ![t] = @ \cup stored]
     /\ bulky' = IF body[t] = "large" THEN bulky \cup stored ELSE bulky
  /\ UNCHANGED <<phase, standing, body, noted, audited, lost>>

\* Slip: an observer that raises ends the round of observers.
RecordUntilRaised(t) ==
  /\ tasks[t].op = "answered" /\ ~noted[t]
  /\ noted' = [noted EXCEPT ![t] = TRUE]
  /\ owing' = [owing EXCEPT ![t] = {}]
  /\ \E raised \in BOOLEAN :
       audited' = IF raised THEN audited ELSE audited \cup owing[t]
  /\ UNCHANGED <<vars, phase, standing, body, bulky, lost>>

\* The segment that returns the answer tells every observer first.  One that raises is
\* caught, so whether any does makes no difference here.
Record(t) ==
  /\ tasks[t].op = "answered" /\ ~noted[t]
  /\ noted' = [noted EXCEPT ![t] = TRUE]
  /\ audited' = audited \cup owing[t]
  /\ owing' = [owing EXCEPT ![t] = {}]
  /\ UNCHANGED <<vars, phase, standing, body, bulky, lost>>

(***************************************************************************)
(* Specification                                                           *)
(***************************************************************************)

HouseInit ==
  /\ Init
  /\ phase = "down" /\ standing = {}
  /\ body = [t \in Tasks |-> "small"]
  /\ noted = [t \in Tasks |-> TRUE]
  /\ owing = [t \in Tasks |-> {}]
  /\ audited = {} /\ bulky = {} /\ lost = {}

HouseNext ==
  \/ OpenStore \/ Serve \/ Stop
  \/ \E n \in Residents : StandUp(n)
  \/ \E t \in Tasks : Begin(t) \/ RefuseSend(t) \/ RefuseReply(t) \/ Act(t) \/ Record(t)
  \/ Tick /\ UNCHANGED house

HouseSpec == HouseInit /\ [][HouseNext]_allvars

(***************************************************************************)
(* What the house insists on                                               *)
(***************************************************************************)

(***************************************************************************)
(* ResidentsReachable: whenever requests are served, a send addressed only *)
(* to residents is not refused as unknown, also after a process that       *)
(* stopped half-way through establishing them ("mail to an absent admin is *)
(* not lost - it waits").                                                  *)
(***************************************************************************)
ResidentsReachable ==
  [][\A t \in Tasks : Answered(t, "send", "unknown_recipient") =>
       ~(tasks[t].to \cup tasks[t].cc \subseteq Residents)]_allvars

(***************************************************************************)
(* WithinLimits: no large message is ever stored, whether it came as a     *)
(* send or as a reply whose original was looked up first.                  *)
(***************************************************************************)
WithinLimits == bulky = {}

(***************************************************************************)
(* AuditedUnlessStopped: every message ever stored is in the audit log, or *)
(* the request that stored it is still in flight or was cut off when the   *)
(* process stopped.                                                        *)
(***************************************************************************)
AuditedUnlessStopped ==
  Ids \ unused \subseteq audited \cup lost \cup UNION {owing[t] : t \in Tasks}
=============================================================================
