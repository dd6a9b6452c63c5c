-------------------------- MODULE MailboxDelivers ---------------------------
(***************************************************************************)
(* The mailbox implements Delivery: who a message waits for, computed from *)
(* the tables exactly as the unread rule computes it, is the abstract mail.*)
(***************************************************************************)
EXTENDS MailboxProps

\* Objects as their readers see them now: routed by today's actors and groups.
Letters ==
  LET members == GroupMemberships(actors)
      Letter(i) ==
        LET readers == RecipientsOf(objects[i], Joined(actors), members)
        IN  [from |-> objects[i].from, readers |-> readers,
             waiting |-> {r \in readers : <<i, r>> \notin reads}]
  IN  [i \in Ids |-> IF objects[i] = NoObject THEN NoObject ELSE Letter(i)]

Abstract == INSTANCE Delivery WITH
  Letters <- Ids, People <- Names, NoLetter <- NoObject, mail <- Letters, fresh <- unused

ASSUME LetterAssumption == NoObject \notin Abstract!Letter

(***************************************************************************)
(* Delivers: every behaviour of the mailbox, with its calls interleaved at *)
(* every await, is a behaviour of Delivery: joins and profile updates move *)
(* no mail, a message reaches all its readers in one step, a read takes    *)
(* only the reader's own copy, and nothing consumed waits again.           *)
(***************************************************************************)
Delivers == Abstract!Delivered
=============================================================================
