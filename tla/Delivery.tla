------------------------------ MODULE Delivery ------------------------------
(***************************************************************************)
(* What the mailbox promises about a message, with no coroutine, table or  *)
(* rule in sight: it is delivered once, to a set of readers fixed at that  *)
(* moment; each reader's copy waits until that reader consumes it; and     *)
(* only housekeeping takes a message away.                                 *)
(***************************************************************************)
EXTENDS Naturals

CONSTANTS Letters,   \* identities of messages
          People,    \* names of senders and readers
          NoLetter   \* nothing under that identity

VARIABLES
  mail,    \* letter -> its sender, its readers, and those it still waits for
  fresh    \* letters never delivered

Letter == [from : People, readers : SUBSET People, waiting : SUBSET People]

PromisedTypes ==
  /\ mail \in [Letters -> Letter \cup {NoLetter}]
  /\ fresh \subseteq Letters

Nothing ==
  /\ mail = [i \in Letters |-> NoLetter]
  /\ fresh = Letters

\* Delivered to everybody at once, each with a copy of their own.
Deliver(i, from, readers) ==
  mail' = [mail EXCEPT ![i] = [from |-> from, readers |-> readers, waiting |-> readers]]

\* One reader's copy is consumed; the others are untouched.
Consume(i, reader) ==
  /\ mail[i] # NoLetter
  /\ reader \in mail[i].waiting
  /\ mail' = [mail EXCEPT ![i].waiting = @ \ {reader}]

\* Housekeeping takes some letters away, or none.
Discard ==
  LET before == mail
      after == mail'
  IN  \A i \in Letters : after[i] \in {before[i], NoLetter}

Promise ==
  \/ UNCHANGED fresh /\ Discard
  \/ UNCHANGED fresh /\ \E i \in Letters, reader \in People : Consume(i, reader)
  \/ \E i \in fresh :
       /\ fresh' = fresh \ {i}
       /\ \E from \in People, readers \in SUBSET People : Deliver(i, from, readers \ {from})

Delivered == Nothing /\ [][Promise]_<<mail, fresh>>
=============================================================================
