---------------------------- MODULE AccountQueue ----------------------------
(***************************************************************************)
(* The JMS queue of accounts and its producer and consumer (jms-qpid-      *)
(* producer-app and jms-qpid-consumer-app).  The producer sends an account *)
(* with some of its fields as properties; the consumer takes the messages  *)
(* that its selector matches.  External: the broker, which keeps the       *)
(* messages in order and applies selectors.                                *)
(***************************************************************************)
EXTENDS Naturals, Sequences, FiniteSets

CONSTANTS
    Accounts,           \* accounts, by what selectors tell apart
    ConsumerSelector,   \* accounts that app.message.selector matches
    MaxSends            \* bound: messages sent

ASSUME QueueAssumption == ConsumerSelector \subseteq Accounts /\ MaxSends \in Nat

VARIABLES
    sent,   \* the messages sent, in order
    queue   \* the positions in sent of the messages that are in the queue

QueueTypeOK ==
    /\ sent \in Seq(Accounts) /\ Len(sent) <= MaxSends
    /\ queue \subseteq DOMAIN sent

QueueInit == sent = <<>> /\ queue = {}

\* Faulty: returns although nothing was sent.
SendAccountNothing(a) ==
    /\ Len(sent) < MaxSends
    /\ queue' = queue \cup {Len(sent) + 1}
    /\ UNCHANGED sent

\* AccountController.sendAccount: builds the message and sends it on the channel.
\* sendAccounts is one of these for each account.
SendAccount(a) ==
    /\ Len(sent) < MaxSends
    /\ sent' = Append(sent, a)
    /\ queue' = queue \cup {Len(sent')}

\* The listener saves the account and the session acknowledges the message.
Consume(i) ==
    /\ i \in queue
    /\ sent[i] \in ConsumerSelector
    /\ \A j \in queue : j < i => sent[j] \notin ConsumerSelector
    /\ queue' = queue \ {i}
    /\ UNCHANGED sent
=============================================================================
