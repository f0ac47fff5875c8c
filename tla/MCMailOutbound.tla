--------------------------- MODULE MCMailOutbound ---------------------------
(***************************************************************************)
(* Small instances of MailOutbound and MailStore; a behaviour picks a part *)
(* and only its module moves.                                              *)
(*                                                                         *)
(* Outbound: three letters to one reader.  Either one of them is sent,     *)
(* with two workers that write the same id, the first of which also meets  *)
(* errors too long to be recorded, or all three with one worker, one queue *)
(* id and no second try.                                                   *)
(*                                                                         *)
(* Mailboxes: ann's attachments to bob, replies and letters to ann, with   *)
(* two requests at a time, with one and a fault, or with one and a trash   *)
(* that is emptied; or one message without attachments that moves through  *)
(* all folders of both.                                                    *)
(***************************************************************************)
EXTENDS MailOutbound, MailStore, TLC

VARIABLE part

OwnMessage == [d \in Deliveries |-> d]
SameReader == [d \in Deliveries |-> "bob"]
SameDomain == [r \in Recipients |-> "host"]

\* Containers all run under the same pid.
SharedId == [w \in Workers |-> "gateway-1"]

\* Letters to one reader are interchangeable, and so are storage keys, which
\* are the same model values.
Interchange == Permutations(Deliveries)

-----------------------------------------------------------------------------
Sent == {d \in Deliveries : mail[d].status # "NONE"}

OneLetter == Cardinality(Sent) <= 1 /\ Recordable("w2")

OneWorker ==
  /\ \A w \in Workers : Recordable(w) /\ (w # "w1" => pc[w] = "recover")
  /\ \A d \in Deliveries : mail[d].attempts <= 1 /\ manual[d] = 0 /\ queue[d] \subseteq {"q1"}

\* Mail is only written by ann to bob or from outside to ann; it stays out of
\* SPAM and is not restored.
AnnToBob ==
  /\ \A m \in MessageIds : message[m] # NoMessage =>
       IF message[m].sender = Outside THEN message[m].to = {"ann"}
       ELSE message[m].sender = "ann" /\ message[m].to = {"bob"}
  /\ \A r \in MailRequests : request[r] # NoRequest => request[r].box = "ann"
  /\ \A i \in Items : copies[i].folder # "SPAM"

Untrashed == \A i \in Items : copies[i].folder # "TRASH"

FirstTrashed == \A i \in Items : copies[i].folder = "TRASH" => i[2] = 1

Unrestored == \A i \in Items : copies[i].from # "NONE" => copies'[i].folder \in {"TRASH", "NONE"}

OneRequest == Cardinality({r \in MailRequests : request[r] # NoRequest}) <= 1

\* A maintenance pass begins when it has something to do.
Due == maint # Idle \/ Expired # {} \/ gcRows # {}

StoreStep ==
  /\ MailStoreNext
  /\ maint' = Idle \/ Due
  /\ \/ part = "requests" /\ AnnToBob' /\ Untrashed' /\ storeFaults' = 0
     \/ part = "faults" /\ AnnToBob' /\ Untrashed' /\ OneRequest'
     \/ part = "retention" /\ AnnToBob' /\ FirstTrashed' /\ Unrestored /\ OneRequest'
        /\ Cardinality(drawn') <= 1 /\ storeFaults' = 0
     \/ part = "folders" /\ drawn' = {} /\ storeFaults' = 0
        /\ \A m \in MessageIds : m > 1 => message'[m] = NoMessage

OutboundStep ==
  /\ Next
  /\ \/ part = "one letter" /\ OneLetter'
     \/ part = "one worker" /\ OneWorker'

MCInit == Init /\ MailStoreInit
          /\ part \in {"one letter", "one worker", "requests", "faults", "retention", "folders"}
MCNext == /\ UNCHANGED part
          /\ \/ part \in {"one letter", "one worker"} /\ OutboundStep /\ UNCHANGED storeVars
             \/ part \in {"requests", "faults", "retention", "folders"} /\ StoreStep /\ UNCHANGED vars
MCSpec == MCInit /\ [][MCNext]_<<vars, storeVars, part>>
=============================================================================
