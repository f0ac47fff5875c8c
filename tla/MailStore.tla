----------------------------- MODULE MailStore ------------------------------
(***************************************************************************)
(* The mailboxes: drafts and sent messages with a copy per mailbox         *)
(* (repository.go, items.go), attachments whose rows are in PostgreSQL and *)
(* whose bytes are files (attachments.go), mail received from the Internet *)
(* (gateway_ingest.go), the trash, its retention and the collector of      *)
(* files no row needs (retention.go), run by the resource monitor.         *)
(*                                                                         *)
(* An attachment has one unit of size, and its row stands for the rows of  *)
(* mail_attachments and mail_attachment_blobs.  Uploads, detachments and   *)
(* ingestions are requests of several steps; a request that has passed     *)
(* SELECT ... FOR UPDATE keeps the row locked to its last step.  The other *)
(* operations are one transaction.  Read and star flags, rate buckets and  *)
(* external recipients (MailOutbound) are left out: a refusal by a bucket  *)
(* is a request that fails.                                                *)
(***************************************************************************)
EXTENDS Integers, FiniteSets

CONSTANTS Mailboxes, Outside,   \* mailboxes, and the sender of inbound mail
          MessageIds,           \* message_id values, a set of numbers
          StorageKeys, NoKey,   \* storage_key values and none
          InboundEvents,        \* event_id values of the gateway
          MailRequests,         \* uploads, detachments, ingestions at a time
          Quota,                \* storage_quota_bytes
          MaxAttachments,       \* attachments per message (20)
          MaxParts,             \* bound: attachments of an inbound letter
          PruneLimit,           \* copies per retention pass (200)
          MaxStoreFaults        \* bound: crashes and failures in a run

ASSUME MailStoreAssumptions ==
    /\ Outside \notin Mailboxes
    /\ NoKey \notin StorageKeys /\ IsFiniteSet(StorageKeys)   \* keys have 16 bytes
    /\ MessageIds \subseteq Nat \ {0}
    /\ Quota \in Nat /\ MaxAttachments \in Nat /\ MaxParts \in Nat
    /\ PruneLimit \in Nat \ {0} /\ MaxStoreFaults \in Nat

VARIABLES message,      \* message[m]: the mail_messages row of m
          copies,       \* copies[i]: the mail_items row of i
          noted,        \* messages that mail_events rows refer to
          blob,         \* blob[k]: the message key k is attached to, or 0
          used,         \* used[b]: storage_used_bytes
          blobFiles,    \* keys with a file under MAIL_BLOB_DIR
          gcRows,       \* keys in mail_blob_gc
          drawn,        \* keys ever drawn at random (history)
          receipt,      \* receipt[e]: the mail_inbound_receipts row of e
          request,      \* request[r]: where request r is
          maint,        \* where the maintenance pass is
          leaked,       \* keys whose request died or failed halfway (history)
          storeFaults   \* crashes and failures so far

storeVars == <<message, copies, noted, blob, used, blobFiles, gcRows, drawn, receipt,
               request, maint, leaked, storeFaults>>

-----------------------------------------------------------------------------
Folders == {"INBOX", "SENT", "DRAFTS", "TRASH", "SPAM"}
Roles   == {"DRAFT", "SENT_COPY", "DELIVERY"}
Items   == Mailboxes \X MessageIds \X Roles   \* UNIQUE(mailbox_id, message_id, item_role)

\* A letter of the gateway: its recipient's mailbox and its attachments.
Letters == Mailboxes \X (0 .. MaxParts)

NoMessage == [state |-> "NONE", sender |-> Outside, to |-> {}, parent |-> 0]
NoCopy    == [folder |-> "NONE", from |-> "NONE", old |-> FALSE]
InFolder(f) == [NoCopy EXCEPT !.folder = f]
NoMessageId     == 0
NoReceipt == [letter |-> <<>>, message |-> NoMessageId]
NoRequest == [step |-> "none", box |-> Outside, message |-> NoMessageId, keys |-> {}, event |-> NoKey, letter |-> <<>>]
Idle      == [step |-> "idle", items |-> {}, blobs |-> {}, keys |-> {}, cur |-> NoKey]

MailStoreInit ==
    /\ message = [m \in MessageIds |-> NoMessage]
    /\ copies = [i \in Items |-> NoCopy]
    /\ noted = {}
    /\ blob = [k \in StorageKeys |-> NoMessageId]
    /\ used = [b \in Mailboxes |-> 0]
    /\ blobFiles = {} /\ gcRows = {} /\ drawn = {}
    /\ receipt = [e \in InboundEvents |-> NoReceipt]
    /\ request = [r \in MailRequests |-> NoRequest]
    /\ maint = Idle
    /\ leaked = {} /\ storeFaults = 0

Exists(m)     == message[m].state \in {"DRAFT", "SENT"}
Attached(m)   == {k \in StorageKeys : blob[k] = m}
OwnDraft(b, m) == message[m].state = "DRAFT" /\ message[m].sender = b
CopiesOf(m)   == {i \in Items : i[2] = m /\ copies[i] # NoCopy}

\* Identities are handed out in order.
Fresh(m) == message[m] = NoMessage /\ \A n \in MessageIds : n < m => message[n] # NoMessage

\* Rows locked to the end of a transaction: the mailbox of an upload that has
\* been checked, the attachment of a detachment, the copies under retention.
BoxLocked(b)  == \E r \in MailRequests : request[r].step = "checked" /\ request[r].box = b
KeyLocked(k)  == \E r \in MailRequests : request[r].step = "detaching" /\ k \in request[r].keys
CopyLocked(i) == i \in maint.items

Charged(b, n) == [used EXCEPT ![b] = used[b] + n]
Credited(b, n) == [used EXCEPT ![b] = IF used[b] > n THEN used[b] - n ELSE 0]

mailRows  == <<message, copies, noted>>
blobRows  == <<blob, used, gcRows>>

-----------------------------------------------------------------------------
(* Drafts, copies and folders.                                             *)

\* A parent is a sent message that the writer has a copy of.
Parents(b) == {NoMessageId} \cup {p \in MessageIds : message[p].state = "SENT"
                                               /\ \E i \in CopiesOf(p) : i[1] = b}

CreateDraft(b, to, p) ==
    \E m \in MessageIds :
      /\ Fresh(m) /\ p \in Parents(b)
      /\ message' = [message EXCEPT ![m] = [state |-> "DRAFT", sender |-> b, to |-> to, parent |-> p]]
      /\ copies' = [copies EXCEPT ![<<b, m, "DRAFT">>] = InFolder("DRAFTS")]
      /\ noted' = noted \cup {m}
      /\ UNCHANGED <<blobRows, blobFiles, drawn, receipt, request, maint, leaked, storeFaults>>

UpdateDraft(b, m, to) ==
    /\ OwnDraft(b, m)
    /\ message' = [message EXCEPT ![m].to = to]
    /\ noted' = noted \cup {m}
    /\ UNCHANGED <<copies, blobRows, blobFiles, drawn, receipt, request, maint, leaked, storeFaults>>

\* Mutant of SendDraftLocal: the draft's copy is not deleted.
SendKeepsDraft(b, m) ==
    /\ OwnDraft(b, m) /\ message[m].to # {}
    /\ \A t \in message[m].to : ~BoxLocked(t)
    /\ message' = [message EXCEPT ![m].state = "SENT"]
    /\ copies' = [i \in Items |->
         IF i = <<b, m, "SENT_COPY">> THEN InFolder("SENT")
         ELSE IF i[2] = m /\ i[3] = "DELIVERY" /\ i[1] \in message[m].to THEN InFolder("INBOX")
         ELSE copies[i]]
    /\ noted' = noted \cup {m}
    /\ UNCHANGED <<blobRows, blobFiles, drawn, receipt, request, maint, leaked, storeFaults>>

\* The sender's copy moves to SENT and every recipient gets one, or nothing is
\* done.  The recipients' mailboxes are locked FOR SHARE.
SendDraftLocal(b, m) ==
    /\ OwnDraft(b, m) /\ message[m].to # {}
    /\ ~CopyLocked(<<b, m, "DRAFT">>)
    /\ \A t \in message[m].to : ~BoxLocked(t)
    /\ message' = [message EXCEPT ![m].state = "SENT"]
    /\ copies' = [i \in Items |->
         IF i = <<b, m, "DRAFT">> THEN NoCopy
         ELSE IF i = <<b, m, "SENT_COPY">> THEN InFolder("SENT")
         ELSE IF i[2] = m /\ i[3] = "DELIVERY" /\ i[1] \in message[m].to THEN InFolder("INBOX")
         ELSE copies[i]]
    /\ noted' = noted \cup {m}
    /\ UNCHANGED <<blobRows, blobFiles, drawn, receipt, request, maint, leaked, storeFaults>>

Moved(i, row) ==
    /\ ~CopyLocked(i)
    /\ copies' = [copies EXCEPT ![i] = row]
    /\ noted' = noted \cup {i[2]}
    /\ UNCHANGED <<message, blobRows, blobFiles, drawn, receipt, request, maint, leaked, storeFaults>>

MoveToTrash(i) ==
    /\ copies[i].folder \in Folders \ {"TRASH"}
    /\ Moved(i, [folder |-> "TRASH", from |-> copies[i].folder, old |-> FALSE])

Restore(i) ==
    /\ copies[i].folder = "TRASH"
    /\ Moved(i, InFolder(copies[i].from))

MoveSpam(i) ==
    /\ i[3] = "DELIVERY"
    /\ \/ copies[i].folder = "INBOX" /\ Moved(i, InFolder("SPAM"))
       \/ copies[i].folder = "SPAM" /\ Moved(i, InFolder("INBOX"))

\* Thirty days, which outlast every request and every maintenance pass.
TrashAges(i) ==
    /\ copies[i].folder = "TRASH" /\ ~copies[i].old
    /\ maint = Idle /\ \A r \in MailRequests : request[r] = NoRequest
    /\ copies' = [copies EXCEPT ![i].old = TRUE]
    /\ UNCHANGED <<message, noted, blobRows, blobFiles, drawn, receipt, request, maint, leaked, storeFaults>>

-----------------------------------------------------------------------------
(* Attachments.  A file is written before the transaction that needs it.   *)

\* The request's files are removed when it returns an error.
Abandon(r) ==
    /\ blobFiles' = blobFiles \ (IF request[r].step = "detaching" THEN {} ELSE request[r].keys)
    /\ request' = [request EXCEPT ![r] = NoRequest]
    /\ UNCHANGED <<mailRows, blobRows, drawn, receipt, maint>>

UploadWrite(r, b, m) ==
    /\ request[r] = NoRequest
    /\ \E k \in StorageKeys \ drawn :
         /\ drawn' = drawn \cup {k}
         /\ blobFiles' = blobFiles \cup {k}
         /\ request' = [request EXCEPT ![r] = [NoRequest EXCEPT !.step = "written", !.box = b,
                                                              !.message = m, !.keys = {k}]]
    /\ UNCHANGED <<mailRows, blobRows, receipt, maint, leaked, storeFaults>>

UploadAllowed(r) ==
    LET b == request[r].box  m == request[r].message
    IN used[b] + 1 <= Quota /\ OwnDraft(b, m) /\ Cardinality(Attached(m)) < MaxAttachments

\* Mutant of UploadCheck: the mailbox is read without FOR UPDATE.
UploadCheckUnlocked(r) ==
    /\ request[r].step = "written"
    /\ UploadAllowed(r)
    /\ request' = [request EXCEPT ![r].step = "checked"]
    /\ UNCHANGED <<mailRows, blobRows, blobFiles, drawn, receipt, maint, leaked, storeFaults>>

\* The mailbox is locked; the message is only read.
UploadCheck(r) ==
    /\ request[r].step = "written" /\ ~BoxLocked(request[r].box)
    /\ UploadAllowed(r)
    /\ request' = [request EXCEPT ![r].step = "checked"]
    /\ UNCHANGED <<mailRows, blobRows, blobFiles, drawn, receipt, maint, leaked, storeFaults>>

UploadRefused(r) ==
    /\ request[r].step = "written" /\ ~BoxLocked(request[r].box)
    /\ ~UploadAllowed(r)
    /\ Abandon(r)
    /\ UNCHANGED <<leaked, storeFaults>>

UploadCommit(r) ==
    /\ request[r].step = "checked"
    /\ blob' = [k \in StorageKeys |-> IF k \in request[r].keys THEN request[r].message ELSE blob[k]]
    /\ used' = Charged(request[r].box, Cardinality(request[r].keys))
    /\ noted' = noted \cup {request[r].message}
    /\ request' = [request EXCEPT ![r] = NoRequest]
    /\ UNCHANGED <<message, copies, gcRows, blobFiles, drawn, receipt, maint, leaked, storeFaults>>

\* The attachment is locked; the message is only read.
DetachRead(r, b, k) ==
    /\ request[r] = NoRequest
    /\ blob[k] # NoMessageId /\ OwnDraft(b, blob[k]) /\ ~KeyLocked(k)
    /\ request' = [request EXCEPT ![r] = [NoRequest EXCEPT !.step = "detaching", !.box = b,
                                                         !.message = blob[k], !.keys = {k}]]
    /\ UNCHANGED <<mailRows, blobRows, blobFiles, drawn, receipt, maint, leaked, storeFaults>>

\* Mutant of DetachCommit: the file is not handed to the collector.
DetachForgets(r) ==
    /\ request[r].step = "detaching" /\ ~BoxLocked(request[r].box)
    /\ blob' = [k \in StorageKeys |-> IF k \in request[r].keys THEN NoMessageId ELSE blob[k]]
    /\ used' = Credited(request[r].box, Cardinality(request[r].keys))
    /\ noted' = noted \cup {request[r].message}
    /\ request' = [request EXCEPT ![r] = NoRequest]
    /\ UNCHANGED <<message, copies, gcRows, blobFiles, drawn, receipt, maint, leaked, storeFaults>>

DetachCommit(r) ==
    /\ request[r].step = "detaching" /\ ~BoxLocked(request[r].box)
    /\ blob' = [k \in StorageKeys |-> IF k \in request[r].keys THEN NoMessageId ELSE blob[k]]
    /\ gcRows' = gcRows \cup request[r].keys
    /\ used' = Credited(request[r].box, Cardinality(request[r].keys))
    /\ noted' = noted \cup {request[r].message}
    /\ request' = [request EXCEPT ![r] = NoRequest]
    /\ UNCHANGED <<message, copies, blobFiles, drawn, receipt, maint, leaked, storeFaults>>

-----------------------------------------------------------------------------
(* Mail from the Internet.  The gateway may repeat an event, or use its id *)
(* for another letter; an event that has a receipt changes nothing.        *)

IngestWrite(r, e, l) ==
    /\ request[r] = NoRequest /\ receipt[e] = NoReceipt
    /\ \E K \in SUBSET (StorageKeys \ drawn) :
         /\ Cardinality(K) = l[2]
         /\ drawn' = drawn \cup K
         /\ blobFiles' = blobFiles \cup K
         /\ request' = [request EXCEPT ![r] = [NoRequest EXCEPT !.step = "ingesting", !.box = l[1], !.keys = K,
                                                              !.event = e, !.letter = l]]
    /\ UNCHANGED <<mailRows, blobRows, receipt, maint, leaked, storeFaults>>

\* The transaction locks the mailbox, so its reads hold until it commits.
Overdrawn(r) == used[request[r].box] + Cardinality(request[r].keys) > Quota

\* Mutant of Inserted: the receipt read before the files were written is relied on.
InsertedAnyway(r) == request[r].event \in InboundEvents

\* INSERT ... ON CONFLICT(event_id) DO NOTHING
Inserted(r) == receipt[request[r].event] = NoReceipt

IngestAccept(r) ==
    LET b == request[r].box  K == request[r].keys IN
    /\ request[r].step = "ingesting" /\ ~BoxLocked(b)
    /\ ~Overdrawn(r) /\ Inserted(r)
    /\ \E m \in MessageIds :
         /\ Fresh(m)
         /\ message' = [message EXCEPT ![m] = [state |-> "SENT", sender |-> Outside, to |-> {b}, parent |-> NoMessageId]]
         /\ copies' = [copies EXCEPT ![<<b, m, "DELIVERY">>] = InFolder("INBOX")]
         /\ blob' = [k \in StorageKeys |-> IF k \in K THEN m ELSE blob[k]]
         /\ receipt' = [receipt EXCEPT ![request[r].event] = [letter |-> request[r].letter, message |-> m]]
    /\ used' = Charged(b, Cardinality(K))
    /\ request' = [request EXCEPT ![r] = NoRequest]
    /\ UNCHANGED <<noted, gcRows, blobFiles, drawn, maint, leaked, storeFaults>>

\* The quota, or another request with the same event came first: the same
\* letter is answered as a duplicate, another one as a conflict.
IngestRefused(r) ==
    /\ request[r].step = "ingesting" /\ ~BoxLocked(request[r].box)
    /\ Overdrawn(r) \/ ~Inserted(r)
    /\ Abandon(r)
    /\ UNCHANGED <<leaked, storeFaults>>

-----------------------------------------------------------------------------
(* Failures of requests.                                                   *)

StoreFault == storeFaults < MaxStoreFaults /\ storeFaults' = storeFaults + 1

\* PostgreSQL fails, or a rate bucket is full.
RequestFails(r) ==
    /\ request[r] # NoRequest /\ StoreFault
    /\ Abandon(r)
    /\ UNCHANGED leaked

\* The process dies: its transaction is rolled back, its files stay.
RequestDies(r) ==
    /\ request[r] # NoRequest /\ StoreFault
    /\ leaked' = IF request[r].step = "detaching" THEN leaked ELSE leaked \cup request[r].keys
    /\ request' = [request EXCEPT ![r] = NoRequest]
    /\ UNCHANGED <<mailRows, blobRows, blobFiles, drawn, receipt, maint>>

\* An attachment of a letter is written in part: the file is not yet among
\* those that are removed.
IngestWriteFails ==
    /\ StoreFault
    /\ \E k \in StorageKeys \ drawn :
         /\ drawn' = drawn \cup {k}
         /\ blobFiles' = blobFiles \cup {k}
         /\ leaked' = leaked \cup {k}
    /\ UNCHANGED <<mailRows, blobRows, receipt, request, maint>>

-----------------------------------------------------------------------------
(* Maintenance: PruneTrash, then RunBlobGC, in one process.                *)

Expired == {i \in Items : copies[i].folder = "TRASH" /\ copies[i].old}

\* The messages whose last copies go.
Doomed(I) == {m \in MessageIds : CopiesOf(m) # {} /\ CopiesOf(m) \subseteq I}

\* The copies are locked and deleted, the attachments of the messages left
\* without one are read.
PruneSelect ==
    /\ maint.step = "idle"
    /\ \E I \in SUBSET Expired :
         /\ Cardinality(I) <= PruneLimit
         /\ I = Expired \/ Cardinality(I) = PruneLimit
         /\ maint' = [Idle EXCEPT !.step = "prune", !.items = I,
                                  !.blobs = {x \in StorageKeys \X Doomed(I) : blob[x[1]] = x[2]}]
    /\ UNCHANGED <<mailRows, blobRows, blobFiles, drawn, receipt, request, leaked, storeFaults>>

\* sender_mailbox_id is scanned into an int64, and inbound mail has none.
SenderIsNull == \E x \in maint.blobs : message[x[2]].sender = Outside

Replied(m) == \E n \in MessageIds : Exists(n) /\ message[n].parent = m

\* Doomed messages no reply refers to are deleted, which the foreign keys of
\* mail_events and mail_inbound_receipts (ON DELETE RESTRICT) may forbid.
Deleted == {m \in Doomed(maint.items) : ~Replied(m)}
Restricted(m) == m \in noted \/ \E e \in InboundEvents : receipt[e].message = m

Freed == {x[1] : x \in maint.blobs}

\* Mutant of PruneFails: a sender that is NULL is read as no mailbox.
PruneFailsRestricted == \E m \in Deleted : Restricted(m)

PruneFails == SenderIsNull \/ \E m \in Deleted : Restricted(m)

\* The attachments under deletion are not locked by a detachment, and the
\* senders to credit not by an upload.
PruneUnblocked ==
    \A x \in maint.blobs : ~KeyLocked(x[1]) /\ ~BoxLocked(message[x[2]].sender)

PruneCommit ==
    /\ maint.step = "prune" /\ ~PruneFails /\ PruneUnblocked
    /\ copies' = [i \in Items |-> IF i \in maint.items THEN NoCopy ELSE copies[i]]
    /\ message' = [m \in MessageIds |->
         IF m \in Deleted THEN [message[m] EXCEPT !.state = "GONE"] ELSE message[m]]
    /\ blob' = [k \in StorageKeys |-> IF k \in Freed THEN NoMessageId ELSE blob[k]]
    /\ gcRows' = gcRows \cup Freed
    /\ used' = [b \in Mailboxes |->
         Credited(b, Cardinality({x \in maint.blobs : message[x[2]].sender = b}))[b]]
    /\ maint' = [Idle EXCEPT !.step = "collect"]
    /\ UNCHANGED <<noted, blobFiles, drawn, receipt, request, leaked, storeFaults>>

\* Everything is rolled back, a warning is logged and the collector runs.
PruneRollback ==
    /\ maint.step = "prune" /\ PruneFails
    /\ maint' = [Idle EXCEPT !.step = "collect"]
    /\ UNCHANGED <<mailRows, blobRows, blobFiles, drawn, receipt, request, leaked, storeFaults>>

\* Mutant of GcSelect: whatever file has no row is collected.
GcSelectUnreferenced ==
    /\ maint.step = "collect"
    /\ maint' = [Idle EXCEPT !.step = "gc", !.keys = {k \in blobFiles : blob[k] = NoMessageId}]
    /\ UNCHANGED <<mailRows, blobRows, blobFiles, drawn, receipt, request, leaked, storeFaults>>

GcSelect ==
    /\ maint.step = "collect"
    /\ maint' = [Idle EXCEPT !.step = "gc", !.keys = gcRows]
    /\ UNCHANGED <<mailRows, blobRows, blobFiles, drawn, receipt, request, leaked, storeFaults>>

GcRemove(k) ==
    /\ maint.step = "gc" /\ maint.cur = NoKey /\ k \in maint.keys
    /\ blobFiles' = blobFiles \ {k}
    /\ maint' = [maint EXCEPT !.keys = maint.keys \ {k}, !.cur = k]
    /\ UNCHANGED <<mailRows, blobRows, drawn, receipt, request, leaked, storeFaults>>

GcForget ==
    /\ maint.step = "gc" /\ maint.cur # NoKey
    /\ gcRows' = gcRows \ {maint.cur}
    /\ maint' = [maint EXCEPT !.cur = NoKey]
    /\ UNCHANGED <<mailRows, blob, used, blobFiles, drawn, receipt, request, leaked, storeFaults>>

\* The file cannot be removed: its row waits for a later pass.
GcPostpone(k) ==
    /\ maint.step = "gc" /\ maint.cur = NoKey /\ k \in maint.keys /\ StoreFault
    /\ maint' = [maint EXCEPT !.keys = maint.keys \ {k}]
    /\ UNCHANGED <<mailRows, blobRows, blobFiles, drawn, receipt, request, leaked>>

GcEnd ==
    /\ maint.step = "gc" /\ maint.cur = NoKey /\ maint.keys = {}
    /\ maint' = Idle
    /\ UNCHANGED <<mailRows, blobRows, blobFiles, drawn, receipt, request, leaked, storeFaults>>

\* The process dies, or a statement fails and the pass ends.
MaintenanceDies ==
    /\ maint # Idle /\ StoreFault
    /\ maint' = Idle
    /\ UNCHANGED <<mailRows, blobRows, blobFiles, drawn, receipt, request, leaked>>

-----------------------------------------------------------------------------
Mailing ==
    \/ \E b \in Mailboxes :
         \/ \E to \in SUBSET Mailboxes : \/ \E p \in MessageIds \cup {NoMessageId} : CreateDraft(b, to, p)
                                        \/ \E m \in MessageIds : UpdateDraft(b, m, to)
         \/ \E m \in MessageIds : SendDraftLocal(b, m)
    \/ \E i \in Items : MoveToTrash(i) \/ Restore(i) \/ MoveSpam(i) \/ TrashAges(i)

Attaching ==
    \/ \E r \in MailRequests, b \in Mailboxes :
         \/ \E m \in MessageIds : Exists(m) /\ UploadWrite(r, b, m)
         \/ \E k \in StorageKeys : DetachRead(r, b, k)
    \/ \E r \in MailRequests : UploadCheck(r) \/ UploadRefused(r) \/ UploadCommit(r) \/ DetachCommit(r)

Receiving ==
    \E r \in MailRequests :
      \/ \E e \in InboundEvents, l \in Letters : IngestWrite(r, e, l)
      \/ IngestAccept(r) \/ IngestRefused(r)

Failing ==
    \/ \E r \in MailRequests : RequestFails(r) \/ RequestDies(r)
    \/ IngestWriteFails

Maintenance ==
    \/ PruneSelect \/ PruneCommit \/ PruneRollback
    \/ GcSelect \/ GcForget \/ GcEnd
    \/ \E k \in StorageKeys : GcRemove(k)

Breakdown == MaintenanceDies \/ \E k \in StorageKeys : GcPostpone(k)

MailStoreNext == Mailing \/ Attaching \/ Receiving \/ Failing \/ Maintenance \/ Breakdown

MailStoreSpec == MailStoreInit /\ [][MailStoreNext]_storeVars

\* The resource monitor runs the maintenance every six hours.
MailStoreFairSpec == MailStoreSpec /\ WF_storeVars(Maintenance)

-----------------------------------------------------------------------------
MailStoreTypeOK ==
    /\ message \in [MessageIds -> [state : {"NONE", "DRAFT", "SENT", "GONE"}, sender : Mailboxes \cup {Outside},
                                   to : SUBSET Mailboxes, parent : MessageIds \cup {NoMessageId}]]
    /\ copies \in [Items -> [folder : Folders \cup {"NONE"}, from : Folders \cup {"NONE"}, old : BOOLEAN]]
    /\ blob \in [StorageKeys -> MessageIds \cup {NoMessageId}]
    /\ used \in [Mailboxes -> Nat]
    /\ noted \subseteq MessageIds
    /\ blobFiles \subseteq drawn /\ gcRows \subseteq drawn /\ leaked \subseteq drawn

\* Attachments count for the sender's quota, those of inbound mail for the
\* recipient's.
ChargedTo(m) == IF message[m].sender = Outside THEN message[m].to ELSE {message[m].sender}

QuotaExact ==
    \A b \in Mailboxes :
      /\ used[b] = Cardinality({k \in StorageKeys : blob[k] # NoMessageId /\ b \in ChargedTo(blob[k])})
      /\ used[b] <= Quota

FilesKept == \A k \in StorageKeys : blob[k] # NoMessageId => k \in blobFiles

InFlight == UNION {request[r].keys : r \in MailRequests}

NothingForgotten == \A k \in blobFiles : blob[k] # NoMessageId \/ k \in gcRows \cup InFlight \cup leaked

ReceivedOnce ==
    \A m \in MessageIds : message[m].state # "NONE" /\ message[m].sender = Outside
                            => Cardinality({e \in InboundEvents : receipt[e].message = m}) = 1

CopiesFit ==
    \A i \in Items : copies[i] # NoCopy =>
      /\ Exists(i[2])
      /\ i[3] = "DRAFT" <=> message[i[2]].state = "DRAFT"
      /\ i[3] # "DELIVERY" => i[1] = message[i[2]].sender
      /\ i[3] = "DELIVERY" => i[1] \in message[i[2]].to

(* The rows, the quotas and the files agree whatever uploads, detachments, *)
(* ingestions, the retention and the collector do at the same time: a      *)
(* mailbox is charged for exactly the attachments it answers for, every    *)
(* attachment has its file, every other file is waiting for the collector  *)
(* or was left by a request that died, every event of the gateway is one   *)
(* message, and a copy is where its role and its message's state say       *)
(* (attachments.go, gateway_ingest.go, retention.go).                      *)
MailStoreHolds ==
    /\ MailStoreTypeOK
    /\ QuotaExact /\ FilesKept /\ NothingForgotten
    /\ ReceivedOnce /\ CopiesFit

(* Mail that has been in the trash for thirty days is removed, unless it   *)
(* is restored first: "30-day trash retention" (S25-mail-core.md:18), and  *)
(* TestTrashRetentionWaitsForAllCopiesAndFreesBlobQuota fails with "fully  *)
(* expired message retained" (retention_integration_test.go:41).           *)
TrashIsEmptied == \A i \in Items : copies[i].old ~> ~copies[i].old
=============================================================================
