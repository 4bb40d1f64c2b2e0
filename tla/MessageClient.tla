---------------------------- MODULE MessageClient ----------------------------
(***************************************************************************)
(* The bridge's Client (pkg/rustpushgo/src/lib.rs): new_client spawns a   *)
(* receive task subscribed to the APS connection's broadcast channel       *)
(* (conn.messages_cont), which hands every message to IMClient::handle,   *)
(* downloads MMCS attachments and calls the Go MessageCallback; Client::  *)
(* stop and Drop abort that task.  send_message / send_attachment fall     *)
(* back to SMS when iMessage finds no targets.                             *)
(*                                                                         *)
(* Messages are numbered in the order the connection publishes them.  The *)
(* broadcast channel keeps the last Cap of them; a receiver further       *)
(* behind gets RecvError::Lagged and resumes at the oldest one kept.       *)
(* JoinHandle::abort takes effect only when the task is next found       *)
(* suspended: a poll in progress runs on through every await that is      *)
(* ready at once (a buffered message, a handle or download that does not  *)
(* wait), callbacks included.                                              *)
(***************************************************************************)
EXTENDS Naturals, Sequences, MessageAttachments

CONSTANTS
    NumMsgs,    \* messages the connection publishes in a behaviour
    Cap         \* capacity of the broadcast channel

ASSUME NumMsgs \in Nat /\ Cap \in Nat \ {0}

VARIABLES
    published,  \* messages sent on the channel so far (1..published)
    closed,     \* every sender of the channel is gone
    next,       \* the receiver's position: the next message it will get
    pc,         \* receive task: "spawned", "recv", "handle", "download", "callback", "ended", "cancelled"
    susp,       \* the task is suspended (its last poll returned Pending) at pc
    cur,        \* the message the task is working on
    delivered,  \* messages handed to callback.on_message, in order
    aborted,    \* abort() has been called on the task's JoinHandle
    inbound,    \* the MessageInst of the message being delivered
    wrapped,    \* its WrappedMessage's attachments
    sent        \* the last send call: its result, the id it returned, and
                \* which of its MessageInsts the server accepted

recvVars == <<inbound, wrapped>>

\* No message in hand: an empty MessageInst with an empty wrapped list.
NoInbound == [parts |-> <<>>, link |-> "none"]

vars == <<published, closed, next, pc, susp, cur, delivered, aborted, recvVars, sent>>

\* "first" is the MessageInst built for the call, "sms" the one its SMS
\* fallback builds; ids are abstracted to which of the two they belong to.
MsgIds == {"none", "first", "sms"}

SendResults == [res : {"none", "ok", "err"}, id : MsgIds, accepted : MsgIds]

NoSend == [res |-> "none", id |-> "none", accepted |-> "none"]

TypeOK ==
    /\ published \in 0..NumMsgs
    /\ closed \in BOOLEAN
    /\ next \in 1..(NumMsgs + 1)
    /\ pc \in {"spawned", "recv", "handle", "download", "callback", "ended", "cancelled"}
    /\ susp \in BOOLEAN
    /\ cur \in 0..NumMsgs
    /\ delivered \in Seq(1..NumMsgs)
    /\ aborted \in BOOLEAN
    /\ inbound \in Messages
    /\ wrapped \in Attachments
    /\ sent \in SendResults

(* new_client: the receive task is spawned but not yet polled; it takes   *)
(* its subscription on messages_cont only when it first runs.              *)
Init ==
    /\ published = 0
    /\ closed = FALSE
    /\ next = 1
    /\ pc = "spawned"
    /\ susp = TRUE
    /\ cur = 0
    /\ delivered = <<>>
    /\ aborted = FALSE
    /\ inbound = NoInbound
    /\ wrapped = <<>>
    /\ sent = NoSend

(* The APS connection publishes an incoming message.                      *)
Publish ==
    /\ ~closed
    /\ published < NumMsgs
    /\ published' = published + 1
    /\ UNCHANGED <<closed, next, pc, susp, cur, delivered, aborted, sent, recvVars>>

(* The connection is dropped: recv() returns Closed once drained.         *)
Close ==
    /\ ~closed
    /\ closed' = TRUE
    /\ UNCHANGED <<published, next, pc, susp, cur, delivered, aborted, sent, recvVars>>

(* The oldest message the channel still holds.                            *)
Oldest == IF published > Cap THEN published - Cap + 1 ELSE 1

(* The task is polled: it is running (a poll in progress), or it was      *)
(* suspended and is woken before any abort.  An aborted task that is      *)
(* suspended is never polled again.                                        *)
Polled == susp => ~aborted

(* The task's first poll: conn.messages_cont.subscribe() receives only   *)
(* what is sent from now on.                                               *)
Subscribe ==
    /\ pc = "spawned"
    /\ Polled
    /\ next' = published + 1
    /\ pc' = "recv"
    /\ susp' = FALSE
    /\ UNCHANGED <<published, closed, cur, delivered, aborted, sent, recvVars>>

(* recv() is ready: a lag to report, a message, or Closed.                *)
RecvReady == next < Oldest \/ next <= published \/ closed

(* Variant of Recv: a message is taken without checking that it has been *)
(* sent (the receiver's position runs past the tail).                     *)
RecvUnguarded ==
    /\ pc = "recv"
    /\ Polled
    /\ susp' = FALSE
    /\ \/ /\ next < Oldest
          /\ next' = Oldest
          /\ UNCHANGED <<pc, cur>>
       \/ /\ Oldest <= next
          /\ cur' = next
          /\ next' = next + 1
          /\ pc' = "handle"
       \/ /\ next > published /\ closed
          /\ pc' = "ended"
          /\ UNCHANGED <<next, cur>>
    /\ UNCHANGED <<published, closed, delivered, aborted, sent, recvVars>>

(* recv().await returns: Lagged(n) moves the receiver to the oldest       *)
(* message kept and the loop goes on (warn!); Ok(msg) starts handling it; *)
(* Closed ends the loop.                                                   *)
Recv ==
    /\ pc = "recv"
    /\ Polled
    /\ susp' = FALSE
    /\ \/ /\ next < Oldest
          /\ next' = Oldest
          /\ UNCHANGED <<pc, cur>>
       \/ /\ Oldest <= next /\ next <= published
          /\ cur' = next
          /\ next' = next + 1
          /\ pc' = "handle"
       \/ /\ next > published /\ closed
          /\ pc' = "ended"
          /\ UNCHANGED <<next, cur>>
    /\ UNCHANGED <<published, closed, delivered, aborted, sent, recvVars>>

(* client_for_recv.handle(msg).await returns.  Ok(Some) with a payload or *)
(* one of the listed kinds is converted by message_inst_to_wrapped and    *)
(* goes on to the download; Ok(None), any other message and Err (error!)  *)
(* go back to recv.                                                        *)
Handle ==
    /\ pc = "handle"
    /\ Polled
    /\ susp' = FALSE
    /\ \/ /\ pc' = "recv"
          /\ UNCHANGED recvVars
       \/ /\ pc' = "download"
          /\ \E m \in Messages :
               /\ inbound' = m
               /\ wrapped' = message_inst_to_wrapped(m)
    /\ UNCHANGED <<published, closed, next, cur, delivered, aborted, sent>>

(* download_mmcs_attachments awaits one get_attachment per MMCS part.     *)
AwaitsDownload(m) == \E p \in 1..Len(m.parts) : m.parts[p] = "mmcs"

(* download_mmcs_attachments(..).await completes, each MMCS download      *)
(* succeeding or not; the poll that completes it runs on into the         *)
(* callback without another await.                                         *)
Download ==
    /\ pc = "download"
    /\ Polled
    /\ susp' = FALSE
    /\ \E ok \in [1..Len(inbound.parts) -> BOOLEAN] :
         wrapped' = download_mmcs_attachments(inbound, ok, wrapped)
    /\ pc' = "callback"
    /\ UNCHANGED <<published, closed, next, cur, delivered, aborted, sent, inbound>>

(* An await returns Pending and the task yields: recv() on an empty       *)
(* channel, handle() on its network or lock awaits, a get_attachment that *)
(* is not done.  A message with no MMCS part downloads without an await.  *)
Suspend ==
    /\ ~susp
    /\ \/ pc = "recv" /\ ~RecvReady
       \/ pc = "handle"
       \/ pc = "download" /\ AwaitsDownload(inbound)
    /\ susp' = TRUE
    /\ UNCHANGED <<published, closed, next, pc, cur, delivered, aborted, sent, recvVars>>

(* callback.on_message(wrapped) takes the wrapped message; back to recv.  *)
Callback ==
    /\ pc = "callback"
    /\ delivered' = Append(delivered, cur)
    /\ pc' = "recv"
    /\ inbound' = NoInbound
    /\ wrapped' = <<>>
    /\ UNCHANGED <<published, closed, next, susp, cur, aborted, sent>>

(* The runtime finds an aborted task suspended and drops it: this is the *)
(* only point where abort takes effect.                                    *)
Cancel ==
    /\ aborted
    /\ susp
    /\ pc \in {"spawned", "recv", "handle", "download"}
    /\ pc' = "cancelled"
    /\ UNCHANGED <<published, closed, next, susp, cur, delivered, aborted, sent, recvVars>>

(* Client::stop (and Drop, whose try_lock cannot fail once no reference   *)
(* to the Client is left): take the JoinHandle and abort the task; later  *)
(* calls find None and do nothing.  A poll in progress runs on.           *)
Stop ==
    /\ ~aborted
    /\ aborted' = TRUE
    /\ UNCHANGED <<published, closed, next, pc, susp, cur, delivered, sent, recvVars>>

\* The send methods: send_message, send_attachment, and the ones with a
\* single client.send (tapback, typing, receipts, edit, unsend).
SendKinds == {"message", "attachment", "single"}

\* The fallback answering with the id of the iMessage it gave up on.
FallbackResultFirstId(smsOk) ==
    IF smsOk THEN [res |-> "ok", id |-> "first", accepted |-> "sms"]
             ELSE [res |-> "err", id |-> "none", accepted |-> "none"]

(* NoValidTargets on a non-SMS conversation: the message is rebuilt as    *)
(* SMS and sent once more; its id is returned, or the error.               *)
FallbackResult(smsOk) ==
    IF smsOk THEN [res |-> "ok", id |-> "sms", accepted |-> "sms"]
             ELSE [res |-> "err", id |-> "none", accepted |-> "none"]

(* One send call.  send_attachment first prepares and uploads the file to *)
(* MMCS and returns an upload error before anything is sent.  Then        *)
(* client.send: Ok returns the id of the message sent; for send_message   *)
(* and send_attachment NoValidTargets on a non-SMS conversation falls     *)
(* back to SMS; any other error is returned.                               *)
SendCall(kind, isSms, uploaded, first, smsOk) ==
    CASE kind = "attachment" /\ ~uploaded ->
            [res |-> "err", id |-> "none", accepted |-> "none"]
      [] first = "ok" ->
            [res |-> "ok", id |-> "first", accepted |-> "first"]
      [] first = "noTargets" /\ ~isSms /\ kind # "single" ->
            FallbackResult(smsOk)
      [] OTHER ->
            [res |-> "err", id |-> "none", accepted |-> "none"]

Send ==
    /\ \E kind \in SendKinds, isSms, uploaded, smsOk \in BOOLEAN,
         first \in {"ok", "noTargets", "err"} :
         sent' = SendCall(kind, isSms, uploaded, first, smsOk)
    /\ UNCHANGED <<published, closed, next, pc, susp, cur, delivered, aborted, recvVars>>

Next ==
    \/ Publish
    \/ Close
    \/ Subscribe
    \/ Recv
    \/ Handle
    \/ Download
    \/ Suspend
    \/ Callback
    \/ Cancel
    \/ Stop
    \/ Send

Spec == Init /\ [][Next]_vars

-----------------------------------------------------------------------------
(* Properties                                                              *)

(* Every message handed to Go carries each downloaded MMCS body on the    *)
(* entry of its own part: the att_idx of download_mmcs_attachments stays   *)
(* aligned with the list message_inst_to_wrapped built, past inline parts *)
(* and with the rich-link entries after them.                              *)
BodiesInPlace == BodiesOfOwnParts(inbound, wrapped)

(* A send that returns Ok returns the id of the message the server took, *)
(* also when iMessage found no targets and the SMS fallback sent a       *)
(* rebuilt message; one that returns an error had nothing accepted.      *)
ReturnedIdAccepted ==
    /\ sent.res = "ok" => sent.id = sent.accepted
    /\ sent.res = "err" => sent.accepted = "none"

=============================================================================
