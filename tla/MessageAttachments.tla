------------------------- MODULE MessageAttachments -------------------------
(* The attachment list of an inbound message as the bridge builds it for  *)
(* Go: message_inst_to_wrapped appends one WrappedAttachment per          *)
(* attachment part, in part order, and then the rich-link entries         *)
(* (metadata, and the image when the link carries one); then              *)
(* download_mmcs_attachments walks the parts again, one await per MMCS    *)
(* download, and writes each downloaded body into the entry at att_idx,   *)
(* the number of attachment parts seen before it.  Names, MIME types and  *)
(* bytes are abstracted to the part an entry stands for and the part     *)
(* whose body it holds.  The wrapped message is local to the receive      *)
(* task until the callback, so the loop is a function of the message and *)
(* of which downloads succeed; MessageClient applies it at its download  *)
(* step.                                                                  *)
EXTENDS Naturals, Sequences

CONSTANTS
    MaxParts,     \* the longest message, in parts
    NoData,       \* the inline_data None
    LinkMeta,     \* the x-richlink/meta entry and its encoded metadata
    LinkImage     \* the x-richlink/image entry and its image bytes

PartKinds == {"text", "inline", "mmcs"}

\* A rich link: none, metadata only (no image, or a substitute index past
\* the end of its attachments), or metadata and image.
LinkKinds == {"none", "meta", "image"}

Messages == UNION {[parts : [1..n -> PartKinds], link : LinkKinds] : n \in 0..MaxParts}

Attachments ==
    Seq([part : (1..MaxParts) \cup {LinkMeta, LinkImage},
         inline : BOOLEAN,
         data : (1..MaxParts) \cup {LinkMeta, LinkImage, NoData}])

\* The entry of part p: inline parts carry their data, MMCS parts none yet.
PartAttachment(p, kind) ==
    [part |-> p, inline |-> kind = "inline", data |-> IF kind = "inline" THEN p ELSE NoData]

\* The rich-link entries, both inline and standing for no part.
LinkAttachments(link) ==
    LET meta == [part |-> LinkMeta, inline |-> TRUE, data |-> LinkMeta]
        img  == [part |-> LinkImage, inline |-> TRUE, data |-> LinkImage]
    IN  CASE link = "none"  -> <<>>
          [] link = "meta"  -> <<meta>>
          [] link = "image" -> <<meta, img>>

\* The indices of the attachment parts, in order.
AttachmentParts(parts) ==
    SelectSeq([i \in 1..Len(parts) |-> i], LAMBDA i : parts[i] # "text")

message_inst_to_wrapped(m) ==
    LET ap == AttachmentParts(m.parts) IN
    [k \in 1..Len(ap) |-> PartAttachment(ap[k], m.parts[ap[k]])]
        \o LinkAttachments(m.link)

\* An att_idx counting only the MMCS parts.
NextAttIdxMmcsOnly(kind, i) == IF kind = "mmcs" THEN i + 1 ELSE i

\* att_idx counts every attachment part, inline and MMCS alike.
NextAttIdx(kind, i) == IF kind # "text" THEN i + 1 ELSE i

(* One part of the loop.  An MMCS part whose att_idx is inside the list  *)
(* is downloaded: on success (ok) its entry becomes inline with the body *)
(* of part p; an error is only logged.  An index past the end is skipped.*)
DownloadInto(atts, idx, p, kind, ok) ==
    IF kind = "mmcs" /\ ok /\ idx < Len(atts)
      THEN [atts EXCEPT ![idx + 1].inline = TRUE, ![idx + 1].data = p]
      ELSE atts

(* download_mmcs_attachments: the loop over the parts from part p on,    *)
(* with att_idx idx; ok[p] is whether the download of part p succeeds.   *)
RECURSIVE DownloadFrom(_, _, _, _, _)
DownloadFrom(m, ok, atts, p, idx) ==
    IF p > Len(m.parts) THEN atts
    ELSE DownloadFrom(m, ok, DownloadInto(atts, idx, p, m.parts[p], ok[p]),
                      p + 1, NextAttIdx(m.parts[p], idx))

download_mmcs_attachments(m, ok, atts) == DownloadFrom(m, ok, atts, 1, 0)

(* The reference: every entry stands for the part it would without any   *)
(* download, in the same place, and holds either nothing or the body of  *)
(* that very part.                                                        *)
BodiesOfOwnParts(m, atts) ==
    LET ref == message_inst_to_wrapped(m) IN
    /\ Len(atts) = Len(ref)
    /\ \A k \in 1..Len(atts) :
         /\ atts[k].part = ref[k].part
         /\ atts[k].data \in {NoData, atts[k].part}
         /\ atts[k].inline = (atts[k].data # NoData)

=============================================================================
