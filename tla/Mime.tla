-------------------------------- MODULE Mime --------------------------------
(***************************************************************************)
(* internal/mimeparse: from a raw message to one MailerSend message per    *)
(* recipient.  A message is a tree of parts, its text a sequence of bodies *)
(* (joined by newlines in the code), and a body is an atom, "" for blank.  *)
(*                                                                         *)
(* A leaf is [type, file, body, decodes]: its media type, whether it has a *)
(* file name ("named"), only an attachment disposition ("attachment") or   *)
(* neither ("none"), its decoded body, and whether its transfer encoding   *)
(* decodes.  A container is [type |-> "multipart", decodes, boundary,      *)
(* parts]; boundary says whether one is given.  A part whose media type    *)
(* cannot be read is text/plain.                                           *)
(*                                                                         *)
(* An address is [box, name, parses]: the mailbox up to its case, the      *)
(* display name, and whether it parses from the form in which it comes.    *)
(***************************************************************************)
EXTENDS Integers, Sequences, FiniteSets, SequencesExt

CONSTANTS
  Parts,   \* the parts messages are made of, those inside containers too
  Depth    \* how deep each is nested: a message is finite text

ASSUME PartsAssumption ==
  \A p \in Parts : p.type = "multipart" => p.parts \in Seq(Parts)

ASSUME DepthAssumption ==
  /\ Depth \in [Parts -> Nat]
  /\ \A p \in Parts : p.type = "multipart" =>
       \A i \in DOMAIN p.parts : Depth[p.parts[i]] < Depth[p]

Failed == [ok |-> FALSE, text |-> <<>>, html |-> <<>>, attachments |-> <<>>]
Empty == [Failed EXCEPT !.ok = TRUE]

-----------------------------------------------------------------------------
(* parseContent *)

\* Mutant: the second body replaces the first.
JoinLast(dst, src) == IF src = <<>> THEN dst ELSE src

\* A text equal to all that came before it is taken for a repetition.
Join(dst, src) ==
  IF dst = <<>> THEN src
  ELSE IF src = <<>> \/ src = dst THEN dst
  ELSE dst \o src

\* A part that fails fails the whole message.
AppendParsed(dst, src) ==
  IF ~(dst.ok /\ src.ok) THEN Failed
  ELSE [ok |-> TRUE,
        text |-> Join(dst.text, src.text),
        html |-> Join(dst.html, src.html),
        attachments |-> dst.attachments \o src.attachments]

\* A part that is neither text nor named nor an attachment is dropped.
ParseLeaf(p) ==
  IF ~p.decodes THEN Failed
  ELSE IF p.file # "none" THEN [Empty EXCEPT !.attachments = <<p>>]
  ELSE CASE p.type = "text" /\ p.body # ""   -> [Empty EXCEPT !.text = <<p.body>>]
         [] p.type = "html" /\ p.body # ""   -> [Empty EXCEPT !.html = <<p.body>>]
         [] OTHER                            -> Empty

\* The loop over the parts of a container, given what each was parsed to.
AppendAll(contents) ==
  LET out[i \in 0..Len(contents)] ==
        IF i = 0 THEN Empty ELSE AppendParsed(out[i - 1], contents[i])
  IN out[Len(contents)]

ParseContent[p \in Parts] ==
  IF p.type # "multipart" THEN ParseLeaf(p)
  ELSE IF ~p.decodes \/ ~p.boundary THEN Failed
  ELSE AppendAll([i \in DOMAIN p.parts |-> ParseContent[p.parts[i]]])

-----------------------------------------------------------------------------
(* Transform *)

\* Mutant: the From header decides.
SelectFromHeader(envelopeFrom, fromHeader) ==
  IF fromHeader.parses THEN fromHeader ELSE envelopeFrom

\* The header's address counts only when it is the envelope's up to its case; it
\* then brings the display name along.
SelectFromAddress(envelopeFrom, fromHeader) ==
  IF fromHeader.parses /\ fromHeader.box = envelopeFrom.box THEN fromHeader ELSE envelopeFrom

\* Every header but the ones that have a field of their own or list recipients;
\* a Go map gives them in any order, hence a set.
CollectHeaders(headers) ==
  headers \ {"from", "to", "cc", "bcc", "subject", "reply-to", "content-type",
             "content-transfer-encoding", "mime-version", "date"}

Refused == [ok |-> FALSE, messages |-> <<>>]

Message(includeCustomHeaders, from, rcpt, raw, content) ==
  [from |-> from, to |-> rcpt,
   text |-> content.text, html |-> content.html, attachments |-> content.attachments,
   headers |-> IF includeCustomHeaders THEN CollectHeaders(raw.headers) ELSE {}]

\* Mutant: a recipient that does not parse is left out.
TransformSkips(includeCustomHeaders, envelopeFrom, recipients, raw) ==
  LET content == ParseContent[raw.body]
      from == SelectFromAddress(envelopeFrom, raw.from)
      good == SelectSeq(recipients, LAMBDA rcpt : rcpt.parses)
  IN IF recipients = <<>> \/ ~raw.readable \/ ~envelopeFrom.parses \/ ~content.ok THEN Refused
     ELSE [ok |-> TRUE,
           messages |-> [i \in DOMAIN good |->
             Message(includeCustomHeaders, from, good[i], raw, content)]]

\* Both addresses were parsed by MAIL and RCPT and are parsed again from the
\* unquoted form those stored, which need not parse.
Transform(includeCustomHeaders, envelopeFrom, recipients, raw) ==
  LET content == ParseContent[raw.body]
      from == SelectFromAddress(envelopeFrom, raw.from)
  IN IF \/ recipients = <<>>
        \/ ~raw.readable
        \/ ~envelopeFrom.parses
        \/ ~content.ok
        \/ \E i \in DOMAIN recipients : ~recipients[i].parses
     THEN Refused
     ELSE [ok |-> TRUE,
           messages |-> [i \in DOMAIN recipients |->
             Message(includeCustomHeaders, from, recipients[i], raw, content)]]
=============================================================================
