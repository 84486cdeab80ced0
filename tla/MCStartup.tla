----------------------------- MODULE MCStartup ------------------------------
(* Instances of Startup for TLC. *)
EXTENDS Startup

\* A complete environment, its variations in one key at the edges of what is
\* accepted, and every combination of the keys that are compared.
Base == [k \in Keys |-> IF k \in Required THEN <<"x">> ELSE Unset]

NumberKeys == Numbers \cup {"BulkAPIMaxMessagesPerRequest", "BulkAPIMaxRequestsPerMin"}

NumberValues ==
  {Unset, Malformed} \cup
  {<<v>> : v \in {-1, 0, 1, 499, 500, 501, 1023, 1024, MaxInt}}

FlagValues == {Unset, Malformed, <<TRUE>>, <<FALSE>>}

Single ==
  {[Base EXCEPT ![k] = v] : k \in NumberKeys, v \in NumberValues}
  \cup {[Base EXCEPT ![k] = Unset] : k \in Required}
  \cup {[Base EXCEPT !["SMTPAllowedSenderDomains"] = v] : v \in {<<"">>, <<"", "x">>}}

Plan ==
  {[Base EXCEPT !["Plan"] = p, !["BulkAPISupported"] = b,
                !["CustomHeadersSupported"] = h, !["MailersendEnableCustomHeaders"] = e] :
     p \in {Unset, <<"free">>, <<"hobby">>, <<"professional">>, <<"gold">>},
     b \in FlagValues, h \in FlagValues, e \in FlagValues}

Tls ==
  {[Base EXCEPT !["SMTPRequireSTARTTLS"] = r, !["SMTPAllowInsecureAuth"] = a,
                !["SMTPTLSCertFile"] = c] :
     r \in FlagValues, a \in FlagValues, c \in {Unset, <<"x">>}}

Batch ==
  {[Base EXCEPT !["BatchMaxCount"] = <<n>>, !["BulkAPIMaxMessagesPerRequest"] = <<k>>] :
     n \in {1, 2, 500}, k \in {1, 2, 500}}

MCEnvironments == Single \cup Plan \cup Tls \cup Batch

\* Parts: bodies that are equal, different and blank, attachments with and without
\* a name, parts that do not decode, and containers of two, nested once.
Leaf(type, file, body, decodes) ==
  [type |-> type, file |-> file, body |-> body, decodes |-> decodes]

LeafParts ==
  {Leaf("text", "none", b, TRUE) : b \in {"", "t1", "t2"}} \cup
  {Leaf("html", "none", "h1", TRUE), Leaf("text", "named", "t1", TRUE),
   Leaf("image", "named", "i1", TRUE), Leaf("image", "attachment", "i2", TRUE),
   Leaf("image", "none", "i3", TRUE), Leaf("text", "none", "t1", FALSE)}

Multi(parts) == [type |-> "multipart", decodes |-> TRUE, boundary |-> TRUE, parts |-> parts]

Pairs(S) == {<<p, q>> : p \in S, q \in S}

Inner == {Multi(ps) : ps \in Pairs({Leaf("text", "none", "t1", TRUE), Leaf("text", "none", "t2", TRUE),
                                    Leaf("image", "named", "i1", TRUE), Leaf("html", "none", "h1", TRUE)})}

Trees ==
  LeafParts \cup {Multi(<<>>), [Multi(<<>>) EXCEPT !.boundary = FALSE],
                  [Multi(<<>>) EXCEPT !.decodes = FALSE]}
  \cup {Multi(ps) : ps \in Pairs(LeafParts)}
  \cup {Multi(<<p, q>>) : p \in Inner, q \in LeafParts}
  \cup {Multi(<<q, p>>) : p \in Inner, q \in LeafParts}

MCParts == Trees \cup Inner

MCDepth ==
  [p \in MCParts |->
     IF p \in LeafParts THEN 0
     ELSE IF \A i \in DOMAIN p.parts : p.parts[i] \in LeafParts THEN 1
     ELSE 2]

Address(box, name, parses) == [box |-> box, name |-> name, parses |-> parses]
Sender == Address("a", "", TRUE)
Rcpt == Address("r", "", TRUE)
Quoted == Address("q", "", FALSE)

Raw(from, headers, body) ==
  [readable |-> TRUE, from |-> from, headers |-> headers, body |-> body]

Plain == Raw(Address("a", "Anna", TRUE), {"from", "to", "bcc", "x-tag"},
             Leaf("text", "none", "t1", TRUE))

\* Every tree, and for a plain message every sender, header and recipient list.
MCSubmissions ==
  {[from |-> Sender, recipients |-> <<Rcpt>>, raw |-> [Plain EXCEPT !.body = t]] : t \in Trees}
  \cup
  {[from |-> Sender, recipients |-> <<Rcpt>>, raw |-> [Plain EXCEPT !.from = f, !.readable = r]] :
     f \in {Address("a", "Anna", TRUE), Address("b", "Bert", TRUE), Address("", "", FALSE)},
     r \in BOOLEAN}
  \cup
  {[from |-> f, recipients |-> rs, raw |-> Plain] :
     f \in {Sender, Quoted},
     rs \in {<<Rcpt>>, <<Rcpt, Rcpt>>, <<Rcpt, Quoted>>, <<Quoted, Rcpt>>}}
=============================================================================
