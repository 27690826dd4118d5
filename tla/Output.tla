------------------------------- MODULE Output -------------------------------
(***************************************************************************)
(* The writing of a report: finishResults and renderTargetResults          *)
(* (cmd/client.go) and the renderers of internal/output, down to each call *)
(* of Write, to a standard output that may refuse any of them, wholly or   *)
(* after a part, and accept the next (a full disk on which room is made).  *)
(*                                                                         *)
(* A piece is what one call writes, or one record of CSV: which input it   *)
(* is about, what it says, and two numbers (a certificate; a version and a *)
(* cipher suite).  Its wording is left out.  The judgements a report makes *)
(* are in module Report.                                                   *)
(***************************************************************************)
EXTENDS Integers, Sequences, FiniteSets, SequencesExt

CONSTANTS
    Chains,      \* the inspected chains considered, see Chain below
    Secure,      \* the cipher suites crypto/tls calls secure; a suite is a number
    Results,     \* the results considered: sequences of chains and Failed
    Failed,      \* the result of a target that could not be inspected
    Room         \* records that fit in the buffer of csv.Writer

(* Chain: [verified, reason : BOOLEAN,                          \* reason: Health's is not empty
           handshake : {"none", "plain", "alpn"},
           versions : Seq(Seq(Nat)),                             \* their cipher suites
           certs : Seq(SUBSET of the optional fields below)]     \* at least one *)
ASSUME OutputAssumption ==
    /\ Failed \notin Chains
    /\ \A chain \in Chains : /\ chain.versions \in Seq(Seq(Nat))
                            /\ chain.certs \in Seq(SUBSET STRING) \ {<<>>}
    /\ Results \subseteq Seq(Chains \cup {Failed})
    /\ Room \in Nat \ {0}

VARIABLES
    output,    \* --output
    quiet,     \* --quiet
    batch,     \* the results, in input order
    at,        \* the result being rendered or named
    todo,      \* what the current renderer has still to write
    err,       \* the error checkedWriter, or the buffer of csv.Writer, retains
    buffer,    \* what csv.Writer holds back
    stdout,    \* the pieces on standard output
    stderr,    \* the inputs named on standard error
    stage,
    returned   \* finishResults has returned: "nil" or "error"

outputVars == <<output, quiet, batch, at, todo, err, buffer, stdout, stderr, stage, returned>>

Streamed == {"human", "text", "raw"}
Formats == Streamed \cup {"csv", "csv-full", "json", "yaml"}

-----------------------------------------------------------------------------
(* What the renderers write of one chain; both commands give it a name.    *)
Say(i, what) == <<i, what, 0, 0>>
Torn == Say(0, "torn")

\* One piece for each name.
Says(i, n, names) == [k \in 1..Len(names) |-> <<i, names[k], n, 0>>]

\* Those of a sequence that are kept, in their order.
Only(seq, kept) ==
    FlattenSeq([k \in 1..Len(seq) |-> IF seq[k] \in kept THEN <<seq[k]>> ELSE <<>>])

\* SplitCipherSuitesBySecurity: the order is kept within each part.
SecureSuites(suites) == Only(suites, Secure)
InsecureSuites(suites) == Only(suites, ToSet(suites) \ Secure)

\* HumanRenderer.Render
HumanFields ==
    <<"Target", "status", "Subject", "Issuer", "Validity", "Handshake", "SANs", "IPs",
      "Revocation", "TLS">>

HumanLines(i, chain) ==
    LET shown(f) ==
            CASE f = "Handshake" -> chain.handshake # "none"
              [] f \in {"SANs", "IPs", "Revocation"} -> f \in chain.certs[1]
              [] f = "TLS" -> chain.versions # <<>>
              [] OTHER -> TRUE
        version(v) ==
            IF chain.versions[v] = <<>> THEN <<>>
            ELSE <<<<i, "Ciphers", v, 0>>>> \o [k \in 1..Len(chain.versions[v]) |->
                    <<i, IF Contains(InsecureSuites(chain.versions[v]), chain.versions[v][k])
                         THEN "insecure suite" ELSE "secure suite", v, chain.versions[v][k]>>]
    IN Says(i, 0, Only(HumanFields, {f \in ToSet(HumanFields) : shown(f)}))
       \o FlattenSeq([v \in 1..Len(chain.versions) |-> version(v)])
       \o IF Len(chain.certs) > 1 THEN <<Say(i, "blank"), Say(i, "Chain")>> ELSE <<>>

\* renderCertFields and renderRevocation, with the result of one method.
CertFields ==
    <<"[type]", "Version", "SHA-256", "SHA-1", "Serial", "Signature", "Issuer", "Subject",
      "Not Before", "Not After", "Key Algorithm", "Key Length", "Key Usage", "Ext Key Usage",
      "Constraints", "SKID", "AKID", "SANs", "Emails", "IPs", "OCSP", "CA Issuers", "CRL",
      "Revocation", "Checked", "Method", "Method Status", "Responder", "Revoked At", "Reason",
      "Error">>
AlwaysShown == {CertFields[k] : k \in 1..11}

CertLines(i, n, cert) ==
    (IF n > 1 THEN <<Say(i, "blank")>> ELSE <<>>)
    \o Says(i, n, Only(CertFields, AlwaysShown \cup cert))

\* VerboseTextRenderer.Render
TextFields ==
    <<"Target", "Status", "reason", "end of line", "failed", "blank", "Negotiated Version",
      "Negotiated Suite", "Negotiated ALPN", "end of part", "TLS Versions">>

TextLines(i, chain) ==
    LET shown(f) ==
            CASE f = "reason" -> chain.reason
              [] f = "failed" -> ~chain.verified
              [] f = "Negotiated ALPN" -> chain.handshake = "alpn"
              [] f \in {"Negotiated Version", "Negotiated Suite", "end of part"} ->
                     chain.handshake # "none"
              [] f = "TLS Versions" -> chain.versions # <<>>
              [] OTHER -> TRUE
        part(v, what, suites) ==
            IF suites = <<>> THEN <<>>
            ELSE <<<<i, "heading", v, 0>>>> \o [k \in 1..Len(suites) |-> <<i, what, v, suites[k]>>]
        version(v) == part(v, "secure suite", SecureSuites(chain.versions[v]))
                      \o part(v, "insecure suite", InsecureSuites(chain.versions[v]))
    IN Says(i, 0, Only(TextFields, {f \in ToSet(TextFields) : shown(f)}))
       \o FlattenSeq([v \in 1..Len(chain.versions) |-> version(v)])
       \o (IF chain.versions # <<>> THEN <<Say(i, "blank")>> ELSE <<>>)
       \o FlattenSeq([n \in 1..Len(chain.certs) |-> CertLines(i, n, chain.certs[n])])

\* RawPEMRenderer.Render
RawLines(i, chain) == [n \in 1..Len(chain.certs) |-> <<i, "PEM", n, 0>>]

\* Render
Lines(i) ==
    CASE output = "human" -> HumanLines(i, batch[i])
      [] output = "text" -> TextLines(i, batch[i])
      [] OTHER -> RawLines(i, batch[i])

\* renderCSVSummaryBatch and renderCSVFullBatch, or the envelope of a structured format.
Records ==
    <<Say(0, "header")>> \o
    FlattenSeq([i \in 1..Len(batch) |->
        IF batch[i] = Failed THEN <<Say(i, "failed")>>
        ELSE [n \in 1..(IF output = "csv" THEN 1 ELSE Len(batch[i].certs)) |-> <<i, "row", n, 0>>]])
Envelope == <<Say(0, "envelope")>> \o [i \in 1..Len(batch) |-> Say(i, "result")]

-----------------------------------------------------------------------------
(* The columns of CSV: a header, and rows given by the name of the field   *)
(* each value is taken from.                                               *)
PrefixHeaders == <<"target", "status", "tls_status", "error">>
SummaryHeaders ==
    PrefixHeaders \o <<"tls_version", "cipher_suite", "alpn", "common_name", "issuer",
                       "not_before", "not_after", "days_remaining", "sha256",
                       "subject_alternative_names">>
SummaryRow ==
    <<"target", "tls_version", "cipher_suite", "alpn", "common_name", "issuer", "not_before",
      "not_after", "days_remaining", "sha256", "subject_alternative_names">>
FullHeaders ==
    <<"target", "certificate_index", "certificate_type", "chain", "verified",
      "verification_error", "tls_version", "cipher_suite", "alpn", "version", "serial_number",
      "signature_algorithm", "issuer", "subject", "common_name", "not_before", "not_after",
      "public_key_algorithm", "key_length", "key_usage", "extended_key_usage",
      "basic_constraints_is_ca", "basic_constraints_max_path_len", "subject_key_id",
      "authority_key_id", "subject_alternative_names", "email_addresses", "ip_addresses",
      "ocsp_servers", "issuing_cert_url", "crl_distribution_points", "fingerprint_sha1",
      "fingerprint_sha256", "tls_versions", "secure_cipher_suites", "insecure_cipher_suites",
      "revocation_status", "revocation_checked_at">>
FullFieldsRow ==
    <<"certificate_index", "certificate_type", "chain", "verified", "verification_error",
      "tls_version", "cipher_suite", "alpn", "version", "serial_number", "signature_algorithm",
      "issuer", "subject", "common_name", "not_before", "not_after", "public_key_algorithm",
      "key_length", "key_usage", "extended_key_usage", "basic_constraints_is_ca",
      "basic_constraints_max_path_len", "subject_key_id", "authority_key_id",
      "subject_alternative_names", "email_addresses", "ip_addresses", "ocsp_servers",
      "issuing_cert_url", "crl_distribution_points", "fingerprint_sha1", "fingerprint_sha256",
      "tls_versions", "secure_cipher_suites", "insecure_cipher_suites", "revocation_status",
      "revocation_checked_at">>

\* Mutant: the row of a chain keeps its own first value after the prefix.
ColumnsTwice(piece) ==
    LET header == IF output = "csv" THEN SummaryHeaders ELSE PrefixHeaders \o Tail(FullHeaders)
    IN IF piece[2] = "row"
       THEN PrefixHeaders \o (IF output = "csv" THEN SummaryRow ELSE FullFieldsRow)
       ELSE header

\* The header, the row of a certificate and the row of a failed target.
Columns(piece) ==
    LET header == IF output = "csv" THEN SummaryHeaders ELSE PrefixHeaders \o Tail(FullHeaders)
    IN CASE piece[2] = "header" -> header
         [] piece[2] = "row" ->
                PrefixHeaders \o (IF output = "csv" THEN Tail(SummaryRow) ELSE FullFieldsRow)
         [] OTHER ->
                PrefixHeaders \o [k \in 1..(IF output = "csv" THEN 10
                                             ELSE Len(header) - Len(PrefixHeaders)) |-> ""]
-----------------------------------------------------------------------------
(* The writing.                                                            *)
OutputInit ==
    /\ output \in Formats /\ quiet \in BOOLEAN
    /\ batch \in Results
    /\ at = 0 /\ todo = <<>> /\ err = FALSE /\ buffer = <<>>
    /\ stdout = <<>> /\ stderr = <<>>
    /\ stage = "start" /\ returned = ""

\* Write(pieces): all of them and no error, or an error and fewer of them, the
\* last perhaps in part (io.Writer: fewer bytes come with an error).
Accepted(pieces) == stdout' = stdout \o pieces
Refused(pieces) ==
    \E n \in 0..(Len(pieces) - 1), torn \in {<<>>, <<Torn>>} :
        stdout' = stdout \o SubSeq(pieces, 1, n) \o torn

Return(value) == stage' = "returned" /\ returned' = value
Diagnose == stage' = "diagnose" /\ at' = 0 /\ UNCHANGED returned

\* The next of these inputs after at; 0 if there is none.
NextOf(inputs) ==
    LET left == {i \in inputs : i > at}
    IN IF left = {} THEN 0 ELSE CHOOSE i \in left : \A j \in left : i <= j
FailedInputs == {i \in DOMAIN batch : batch[i] = Failed}
NextChain == NextOf(DOMAIN batch \ FailedInputs)

\* finishResults: quiet renders nothing; otherwise the renderer of the format.
Start ==
    /\ stage = "start"
    /\ IF quiet THEN Diagnose /\ UNCHANGED todo
       ELSE IF output \in Streamed
            THEN stage' = "chains" /\ UNCHANGED <<at, todo, returned>>
            ELSE /\ stage' = IF output \in {"csv", "csv-full"} THEN "records" ELSE "encode"
                 /\ todo' = IF output \in {"csv", "csv-full"} THEN Records ELSE Envelope
                 /\ UNCHANGED <<at, returned>>
    /\ UNCHANGED <<output, quiet, batch, err, buffer, stdout, stderr>>

\* renderChains: an empty line between two chains, except in the raw format,
\* and Render, with a checkedWriter of its own.
BeginChain ==
    /\ stage = "chains" /\ NextChain # 0
    /\ \/ /\ IF at # 0 /\ output # "raw" THEN Accepted(<<Say(0, "separator")>>)
             ELSE UNCHANGED stdout
          /\ at' = NextChain /\ todo' = Lines(NextChain) /\ err' = FALSE
          /\ stage' = "lines" /\ UNCHANGED returned
       \/ /\ at # 0 /\ output # "raw" /\ Refused(<<Say(0, "separator")>>)
          /\ Return("error") /\ UNCHANGED <<at, todo, err>>
    /\ UNCHANGED <<output, quiet, batch, buffer, stderr>>

EndChains ==
    /\ stage = "chains" /\ NextChain = 0
    /\ Diagnose
    /\ UNCHANGED <<output, quiet, batch, todo, err, buffer, stdout, stderr>>

\* Mutant: the error of the last call is the one that is kept.
WriteLineLast ==
    /\ stage = "lines" /\ todo # <<>>
    /\ \/ Accepted(<<Head(todo)>>) /\ err' = FALSE
       \/ Refused(<<Head(todo)>>) /\ err' = TRUE
    /\ todo' = Tail(todo)
    /\ UNCHANGED <<output, quiet, batch, at, buffer, stderr, stage, returned>>

\* checkedWriter.Write: after an error nothing is written any more.
WriteLine ==
    /\ stage = "lines" /\ todo # <<>>
    /\ \/ err /\ UNCHANGED <<stdout, err>>
       \/ ~err /\ Accepted(<<Head(todo)>>) /\ err' = FALSE
       \/ ~err /\ Refused(<<Head(todo)>>) /\ err' = TRUE
    /\ todo' = Tail(todo)
    /\ UNCHANGED <<output, quiet, batch, at, buffer, stderr, stage, returned>>

\* return out.err
EndChain ==
    /\ stage = "lines" /\ todo = <<>>
    /\ IF err THEN Return("error") ELSE stage' = "chains" /\ UNCHANGED returned
    /\ UNCHANGED <<output, quiet, batch, at, todo, err, buffer, stdout, stderr>>

\* writer.Write: csv.Writer's buffer, written out when the record does not fit.
Record ==
    /\ stage = "records" /\ todo # <<>>
    /\ IF Len(buffer) < Room
       THEN /\ buffer' = Append(buffer, Head(todo)) /\ todo' = Tail(todo)
            /\ UNCHANGED <<err, stdout, stage, returned>>
       ELSE \/ /\ Accepted(buffer) /\ buffer' = <<Head(todo)>> /\ todo' = Tail(todo)
               /\ UNCHANGED <<err, stage, returned>>
            \/ Refused(buffer) /\ err' = TRUE /\ Return("error") /\ UNCHANGED <<buffer, todo>>
    /\ UNCHANGED <<output, quiet, batch, at, stderr>>

\* Mutant: the error of Flush is not asked for.
FlushUnasked ==
    /\ stage = "records" /\ todo = <<>> /\ buffer' = <<>>
    /\ (Accepted(buffer) \/ Refused(buffer)) /\ Diagnose
    /\ UNCHANGED <<output, quiet, batch, todo, err, stderr>>

\* writer.Flush(); return writer.Error()
Flush ==
    /\ stage = "records" /\ todo = <<>>
    /\ \/ Accepted(buffer) /\ buffer' = <<>> /\ Diagnose /\ UNCHANGED err
       \/ Refused(buffer) /\ err' = TRUE /\ Return("error") /\ UNCHANGED <<at, buffer>>
    /\ UNCHANGED <<output, quiet, batch, todo, stderr>>

\* encoder.Encode: the whole envelope.  The deferred Close of the YAML encoder
\* may write its buffer once more after an error.
Encode ==
    /\ stage = "encode"
    /\ \/ Accepted(todo) /\ Diagnose
       \/ Refused(todo) /\ Return("error") /\ UNCHANGED at
       \/ /\ output = "yaml" /\ Return("error") /\ UNCHANGED at
          /\ \E n \in 0..(Len(todo) - 1) :
                stdout' = stdout \o SubSeq(todo, 1, n) \o <<Torn>> \o todo
    /\ UNCHANGED <<output, quiet, batch, todo, err, buffer, stderr>>

\* The failed inputs, on stderr, unless the format named them.
NextFailed == IF quiet \/ output \in Streamed THEN NextOf(FailedInputs) ELSE 0
Name ==
    /\ stage = "diagnose" /\ NextFailed # 0
    /\ \/ at' = NextFailed /\ stderr' = Append(stderr, NextFailed) /\ UNCHANGED <<stage, returned>>
       \/ Return("error") /\ UNCHANGED <<at, stderr>>
    /\ UNCHANGED <<output, quiet, batch, todo, err, buffer, stdout>>

Finish ==
    /\ stage = "diagnose" /\ NextFailed = 0
    /\ Return("nil")
    /\ UNCHANGED <<output, quiet, batch, at, todo, err, buffer, stdout, stderr>>

Returned == stage = "returned" /\ UNCHANGED outputVars

OutputNext ==
    \/ Start \/ BeginChain \/ EndChains \/ WriteLine \/ EndChain
    \/ Record \/ Flush \/ Encode \/ Name \/ Finish \/ Returned

OutputSpec == OutputInit /\ [][OutputNext]_outputVars

-----------------------------------------------------------------------------
\* What a reader should find of one input among the streamed formats, and the whole
\* report on standard output.
Separator(i) ==
    IF (1..(i - 1)) \ FailedInputs # {} /\ output # "raw" THEN <<Say(0, "separator")>> ELSE <<>>
Part(i) == IF i \in FailedInputs THEN <<>> ELSE Separator(i) \o Lines(i)

Whole ==
    IF quiet THEN <<>>
    ELSE IF output \in {"csv", "csv-full"} THEN Records
    ELSE IF output \notin Streamed THEN Envelope
    ELSE FlattenSeq([i \in 1..Len(batch) |-> Part(i)])

\* README, Errors: output-write failures are runtime errors.  finishResults
\* returns nil only if every call of Write took everything: the whole report is
\* on standard output, and every failed input is named, once and in input order,
\* in the report or on standard error.
NilMeansWhole ==
    returned = "nil" =>
        /\ stdout = Whole
        /\ stderr = IF quiet \/ output \in Streamed
                    THEN Only([i \in 1..Len(batch) |-> i], FailedInputs)
                    ELSE <<>>

\* checkedWriter: "retains the first write error across formatted output calls".
\* What has been written is always a beginning of the report, up to a last piece
\* that was cut: a line that follows a lost one would be read as the report of
\* something else.  (The encoder of YAML is not the program's own.)
NoHole ==
    output # "yaml" =>
        \/ IsPrefix(stdout, Whole)
        \/ stdout # <<>> /\ Last(stdout) = Torn /\ IsPrefix(Front(stdout), Whole)

\* A value stands in the column of its name in every row, and a row has as many
\* values as the header: csv.Writer does not compare them.
ColumnsFit ==
    output \in {"csv", "csv-full"} =>
        \A k \in 1..Len(stdout) : stdout[k] # Torn =>
            LET header == Columns(stdout[1])
                row == Columns(stdout[k])
            IN Len(row) = Len(header) /\ \A c \in 1..Len(row) : row[c] \in {header[c], ""}
=============================================================================
