-------------------------------- MODULE Probe --------------------------------
(***************************************************************************)
(* One query: QueryContext (internal/tlsquery/query.go) with the probes of *)
(* --tls-versions, probeTLSVersions and probeCipherSuites (dial.go), which *)
(* hold one handshake per protocol version and one more per cipher suite   *)
(* while the deadline of the target runs.                                  *)
(*                                                                         *)
(* The peer is the environment: it accepts some suites per version and     *)
(* picks by a fixed order of preference; any connection may fail, and the  *)
(* context may end at any moment.  Module Dial looks inside a connection.  *)
(***************************************************************************)
EXTENDS Naturals, Sequences, FiniteSets, SequencesExt

CONSTANTS Suites,        \* cipherSuiteIDsForVersion of TLS 1.0 to 1.2
          DefaultSuites  \* those crypto/tls offers unless told otherwise

ASSUME ProbeAssumption ==
    /\ IsFiniteSet(Suites) /\ Suites # {}
    /\ DefaultSuites \subseteq Suites

VARIABLES
    tlsVersions,  \* --tls-versions
    server,       \* per version, the suites the peer accepts, preferred first
    stage,        \* where the query is
    ctx,          \* the target's context: "live" or "done"
    version,      \* the version the outer loop is at
    available,    \* the suites the inner loop still offers
    ciphers,      \* the suites it has found
    supported,    \* the result of probeTLSVersions
    outcome,      \* what QueryContext returns: "pending", "chain" or "error"
    faulted,      \* a connection the peer would have accepted failed on its own
    lateDials     \* the connections that ended after the context

queryVars == <<tlsVersions, server, stage, ctx, version, available, ciphers, supported,
               outcome, faulted, lateDials>>

-----------------------------------------------------------------------------
\* TLS 1.0, 1.1, 1.2 and 1.3 in the order they are probed.
Versions == 1..4
TLS13    == 4

\* The one suite of TLS 1.3 that matters: Go does not let a client choose.
Suite13 == "tls13"

\* Every order of every subset of the suites; << >> for a version the peer does
\* not speak.
Preference == SetToAllKPermutations(Suites)
Servers ==
    {s \in [Versions -> Preference \cup {<<Suite13>>}] :
        \A v \in Versions : s[v] # << >> => (v = TLS13 <=> s[v] = <<Suite13>>)}

Found(v, list) == [version |-> v, ciphers |-> list]

QueryInit ==
    /\ tlsVersions \in BOOLEAN
    /\ server \in Servers
    /\ stage = "handshake"
    /\ ctx = "live"
    /\ version = 1
    /\ available = {}
    /\ ciphers = << >>
    /\ supported = << >>
    /\ outcome = "pending"
    /\ faulted = FALSE
    /\ lateDials = 0

\* A connection has ended; `mine`: the peer would have accepted it.
Ended(mine) ==
    /\ faulted' = (faulted \/ (mine /\ ctx = "live"))
    /\ lateDials' = IF ctx = "done" THEN lateDials + 1 ELSE lateDials

Undisturbed == UNCHANGED <<faulted, lateDials>>

-----------------------------------------------------------------------------
\* The two have a version and a suite in common.  Go starts at TLS 1.2 with the
\* suites it holds to be secure; for the probes QueryContext lowers that to
\* TLS 1.0 and offers every suite.
InCommon ==
    IF tlsVersions THEN \E v \in Versions : server[v] # << >>
    ELSE \/ server[TLS13] # << >>
         \/ \E s \in DefaultSuites : Contains(server[TLS13 - 1], s)

\* dialAndHandshake succeeds: the certificates are verified, and without
\* --tls-versions the chain is returned at once.
HandshakeSucceeds ==
    /\ stage = "handshake" /\ ctx = "live"
    /\ InCommon
    /\ IF tlsVersions THEN stage' = "versions" /\ UNCHANGED outcome
                      ELSE stage' = "returned" /\ outcome' = "chain"
    /\ Undisturbed
    /\ UNCHANGED <<tlsVersions, server, ctx, version, available, ciphers, supported>>

HandshakeFails ==
    /\ stage = "handshake"
    /\ stage' = "returned" /\ outcome' = "error"
    /\ Ended(InCommon)
    /\ UNCHANGED <<tlsVersions, server, ctx, version, available, ciphers, supported>>

\* The head of probeTLSVersions' loop.
NextVersion ==
    /\ stage = "versions"
    /\ stage' = IF version \notin Versions \/ ctx = "done" THEN "late" ELSE "dial_version"
    /\ Undisturbed
    /\ UNCHANGED <<tlsVersions, server, ctx, version, available, ciphers, supported, outcome>>

\* Mutant: the list of the version before is not reset.
VersionKeepsCiphers ==
    /\ stage = "dial_version" /\ ctx = "live"
    /\ server[version] # << >>
    /\ IF version = TLS13
       THEN /\ supported' = Append(supported, Found(version, <<server[version][1]>>))
            /\ version' = version + 1
            /\ stage' = "versions"
            /\ UNCHANGED available
       ELSE available' = Suites /\ stage' = "ciphers" /\ UNCHANGED <<supported, version>>
    /\ Undisturbed
    /\ UNCHANGED <<tlsVersions, server, ctx, ciphers, outcome>>

\* A handshake that allows this version alone.  TLS 1.3 reports what was
\* negotiated, the older versions are searched suite by suite.
VersionSucceeds ==
    /\ stage = "dial_version" /\ ctx = "live"
    /\ server[version] # << >>
    /\ IF version = TLS13
       THEN /\ supported' = Append(supported, Found(version, <<server[version][1]>>))
            /\ version' = version + 1
            /\ stage' = "versions"
            /\ UNCHANGED <<available, ciphers>>
       ELSE /\ available' = Suites
            /\ ciphers' = << >>
            /\ stage' = "ciphers"
            /\ UNCHANGED <<supported, version>>
    /\ Undisturbed
    /\ UNCHANGED <<tlsVersions, server, ctx, outcome>>

\* Mutant: the same version is tried again.
VersionRetries ==
    /\ stage = "dial_version"
    /\ stage' = "versions"
    /\ Ended(server[version] # << >>)
    /\ UNCHANGED <<tlsVersions, server, ctx, version, available, ciphers, supported, outcome>>

\* if err != nil { continue }
VersionFails ==
    /\ stage = "dial_version"
    /\ version' = version + 1
    /\ stage' = "versions"
    /\ Ended(server[version] # << >>)
    /\ UNCHANGED <<tlsVersions, server, ctx, available, ciphers, supported, outcome>>

\* probeCipherSuites returns what it has and the outer loop goes on.
CiphersDone ==
    /\ supported' = Append(supported, Found(version, ciphers))
    /\ version' = version + 1
    /\ stage' = "versions"

\* The head of probeCipherSuites' loop.
NextCipher ==
    /\ stage = "ciphers"
    /\ IF available = {} \/ ctx = "done"
       THEN CiphersDone
       ELSE stage' = "dial_cipher" /\ UNCHANGED <<supported, version>>
    /\ Undisturbed
    /\ UNCHANGED <<tlsVersions, server, ctx, available, ciphers, outcome>>

\* Where the suites still offered stand in the peer's preference, which picks the
\* one that stands first.
Acceptable == {k \in 1..Len(server[version]) : server[version][k] \in available}
Negotiated == server[version][Min(Acceptable)]

\* The negotiated suite is recorded and not offered again.
CipherSucceeds ==
    /\ stage = "dial_cipher" /\ ctx = "live"
    /\ Acceptable # {}
    /\ ciphers' = Append(ciphers, Negotiated)
    /\ available' = available \ {Negotiated}
    /\ stage' = "ciphers"
    /\ Undisturbed
    /\ UNCHANGED <<tlsVersions, server, ctx, version, supported, outcome>>

\* if err != nil { break }
CipherFails ==
    /\ stage = "dial_cipher"
    /\ CiphersDone
    /\ Ended(Acceptable # {})
    /\ UNCHANGED <<tlsVersions, server, ctx, available, ciphers, outcome>>

\* Mutant: what was found is returned as it is.
LateCheckMissing ==
    /\ stage = "late"
    /\ stage' = "returned"
    /\ outcome' = "chain"
    /\ Undisturbed
    /\ UNCHANGED <<tlsVersions, server, ctx, version, available, ciphers, supported>>

\* if ctx.Err() != nil { return nil, ctx.Err() }
LateCheck ==
    /\ stage = "late"
    /\ stage' = "returned"
    /\ outcome' = IF ctx = "done" THEN "error" ELSE "chain"
    /\ Undisturbed
    /\ UNCHANGED <<tlsVersions, server, ctx, version, available, ciphers, supported>>

\* --timeout runs out or Ctrl-C.
ContextDone ==
    /\ ctx = "live" /\ stage # "returned"
    /\ ctx' = "done"
    /\ Undisturbed
    /\ UNCHANGED <<tlsVersions, server, stage, version, available, ciphers, supported, outcome>>

Returned == stage = "returned" /\ UNCHANGED queryVars

QueryStep ==
    \/ HandshakeSucceeds \/ HandshakeFails
    \/ NextVersion \/ VersionSucceeds \/ VersionFails
    \/ NextCipher \/ CipherSucceeds \/ CipherFails
    \/ LateCheck

QueryNext == QueryStep \/ ContextDone \/ Returned

QuerySpec == QueryInit /\ [][QueryNext]_queryVars

\* Every connection ends, well or badly (DialEnds of module Dial), and the rest
\* is the query's own code.  Nothing makes the context end.
FairSpec == QuerySpec /\ WF_queryVars(QueryStep)

-----------------------------------------------------------------------------
\* What a search that misses nothing reports, in the order of ReportsWhatWasSeen.
Capability == {Found(v, server[v]) : v \in {w \in Versions : server[w] # << >>}}

\* Also when connections fail, nothing is reported that the peer does not
\* speak, versions come in order and once, and "results reflect observed
\* negotiation order" - the suites of a version are the first of the peer's
\* preference.
ReportsWhatWasSeen ==
    \A k \in 1..Len(supported) :
        LET found == supported[k]
            preference == server[found.version]
        IN  /\ preference # << >>
            /\ IsPrefix(found.ciphers, preference)
            /\ \A j \in 1..(k - 1) : supported[j].version < found.version

\* The search ends, in particular with a peer that goes on accepting suites; and
\* once the context is done the query holds on to its target for one connection
\* at most, whatever is left to probe.
StopsInTime == <>(stage = "returned") /\ [](lateDials <= 1)

\* README, TLS probes: "An exhausted overall deadline produces a failure instead
\* of a supposedly complete probe result."  The other of the worker's two calls
\* rather fails than leaves anything out that the peer supports, unless
\* connections failed that the context has nothing to do with: QueryContext looks
\* at the context itself after the probes (query.go:87).
Call == INSTANCE ContextCall WITH
            MayTruncate <- FALSE,
            result <- IF outcome # "chain" THEN outcome
                      ELSE IF tlsVersions /\ ~faulted /\ ToSet(supported) # Capability
                      THEN "partial" ELSE "whole"
HonoursContext == Call!Spec
=============================================================================
