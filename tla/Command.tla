------------------------------- MODULE Command -------------------------------
(***************************************************************************)
(* One run of `tlsctl client` or `tlsctl pem` from validated configuration *)
(* to exit status: RunE (cmd/client.go, cmd/pem.go) with the reading of    *)
(* its input, and the three goroutines Ctrl-C involves (cmd/root.go): the  *)
(* command itself, the one of signal.NotifyContext that ends the context,  *)
(* and the context.AfterFunc callback that closes stdin.                   *)
(*                                                                         *)
(* The input is a sequence of pieces: lines that name an endpoint each, or *)
(* PEM blocks.  Who writes it may stop early, or never.  The worker pool   *)
(* is seen as in BatchPromise: inputs are settled in any order.            *)
(***************************************************************************)
EXTENDS ExitCodes, FiniteSets

CONSTANT MaxPieces  \* the longest input (a bound of the model)
ASSUME CommandAssumption == MaxPieces \in Nat

VARIABLES
    run,       \* the command line and what it refers to
    pc,        \* where RunE is
    sent,      \* pieces written to the input so far
    ended,     \* the input's writer has closed it
    got,       \* pieces RunE has read
    interrupt, \* how far Ctrl-C has come
    results,   \* per target, or for the one PEM input, its targetResult
    traffic,   \* the targets for which a connection was opened
    status,    \* the process's exit status
    early      \* history: the context was done before RunE began its work

vars == <<run, pc, sent, ended, got, interrupt, results, traffic, status, early>>

-----------------------------------------------------------------------------
Pieces == 1..MaxPieces

\* flags: all flag values are valid.  ca: --cacert.  source: positional
\* endpoints, a path, or stdin; named: by `-` (or --file -).  pollable: stdin is
\* in non-blocking mode, so that Close ends a read; terminal: a character
\* device.  bad: the pieces that are no endpoint or no certificate.
Runs ==
    {r \in [command : {"client", "pem"}, flags : BOOLEAN, ca : {"none", "ok", "bad"},
            source : {"args", "path", "stdin"}, named : BOOLEAN,
            pollable : BOOLEAN, terminal : BOOLEAN, bad : SUBSET Pieces] :
        /\ r.command = "pem" => r.source # "args"
        /\ r.named => r.source = "stdin"
        /\ r.command = "client" /\ r.source = "stdin" => r.named
        /\ r.pollable \/ r.terminal => r.source = "stdin"}

\* Ctrl-C: pressed; seen by NotifyContext, which ends the context; acted upon
\* by the callback, which closes stdin.
Interrupt == {"no", "pressed", "cancelled", "closed"}
ContextDone == interrupt \in {"cancelled", "closed"}
StdinClosed == run.source = "stdin" /\ interrupt = "closed"

\* The results RunE hands to finishResults: one per endpoint, or one in all.
Items == IF run.command = "client" THEN 1..got ELSE {1}

Working == {"work", "report"}
PC == {"flags", "terminal", "ca", "read", "blocked", "parse", "exited"} \cup Working

Init ==
    /\ run \in Runs
    /\ pc = "flags"
    /\ ended = (run.source = "args")
    /\ sent \in IF ended THEN Pieces ELSE {0}
    /\ got = 0
    /\ interrupt = "no"
    /\ results = [i \in Pieces \cup {1} |-> "pending"]
    /\ traffic = {}
    /\ status = ExitOK
    /\ early = FALSE

Goto(next) ==
    /\ pc' = next
    /\ UNCHANGED <<run, sent, ended, interrupt, traffic, early>>

\* An error return of RunE: Execute passes ExitRuntimeError to os.Exit.
Refuse ==
    /\ status' = ExitRuntimeError
    /\ Goto("exited")
    /\ UNCHANGED <<got, results>>

Proceed(next) == Goto(next) /\ UNCHANGED <<got, results, status>>

-----------------------------------------------------------------------------
(* RunE.                                                                   *)

\* The client collects its targets before it loads the CA file, pem afterwards.
\* Positional endpoints need no reading.
CheckFlags ==
    /\ pc = "flags"
    /\ IF ~run.flags THEN Refuse
       ELSE IF run.source = "args"
       THEN got' = sent /\ Goto("parse") /\ UNCHANGED <<results, status>>
       ELSE Proceed(IF run.command = "pem" THEN "terminal" ELSE "read")

\* pem without an argument looks at what stdin is; Stat fails on a closed file.
CheckTerminal ==
    /\ pc = "terminal"
    /\ IF run.source = "stdin" /\ ~run.named /\ (run.terminal \/ StdinClosed)
       THEN Refuse ELSE Proceed("ca")

LoadCA ==
    /\ pc = "ca"
    /\ IF run.ca = "bad" THEN Refuse
       ELSE Proceed(IF run.command = "client" THEN "work" ELSE "read")

\* A read that fails: the client returns the error, pem reports it as the
\* result of its input.
ReadFails ==
    IF run.command = "client" THEN Refuse
    ELSE /\ results' = [results EXCEPT ![1] = "error"]
         /\ Goto("report")
         /\ UNCHANGED <<got, status>>

\* The next Read of a closed file fails at once, any other enters the kernel.
EnterRead ==
    /\ pc = "read"
    /\ IF StdinClosed THEN ReadFails ELSE Proceed("blocked")

ReadData ==
    /\ pc = "blocked" /\ got < sent
    /\ got' = got + 1
    /\ Goto("read") /\ UNCHANGED <<results, status>>

ReadEOF ==
    /\ pc = "blocked" /\ got = sent /\ ended
    /\ Proceed("parse")

\* Close ends a read that waits in the runtime's poller.  A read that waits in
\* the kernel stays there until its writer writes or closes.
ReadAborted ==
    /\ pc = "blocked" /\ run.pollable /\ StdinClosed
    /\ ReadFails

\* Mutant: lines that are no endpoint are skipped.
ParseSkipsBad ==
    /\ pc = "parse"
    /\ IF got = 0 \/ 1..got \subseteq run.bad THEN ReadFails
       ELSE Proceed(IF run.command = "client" THEN "ca" ELSE "work")

\* collectTargets after the reading, and ParsePEM: nothing, or one bad piece,
\* is an error.
Parse ==
    /\ pc = "parse"
    /\ IF got = 0 \/ 1..got \cap run.bad # {} THEN ReadFails
       ELSE Proceed(IF run.command = "client" THEN "ca" ELSE "work")

\* A connection to a target, or a revocation request: none is opened under a
\* context that is done.
Connect(i) ==
    /\ pc = "work" /\ i \in Items \ traffic
    /\ results[i] = "pending"
    /\ ~ContextDone
    /\ traffic' = traffic \cup {i}
    /\ UNCHANGED <<run, pc, sent, ended, got, interrupt, results, status, early>>

\* Mutant: no look at the context at the end.
SettleAnyway(i) ==
    /\ pc = "work" /\ i \in Items /\ results[i] = "pending"
    /\ \E r \in {"ok", "error"} :
          /\ r = "ok" => i \in traffic \/ run.command = "pem"
          /\ results' = [results EXCEPT ![i] = r]
    /\ UNCHANGED <<run, pc, sent, ended, got, interrupt, traffic, status, early>>

\* The query and the check end.  Both the pool's worker and pem look at the
\* context once more and make an error of what it may have cut short.  A target
\* can only be inspected over a connection; a PEM input needs none.
Settle(i) ==
    /\ pc = "work" /\ i \in Items /\ results[i] = "pending"
    /\ \E r \in {"ok", "error"} :
          /\ r = "ok" => ~ContextDone /\ (i \in traffic \/ run.command = "pem")
          /\ results' = [results EXCEPT ![i] = r]
    /\ UNCHANGED <<run, pc, sent, ended, got, interrupt, traffic, status, early>>

AllSettled ==
    /\ pc = "work" /\ \A i \in Items : results[i] # "pending"
    /\ Proceed("report")

\* Mutant: only the first result counts.
ReportFirst ==
    /\ pc = "report"
    /\ status' \in IF results[1] = "error" THEN {ExitRuntimeError} ELSE ExitCode
    /\ Goto("exited") /\ UNCHANGED <<got, results>>

\* finishResults and Execute: a failed input, or output that cannot be written,
\* is 1; the health of the chains decides about the rest.
Report ==
    /\ pc = "report"
    /\ status' \in IF \E i \in Items : results[i] = "error" THEN {ExitRuntimeError}
                   ELSE ExitCode
    /\ Goto("exited") /\ UNCHANGED <<got, results>>

-----------------------------------------------------------------------------
(* Ctrl-C, and the other end of the input.                                 *)

\* Further Ctrl-Cs stay with NotifyContext and do nothing.
Press ==
    /\ interrupt = "no" /\ pc # "exited"
    /\ interrupt' = "pressed"
    /\ UNCHANGED <<run, pc, sent, ended, got, results, traffic, status, early>>

\* signal.NotifyContext's goroutine, some time later.
Cancel ==
    /\ interrupt = "pressed" /\ pc # "exited"
    /\ interrupt' = "cancelled"
    /\ early' = (pc \notin Working)
    /\ UNCHANGED <<run, pc, sent, ended, got, results, traffic, status>>

\* Mutant: stdin is left open.
CloseStdinNever == interrupt = "cancelled" /\ UNCHANGED vars

\* func() { _ = os.Stdin.Close() }
CloseStdin ==
    /\ interrupt = "cancelled" /\ pc # "exited"
    /\ interrupt' = "closed"
    /\ UNCHANGED <<run, pc, sent, ended, got, results, traffic, status, early>>

WriterWrites ==
    /\ ~ended /\ sent < MaxPieces /\ pc # "exited"
    /\ sent' = sent + 1
    /\ UNCHANGED <<run, pc, ended, got, interrupt, results, traffic, status, early>>

\* It is through, or it was ended by the same Ctrl-C and leaves half an input.
WriterEnds ==
    /\ ~ended /\ pc # "exited"
    /\ ended' = TRUE
    /\ UNCHANGED <<run, pc, sent, got, interrupt, results, traffic, status, early>>

Exited == pc = "exited" /\ UNCHANGED vars

Step ==
    \/ CheckFlags \/ CheckTerminal \/ LoadCA
    \/ EnterRead \/ ReadData \/ ReadEOF \/ ReadAborted \/ Parse
    \/ AllSettled \/ Report

Next ==
    \/ Step \/ Press \/ Cancel \/ CloseStdin \/ WriterWrites \/ WriterEnds \/ Exited
    \/ \E i \in Pieces \cup {1} : Connect(i) \/ Settle(i)

Spec == Init /\ [][Next]_vars

\* RunE goes on when it can, queries end (each target has a deadline, each
\* revocation request its timeout), and the two goroutines of the interrupt
\* run.  Nobody has to write, to close, or to press Ctrl-C.
FairSpec ==
    /\ Spec
    /\ WF_vars(Step)
    /\ WF_vars(\E i \in Pieces \cup {1} : Settle(i))
    /\ WF_vars(Cancel) /\ WF_vars(CloseStdin)

-----------------------------------------------------------------------------
TypeOK ==
    /\ run \in Runs
    /\ pc \in PC
    /\ sent \in 0..MaxPieces /\ ended \in BOOLEAN
    /\ got \in 0..sent
    /\ interrupt \in Interrupt
    /\ results \in [Pieces \cup {1} -> {"pending", "ok", "error"}]
    /\ traffic \subseteq Items
    /\ status \in ExitCode
    /\ early \in BOOLEAN

\* Nothing is sent to anybody on behalf of an invocation that turns out to be
\* invalid: the first connection follows the whole of the input, all endpoints
\* of it, the flags and the CA file, although the two commands check these in
\* different orders (client.go:79-114, pem.go:22-46).
ValidBeforeTraffic ==
    traffic # {} =>
        /\ run.flags /\ run.ca # "bad"
        /\ ended /\ got = sent
        /\ 1..got \cap run.bad = {}

\* A run whose context ended while it was still reading or validating reports
\* failure and touches no network, whether the read was ended by Close, by the
\* error of the next read, or by a writer that the same Ctrl-C stopped half way
\* so that a truncated input looks complete (root.go:74, client.go:174,
\* pem.go:59).
InterruptedReadFails ==
    early => /\ traffic = {}
             /\ pc = "exited" => status = ExitRuntimeError
             /\ \A i \in Items : results[i] # "ok"

\* Exit codes other than 1 are about the certificates of a complete inspection:
\* every input of a valid invocation was read to its end and inspected.
OtherCodesMeanInspected ==
    pc = "exited" /\ status # ExitRuntimeError =>
        /\ run.flags /\ run.ca # "bad" /\ got = sent /\ ended
        /\ got > 0
        /\ \A i \in Items : results[i] = "ok"

\* The command ends when its writer ends the input and, once Ctrl-C is pressed,
\* also if the writer does not: when stdin can be polled, and when nothing is
\* read.  A blocking stdin is the exception Close cannot help.
CanBeInterrupted == interrupt # "no" /\ run.source = "stdin" /\ run.pollable
CommandEnds == (ended \/ CanBeInterrupted) ~> (pc = "exited")
=============================================================================
