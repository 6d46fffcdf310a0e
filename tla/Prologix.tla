------------------------------ MODULE Prologix ------------------------------
(***************************************************************************)
(* The Prologix front-end (src/server.rs, src/prologix.rs): one connection *)
(* at a time, one line at a time.  Lines that only ask for or change the   *)
(* settings of the connection, its end and the next connection touch       *)
(* nothing shared and are no steps here.  The answers to some commands are *)
(* written while the guard of the bus mutex is still alive, because it is  *)
(* a temporary of the match or if let that writes them.                    *)
(***************************************************************************)
EXTENDS SharedAdapter

VARIABLES
    ppc,    \* where handle_connection is
    line    \* the operation on the bus

prologixVars == <<ppc, line>>

PrologixTypeOK ==
    /\ ppc \in {"reading", "queued", "onbus", "holding", "dropped"}
    /\ line \in Operation \cup {"none"}

PrologixInit == ppc = "reading" /\ line = "none"

(* A line for the bus.  What it asks for matters once the bus is there.    *)
handle_line ==
    /\ ppc = "reading"
    /\ ppc' = "queued"
    /\ Ask("prologix")
    /\ UNCHANGED <<line, modeVars>>

(* ++lon and ++dev without an argument read a flag; the guard is gone when *)
(* the answer is written.                                                  *)
QueryMode ==
    /\ ppc = "queued" /\ OnBus("prologix")
    /\ ppc' = "reading"
    /\ Release
    /\ UNCHANGED <<line, modeVars>>

(* A refused write is only logged.                                         *)
PrologixStart(kind) ==
    /\ ppc = "queued" /\ OnBus("prologix")
    /\ IF Refused(kind)
       THEN ppc' = "reading" /\ Release /\ UNCHANGED line
       ELSE ppc' = "onbus" /\ line' = kind /\ UNCHANGED busq
    /\ UNCHANGED modeVars

(* A written line is read back in the same tenure when ++auto is on.       *)
AutoRead ==
    /\ ppc = "onbus" /\ line = "write"
    /\ line' = "read"
    /\ UNCHANGED <<ppc, adapterVars>>

(* Which answers are written with the guard alive: a status byte, the SRQ  *)
(* line or the bus lines, and the error of a mode change.                  *)
AnswersHolding(ok) == IF ok THEN line = "status" ELSE line \in ModeChange

PrologixDone(ok) ==
    /\ ppc = "onbus"
    /\ line' = "none"
    /\ Done(line, ok)
    /\ IF AnswersHolding(ok) THEN ppc' = "holding" /\ UNCHANGED busq
                             ELSE ppc' = "reading" /\ Release

(* write_all ends when the client has taken the answer, or has gone.       *)
PrologixWritten ==
    /\ ppc = "holding"
    /\ ppc' = "reading"
    /\ Release
    /\ UNCHANGED <<line, modeVars>>

PrologixStep ==
    \/ QueryMode
    \/ \E kind \in Operation : PrologixStart(kind)
    \/ \E ok \in BOOLEAN : PrologixDone(ok)

PrologixNext == PrologixStep \/ handle_line \/ AutoRead \/ PrologixWritten
=============================================================================
