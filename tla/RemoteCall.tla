----------------------------- MODULE RemoteCall -----------------------------
(***************************************************************************)
(* What the decompiler protocol promises the two programs at its ends: a   *)
(* command is a procedure call from Ghidra into the core, the queries the  *)
(* core makes while it runs the command are calls back into Ghidra, one    *)
(* inside the other and one at a time. Each call is run once, each query   *)
(* is answered once, and every result goes to the call it belongs to.      *)
(* There are no messages here: module WireSession implements this with     *)
(* frames on two byte streams.                                             *)
(***************************************************************************)
EXTENDS Naturals

VARIABLE line  \* the calls under way, or Broken

\* `call` and `query` number the command and the query that are being, or were
\* last, made; `heard` is the query whose answer the core was last given and
\* `result` the command whose outcome Ghidra was last given.
Line == [phase : {"idle", "called", "running", "asking", "told", "finished"},
         call : Nat, query : Nat, heard : Nat, result : Nat]

\* Either end has hung up or died: nothing is promised any more.
Broken == [phase |-> "broken"]

At(phase, call, query, heard, result) ==
    [phase |-> phase, call |-> call, query |-> query, heard |-> heard, result |-> result]

CallInit == line = At("idle", 0, 0, 0, 0)

\* Ghidra calls; the core starts to run the command.
Call ==
    /\ line.phase = "idle"
    /\ line' = At("called", line.call + 1, line.query, line.heard, line.result)

Run ==
    /\ line.phase = "called"
    /\ line' = At("running", line.call, line.query, line.heard, line.result)

\* The core asks, Ghidra answers or refuses, the core hears the answer.
Ask ==
    /\ line.phase = "running"
    /\ line' = At("asking", line.call, line.query + 1, line.heard, line.result)

Answer ==
    /\ line.phase = "asking"
    /\ line' = At("told", line.call, line.query, line.heard, line.result)

Hear ==
    /\ line.phase = "told"
    /\ line' = At("running", line.call, line.query, line.query, line.result)

\* The command is over; Ghidra has its outcome.
Finish ==
    /\ line.phase = "running"
    /\ line' = At("finished", line.call, line.query, line.heard, line.result)

Return ==
    /\ line.phase = "finished"
    /\ line' = At("idle", line.call, line.query, line.heard, line.call)

Break ==
    /\ line # Broken
    /\ line' = Broken

CallNext == Call \/ Run \/ Ask \/ Answer \/ Hear \/ Finish \/ Return \/ Break

CallSpec == CallInit /\ [][CallNext]_line
=============================================================================
