---------------------------- MODULE WireSession -----------------------------
(***************************************************************************)
(* One session of the decompiler protocol: the core (core/angr_core.py     *)
(* over ghidra_wire/server.py) and its client (ghidra_wire/client.py, the  *)
(* repository's counterpart of Ghidra's DecompileProcess) at the two ends  *)
(* of a pair of byte streams.                                              *)
(*                                                                         *)
(* A token stands for a burst marker and the payload bytes up to the next  *)
(* marker. read_to_burst drops the rest of a payload and yields the next   *)
(* marker; read_payload yields the payload and the next marker. A reader   *)
(* is a table of the markers it takes at each place and where they lead;   *)
(* a marker that is not in the table is a ProtocolError.                   *)
(***************************************************************************)
EXTENDS Naturals, Sequences

CONSTANTS
    MaxCalls,   \* bound on the commands of a session
    MaxQueries, \* bound on the queries of one command
    Breaks      \* may an end hang up or die in the middle of something?

ASSUME CallsAssumption   == MaxCalls \in Nat
ASSUME QueriesAssumption == MaxQueries \in Nat
ASSUME BreaksAssumption  == Breaks \in BOOLEAN

VARIABLES
    toCore, toClient,  \* the two streams: tokens written and not yet read
    coreAt,            \* where the core is
    got,               \* what the core has gathered of the frame it is reading
    job,               \* the command the core runs, as read from its frame
    asked,             \* queries the core has made, in all and for this command
    registered,        \* AngrCore.emitter exists: registerProgram has succeeded
    done,              \* commands the core has finished
    heard,             \* the query whose answer the core was last given
    clientAt,          \* where the client is
    calls,             \* commands the client has sent
    name,              \* the last of them
    question,          \* the query the client is reading
    served,            \* queries the client has answered
    reply,             \* the response it is reading
    returned           \* the response the last command returned to its caller

coreVars   == <<coreAt, got, job, asked, registered, done, heard>>
clientVars == <<clientAt, calls, name, question, served, reply, returned>>
vars == <<toCore, toClient, coreVars, clientVars>>

Command == {"registerProgram", "setAction", "flushNative", "decompileAt",
            "deregisterProgram", "unheardOf"}

Open  == {"command", "query", "response", "answer", "exception", "bytes", "string", "error"}
Close == {"commandEnd", "queryEnd", "responseEnd", "answerEnd", "exceptionEnd", "bytesEnd",
          "stringEnd", "errorEnd"}
Code  == Open \cup Close

\* A payload, reduced to what it says and the call or query it belongs to.
Datum(text, n) == [text |-> text, of |-> n]
Nothing == Datum("", 0)
Data == [text : Command \cup {"", "argument", "query", "value", "reason", "result", "error"},
         of : Nat]

\* The number on an opening marker is not on the wire: it records which call or
\* query the frame was written for, for the properties to compare.
Token == [code : Code, data : Data]
Tagged(code, n) == [code |-> code, data |-> Datum("", n)]
Mark(code) == Tagged(code, 0)
Stream(kind, end, datum) == <<[code |-> kind, data |-> datum], Mark(end)>>
Str(datum) == Stream("string", "stringEnd", datum)

Misaligned == "misaligned"
After(table, at, code) ==
    IF \E to \in {row[3] : row \in table} : <<at, code, to>> \in table
    THEN (CHOOSE row \in table : row[1] = at /\ row[2] = code)[3]
    ELSE Misaligned

CoreEnded   == coreAt \in {"returned", "raised", "killed"}
ClientEnded == clientAt = "gone"

NoReply == [of |-> 0, main |-> <<>>, err |-> Nothing]

Init ==
    /\ toCore = <<>> /\ toClient = <<>>
    /\ coreAt = "command" /\ got = <<>> /\ job = Nothing
    /\ asked = [all |-> 0, now |-> 0] /\ registered = FALSE /\ done = 0 /\ heard = 0
    /\ clientAt = "idle" /\ calls = 0 /\ name = "" /\ question = Nothing /\ served = 0
    /\ reply = NoReply /\ returned = NoReply

-----------------------------------------------------------------------------
(* The core reads: ServerTransport.read_command, query, _read_exception. *)

ReadCommand ==
    {<<"command", "command", "param">>,
     <<"param", "string", "paramText">>, <<"paramText", "stringEnd", "param">>,
     <<"param", "commandEnd", "dispatch">>}

ReadAnswer ==
    {<<"answer", "exception", "reason">>, <<"answer", "answer", "answerBody">>,
     <<"answerBody", "string", "answerText">>, <<"answerText", "stringEnd", "answerEnd">>,
     <<"answerBody", "bytes", "answerBytes">>, <<"answerBytes", "bytesEnd", "answerEnd">>,
     <<"answerBody", "answerEnd", "body">>, <<"answerEnd", "answerEnd", "body">>}

\* Mutant: the exception's terminator is left in the stream.
ReadExceptionStopsShort ==
    {<<"reason", "string", "reasonText">>} \cup
    {<<"reasonText", code, "message">> : code \in Code} \cup
    {<<"message", "string", "messageText">>} \cup
    {<<"messageText", code, "body">> : code \in Code}

\* Mutant: an exception does not end the query.
ReadExceptionWaitsOn ==
    {<<"reason", "string", "reasonText">>, <<"reasonText", "stringEnd", "message">>,
     <<"message", "string", "messageText">>, <<"messageText", "stringEnd", "reasonEnd">>,
     <<"reasonEnd", "exceptionEnd", "answer">>}

\* Lenient: the end markers of the strings are not looked at, a missing string
\* is skipped, and any marker is taken for the terminator.
ReadException ==
    {<<"reason", "string", "reasonText">>, <<"message", "string", "messageText">>} \cup
    {<<at, code, "reasonEnd">> : at \in {"reason", "message"}, code \in Code \ {"string"}} \cup
    {<<"reasonText", code, "message">> : code \in Code} \cup
    {<<"messageText", code, "reasonEnd">> : code \in Code} \cup
    {<<"reasonEnd", code, "body">> : code \in Code}

CoreTable == ReadCommand \cup ReadAnswer \cup ReadException
CoreReading == {row[1] : row \in CoreTable}
Waiting == {row[1] : row \in ReadAnswer \cup ReadException}

CoreRead ==
    /\ coreAt \in CoreReading
    /\ toCore # <<>>
    /\ LET token == Head(toCore)
           kept  == token.code \in {"answer", "exception", "string", "bytes"} IN
          /\ coreAt' = After(CoreTable, coreAt, token.code)
          /\ got' = IF kept THEN Append(got, token.data) ELSE got
          /\ heard' = IF coreAt \in Waiting /\ coreAt' = "body" THEN got[1].of ELSE heard
    /\ toCore' = Tail(toCore)
    /\ UNCHANGED <<toClient, job, asked, registered, done, clientVars>>

\* Mutant: the end of the stream is one more bad command to survive.
CoreSurvivesEof ==
    /\ coreAt \in CoreReading
    /\ toCore = <<>> /\ ClientEnded
    /\ coreAt' = IF coreAt \in Waiting THEN "body" ELSE "command"
    /\ UNCHANGED <<toCore, toClient, got, job, asked, registered, done, heard, clientVars>>

\* The stream has ended. read_command turns that into EOFError and serve returns,
\* inside a command frame the ProtocolError leaves serve; a query raises it in
\* the command that made the query.
CoreReadsEof ==
    /\ coreAt \in CoreReading
    /\ toCore = <<>> /\ ClientEnded
    /\ coreAt' = CASE coreAt = "command" -> "returned"
                   [] coreAt \in Waiting -> "body"
                   [] OTHER              -> "raised"
    /\ UNCHANGED <<toCore, toClient, got, job, asked, registered, done, heard, clientVars>>

\* What is written to a client that has gone is lost, or the write raises.
CoreWrites(tokens) == toClient' = IF ClientEnded THEN <<>> ELSE toClient \o tokens

-----------------------------------------------------------------------------
(* The core runs a command: AngrCore.serve and the cmd_ methods. *)

\* Mutant: the response is opened when the command has been run.
DispatchLate ==
    /\ coreAt = "dispatch"
    /\ job' = got[1]
    /\ asked' = [asked EXCEPT !.now = 0]
    /\ coreAt' = "body"
    /\ UNCHANGED <<toCore, toClient, got, registered, done, heard, clientVars>>

\* begin_response, and the body of the command begins.
Dispatch ==
    /\ coreAt = "dispatch"
    /\ job' = got[1]
    /\ asked' = [asked EXCEPT !.now = 0]
    /\ coreAt' = "body"
    /\ CoreWrites(<<Tagged("response", got[1].of)>>)
    /\ UNCHANGED <<toCore, got, registered, done, heard, clientVars>>

\* begin_response, or end_response, finds the client gone.
CoreWriteFails ==
    /\ coreAt \in {"dispatch", "body"}
    /\ ClientEnded
    /\ coreAt' = "raised"
    /\ UNCHANGED <<toCore, toClient, got, job, asked, registered, done, heard, clientVars>>

\* Only decompileAt queries, and only when a program is registered: without one
\* it has no emitter and fails at once.
CoreAsks ==
    /\ coreAt = "body"
    /\ job.text = "decompileAt" /\ registered
    /\ asked.now < MaxQueries
    /\ asked' = [all |-> asked.all + 1, now |-> asked.now + 1]
    /\ coreAt' = "answer"
    /\ got' = <<>>
    /\ CoreWrites(<<Mark("query")>> \o Str(Datum("query", asked'.all)) \o <<Mark("queryEnd")>>)
    /\ UNCHANGED <<toCore, job, registered, done, heard, clientVars>>

\* The command succeeds, or fails with an exception of its own, one Ghidra
\* answered a query with or one of the stream.
MayFail == job.text \in {"registerProgram", "decompileAt", "unheardOf"}
MayPass == job.text # "unheardOf" /\ (job.text = "decompileAt" => registered)

\* Mutant: the payload of the command before is not reset.
EndResponseStale(ok) ==
    (IF job.text # "deregisterProgram"
     THEN Str(Datum("result", IF ok THEN job.of ELSE job.of - 1)) ELSE <<>>) \o
    Stream("error", "errorEnd", IF ok THEN Nothing ELSE Datum("error", job.of)) \o
    <<Mark("responseEnd")>>

\* The payload, if there is one, then an error frame that may be empty.
EndResponse(ok) ==
    (IF ok /\ job.text # "deregisterProgram" THEN Str(Datum("result", job.of)) ELSE <<>>) \o
    Stream("error", "errorEnd", IF ok THEN Nothing ELSE Datum("error", job.of)) \o
    <<Mark("responseEnd")>>

CoreFinishes ==
    /\ coreAt = "body"
    /\ \E ok \in BOOLEAN :
          /\ IF ok THEN MayPass ELSE MayFail
          /\ registered' = (registered \/ (ok /\ job.text = "registerProgram"))
          /\ CoreWrites(EndResponse(ok))
    /\ done' = done + 1
    /\ got' = <<>>
    /\ coreAt' = IF job.text = "deregisterProgram" THEN "returned" ELSE "command"
    /\ UNCHANGED <<toCore, job, asked, heard, clientVars>>

-----------------------------------------------------------------------------
(* The client: DecompClient._send_command, _read_response, _service_query. *)

ClientWrites(tokens) == toCore' = IF CoreEnded THEN <<>> ELSE toCore \o tokens

\* One of the command methods. A command whose write fails raises, like one
\* whose response never comes.
SendCommand(c) ==
    /\ clientAt = "idle"
    /\ calls < MaxCalls
    /\ calls' = calls + 1
    /\ name' = c
    /\ reply' = NoReply
    /\ clientAt' = "await"
    /\ ClientWrites(<<Mark("command")>> \o Str(Datum(c, calls')) \o
                    Str(Datum("argument", calls')) \o <<Mark("commandEnd")>>)
    /\ UNCHANGED <<toClient, coreVars, question, served, returned>>

\* _read_response up to the response: closing markers are skipped.
ReadToResponse ==
    {<<"await", code, "await">> : code \in Close} \cup {<<"await", "response", "loop">>}

\* The loop of _read_response, `current` being nothing, the main output or the
\* error text.
ReadResponse ==
    {<<"loop", "query", "query">>,
     <<"loop", "string", "mainText">>, <<"mainText", "stringEnd", "loop">>,
     <<"loop", "error", "errText">>, <<"mainText", "error", "errText">>,
     <<"errText", "errorEnd", "loop">>,
     <<"loop", "responseEnd", "idle">>}

\* _service_query up to the call of the oracle, and after its answer.
ReadQuery ==
    {<<"query", "string", "queryText">>, <<"queryText", "stringEnd", "serve">>} \cup
    {<<"queryEnd", code, "loop">> : code \in Code}

ClientTable == ReadToResponse \cup ReadResponse \cup ReadQuery
ClientReading == {row[1] : row \in ClientTable}

ClientRead ==
    /\ clientAt \in ClientReading
    /\ toClient # <<>>
    /\ LET token == Head(toClient)
           datum == token.data IN
          /\ clientAt' = After(ClientTable, clientAt, token.code)
          /\ question' = IF clientAt = "query" THEN datum ELSE question
          /\ reply' = CASE clientAt' = "loop" /\ token.code = "response" ->
                               [reply EXCEPT !.of = datum.of]
                        [] clientAt' = "mainText" -> [reply EXCEPT !.main = Append(@, datum)]
                        [] clientAt' = "errText" ->
                               [of |-> reply.of, err |-> datum,
                                main |-> IF clientAt = "mainText" THEN <<>> ELSE reply.main]
                        [] OTHER -> reply
    /\ returned' = IF clientAt' = "idle" THEN reply ELSE returned
    /\ toClient' = Tail(toClient)
    /\ UNCHANGED <<toCore, coreVars, calls, name, served>>

\* The stream has ended: the command raises a ProtocolError.
ClientReadsEof ==
    /\ clientAt \in ClientReading
    /\ toClient = <<>> /\ CoreEnded
    /\ clientAt' = "failed"
    /\ UNCHANGED <<toCore, toClient, coreVars, calls, name, question, served, reply, returned>>

\* Mutant: an exception is followed by an answer.
AnswersTwice(q) ==
    LET answer == <<Tagged("answer", q), Mark("answerEnd")>> IN
    {answer, <<Tagged("exception", q)>> \o Str(Datum("reason", q)) \o
             Str(Datum("reason", q)) \o <<Mark("exceptionEnd")>> \o answer}

\* The oracle's answer, empty or not, or its exception; the query's terminator
\* is read only then.
Answers(q) ==
    {<<Tagged("answer", q)>> \o body \o <<Mark("answerEnd")>> :
        body \in {<<>>, Str(Datum("value", q)),
                  Stream("bytes", "bytesEnd", Datum("value", q))}}
    \cup {<<Tagged("exception", q)>> \o Str(Datum("reason", q)) \o
            Str(Datum("reason", q)) \o <<Mark("exceptionEnd")>>}

Serve ==
    /\ clientAt = "serve"
    /\ \E tokens \in Answers(question.of) : ClientWrites(tokens)
    /\ served' = served + 1
    /\ clientAt' = "queryEnd"
    /\ UNCHANGED <<toClient, coreVars, calls, name, question, reply, returned>>

-----------------------------------------------------------------------------
(* Ends that hang up or die. What the other end has not read yet may have been *)
(* written only in part. *)

Cut(stream, part) == part \in {SubSeq(stream, 1, n) : n \in 0..Len(stream)}

\* Between two commands, close() drops the streams; inside one, Ghidra dies.
ClientGoes ==
    /\ ~ClientEnded
    /\ clientAt \in {"idle", "failed"} \/ Breaks
    /\ clientAt' = "gone"
    /\ IF clientAt \in {"idle", "failed"} THEN UNCHANGED toCore ELSE Cut(toCore, toCore')
    /\ toClient' = <<>>
    /\ UNCHANGED <<coreVars, calls, name, question, served, reply, returned>>

\* The process of the core is killed.
CoreGoes ==
    /\ Breaks
    /\ ~CoreEnded
    /\ coreAt' = "killed"
    /\ Cut(toClient, toClient')
    /\ toCore' = <<>>
    /\ UNCHANGED <<got, job, asked, registered, done, heard, clientVars>>

-----------------------------------------------------------------------------
CoreStep ==
    CoreRead \/ CoreReadsEof \/ Dispatch \/ CoreWriteFails \/ CoreAsks \/ CoreFinishes

ClientStep == ClientRead \/ ClientReadsEof \/ Serve

Over == CoreEnded /\ ClientEnded /\ UNCHANGED vars

Next ==
    \/ CoreStep
    \/ ClientStep
    \/ \E c \in Command : SendCommand(c)
    \/ ClientGoes
    \/ CoreGoes
    \/ Over

\* Each end is a program that reads when there is something to read; angr
\* returns from every analysis and the oracle from every query. Nothing obliges
\* Ghidra to send a command, to close the session, or either end to die.
Fairness == WF_vars(CoreStep) /\ WF_vars(ClientStep)

Spec == Init /\ [][Next]_vars
FairSpec == Spec /\ Fairness

-----------------------------------------------------------------------------
(* Properties *)

CoreAt   == CoreReading \cup {"dispatch", "body", "returned", "raised", "killed", Misaligned}
ClientAt == ClientReading \cup {"idle", "serve", "failed", "gone", Misaligned}
Reply == [of : 0..MaxCalls, main : Seq(Data), err : Data]

TypeOK ==
    /\ toCore \in Seq(Token) /\ toClient \in Seq(Token)
    /\ coreAt \in CoreAt /\ got \in Seq(Data) /\ job \in Data
    /\ asked \in [all : Nat, now : 0..MaxQueries]
    /\ registered \in BOOLEAN /\ done \in 0..calls /\ heard \in 0..asked.all
    /\ clientAt \in ClientAt /\ calls \in 0..MaxCalls /\ name \in Command \cup {""}
    /\ question \in Data /\ served \in 0..asked.all
    /\ reply \in Reply /\ returned \in Reply

\* No end ever reads a marker it does not expect: queries nested in a response,
\* exceptions for answers, errors for results and streams cut off anywhere all
\* leave the two ends in step ("the frame is fully consumed, so the transport
\* stays usable", AngrCore._get_bytes).
Aligned == coreAt # Misaligned /\ clientAt # Misaligned

\* When a command has returned to its caller nothing of it is left in the
\* streams, and the core is waiting for the next command or has ended.
NothingLeftOver ==
    clientAt = "idle" /\ ~CoreEnded => coreAt = "command" /\ toCore = <<>> /\ toClient = <<>>

\* A command returns what the core made of that command: its result or else its
\* error (deregisterProgram: neither), never both and never another's.
ReturnsOwnOutcome ==
    clientAt = "idle" /\ calls > 0 =>
        \/ returned.main = <<Datum("result", calls)>> /\ returned.err = Nothing
        \/ returned.main = <<>> /\ returned.err = Datum("error", calls)
        \/ name = "deregisterProgram" /\ returned.main = <<>> /\ returned.err = Nothing

\* Every command returns or fails, and a core whose client has gone ends: no
\* end waits for ever, wherever the other was when it hung up or died.
EveryCallEnds == clientAt = "await" ~> clientAt \in {"idle", "failed", "gone"}
CoreEndsWithClient == ClientEnded ~> CoreEnded

\* The session implements the calls of RemoteCall.
Phase ==
    IF done = calls THEN IF clientAt = "idle" THEN "idle" ELSE "finished"
    ELSE CASE coreAt \in Waiting -> IF served = asked.all THEN "told" ELSE "asking"
           [] coreAt = "body"    -> "running"
           [] OTHER              -> "called"

Up == ~CoreEnded \/ (coreAt = "returned" /\ name = "deregisterProgram")

Line ==
    IF Up /\ clientAt \notin {"failed", "gone"}
    THEN [phase |-> Phase, call |-> calls, query |-> asked.all, heard |-> heard,
          result |-> returned.of]
    ELSE [phase |-> "broken"]

Calls == INSTANCE RemoteCall WITH line <- Line
ImplementsCalls == Calls!CallSpec
=============================================================================
