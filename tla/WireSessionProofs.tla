------------------------- MODULE WireSessionProofs --------------------------
(***************************************************************************)
(* Proofs about WireSession, for any number of commands and queries and    *)
(* with or without ends that break: the two ends stay in step, every       *)
(* command returns its own outcome, and the session implements the calls   *)
(* of RemoteCall.                                                          *)
(*                                                                         *)
(* What is in a stream is described by what reading it does: a path leads  *)
(* from the reader's state now, over the tokens it has still to read, to   *)
(* the state it is in when it has read them all. Writing a message         *)
(* prolongs the path of its reader, reading a token shortens it, and a     *)
(* stream that is cut off has an initial part of it.                       *)
(***************************************************************************)
EXTENDS WireSession, SequenceTheorems, TLAPS

-----------------------------------------------------------------------------
(* Readers and their paths *)

\* The part of an end's state that reading changes.
CoreState   == [at |-> coreAt, got |-> got, heard |-> heard]
ClientState == [at |-> clientAt, question |-> question, reply |-> reply,
                returned |-> returned]

\* What CoreRead and ClientRead make of one token.
CoreTakes(state, token) ==
    LET to == After(CoreTable, state.at, token.code) IN
    [at    |-> to,
     got   |-> IF token.code \in {"answer", "exception", "string", "bytes"}
               THEN Append(state.got, token.data) ELSE state.got,
     heard |-> IF state.at \in Waiting /\ to = "body" THEN state.got[1].of
               ELSE state.heard]

ClientTakes(state, token) ==
    LET to == After(ClientTable, state.at, token.code) IN
    [at       |-> to,
     question |-> IF state.at = "query" THEN token.data ELSE state.question,
     reply    |-> CASE to = "loop" /\ token.code = "response" ->
                           [state.reply EXCEPT !.of = token.data.of]
                    [] to = "mainText" ->
                           [state.reply EXCEPT !.main = Append(@, token.data)]
                    [] to = "errText" ->
                           [of |-> state.reply.of, err |-> token.data,
                            main |-> IF state.at = "mainText" THEN <<>>
                                     ELSE state.reply.main]
                    [] OTHER -> state.reply,
     returned |-> IF to = "idle" THEN state.reply ELSE state.returned]

Takes(end, state, token) ==
    IF end = "core" THEN CoreTakes(state, token) ELSE ClientTakes(state, token)

Reading(end) == IF end = "core" THEN CoreReading ELSE ClientReading

\* The reader that is in `state` reads all of `stream` and is then in `goal`.
Path(end, state, stream, goal) ==
    /\ stream \in Seq(Token)
    /\ \E p : /\ p[0] = state /\ p[Len(stream)] = goal
              /\ \A i \in 1..Len(stream) : /\ p[i - 1].at \in Reading(end)
                                           /\ p[i] = Takes(end, p[i - 1], stream[i])

LEMMA PathEmpty ==
    ASSUME NEW end, NEW s, NEW g
    PROVE  Path(end, s, <<>>, g) <=> s = g
<1>1. Len(<<>>) = 0 /\ <<>> \in Seq(Token)
  OBVIOUS
<1>2. ASSUME s = g PROVE Path(end, s, <<>>, g)
  <2> DEFINE p == [i \in {0} |-> s]
  <2>1. p[0] = s /\ p[Len(<<>>)] = g /\ 1..Len(<<>>) = {}
    BY <1>1, <1>2
  <2> QED BY <1>1, <2>1 DEF Path
<1>3. ASSUME Path(end, s, <<>>, g) PROVE s = g
  BY <1>1, <1>3 DEF Path
<1> QED BY <1>2, <1>3

LEMMA PathOne ==
    ASSUME NEW end, NEW s, NEW t \in Token, s.at \in Reading(end)
    PROVE  Path(end, s, <<t>>, Takes(end, s, t))
<1> DEFINE p == [i \in {0, 1} |-> IF i = 0 THEN s ELSE Takes(end, s, t)]
<1>1. <<t>> \in Seq(Token) /\ Len(<<t>>) = 1 /\ <<t>>[1] = t
  OBVIOUS
<1>2. p[0] = s /\ p[1] = Takes(end, s, t)
  OBVIOUS
<1> HIDE DEF p
<1>3. \A i \in 1..Len(<<t>>) : p[i - 1].at \in Reading(end)
                               /\ p[i] = Takes(end, p[i - 1], <<t>>[i])
  BY <1>1, <1>2
<1> QED BY <1>1, <1>2, <1>3 DEF Path

LEMMA PathAppend ==
    ASSUME NEW end, NEW s, NEW g, NEW h, NEW v, NEW w,
           Path(end, s, v, g), Path(end, g, w, h)
    PROVE  Path(end, s, v \o w, h)
<1>1. PICK p : /\ p[0] = s /\ p[Len(v)] = g
               /\ \A i \in 1..Len(v) : p[i - 1].at \in Reading(end)
                                       /\ p[i] = Takes(end, p[i - 1], v[i])
  BY DEF Path
<1>2. PICK q : /\ q[0] = g /\ q[Len(w)] = h
               /\ \A i \in 1..Len(w) : q[i - 1].at \in Reading(end)
                                       /\ q[i] = Takes(end, q[i - 1], w[i])
  BY DEF Path
<1>3. v \in Seq(Token) /\ w \in Seq(Token)
  BY DEF Path
<1>4. /\ v \o w \in Seq(Token) /\ Len(v) \in Nat /\ Len(w) \in Nat
      /\ Len(v \o w) = Len(v) + Len(w)
      /\ \A i \in 1..(Len(v) + Len(w)) :
            (v \o w)[i] = IF i <= Len(v) THEN v[i] ELSE w[i - Len(v)]
  BY <1>3, ConcatProperties, LenProperties
<1> DEFINE r == [i \in 0..(Len(v) + Len(w)) |->
                    IF i <= Len(v) THEN p[i] ELSE q[i - Len(v)]]
<1>5. r[0] = s /\ r[Len(v) + Len(w)] = h
  BY <1>1, <1>2, <1>4
<1>6. ASSUME NEW i \in 1..(Len(v) + Len(w))
      PROVE  /\ r[i - 1].at \in Reading(end)
             /\ r[i] = Takes(end, r[i - 1], (v \o w)[i])
  <2>1. CASE i <= Len(v)
    <3>1. r[i - 1] = p[i - 1] /\ r[i] = p[i] /\ (v \o w)[i] = v[i] /\ i \in 1..Len(v)
      BY <1>4, <2>1
    <3> QED BY <1>1, <3>1
  <2>2. CASE i > Len(v)
    <3>1. /\ r[i - 1] = q[i - Len(v) - 1] /\ r[i] = q[i - Len(v)]
          /\ (v \o w)[i] = w[i - Len(v)] /\ i - Len(v) \in 1..Len(w)
      <4>1. r[i] = q[i - Len(v)] /\ i - Len(v) \in 1..Len(w)
        BY <1>4, <2>2
      <4>2. (v \o w)[i] = w[i - Len(v)]
        BY <1>4, <2>2
      <4>3. r[i - 1] = q[i - Len(v) - 1]
        <5>1. CASE i - 1 = Len(v)
          <6>1. r[i - 1] = p[Len(v)] /\ i - Len(v) - 1 = 0
            BY <1>4, <5>1
          <6> QED BY <1>1, <1>2, <6>1
        <5>2. CASE i - 1 > Len(v)
          <6>1. i - 1 \in 0..(Len(v) + Len(w)) /\ i - 1 - Len(v) = i - Len(v) - 1
            BY <1>4
          <6> QED BY <1>4, <5>2, <6>1
        <5> QED BY <1>4, <2>2, <5>1, <5>2
      <4> QED BY <4>1, <4>2, <4>3
    <3> HIDE DEF r
    <3> QED BY <1>2, <3>1
  <2> QED BY <1>4, <2>1, <2>2
<1> HIDE DEF r
<1> QED BY <1>4, <1>5, <1>6 DEF Path

\* Reading the first token.
LEMMA PathRead ==
    ASSUME NEW end, NEW s, NEW g, NEW w, Path(end, s, w, g), w # <<>>
    PROVE  /\ s.at \in Reading(end)
           /\ Path(end, Takes(end, s, Head(w)), Tail(w), g)
<1>1. PICK p : /\ p[0] = s /\ p[Len(w)] = g
               /\ \A i \in 1..Len(w) : p[i - 1].at \in Reading(end)
                                       /\ p[i] = Takes(end, p[i - 1], w[i])
  BY DEF Path
<1>2. w \in Seq(Token)
  BY DEF Path
<1>3. /\ Len(w) \in Nat \ {0} /\ Tail(w) \in Seq(Token) /\ Len(Tail(w)) = Len(w) - 1
      /\ \A i \in 1..Len(Tail(w)) : Tail(w)[i] = w[i + 1]
  BY <1>2, HeadTailProperties, EmptySeq
<1>4. Head(w) = w[1]
  BY <1>2
<1> DEFINE q == [i \in 0..Len(Tail(w)) |-> p[i + 1]]
<1>5. p[0].at \in Reading(end) /\ p[1] = Takes(end, p[0], w[1])
  BY <1>1, <1>3
<1>6. q[0] = Takes(end, s, Head(w)) /\ q[Len(Tail(w))] = g
  BY <1>1, <1>3, <1>4, <1>5
<1>7. ASSUME NEW i \in 1..Len(Tail(w))
      PROVE  q[i - 1].at \in Reading(end) /\ q[i] = Takes(end, q[i - 1], Tail(w)[i])
  <2>1. q[i - 1] = p[i] /\ q[i] = p[i + 1] /\ Tail(w)[i] = w[i + 1] /\ i + 1 \in 1..Len(w)
    BY <1>3
  <2>2. p[(i + 1) - 1].at \in Reading(end) /\ p[i + 1] = Takes(end, p[(i + 1) - 1], w[i + 1])
    BY <1>1, <2>1
  <2>3. (i + 1) - 1 = i
    OBVIOUS
  <2> HIDE DEF q
  <2> QED BY <2>1, <2>2, <2>3
<1> HIDE DEF q
<1>8. Path(end, Takes(end, s, Head(w)), Tail(w), g)
  BY <1>3, <1>6, <1>7 DEF Path
<1> QED BY <1>1, <1>5, <1>8

\* A reader that does not read is at its goal.
LEMMA PathStops ==
    ASSUME NEW end, NEW s, NEW g, NEW w, Path(end, s, w, g), s.at \notin Reading(end)
    PROVE  w = <<>> /\ s = g
<1>1. w = <<>>
  BY PathRead
<1> QED BY <1>1, PathEmpty

\* A stream cut off leads to the goal or to a place where the reader waits.
LEMMA PathCut ==
    ASSUME NEW end, NEW s, NEW g, NEW w, NEW n \in 0..Len(w), Path(end, s, w, g)
    PROVE  \E h : /\ Path(end, s, SubSeq(w, 1, n), h)
                  /\ h = g \/ h.at \in Reading(end)
<1>1. PICK p : /\ p[0] = s /\ p[Len(w)] = g
               /\ \A i \in 1..Len(w) : p[i - 1].at \in Reading(end)
                                       /\ p[i] = Takes(end, p[i - 1], w[i])
  BY DEF Path
<1>2. w \in Seq(Token)
  BY DEF Path
<1>3. Len(w) \in Nat /\ n \in Nat /\ n <= Len(w)
  BY <1>2, LenProperties
<1> DEFINE v == SubSeq(w, 1, n)
<1>4. v \in Seq(Token) /\ Len(v) = n /\ \A i \in 1..n : v[i] = w[i]
  <2>1. \A i \in 1..n : w[i] \in Token
    BY <1>2, <1>3, ElementOfSeq
  <2>2. /\ v \in Seq(Token) /\ Len(v) = (IF 1 <= n THEN n - 1 + 1 ELSE 0)
        /\ \A i \in 1..(n - 1 + 1) : v[i] = w[1 + i - 1]
    BY <1>3, <2>1, SubSeqProperties
  <2> HIDE DEF v
  <2> QED BY <1>3, <2>2
<1> HIDE DEF v
<1>5. Path(end, s, v, p[n])
  <2>1. \A i \in 1..Len(v) : p[i - 1].at \in Reading(end)
                             /\ p[i] = Takes(end, p[i - 1], v[i])
    BY <1>1, <1>3, <1>4
  <2> QED BY <1>1, <1>4, <2>1 DEF Path
<1>6. p[n] = g \/ p[n].at \in Reading(end)
  <2>1. CASE n = Len(w)
    BY <1>1, <2>1
  <2>2. CASE n < Len(w)
    <3>1. n + 1 \in 1..Len(w) /\ (n + 1) - 1 = n
      BY <1>3, <2>2
    <3> QED BY <1>1, <3>1
  <2> QED BY <1>3, <2>1, <2>2
<1> QED BY <1>5, <1>6 DEF v

-----------------------------------------------------------------------------
(* The tables *)

LEMMA AfterRow ==
    ASSUME NEW table, NEW a, NEW c, NEW to, <<a, c, to>> \in table,
           \A row \in table : row[1] = a /\ row[2] = c => row[3] = to
    PROVE  After(table, a, c) = to
<1>1. \E there \in {row[3] : row \in table} : <<a, c, there>> \in table
  <2>1. <<a, c, to>>[3] = to
    OBVIOUS
  <2> QED BY <2>1
<1>2. \E row \in table : row[1] = a /\ row[2] = c
  <2>1. <<a, c, to>>[1] = a /\ <<a, c, to>>[2] = c
    OBVIOUS
  <2> QED BY <2>1
<1> DEFINE found == CHOOSE row \in table : row[1] = a /\ row[2] = c
<1>3. found \in table /\ found[1] = a /\ found[2] = c
  BY <1>2
<1>4. found[3] = to
  BY <1>3
<1> QED BY <1>1, <1>4 DEF After

LEMMA CorePlaces ==
    /\ CoreReading = {"command", "param", "paramText"} \cup Waiting
    /\ Waiting = {"answer", "answerBody", "answerText", "answerBytes", "answerEnd",
                  "reason", "reasonText", "message", "messageText", "reasonEnd"}
<1>1. "stringEnd" \in Code
  BY DEF Code, Close
<1>2. ASSUME NEW row \in ReadAnswer \cup ReadException
      PROVE  row[1] \in {"answer", "answerBody", "answerText", "answerBytes", "answerEnd",
                         "reason", "reasonText", "message", "messageText", "reasonEnd"}
  BY <1>2 DEF ReadAnswer, ReadException
<1>3. ASSUME NEW x \in {"answer", "answerBody", "answerText", "answerBytes", "answerEnd",
                         "reason", "reasonText", "message", "messageText", "reasonEnd"}
      PROVE  \E row \in ReadAnswer \cup ReadException : row[1] = x
  <2>1. /\ <<"answer", "answer", "answerBody">> \in ReadAnswer
        /\ <<"answerBody", "answerEnd", "body">> \in ReadAnswer
        /\ <<"answerText", "stringEnd", "answerEnd">> \in ReadAnswer
        /\ <<"answerBytes", "bytesEnd", "answerEnd">> \in ReadAnswer
        /\ <<"answerEnd", "answerEnd", "body">> \in ReadAnswer
    BY DEF ReadAnswer
  <2>2. /\ <<"reason", "string", "reasonText">> \in ReadException
        /\ <<"message", "string", "messageText">> \in ReadException
        /\ <<"reasonText", "stringEnd", "message">> \in ReadException
        /\ <<"messageText", "stringEnd", "reasonEnd">> \in ReadException
        /\ <<"reasonEnd", "stringEnd", "body">> \in ReadException
    BY <1>1 DEF ReadException
  <2>3. \A a, b, c : <<a, b, c>>[1] = a
    OBVIOUS
  <2> QED BY <1>3, <2>1, <2>2, <2>3
<1>4. Waiting = {"answer", "answerBody", "answerText", "answerBytes", "answerEnd",
                 "reason", "reasonText", "message", "messageText", "reasonEnd"}
  BY <1>2, <1>3 DEF Waiting
<1>5. {row[1] : row \in ReadCommand} = {"command", "param", "paramText"}
  BY DEF ReadCommand
<1>6. CoreReading = {row[1] : row \in ReadCommand} \cup Waiting
  BY DEF CoreReading, CoreTable, Waiting
<1> QED BY <1>4, <1>5, <1>6

LEMMA ClientPlaces ==
    ClientReading = {"await", "loop", "query", "queryText", "mainText", "errText", "queryEnd"}
<1>1. "stringEnd" \in Code
  BY DEF Code, Close
<1>2. ASSUME NEW row \in ClientTable
      PROVE  row[1] \in {"await", "loop", "query", "queryText", "mainText", "errText", "queryEnd"}
  BY DEF ClientTable, ReadToResponse, ReadResponse, ReadQuery
<1>3. ASSUME NEW x \in {"await", "loop", "query", "queryText", "mainText", "errText", "queryEnd"}
      PROVE  \E row \in ClientTable : row[1] = x
  <2>1. /\ <<"await", "response", "loop">> \in ReadToResponse
        /\ <<"loop", "query", "query">> \in ReadResponse
        /\ <<"mainText", "stringEnd", "loop">> \in ReadResponse
        /\ <<"errText", "errorEnd", "loop">> \in ReadResponse
        /\ <<"query", "string", "queryText">> \in ReadQuery
        /\ <<"queryText", "stringEnd", "serve">> \in ReadQuery
        /\ <<"queryEnd", "stringEnd", "loop">> \in ReadQuery
    BY <1>1 DEF ReadToResponse, ReadResponse, ReadQuery
  <2>2. \A a, b, c : <<a, b, c>>[1] = a
    OBVIOUS
  <2> QED BY <1>3, <2>1, <2>2 DEF ClientTable
<1> QED BY <1>2, <1>3 DEF ClientReading

\* What each table says of the markers that the other end writes there.
LEMMA CoreAfter ==
    /\ After(CoreTable, "command", "command") = "param"
    /\ After(CoreTable, "param", "string") = "paramText"
    /\ After(CoreTable, "paramText", "stringEnd") = "param"
    /\ After(CoreTable, "param", "commandEnd") = "dispatch"
    /\ After(CoreTable, "answer", "answer") = "answerBody"
    /\ After(CoreTable, "answerBody", "answerEnd") = "body"
    /\ After(CoreTable, "answerBody", "string") = "answerText"
    /\ After(CoreTable, "answerText", "stringEnd") = "answerEnd"
    /\ After(CoreTable, "answerBody", "bytes") = "answerBytes"
    /\ After(CoreTable, "answerBytes", "bytesEnd") = "answerEnd"
    /\ After(CoreTable, "answerEnd", "answerEnd") = "body"
    /\ After(CoreTable, "answer", "exception") = "reason"
    /\ After(CoreTable, "reason", "string") = "reasonText"
    /\ After(CoreTable, "reasonText", "stringEnd") = "message"
    /\ After(CoreTable, "message", "string") = "messageText"
    /\ After(CoreTable, "messageText", "stringEnd") = "reasonEnd"
    /\ After(CoreTable, "reasonEnd", "exceptionEnd") = "body"
<1>1. "stringEnd" \in Code /\ "exceptionEnd" \in Code
  BY DEF Code, Close
<1>2. /\ <<"command", "command", "param">> \in CoreTable
      /\ <<"param", "string", "paramText">> \in CoreTable
      /\ <<"paramText", "stringEnd", "param">> \in CoreTable
      /\ <<"param", "commandEnd", "dispatch">> \in CoreTable
  BY DEF CoreTable, ReadCommand
<1>3. /\ <<"answer", "answer", "answerBody">> \in CoreTable
      /\ <<"answerBody", "answerEnd", "body">> \in CoreTable
      /\ <<"answerBody", "string", "answerText">> \in CoreTable
      /\ <<"answerText", "stringEnd", "answerEnd">> \in CoreTable
      /\ <<"answerBody", "bytes", "answerBytes">> \in CoreTable
      /\ <<"answerBytes", "bytesEnd", "answerEnd">> \in CoreTable
      /\ <<"answerEnd", "answerEnd", "body">> \in CoreTable
      /\ <<"answer", "exception", "reason">> \in CoreTable
  BY DEF CoreTable, ReadAnswer
<1>4. /\ <<"reason", "string", "reasonText">> \in CoreTable
      /\ <<"reasonText", "stringEnd", "message">> \in CoreTable
      /\ <<"message", "string", "messageText">> \in CoreTable
      /\ <<"messageText", "stringEnd", "reasonEnd">> \in CoreTable
      /\ <<"reasonEnd", "exceptionEnd", "body">> \in CoreTable
  BY <1>1 DEF CoreTable, ReadException
<1>5. ASSUME NEW row \in ReadCommand
      PROVE  /\ row[1] \in {"command", "param", "paramText"}
             /\ row[1] = "command" => row[3] = "param"
             /\ row[1] = "param" /\ row[2] = "string" => row[3] = "paramText"
             /\ row[1] = "param" /\ row[2] = "commandEnd" => row[3] = "dispatch"
             /\ row[1] = "paramText" => row[3] = "param"
  BY DEF ReadCommand
<1>6. ASSUME NEW row \in ReadAnswer
      PROVE  /\ row[1] \in {"answer", "answerBody", "answerText", "answerBytes", "answerEnd"}
             /\ row[1] = "answer" /\ row[2] = "answer" => row[3] = "answerBody"
             /\ row[1] = "answer" /\ row[2] = "exception" => row[3] = "reason"
             /\ row[1] = "answerBody" /\ row[2] = "answerEnd" => row[3] = "body"
             /\ row[1] = "answerBody" /\ row[2] = "string" => row[3] = "answerText"
             /\ row[1] = "answerBody" /\ row[2] = "bytes" => row[3] = "answerBytes"
             /\ row[1] \in {"answerText", "answerBytes"} => row[3] = "answerEnd"
             /\ row[1] = "answerEnd" => row[3] = "body"
  BY DEF ReadAnswer
<1>7. ASSUME NEW row \in ReadException
      PROVE  /\ row[1] \in {"reason", "reasonText", "message", "messageText", "reasonEnd"}
             /\ row[1] = "reason" /\ row[2] = "string" => row[3] = "reasonText"
             /\ row[1] = "message" /\ row[2] = "string" => row[3] = "messageText"
             /\ row[1] = "reasonText" => row[3] = "message"
             /\ row[1] = "messageText" => row[3] = "reasonEnd"
             /\ row[1] = "reasonEnd" => row[3] = "body"
  BY DEF ReadException
<1>8. ASSUME NEW row \in CoreTable
      PROVE  row \in ReadCommand \/ row \in ReadAnswer \/ row \in ReadException
  BY DEF CoreTable
<1>9. ASSUME NEW a \in {"command", "param", "paramText"}, NEW c, NEW to,
             <<a, c, to>> \in CoreTable,
             \A row \in ReadCommand : row[1] = a /\ row[2] = c => row[3] = to
      PROVE  After(CoreTable, a, c) = to
  <2>1. \A row \in CoreTable : row[1] = a /\ row[2] = c => row[3] = to
    BY <1>6, <1>7, <1>8, <1>9
  <2> QED BY <1>9, <2>1, AfterRow
<1>10. ASSUME NEW a \in {"answer", "answerBody", "answerText", "answerBytes", "answerEnd"},
              NEW c, NEW to, <<a, c, to>> \in CoreTable,
              \A row \in ReadAnswer : row[1] = a /\ row[2] = c => row[3] = to
       PROVE  After(CoreTable, a, c) = to
  <2>1. \A row \in CoreTable : row[1] = a /\ row[2] = c => row[3] = to
    BY <1>5, <1>7, <1>8, <1>10
  <2> QED BY <1>10, <2>1, AfterRow
<1>11. ASSUME NEW a \in {"reason", "reasonText", "message", "messageText", "reasonEnd"},
              NEW c, NEW to, <<a, c, to>> \in CoreTable,
              \A row \in ReadException : row[1] = a /\ row[2] = c => row[3] = to
       PROVE  After(CoreTable, a, c) = to
  <2>1. \A row \in CoreTable : row[1] = a /\ row[2] = c => row[3] = to
    BY <1>5, <1>6, <1>8, <1>11
  <2> QED BY <1>11, <2>1, AfterRow
<1>12. /\ After(CoreTable, "command", "command") = "param"
       /\ After(CoreTable, "param", "string") = "paramText"
       /\ After(CoreTable, "paramText", "stringEnd") = "param"
       /\ After(CoreTable, "param", "commandEnd") = "dispatch"
  BY <1>2, <1>5, <1>9
<1>13. /\ After(CoreTable, "answer", "answer") = "answerBody"
       /\ After(CoreTable, "answerBody", "answerEnd") = "body"
       /\ After(CoreTable, "answerBody", "string") = "answerText"
       /\ After(CoreTable, "answerText", "stringEnd") = "answerEnd"
       /\ After(CoreTable, "answerBody", "bytes") = "answerBytes"
       /\ After(CoreTable, "answerBytes", "bytesEnd") = "answerEnd"
       /\ After(CoreTable, "answerEnd", "answerEnd") = "body"
       /\ After(CoreTable, "answer", "exception") = "reason"
  BY <1>3, <1>6, <1>10
<1>14. /\ After(CoreTable, "reason", "string") = "reasonText"
       /\ After(CoreTable, "reasonText", "stringEnd") = "message"
       /\ After(CoreTable, "message", "string") = "messageText"
       /\ After(CoreTable, "messageText", "stringEnd") = "reasonEnd"
       /\ After(CoreTable, "reasonEnd", "exceptionEnd") = "body"
  BY <1>4, <1>7, <1>11
<1> QED BY <1>12, <1>13, <1>14

LEMMA ClientAfter ==
    /\ After(ClientTable, "await", "response") = "loop"
    /\ After(ClientTable, "loop", "query") = "query"
    /\ After(ClientTable, "loop", "string") = "mainText"
    /\ After(ClientTable, "loop", "error") = "errText"
    /\ After(ClientTable, "loop", "responseEnd") = "idle"
    /\ After(ClientTable, "mainText", "stringEnd") = "loop"
    /\ After(ClientTable, "errText", "errorEnd") = "loop"
    /\ After(ClientTable, "query", "string") = "queryText"
    /\ After(ClientTable, "queryText", "stringEnd") = "serve"
    /\ After(ClientTable, "queryEnd", "queryEnd") = "loop"
<1>1. "queryEnd" \in Code /\ "response" \notin Close
  BY DEF Code, Open, Close
<1>2. ASSUME NEW row \in ReadToResponse
      PROVE  row[1] = "await" /\ (row[2] = "response" => row[3] = "loop")
  BY <1>1 DEF ReadToResponse
<1>3. ASSUME NEW row \in ReadResponse
      PROVE  /\ row[1] \in {"loop", "mainText", "errText"}
             /\ row[1] = "loop" /\ row[2] = "query" => row[3] = "query"
             /\ row[1] = "loop" /\ row[2] = "string" => row[3] = "mainText"
             /\ row[1] = "loop" /\ row[2] = "error" => row[3] = "errText"
             /\ row[1] = "loop" /\ row[2] = "responseEnd" => row[3] = "idle"
             /\ row[1] = "mainText" /\ row[2] = "stringEnd" => row[3] = "loop"
             /\ row[1] = "errText" => row[3] = "loop"
  BY DEF ReadResponse
<1>4. ASSUME NEW row \in ReadQuery
      PROVE  /\ row[1] \in {"query", "queryText", "queryEnd"}
             /\ row[1] = "query" => row[3] = "queryText"
             /\ row[1] = "queryText" => row[3] = "serve"
             /\ row[1] = "queryEnd" => row[3] = "loop"
  BY DEF ReadQuery
<1>5. ASSUME NEW row \in ClientTable
      PROVE  row \in ReadToResponse \/ row \in ReadResponse \/ row \in ReadQuery
  BY DEF ClientTable
<1>6. <<"await", "response", "loop">> \in ClientTable
  BY DEF ClientTable, ReadToResponse
<1>7. /\ <<"loop", "query", "query">> \in ClientTable
      /\ <<"loop", "string", "mainText">> \in ClientTable
      /\ <<"loop", "error", "errText">> \in ClientTable
      /\ <<"loop", "responseEnd", "idle">> \in ClientTable
      /\ <<"mainText", "stringEnd", "loop">> \in ClientTable
      /\ <<"errText", "errorEnd", "loop">> \in ClientTable
  BY DEF ClientTable, ReadResponse
<1>8. /\ <<"query", "string", "queryText">> \in ClientTable
      /\ <<"queryText", "stringEnd", "serve">> \in ClientTable
      /\ <<"queryEnd", "queryEnd", "loop">> \in ClientTable
  BY <1>1 DEF ClientTable, ReadQuery
<1>9. ASSUME NEW a \in {"loop", "mainText", "errText"}, NEW c, NEW to,
             <<a, c, to>> \in ClientTable,
             \A row \in ReadResponse : row[1] = a /\ row[2] = c => row[3] = to
      PROVE  After(ClientTable, a, c) = to
  <2>1. \A row \in ClientTable : row[1] = a /\ row[2] = c => row[3] = to
    BY <1>2, <1>4, <1>5, <1>9
  <2> QED BY <1>9, <2>1, AfterRow
<1>10. ASSUME NEW a \in {"query", "queryText", "queryEnd"}, NEW c, NEW to,
              <<a, c, to>> \in ClientTable,
              \A row \in ReadQuery : row[1] = a /\ row[2] = c => row[3] = to
       PROVE  After(ClientTable, a, c) = to
  <2>1. \A row \in ClientTable : row[1] = a /\ row[2] = c => row[3] = to
    BY <1>2, <1>3, <1>5, <1>10
  <2> QED BY <1>10, <2>1, AfterRow
<1>11. After(ClientTable, "await", "response") = "loop"
  <2>1. \A row \in ClientTable : row[1] = "await" /\ row[2] = "response" => row[3] = "loop"
    BY <1>2, <1>3, <1>4, <1>5
  <2> QED BY <1>6, <2>1, AfterRow
<1>12. /\ After(ClientTable, "loop", "query") = "query"
       /\ After(ClientTable, "loop", "string") = "mainText"
       /\ After(ClientTable, "loop", "error") = "errText"
       /\ After(ClientTable, "loop", "responseEnd") = "idle"
       /\ After(ClientTable, "mainText", "stringEnd") = "loop"
       /\ After(ClientTable, "errText", "errorEnd") = "loop"
  BY <1>3, <1>7, <1>9
<1>13. /\ After(ClientTable, "query", "string") = "queryText"
       /\ After(ClientTable, "queryText", "stringEnd") = "serve"
       /\ After(ClientTable, "queryEnd", "queryEnd") = "loop"
  BY <1>4, <1>8, <1>10
<1> QED BY <1>11, <1>12, <1>13

\* A query is read in Waiting until it is answered, and nothing else is.
LEMMA CoreStays ==
    ASSUME NEW a, NEW c
    PROVE  /\ a \in Waiting => After(CoreTable, a, c) \in Waiting \cup {"body", Misaligned}
           /\ a \notin Waiting => After(CoreTable, a, c) \notin Waiting \cup {"body"}
<1> DEFINE found == CHOOSE row \in CoreTable : row[1] = a /\ row[2] = c
<1>1. \/ After(CoreTable, a, c) = Misaligned
      \/ (found \in CoreTable /\ found[1] = a /\ After(CoreTable, a, c) = found[3])
  <2>1. CASE \E to \in {row[3] : row \in CoreTable} : <<a, c, to>> \in CoreTable
    <3>1. \A to : <<a, c, to>>[1] = a /\ <<a, c, to>>[2] = c
      OBVIOUS
    <3>2. \E row \in CoreTable : row[1] = a /\ row[2] = c
      BY <2>1, <3>1
    <3>3. found \in CoreTable /\ found[1] = a
      BY <3>2
    <3>4. After(CoreTable, a, c) = found[3]
      BY <2>1 DEF After
    <3> QED BY <3>3, <3>4
  <2> QED BY <2>1 DEF After
<1> HIDE DEF found
<1>2. ASSUME NEW row \in ReadCommand
      PROVE  row[1] \in {"command", "param", "paramText"}
             /\ row[3] \in {"param", "paramText", "dispatch"}
  BY DEF ReadCommand
<1>3. ASSUME NEW row \in ReadAnswer \cup ReadException
      PROVE  row[1] \in Waiting /\ row[3] \in Waiting \cup {"body"}
  <2>1. row[1] \in Waiting
    BY DEF Waiting
  <2>2. row[3] \in Waiting \cup {"body"}
    BY CorePlaces DEF ReadAnswer, ReadException
  <2> QED BY <2>1, <2>2
<1>4. found \in CoreTable => found \in ReadCommand \/ found \in ReadAnswer \cup ReadException
  BY DEF CoreTable
<1> QED BY <1>1, <1>2, <1>3, <1>4, CorePlaces DEF Misaligned

-----------------------------------------------------------------------------
(* What the messages do to their readers *)

LEMMA Tokens ==
    /\ \A code \in Code : Mark(code) \in Token /\ Mark(code).code = code
                          /\ Mark(code).data = Nothing
    /\ \A code \in Code, n \in Nat :
          Tagged(code, n) \in Token /\ Tagged(code, n).code = code
          /\ Tagged(code, n).data = Datum("", n)
    /\ \A code \in Code, d \in Data : [code |-> code, data |-> d] \in Token
  BY DEF Mark, Tagged, Token, Data, Datum, Nothing

LEMMA DataTypes ==
    ASSUME NEW n \in Nat
    PROVE  /\ \A c \in Command : Datum(c, n) \in Data
           /\ Datum("argument", n) \in Data /\ Datum("query", n) \in Data
           /\ Datum("value", n) \in Data /\ Datum("reason", n) \in Data
           /\ Datum("result", n) \in Data /\ Datum("error", n) \in Data
           /\ Nothing \in Data
  BY DEF Data, Datum, Nothing

LEMMA Codes ==
    /\ Open \subseteq Code /\ Close \subseteq Code
    /\ \A code \in {"command", "query", "response", "answer", "exception", "bytes",
                    "string", "error", "commandEnd", "queryEnd", "responseEnd", "answerEnd",
                    "exceptionEnd", "bytesEnd", "stringEnd", "errorEnd"} : code \in Code
  BY DEF Code, Open, Close

LEMMA PathTwo ==
    ASSUME NEW end, NEW s, NEW t \in Token, NEW u \in Token, s.at \in Reading(end),
           Takes(end, s, t).at \in Reading(end)
    PROVE  Path(end, s, <<t, u>>, Takes(end, Takes(end, s, t), u))
<1> DEFINE m == Takes(end, s, t)
           g == Takes(end, m, u)
           p == [i \in {0, 1, 2} |-> IF i = 0 THEN s ELSE IF i = 1 THEN m ELSE g]
<1>1. p[0] = s /\ p[1] = m /\ p[2] = g
  OBVIOUS
<1>2. /\ <<t, u>> \in Seq(Token) /\ Len(<<t, u>>) = 2
      /\ <<t, u>>[1] = t /\ <<t, u>>[2] = u
  OBVIOUS
<1>3. \A i \in 1..2 : (i = 1 /\ i - 1 = 0) \/ (i = 2 /\ i - 1 = 1)
  OBVIOUS
<1> HIDE DEF p
<1>4. \A i \in 1..Len(<<t, u>>) : /\ p[i - 1].at \in Reading(end)
                                 /\ p[i] = Takes(end, p[i - 1], <<t, u>>[i])
  BY <1>1, <1>2, <1>3
<1> QED BY <1>1, <1>2, <1>4 DEF Path

Core(a, g, h) == [at |-> a, got |-> g, heard |-> h]

LEMMA CoreTakesOne ==
    ASSUME NEW a, NEW g, NEW h, NEW code, NEW d, NEW to, After(CoreTable, a, code) = to
    PROVE  Takes("core", Core(a, g, h), [code |-> code, data |-> d]) =
               Core(to, IF code \in {"answer", "exception", "string", "bytes"}
                        THEN Append(g, d) ELSE g,
                        IF a \in Waiting /\ to = "body" THEN g[1].of ELSE h)
  BY DEF Takes, CoreTakes, Core

\* A string, or bytes, of which the reader takes the data.
LEMMA CoreTakesStream ==
    ASSUME NEW a, NEW b, NEW to, NEW g, NEW h, NEW d \in Data, NEW kind \in {"string", "bytes"},
           NEW finish \in Code \ {"answer", "exception", "string", "bytes"},
           After(CoreTable, a, kind) = b, After(CoreTable, b, finish) = to,
           a \in CoreReading, b \in CoreReading, to # "body"
    PROVE  Path("core", Core(a, g, h), Stream(kind, finish, d), Core(to, Append(g, d), h))
<1>1. "body" \notin CoreReading
  BY CorePlaces
<1>2. [code |-> kind, data |-> d] \in Token /\ Mark(finish) \in Token
  BY Tokens, Codes
<1>3. Takes("core", Core(a, g, h), [code |-> kind, data |-> d]) = Core(b, Append(g, d), h)
  BY <1>1, CoreTakesOne
<1>4. Mark(finish) = [code |-> finish, data |-> Nothing]
  BY DEF Mark, Tagged, Nothing
<1>5. Takes("core", Core(b, Append(g, d), h), Mark(finish)) = Core(to, Append(g, d), h)
  BY <1>4, CoreTakesOne
<1>6. Core(a, g, h).at \in Reading("core") /\ Core(b, Append(g, d), h).at \in Reading("core")
  BY DEF Core, Reading
<1> QED BY <1>2, <1>3, <1>5, <1>6, PathTwo DEF Stream

\* A single marker.
LEMMA CoreTakesMark ==
    ASSUME NEW a, NEW to, NEW g, NEW h, NEW code \in Code, NEW n \in Nat,
           After(CoreTable, a, code) = to, a \in CoreReading
    PROVE  Path("core", Core(a, g, h), <<Tagged(code, n)>>,
                Core(to, IF code \in {"answer", "exception", "string", "bytes"}
                         THEN Append(g, Datum("", n)) ELSE g,
                         IF a \in Waiting /\ to = "body" THEN g[1].of ELSE h))
<1>1. Tagged(code, n) \in Token
  BY Tokens
<1>2. Tagged(code, n) = [code |-> code, data |-> Datum("", n)]
  BY DEF Tagged
<1>3. Core(a, g, h).at \in Reading("core")
  BY DEF Core, Reading
<1>4. Takes("core", Core(a, g, h), [code |-> code, data |-> Datum("", n)]) =
          Core(to, IF code \in {"answer", "exception", "string", "bytes"}
                   THEN Append(g, Datum("", n)) ELSE g,
                   IF a \in Waiting /\ to = "body" THEN g[1].of ELSE h)
  BY DEF Takes, CoreTakes, Core
<1> QED BY <1>1, <1>2, <1>3, <1>4, PathOne

\* A single marker that carries nothing and is not the last of an answer.
LEMMA CoreTakesPlain ==
    ASSUME NEW a, NEW to, NEW g, NEW h, NEW n \in Nat,
           NEW code \in Code \ {"answer", "exception", "string", "bytes"},
           After(CoreTable, a, code) = to, a \in CoreReading, a \notin Waiting
    PROVE  Path("core", Core(a, g, h), <<Tagged(code, n)>>, Core(to, g, h))
BY CoreTakesMark

CommandFrame(c, n) ==
    <<Mark("command")>> \o Str(Datum(c, n)) \o Str(Datum("argument", n)) \o <<Mark("commandEnd")>>

\* The frame of a command is read to its end, its name first.
LEMMA CommandIsRead ==
    ASSUME NEW c \in Command, NEW n \in Nat, NEW h
    PROVE  \E g : /\ Path("core", Core("command", <<>>, h), CommandFrame(c, n), g)
                  /\ g.at = "dispatch" /\ g.got[1] = Datum(c, n)
<1> DEFINE d1 == Datum(c, n)
           d2 == Datum("argument", n)
<1>1. Mark("command") = Tagged("command", 0) /\ Mark("commandEnd") = Tagged("commandEnd", 0)
  BY DEF Mark
<1>2. "command" \in CoreReading /\ "param" \in CoreReading /\ "paramText" \in CoreReading
      /\ "command" \notin Waiting /\ "param" \notin Waiting
  BY CorePlaces
<1>3. Path("core", Core("command", <<>>, h), <<Mark("command")>>, Core("param", <<>>, h))
  <2>1. /\ After(CoreTable, "command", "command") = "param"
        /\ "command" \in Code \ {"answer", "exception", "string", "bytes"}
    BY CoreAfter, Codes
  <2> QED BY <1>1, <1>2, <2>1, CoreTakesPlain
<1>4. d1 \in Data /\ d2 \in Data
  BY DataTypes
<1>5. "stringEnd" \in Code \ {"answer", "exception", "string", "bytes"}
  BY Codes
<1> HIDE DEF d1, d2
<1>6. Path("core", Core("param", <<>>, h), Str(d1), Core("param", Append(<<>>, d1), h))
  BY <1>2, <1>4, <1>5, CoreAfter, CoreTakesStream DEF Str
<1>7. Path("core", Core("param", Append(<<>>, d1), h), Str(d2),
           Core("param", Append(Append(<<>>, d1), d2), h))
  BY <1>2, <1>4, <1>5, CoreAfter, CoreTakesStream DEF Str
<1> DEFINE both == Append(Append(<<>>, d1), d2)
<1>8. both[1] = d1
  OBVIOUS
<1> HIDE DEF both
<1>9. Path("core", Core("param", both, h), <<Mark("commandEnd")>>, Core("dispatch", both, h))
  <2>1. /\ After(CoreTable, "param", "commandEnd") = "dispatch"
        /\ "commandEnd" \in Code \ {"answer", "exception", "string", "bytes"}
    BY CoreAfter, Codes
  <2> QED BY <1>1, <1>2, <2>1, CoreTakesPlain
<1>10. Path("core", Core("command", <<>>, h), CommandFrame(c, n), Core("dispatch", both, h))
  <2>1. Path("core", Core("command", <<>>, h), <<Mark("command")>> \o Str(d1),
             Core("param", Append(<<>>, d1), h))
    BY <1>3, <1>6, PathAppend
  <2>2. Path("core", Core("command", <<>>, h), <<Mark("command")>> \o Str(d1) \o Str(d2),
             Core("param", both, h))
    BY <1>7, <2>1, PathAppend DEF both
  <2>3. Path("core", Core("command", <<>>, h),
             <<Mark("command")>> \o Str(d1) \o Str(d2) \o <<Mark("commandEnd")>>,
             Core("dispatch", both, h))
    BY <1>9, <2>2, PathAppend
  <2> QED BY <2>3 DEF CommandFrame, d1, d2
<1>11. Core("dispatch", both, h).at = "dispatch" /\ Core("dispatch", both, h).got = both
  BY DEF Core
<1> QED BY <1>8, <1>10, <1>11 DEF d1

LEMMA FirstOfAppend ==
    ASSUME NEW D, NEW s \in Seq(D), Len(s) >= 1, NEW x \in D
    PROVE  /\ Append(s, x) \in Seq(D) /\ Len(Append(s, x)) >= 1
           /\ Append(s, x)[1] = s[1]
<1>1. /\ Append(s, x) \in Seq(D) /\ Len(Append(s, x)) = Len(s) + 1
      /\ \A i \in 1..Len(s) : Append(s, x)[i] = s[i]
  BY AppendProperties
<1>2. Len(s) \in Nat
  OBVIOUS
<1> QED BY <1>1, <1>2

\* The last marker of an answer: the core has heard the query it was written for.
LEMMA CoreHears ==
    ASSUME NEW a \in Waiting, NEW g, NEW h, NEW code \in Close,
           After(CoreTable, a, code) = "body"
    PROVE  Path("core", Core(a, g, h), <<Mark(code)>>, Core("body", g, g[1].of))
<1>1. code \notin {"answer", "exception", "string", "bytes"} /\ code \in Code
  BY DEF Close, Code
<1>2. a \in CoreReading
  BY CorePlaces
<1>3. Path("core", Core(a, g, h), <<Tagged(code, 0)>>,
           Core("body", IF code \in {"answer", "exception", "string", "bytes"}
                        THEN Append(g, Datum("", 0)) ELSE g,
                        IF a \in Waiting /\ "body" = "body" THEN g[1].of ELSE h))
  BY <1>1, <1>2, CoreTakesMark
<1> QED BY <1>1, <1>3 DEF Mark

\* An answer and an exception are read to their ends, and whose they are first.
LEMMA AnswerIsRead ==
    ASSUME NEW q \in Nat, NEW tokens \in Answers(q), NEW h
    PROVE  \E g : /\ Path("core", Core("answer", <<>>, h), tokens, g)
                  /\ g.at = "body" /\ g.heard = q
<1> DEFINE o == Datum("", q)
           v == Datum("value", q)
           r == Datum("reason", q)
           one == Append(<<>>, o)
<1>1. v \in Data /\ r \in Data
  BY DataTypes
<1>3. /\ {"answer", "answerBody", "answerText", "answerBytes", "answerEnd", "reason",
          "reasonText", "message", "messageText", "reasonEnd"} \subseteq CoreReading
      /\ "answerBody" \in Waiting /\ "answerEnd" \in Waiting /\ "reasonEnd" \in Waiting
  BY CorePlaces
<1>4. /\ "stringEnd" \in Code \ {"answer", "exception", "string", "bytes"}
      /\ "bytesEnd" \in Code \ {"answer", "exception", "string", "bytes"}
      /\ "answerEnd" \in Close /\ "exceptionEnd" \in Close
  BY Codes DEF Close
<1>5. /\ one[1].of = q
      /\ \A x \in Data : Append(one, x)[1].of = q
      /\ \A x \in Data, y \in Data : Append(Append(one, x), y)[1].of = q
  <2>1. o \in Data /\ o.of = q
    BY DEF Datum, Data
  <2> HIDE DEF o
  <2>2. one \in Seq(Data) /\ Len(one) >= 1 /\ one[1] = o
    BY <2>1
  <2> HIDE DEF one
  <2>3. ASSUME NEW x \in Data
        PROVE  Append(one, x) \in Seq(Data) /\ Len(Append(one, x)) >= 1 /\ Append(one, x)[1] = o
    BY <2>2, FirstOfAppend
  <2>4. ASSUME NEW x \in Data, NEW y \in Data
        PROVE  Append(Append(one, x), y)[1] = o
    BY <2>3, FirstOfAppend
  <2> QED BY <2>1, <2>2, <2>3, <2>4
<1>6. Path("core", Core("answer", <<>>, h), <<Tagged("answer", q)>>, Core("answerBody", one, h))
  BY <1>3, CoreAfter, CoreTakesMark, Codes
<1>7. Path("core", Core("answer", <<>>, h), <<Tagged("exception", q)>>, Core("reason", one, h))
  BY <1>3, CoreAfter, CoreTakesMark, Codes
<1> HIDE DEF o, v, r, one
<1>8. Path("core", Core("answerBody", one, h), <<Mark("answerEnd")>>, Core("body", one, q))
  BY <1>3, <1>4, <1>5, CoreAfter, CoreHears
<1>9. ASSUME NEW x \in Data
      PROVE  Path("core", Core("answerEnd", Append(one, x), h), <<Mark("answerEnd")>>,
                  Core("body", Append(one, x), q))
  BY <1>3, <1>4, <1>5, CoreAfter, CoreHears
<1>10. CASE tokens = <<Tagged("answer", q)>> \o <<>> \o <<Mark("answerEnd")>>
  <2>1. <<Tagged("answer", q)>> \o <<>> = <<Tagged("answer", q)>>
    OBVIOUS
  <2>2. Path("core", Core("answer", <<>>, h), tokens, Core("body", one, q))
    BY <1>6, <1>8, <1>10, <2>1, PathAppend
  <2> QED BY <2>2 DEF Core
<1>11. CASE tokens = <<Tagged("answer", q)>> \o Str(v) \o <<Mark("answerEnd")>>
  <2>1. Path("core", Core("answerBody", one, h), Str(v), Core("answerEnd", Append(one, v), h))
    BY <1>1, <1>3, <1>4, CoreAfter, CoreTakesStream DEF Str
  <2>2. Path("core", Core("answer", <<>>, h), <<Tagged("answer", q)>> \o Str(v),
             Core("answerEnd", Append(one, v), h))
    BY <1>6, <2>1, PathAppend
  <2>3. Path("core", Core("answer", <<>>, h), tokens, Core("body", Append(one, v), q))
    BY <1>1, <1>9, <1>11, <2>2, PathAppend
  <2> QED BY <2>3 DEF Core
<1>12. CASE tokens = <<Tagged("answer", q)>> \o Stream("bytes", "bytesEnd", v)
                         \o <<Mark("answerEnd")>>
  <2>1. Path("core", Core("answerBody", one, h), Stream("bytes", "bytesEnd", v),
             Core("answerEnd", Append(one, v), h))
    BY <1>1, <1>3, <1>4, CoreAfter, CoreTakesStream
  <2>2. Path("core", Core("answer", <<>>, h),
             <<Tagged("answer", q)>> \o Stream("bytes", "bytesEnd", v),
             Core("answerEnd", Append(one, v), h))
    BY <1>6, <2>1, PathAppend
  <2>3. Path("core", Core("answer", <<>>, h), tokens, Core("body", Append(one, v), q))
    BY <1>1, <1>9, <1>12, <2>2, PathAppend
  <2> QED BY <2>3 DEF Core
<1>13. CASE tokens = <<Tagged("exception", q)>> \o Str(r) \o Str(r) \o <<Mark("exceptionEnd")>>
  <2> DEFINE two   == Append(one, r)
             three == Append(two, r)
  <2>1. Path("core", Core("reason", one, h), Str(r), Core("message", two, h))
    BY <1>1, <1>3, <1>4, CoreAfter, CoreTakesStream DEF Str
  <2>2. three[1].of = q
    BY <1>1, <1>5
  <2> HIDE DEF two
  <2>3. Path("core", Core("message", two, h), Str(r), Core("reasonEnd", three, h))
    BY <1>1, <1>3, <1>4, CoreAfter, CoreTakesStream DEF Str
  <2> HIDE DEF three
  <2>4. Path("core", Core("reasonEnd", three, h), <<Mark("exceptionEnd")>>, Core("body", three, q))
    BY <1>3, <1>4, <2>2, CoreAfter, CoreHears
  <2>5. Path("core", Core("answer", <<>>, h), <<Tagged("exception", q)>> \o Str(r),
             Core("message", two, h))
    BY <1>7, <2>1, PathAppend
  <2>6. Path("core", Core("answer", <<>>, h), <<Tagged("exception", q)>> \o Str(r) \o Str(r),
             Core("reasonEnd", three, h))
    BY <2>3, <2>5, PathAppend
  <2>7. Path("core", Core("answer", <<>>, h), tokens, Core("body", three, q))
    BY <1>13, <2>4, <2>6, PathAppend
  <2> QED BY <2>7 DEF Core
<1> QED BY <1>10, <1>11, <1>12, <1>13 DEF Answers, v, r

Client(a, q, r, b) == [at |-> a, question |-> q, reply |-> r, returned |-> b]

\* What the client has of a response: whose it is, its output and its error.
Response(n, main, err) == [of |-> n, main |-> main, err |-> err]

LEMMA ClientTakesOne ==
    ASSUME NEW a, NEW q, NEW n, NEW main, NEW err, NEW b, NEW code, NEW d, NEW to,
           After(ClientTable, a, code) = to
    PROVE  LET r == Response(n, main, err) IN
           Takes("client", Client(a, q, r, b), [code |-> code, data |-> d]) =
               Client(to, IF a = "query" THEN d ELSE q,
                      IF to = "loop" /\ code = "response" THEN Response(d.of, main, err)
                      ELSE IF to = "mainText" THEN Response(n, Append(main, d), err)
                      ELSE IF to = "errText"
                           THEN Response(n, IF a = "mainText" THEN <<>> ELSE main, d)
                           ELSE r,
                      IF to = "idle" THEN r ELSE b)
<1> DEFINE r == Response(n, main, err)
<1>1. CASE to = "loop" /\ code = "response"
  BY <1>1 DEF Takes, ClientTakes, Client, Response
<1>2. CASE to = "mainText"
  BY <1>2 DEF Takes, ClientTakes, Client, Response
<1>3. CASE to = "errText"
  BY <1>3 DEF Takes, ClientTakes, Client, Response
<1>4. CASE ~(to = "loop" /\ code = "response") /\ to # "mainText" /\ to # "errText"
  BY <1>4 DEF Takes, ClientTakes, Client
<1> QED BY <1>1, <1>2, <1>3, <1>4

LEMMA ResponseBegins ==
    ASSUME NEW q, NEW n \in Nat, NEW b
    PROVE  Path("client", Client("await", q, NoReply, b), <<Tagged("response", n)>>,
                Client("loop", q, Response(n, <<>>, Nothing), b))
<1>1. Tagged("response", n) \in Token
  BY Tokens, Codes
<1>2. NoReply = Response(0, <<>>, Nothing)
  BY DEF NoReply, Response
<1>3. Tagged("response", n) = [code |-> "response", data |-> Datum("", n)] /\ Datum("", n).of = n
  BY DEF Tagged, Datum
<1>4. After(ClientTable, "await", "response") = "loop"
  BY ClientAfter
<1>5. Takes("client", Client("await", q, Response(0, <<>>, Nothing), b),
            [code |-> "response", data |-> Datum("", n)]) =
      Client("loop", q, Response(Datum("", n).of, <<>>, Nothing), b)
  <2> HIDE DEF Datum
  <2> DEFINE d == Datum("", n)
  <2> HIDE DEF d
  <2>1. Takes("client", Client("await", q, Response(0, <<>>, Nothing), b),
              [code |-> "response", data |-> d]) =
        Client("loop", q, Response(d.of, <<>>, Nothing), b)
    BY <1>4, ClientTakesOne
  <2> QED BY <2>1 DEF d
<1>6. Client("await", q, NoReply, b).at \in Reading("client")
  BY ClientPlaces DEF Client, Reading
<1> QED BY <1>1, <1>2, <1>3, <1>5, <1>6, PathOne

\* A query is read up to the oracle's answer; its terminator follows.
LEMMA QueryIsRead ==
    ASSUME NEW q, NEW n, NEW main, NEW err, NEW b, NEW k \in Nat
    PROVE  LET r == Response(n, main, err) IN
           Path("client", Client("loop", q, r, b), <<Mark("query")>> \o Str(Datum("query", k)),
                Client("serve", Datum("query", k), r, b))
<1> DEFINE r == Response(n, main, err)
           d == Datum("query", k)
<1>1. d \in Data
  BY DataTypes
<1>2. /\ Mark("query") \in Token /\ Mark("stringEnd") \in Token
      /\ [code |-> "string", data |-> d] \in Token
  BY <1>1, Tokens, Codes
<1>3. /\ Mark("query") = [code |-> "query", data |-> Nothing]
      /\ Mark("stringEnd") = [code |-> "stringEnd", data |-> Nothing]
  BY DEF Mark, Tagged, Nothing
<1> HIDE DEF d
<1>4. \A a, x : Client(a, x, r, b).at = a
  BY DEF Client
<1>5. Reading("client") = ClientReading
  BY DEF Reading
<1>6. Takes("client", Client("loop", q, r, b), Mark("query")) = Client("query", q, r, b)
  BY <1>3, ClientAfter, ClientTakesOne
<1>7. Takes("client", Client("query", q, r, b), [code |-> "string", data |-> d]) =
      Client("queryText", d, r, b)
  BY ClientAfter, ClientTakesOne
<1>8. Takes("client", Client("queryText", d, r, b), Mark("stringEnd")) =
      Client("serve", d, r, b)
  BY <1>3, ClientAfter, ClientTakesOne
<1>9. Path("client", Client("loop", q, r, b), <<Mark("query")>>, Client("query", q, r, b))
  BY <1>2, <1>4, <1>5, <1>6, ClientPlaces, PathOne
<1>10. Path("client", Client("query", q, r, b), Str(d), Client("serve", d, r, b))
  BY <1>2, <1>4, <1>5, <1>7, <1>8, ClientPlaces, PathTwo DEF Str, Stream
<1>11. Path("client", Client("loop", q, r, b), <<Mark("query")>> \o Str(d),
            Client("serve", d, r, b))
  BY <1>9, <1>10, PathAppend
<1> QED BY <1>11 DEF d

\* What a command may return to its caller: its result or else its error, or
\* nothing when it was deregisterProgram.
Own(n, c, r) ==
    /\ r.of = n
    /\ \/ r.main = <<Datum("result", n)>> /\ r.err = Nothing
       \/ r.main = <<>> /\ r.err = Datum("error", n)
       \/ c = "deregisterProgram" /\ r.main = <<>> /\ r.err = Nothing

LEMMA PartsOfResponse ==
    ASSUME NEW q, NEW n, NEW main, NEW err, NEW b, NEW d \in Data
    PROVE  /\ Path("client", Client("loop", q, Response(n, main, err), b), Str(d),
                   Client("loop", q, Response(n, Append(main, d), err), b))
           /\ Path("client", Client("loop", q, Response(n, main, err), b),
                   Stream("error", "errorEnd", d),
                   Client("loop", q, Response(n, main, d), b))
           /\ Path("client", Client("loop", q, Response(n, main, err), b),
                   <<Mark("responseEnd")>>,
                   Client("idle", q, Response(n, main, err), Response(n, main, err)))
<1>1. /\ Mark("errorEnd") \in Token /\ Mark("responseEnd") \in Token /\ Mark("stringEnd") \in Token
      /\ [code |-> "string", data |-> d] \in Token /\ [code |-> "error", data |-> d] \in Token
  BY Tokens, Codes
<1>2. /\ Mark("errorEnd") = [code |-> "errorEnd", data |-> Nothing]
      /\ Mark("responseEnd") = [code |-> "responseEnd", data |-> Nothing]
      /\ Mark("stringEnd") = [code |-> "stringEnd", data |-> Nothing]
  BY DEF Mark, Tagged, Nothing
<1>3. \A a, r : Client(a, q, r, b).at = a
  BY DEF Client
<1>4. Reading("client") = ClientReading
  BY DEF Reading
<1>5. Takes("client", Client("loop", q, Response(n, main, err), b),
            [code |-> "string", data |-> d]) =
      Client("mainText", q, Response(n, Append(main, d), err), b)
  BY ClientAfter, ClientTakesOne
<1>6. Takes("client", Client("mainText", q, Response(n, Append(main, d), err), b),
            Mark("stringEnd")) =
      Client("loop", q, Response(n, Append(main, d), err), b)
  BY <1>2, ClientAfter, ClientTakesOne
<1>7. Takes("client", Client("loop", q, Response(n, main, err), b),
            [code |-> "error", data |-> d]) =
      Client("errText", q, Response(n, main, d), b)
  BY ClientAfter, ClientTakesOne
<1>8. Takes("client", Client("errText", q, Response(n, main, d), b), Mark("errorEnd")) =
      Client("loop", q, Response(n, main, d), b)
  BY <1>2, ClientAfter, ClientTakesOne
<1>9. Takes("client", Client("loop", q, Response(n, main, err), b), Mark("responseEnd")) =
      Client("idle", q, Response(n, main, err), Response(n, main, err))
  BY <1>2, ClientAfter, ClientTakesOne
<1>10. Path("client", Client("loop", q, Response(n, main, err), b), Str(d),
            Client("loop", q, Response(n, Append(main, d), err), b))
  BY <1>1, <1>3, <1>4, <1>5, <1>6, ClientPlaces, PathTwo DEF Str, Stream
<1>11. Path("client", Client("loop", q, Response(n, main, err), b),
            Stream("error", "errorEnd", d), Client("loop", q, Response(n, main, d), b))
  BY <1>1, <1>3, <1>4, <1>7, <1>8, ClientPlaces, PathTwo DEF Stream
<1>12. Path("client", Client("loop", q, Response(n, main, err), b), <<Mark("responseEnd")>>,
            Client("idle", q, Response(n, main, err), Response(n, main, err)))
  BY <1>1, <1>3, <1>4, <1>9, ClientPlaces, PathOne
<1> QED BY <1>10, <1>11, <1>12

\* The end of a response leaves its own outcome with the client.
LEMMA OutcomeIsRead ==
    ASSUME NEW n \in Nat, job.of = n, NEW ok \in BOOLEAN, NEW q, NEW b
    PROVE  \E r : /\ Own(n, job.text, r)
                  /\ Path("client", Client("loop", q, Response(n, <<>>, Nothing), b),
                          EndResponse(ok), Client("idle", q, r, r))
<1> DEFINE result  == Datum("result", n)
           problem == IF ok THEN Nothing ELSE Datum("error", n)
           paid    == ok /\ job.text # "deregisterProgram"
           main    == IF paid THEN <<result>> ELSE <<>>
           payload == IF paid THEN Str(result) ELSE <<>>
           start   == Client("loop", q, Response(n, <<>>, Nothing), b)
           last    == Response(n, main, problem)
<1>1. result \in Data /\ problem \in Data
  BY DataTypes
<1>2. EndResponse(ok) = payload \o Stream("error", "errorEnd", problem) \o <<Mark("responseEnd")>>
  BY DEF EndResponse
<1>3. Path("client", start, payload, Client("loop", q, Response(n, main, Nothing), b))
  <2>1. CASE paid
    <3> HIDE DEF result
    <3>1. Append(<<>>, result) = <<result>>
      BY <1>1
    <3>2. Path("client", start, Str(result),
               Client("loop", q, Response(n, Append(<<>>, result), Nothing), b))
      BY <1>1, PartsOfResponse
    <3> QED BY <2>1, <3>1, <3>2
  <2>2. CASE ~paid
    BY <2>2, PathEmpty
  <2> QED BY <2>1, <2>2
<1>4. Own(n, job.text, last)
  <2>1. last.of = n /\ last.main = main /\ last.err = problem
    BY DEF Response
  <2>2. CASE paid
    BY <2>1, <2>2 DEF Own
  <2>3. CASE ok /\ job.text = "deregisterProgram"
    BY <2>1, <2>3 DEF Own
  <2>4. CASE ~ok
    BY <2>1, <2>4 DEF Own
  <2> QED BY <2>2, <2>3, <2>4
<1> HIDE DEF result, problem, payload, main
<1>5. Path("client", Client("loop", q, Response(n, main, Nothing), b),
           Stream("error", "errorEnd", problem), Client("loop", q, last, b))
  BY <1>1, PartsOfResponse
<1>6. Path("client", Client("loop", q, last, b), <<Mark("responseEnd")>>,
           Client("idle", q, last, last))
  BY <1>1, PartsOfResponse
<1>7. Path("client", start, payload \o Stream("error", "errorEnd", problem),
           Client("loop", q, last, b))
  BY <1>3, <1>5, PathAppend
<1>8. Path("client", start, EndResponse(ok), Client("idle", q, last, last))
  BY <1>2, <1>6, <1>7, PathAppend
<1> QED BY <1>4, <1>8

\* The rest of a query that has been served is read, whatever came before it.
LEMMA QueryEndIsRead ==
    ASSUME NEW q, NEW r, NEW b
    PROVE  Path("client", Client("queryEnd", q, r, b), <<Mark("queryEnd")>>,
                Client("loop", q, r, b))
<1>1. Mark("queryEnd") \in Token
  BY Tokens, Codes
<1>2. Mark("queryEnd") = [code |-> "queryEnd", data |-> Nothing]
  BY DEF Mark, Tagged, Nothing
<1>3. After(ClientTable, "queryEnd", "queryEnd") = "loop"
  BY ClientAfter
<1>4. Takes("client", Client("queryEnd", q, r, b), [code |-> "queryEnd", data |-> Nothing]) =
      Client("loop", q, r, b)
  BY <1>3 DEF Takes, ClientTakes, Client
<1>5. Client("queryEnd", q, r, b).at \in Reading("client")
  BY ClientPlaces DEF Client, Reading
<1> QED BY <1>1, <1>2, <1>4, <1>5, PathOne

-----------------------------------------------------------------------------
(* The inductive invariant *)

ClientPath(goal) == Path("client", ClientState, toClient, goal)
CorePath(goal)   == Path("core", CoreState, toCore, goal)

Counts ==
    /\ calls \in Nat /\ done \in Nat /\ served \in Nat
    /\ asked \in [all : Nat, now : Nat]

\* The core runs the command that was called, and the client, when it has read
\* everything, is in its response to it.
Running == job = Datum(name, calls) /\ name \in Command /\ done + 1 = calls
InLoop  == \E q, b : ClientPath(Client("loop", q, Response(calls, <<>>, Nothing), b))

\* The stages of a call while neither end has hung up: the command is on its
\* way or about to be dispatched, ...
Sent ==
    /\ name \in Command /\ done + 1 = calls /\ served = asked.all
    /\ clientAt = "await" /\ toClient = <<>> /\ reply = NoReply
    /\ coreAt \notin Waiting
    /\ \E g : CorePath(g) /\ g.at = "dispatch" /\ g.got[1] = Datum(name, calls)

\* ... its body runs, ...
Body == Running /\ served = asked.all /\ coreAt = "body" /\ toCore = <<>> /\ InLoop

\* ... a query is on its way or with the oracle, its terminator behind it, ...
QueryEnd == <<Mark("queryEnd")>>
Asking ==
    /\ Running /\ served + 1 = asked.all
    /\ coreAt = "answer" /\ got = <<>> /\ toCore = <<>>
    /\ \E w, b : /\ toClient = w \o QueryEnd
                 /\ Path("client", ClientState, w,
                         Client("serve", Datum("query", asked.all),
                                Response(calls, <<>>, Nothing), b))

\* ... the answer is on its way, ...
Answering ==
    /\ Running /\ served = asked.all /\ coreAt \in Waiting /\ InLoop
    /\ \E g : CorePath(g) /\ g.at = "body" /\ g.heard = asked.all

\* ... or its outcome is, or has arrived.
Finished ==
    /\ done = calls /\ served = asked.all /\ toCore = <<>>
    /\ \/ coreAt = "command" /\ got = <<>>
       \/ coreAt = "returned" /\ name = "deregisterProgram"
    /\ \E q, r : /\ ClientPath(Client("idle", q, r, r))
                 /\ r.of = calls /\ (calls > 0 => Own(calls, name, r))

Live == Sent \/ Body \/ Asking \/ Answering \/ Finished

\* A client whose core was killed still reads what there is of a stream, and
\* serves a query it has read; one whose core has returned has nothing to read.
Reads == \E g : /\ ClientPath(g) /\ g.at # Misaligned
                /\ g.at = "idle" /\ calls > 0 => Own(calls, name, g.returned)
Serves == \E g, w : /\ toClient = w \o QueryEnd
                    /\ Path("client", ClientState, w, g) /\ g.at = "serve"
ClientAlone ==
    \/ coreAt = "killed" /\ clientAt # "gone" /\ (Reads \/ Serves)
    \/ /\ coreAt = "returned" /\ clientAt \in {"await", "failed"} /\ toClient = <<>>
       /\ done < calls

\* A core whose client has gone still reads what there is of a stream.
Hears == \E g : CorePath(g) /\ g.at # Misaligned
CoreAlone == clientAt = "gone" /\ ~CoreEnded /\ Hears

IInv == Counts /\ (Live \/ ClientAlone \/ CoreAlone \/ (CoreEnded /\ ClientEnded))

-----------------------------------------------------------------------------
(* Reading, writing and cutting off under the invariant *)

LEMMA Places ==
    /\ {"idle", "serve", "failed", "gone", "misaligned"} \cap Reading("client") = {}
    /\ {"dispatch", "body", "returned", "raised", "killed", "misaligned"} \cap Reading("core") = {}
    /\ Reading("core") = CoreReading /\ Reading("client") = ClientReading
    /\ {"loop", "await"} \subseteq Reading("client")
    /\ {"command", "answer"} \subseteq Reading("core")
    /\ Waiting \subseteq Reading("core")
    /\ {"command", "dispatch", "body", "returned", "raised", "killed", "misaligned"}
          \cap Waiting = {}
  BY CorePlaces, ClientPlaces DEF Reading

LEMMA CoreReadTakes ==
    ASSUME CoreRead
    PROVE  /\ CoreState' = Takes("core", CoreState, Head(toCore)) /\ toCore' = Tail(toCore)
           /\ toCore # <<>> /\ coreAt \in CoreReading
           /\ coreAt \in Waiting => coreAt' \in Waiting \cup {"body", Misaligned}
           /\ coreAt \notin Waiting => coreAt' \notin Waiting \cup {"body"}
           /\ coreAt \notin Waiting => heard' = heard
<1>1. CoreState' = Takes("core", CoreState, Head(toCore))
  BY DEF CoreRead, CoreState, Takes, CoreTakes
<1>2. coreAt' = After(CoreTable, coreAt, Head(toCore).code)
  BY DEF CoreRead
<1>3. /\ coreAt \in Waiting => coreAt' \in Waiting \cup {"body", Misaligned}
      /\ coreAt \notin Waiting => coreAt' \notin Waiting \cup {"body"}
  BY <1>2, CoreStays
<1> QED BY <1>1, <1>3 DEF CoreRead

LEMMA ClientReadTakes ==
    ASSUME ClientRead
    PROVE  /\ ClientState' = Takes("client", ClientState, Head(toClient))
           /\ toClient' = Tail(toClient)
           /\ toClient # <<>> /\ clientAt \in ClientReading
<1>1. ClientState' = ClientTakes(ClientState, Head(toClient))
  BY DEF ClientRead, ClientState, ClientTakes
<1> QED BY <1>1 DEF ClientRead, Takes

\* A path that goes on after a token goes on when the token has been read.
LEMMA CorePathRead ==
    ASSUME CoreRead, NEW g, CorePath(g)
    PROVE  Path("core", CoreState', toCore', g)
  BY CoreReadTakes, PathRead DEF CorePath

LEMMA ClientPathRead ==
    ASSUME ClientRead, NEW g, ClientPath(g)
    PROVE  Path("client", ClientState', toClient', g)
  BY ClientReadTakes, PathRead DEF ClientPath

LEMMA HeadTailConcat ==
    ASSUME NEW D, NEW s \in Seq(D), s # <<>>, NEW t \in Seq(D)
    PROVE  Head(s \o t) = Head(s) /\ Tail(s \o t) = Tail(s) \o t
<1>1. /\ s \o t \in Seq(D) /\ Len(s \o t) = Len(s) + Len(t)
      /\ \A i \in 1..Len(s) + Len(t) : (s \o t)[i] = IF i <= Len(s) THEN s[i] ELSE t[i - Len(s)]
  BY ConcatProperties
<1>2. Len(s) \in Nat \ {0} /\ Len(t) \in Nat
  BY EmptySeq, LenProperties
<1>3. s \o t # <<>>
  BY <1>1, <1>2
<1>4. Head(s \o t) = Head(s)
  BY <1>1, <1>2
<1>5. /\ Tail(s) \in Seq(D) /\ Len(Tail(s)) = Len(s) - 1
      /\ \A i \in 1..Len(Tail(s)) : Tail(s)[i] = s[i + 1]
  BY HeadTailProperties
<1>6. /\ Tail(s \o t) \in Seq(D) /\ Len(Tail(s \o t)) = Len(s \o t) - 1
      /\ \A i \in 1..Len(Tail(s \o t)) : Tail(s \o t)[i] = (s \o t)[i + 1]
  BY <1>1, <1>3, HeadTailProperties
<1>7. /\ Tail(s) \o t \in Seq(D) /\ Len(Tail(s) \o t) = Len(Tail(s)) + Len(t)
      /\ \A i \in 1..Len(Tail(s)) + Len(t) :
            (Tail(s) \o t)[i] = IF i <= Len(Tail(s)) THEN Tail(s)[i] ELSE t[i - Len(Tail(s))]
  BY <1>5, ConcatProperties
<1>8. Len(Tail(s \o t)) = Len(Tail(s) \o t)
  BY <1>1, <1>2, <1>5, <1>6, <1>7
<1>9. ASSUME NEW i \in 1..Len(Tail(s \o t))
      PROVE  Tail(s \o t)[i] = (Tail(s) \o t)[i]
  <2>1. /\ i + 1 \in 1..Len(s) + Len(t) /\ i \in 1..Len(Tail(s)) + Len(t)
        /\ Tail(s \o t)[i] = (s \o t)[i + 1]
    BY <1>1, <1>2, <1>5, <1>6
  <2>2. CASE i <= Len(Tail(s))
    <3>1. i + 1 <= Len(s) /\ i \in 1..Len(Tail(s))
      BY <1>2, <1>5, <2>2
    <3> QED BY <1>1, <1>5, <1>7, <2>1, <2>2, <3>1
  <2>3. CASE i > Len(Tail(s))
    <3>1. i + 1 > Len(s) /\ i + 1 - Len(s) = i - Len(Tail(s)) /\ ~(i <= Len(Tail(s)))
      BY <1>2, <1>5, <2>3
    <3>2. ~(i + 1 <= Len(s))
      BY <1>2, <3>1
    <3> QED BY <1>1, <1>7, <2>1, <3>1, <3>2
  <2> QED BY <1>2, <1>5, <2>2, <2>3
<1>10. Tail(s \o t) = Tail(s) \o t
  BY <1>6, <1>7, <1>8, <1>9, SeqEqual
<1> QED BY <1>4, <1>10

\* A query that is being read, and one that is being served.
LEMMA QueryPathRead ==
    ASSUME ClientRead, NEW g, NEW w, toClient = w \o QueryEnd,
           Path("client", ClientState, w, g), g.at = "serve"
    PROVE  /\ toClient' = Tail(w) \o QueryEnd
           /\ Path("client", ClientState', Tail(w), g)
<1>1. w # <<>>
  <2>1. ClientState.at \in Reading("client")
    BY ClientReadTakes, Places DEF ClientState
  <2>2. ClientState # g
    BY <2>1, Places
  <2> QED BY <2>2, PathEmpty
<1>2. w \in Seq(Token) /\ QueryEnd \in Seq(Token)
  <2>1. Mark("queryEnd") \in Token
    BY Tokens, Codes
  <2>2. w \in Seq(Token)
    BY DEF Path
  <2> QED BY <2>1, <2>2 DEF QueryEnd
<1>3. Head(toClient) = Head(w) /\ Tail(toClient) = Tail(w) \o QueryEnd
  BY <1>1, <1>2, HeadTailConcat
<1> QED BY <1>1, <1>3, ClientReadTakes, PathRead

-----------------------------------------------------------------------------
(* What follows from the invariant *)

\* Where the client is in each stage of a call.
LEMMA WhereClientIs ==
    ASSUME Live
    PROVE  /\ Sent => clientAt = "await"
           /\ Body \/ Answering => clientAt \in ClientReading
           /\ Asking => clientAt \in ClientReading \cup {"serve"}
           /\ Finished => clientAt \in ClientReading \cup {"idle"}
           /\ clientAt \notin {"gone", "failed", Misaligned}
<1>1. Sent => clientAt = "await"
  BY DEF Sent
<1>2. ASSUME InLoop PROVE clientAt \in ClientReading
  <2>1. PICK q, b : ClientPath(Client("loop", q, Response(calls, <<>>, Nothing), b))
    BY <1>2 DEF InLoop
  <2>2. ClientState.at \in Reading("client")
    BY <2>1, PathStops, Places DEF ClientPath, Client
  <2> QED BY <2>2, Places DEF ClientState
<1>3. ASSUME Asking PROVE clientAt \in ClientReading \cup {"serve"}
  <2>1. PICK w, b : Path("client", ClientState, w,
                         Client("serve", Datum("query", asked.all),
                                Response(calls, <<>>, Nothing), b))
    BY <1>3 DEF Asking
  <2>2. ClientState.at \in Reading("client") \cup {"serve"}
    BY <2>1, PathStops DEF Client
  <2> QED BY <2>2, Places DEF ClientState
<1>4. ASSUME Finished PROVE clientAt \in ClientReading \cup {"idle"}
  <2>1. PICK q, r : ClientPath(Client("idle", q, r, r))
    BY <1>4 DEF Finished
  <2>2. ClientState.at \in Reading("client") \cup {"idle"}
    BY <2>1, PathStops DEF ClientPath, Client
  <2> QED BY <2>2, Places DEF ClientState
<1>5. Body \/ Answering => clientAt \in ClientReading
  BY <1>2 DEF Body, Answering
<1>6. clientAt \in ClientReading \cup {"await", "serve", "idle"}
  BY <1>1, <1>3, <1>4, <1>5 DEF Live
<1>7. {"gone", "failed", Misaligned} \cap (ClientReading \cup {"await", "serve", "idle"}) = {}
  BY ClientPlaces DEF Misaligned
<1> QED BY <1>1, <1>3, <1>4, <1>5, <1>6, <1>7

\* Where the core is in each stage of a call.
LEMMA WhereCoreIs ==
    /\ Sent => coreAt \in {"command", "param", "paramText", "dispatch"}
    /\ Body => coreAt = "body"
    /\ Asking => coreAt = "answer"
    /\ Answering => coreAt \in Waiting
    /\ Finished => coreAt \in {"command", "returned"}
<1>1. ASSUME Sent PROVE coreAt \in {"command", "param", "paramText", "dispatch"}
  <2>1. PICK g : CorePath(g) /\ g.at = "dispatch"
    BY <1>1 DEF Sent
  <2>2. CoreState.at \in Reading("core") \cup {"dispatch"}
    BY <2>1, PathStops DEF CorePath
  <2>3. coreAt \in CoreReading \cup {"dispatch"} /\ coreAt \notin Waiting
    BY <1>1, <2>2, Places DEF CoreState, Sent
  <2> QED BY <2>3, CorePlaces
<1> QED BY <1>1 DEF Body, Asking, Answering, Finished

\* While the core is up, what is in its stream is read to a good end.
LEMMA CoreHasPath ==
    ASSUME Live, ~CoreEnded
    PROVE  Hears
<1>1. CASE toCore = <<>>
  <2>1. CorePath(CoreState)
    BY <1>1, PathEmpty DEF CorePath
  <2>2. CoreState.at # Misaligned
    <3>1. coreAt \in {"command", "param", "paramText", "dispatch", "body", "answer", "returned"}
          \/ coreAt \in Waiting
      BY WhereCoreIs DEF Live
    <3>2. coreAt # Misaligned
      BY <3>1, CorePlaces DEF Misaligned
    <3> QED BY <3>2 DEF CoreState
  <2> QED BY <2>1, <2>2 DEF Hears
<1>2. CASE Sent
  BY <1>2 DEF Sent, Hears, Misaligned
<1>3. CASE Answering
  BY <1>3 DEF Answering, Hears, Misaligned
<1>4. Body \/ Asking \/ Finished => toCore = <<>>
  BY DEF Body, Asking, Finished
<1> QED BY <1>1, <1>2, <1>3, <1>4 DEF Live

\* While the client is up, what is in its stream is read to a good end.
LEMMA ClientHasPath ==
    ASSUME Live
    PROVE  Reads \/ Serves
<1>1. CASE Sent
  <2>1. ClientPath(ClientState) /\ ClientState.at = "await"
    BY <1>1, PathEmpty DEF Sent, ClientPath, ClientState
  <2> QED BY <2>1 DEF Reads, Misaligned
<1>2. CASE InLoop
  <2>1. PICK q, b : ClientPath(Client("loop", q, Response(calls, <<>>, Nothing), b))
    BY <1>2 DEF InLoop
  <2>2. Client("loop", q, Response(calls, <<>>, Nothing), b).at = "loop"
    BY DEF Client
  <2> QED BY <2>1, <2>2 DEF Reads, Misaligned
<1>3. CASE Asking
  <2>1. PICK w, b : /\ toClient = w \o QueryEnd
                    /\ Path("client", ClientState, w,
                            Client("serve", Datum("query", asked.all),
                                   Response(calls, <<>>, Nothing), b))
    BY <1>3 DEF Asking
  <2>2. Client("serve", Datum("query", asked.all), Response(calls, <<>>, Nothing), b).at = "serve"
    BY DEF Client
  <2> QED BY <2>1, <2>2 DEF Serves
<1>4. CASE Finished
  <2>1. PICK q, r : ClientPath(Client("idle", q, r, r)) /\ (calls > 0 => Own(calls, name, r))
    BY <1>4 DEF Finished
  <2>2. Client("idle", q, r, r).at = "idle" /\ Client("idle", q, r, r).returned = r
    BY DEF Client
  <2> QED BY <2>1, <2>2 DEF Reads, Misaligned
<1> QED BY <1>1, <1>2, <1>3, <1>4 DEF Live, Body, Answering

LEMMA AlignedFollows == IInv => Aligned
<1> SUFFICES ASSUME IInv PROVE coreAt # Misaligned /\ clientAt # Misaligned
  BY DEF Aligned
<1>1. CASE Live
  <2>1. coreAt \in {"command", "param", "paramText", "dispatch", "body", "answer", "returned"}
        \/ coreAt \in Waiting
    BY <1>1, WhereCoreIs DEF Live
  <2>2. coreAt # Misaligned
    BY <2>1, CorePlaces DEF Misaligned
  <2> QED BY <1>1, <2>2, WhereClientIs
<1>2. CASE ClientAlone
  <2>1. coreAt # Misaligned
    BY <1>2 DEF ClientAlone, Misaligned
  <2>2. ASSUME Reads PROVE clientAt # Misaligned
    <3>1. PICK g : ClientPath(g) /\ g.at # Misaligned
      BY <2>2 DEF Reads
    <3>2. ClientState.at \in Reading("client") \/ ClientState.at = g.at
      BY <3>1, PathStops DEF ClientPath
    <3>3. ClientState.at # Misaligned
      BY <3>1, <3>2, Places DEF Misaligned
    <3> QED BY <3>3 DEF ClientState
  <2>3. ASSUME Serves PROVE clientAt # Misaligned
    <3>1. PICK g, w : Path("client", ClientState, w, g) /\ g.at = "serve"
      BY <2>3 DEF Serves
    <3>2. ClientState.at \in Reading("client") \/ ClientState.at = g.at
      BY <3>1, PathStops
    <3>3. ClientState.at # Misaligned
      BY <3>1, <3>2, Places DEF Misaligned
    <3> QED BY <3>3 DEF ClientState
  <2>4. clientAt \in {"await", "failed"} => clientAt # Misaligned
    BY DEF Misaligned
  <2> QED BY <1>2, <2>1, <2>2, <2>3, <2>4 DEF ClientAlone
<1>3. CASE CoreAlone
  <2>1. PICK g : CorePath(g) /\ g.at # Misaligned
    BY <1>3 DEF CoreAlone, Hears
  <2>2. CoreState.at \in Reading("core") \/ CoreState.at = g.at
    BY <2>1, PathStops DEF CorePath
  <2>3. CoreState.at # Misaligned
    BY <2>1, <2>2, Places DEF Misaligned
  <2> QED BY <1>3, <2>3 DEF CoreAlone, CoreState, Misaligned
<1>4. CASE CoreEnded /\ ClientEnded
  BY <1>4 DEF CoreEnded, ClientEnded, Misaligned
<1> QED BY <1>1, <1>2, <1>3, <1>4 DEF IInv

\* A client that is idle has read the outcome of its last command.
LEMMA WhenIdle ==
    ASSUME IInv, clientAt = "idle"
    PROVE  /\ calls > 0 => Own(calls, name, returned)
           /\ Live => /\ Finished /\ toClient = <<>> /\ returned.of = calls
           /\ Live \/ (coreAt = "killed" /\ Reads /\ toClient = <<>>)
<1>1. ClientState.at = "idle" /\ ClientState.returned = returned
  BY DEF ClientState
<1>2. ClientState.at \notin Reading("client") /\ clientAt \notin ClientReading
  BY <1>1, Places
<1>3. CASE Live
  <2>1. Finished
    BY <1>2, <1>3, WhereClientIs DEF Live
  <2>2. PICK q, r : /\ ClientPath(Client("idle", q, r, r))
                    /\ r.of = calls /\ (calls > 0 => Own(calls, name, r))
    BY <2>1 DEF Finished
  <2>3. toClient = <<>> /\ ClientState = Client("idle", q, r, r)
    BY <1>2, <2>2, PathStops DEF ClientPath
  <2>4. returned = r
    BY <2>3 DEF ClientState, Client
  <2> QED BY <1>3, <2>1, <2>2, <2>3, <2>4
<1>4. CASE ~Live
  <2>1. coreAt = "killed" /\ (Reads \/ Serves)
    BY <1>4 DEF IInv, ClientAlone, CoreAlone, ClientEnded
  <2>2. ~Serves
    <3>1. SUFFICES ASSUME NEW g, NEW w, Path("client", ClientState, w, g), g.at = "serve"
                   PROVE  FALSE
      BY DEF Serves
    <3> QED BY <1>1, <1>2, <3>1, PathStops
  <2>3. Reads
    BY <2>1, <2>2
  <2>4. PICK g : ClientPath(g) /\ (g.at = "idle" /\ calls > 0 => Own(calls, name, g.returned))
    BY <2>3 DEF Reads
  <2>5. toClient = <<>> /\ ClientState = g
    BY <1>2, <2>4, PathStops DEF ClientPath
  <2> QED BY <1>1, <1>4, <2>1, <2>3, <2>4, <2>5
<1> QED BY <1>3, <1>4

LEMMA OutcomeFollows == IInv => ReturnsOwnOutcome
<1> SUFFICES ASSUME IInv, clientAt = "idle", calls > 0
             PROVE  \/ returned.main = <<Datum("result", calls)>> /\ returned.err = Nothing
                    \/ returned.main = <<>> /\ returned.err = Datum("error", calls)
                    \/ name = "deregisterProgram" /\ returned.main = <<>> /\ returned.err = Nothing
  BY DEF ReturnsOwnOutcome
<1>1. Own(calls, name, returned)
  BY WhenIdle
<1> QED BY <1>1 DEF Own

LEMMA NothingLeftFollows == IInv => NothingLeftOver
<1> SUFFICES ASSUME IInv, clientAt = "idle", ~CoreEnded
             PROVE  coreAt = "command" /\ toCore = <<>> /\ toClient = <<>>
  BY DEF NothingLeftOver
<1>1. Live
  BY WhenIdle DEF CoreEnded
<1>2. Finished /\ toClient = <<>>
  BY <1>1, WhenIdle
<1> QED BY <1>2 DEF Finished, CoreEnded

-----------------------------------------------------------------------------
(* Every action keeps the invariant *)

LEMMA Init_IInv == Init => IInv
<1> SUFFICES ASSUME Init PROVE IInv
  OBVIOUS
<1>1. Counts
  BY DEF Init, Counts
<1>2. ClientState = Client("idle", question, NoReply, NoReply)
  BY DEF Init, ClientState, Client
<1>3. ClientPath(Client("idle", question, NoReply, NoReply))
  BY <1>2, PathEmpty DEF Init, ClientPath
<1>4. NoReply.of = calls /\ ~(calls > 0)
  <2>1. calls = 0
    BY DEF Init
  <2>2. NoReply.of = 0
    BY DEF NoReply
  <2> QED BY <2>1, <2>2
<1>5. Finished
  BY <1>3, <1>4 DEF Init, Finished
<1> QED BY <1>1, <1>5 DEF IInv, Live

\* Any state of an end that reads no more, or has nothing to read, is a path.
LEMMA CoreHearsNothing ==
    ASSUME toCore' = <<>>, coreAt' # Misaligned
    PROVE  Hears'
<1>1. Path("core", CoreState', toCore', CoreState')
  BY PathEmpty
<1>2. CoreState'.at # Misaligned
  BY DEF CoreState
<1> QED BY <1>1, <1>2 DEF Hears, CorePath

\* The core reads on in a command, ...
LEMMA CoreReadsCommand ==
    ASSUME Sent, CoreRead
    PROVE  Sent' /\ heard' = heard
<1>1. PICK g : CorePath(g) /\ g.at = "dispatch" /\ g.got[1] = Datum(name, calls)
  BY DEF Sent
<1>2. Path("core", CoreState', toCore', g)
  BY <1>1, CorePathRead
<1>3. coreAt' \notin Waiting /\ heard' = heard
  BY CoreReadTakes DEF Sent
<1>4. UNCHANGED <<clientAt, toClient, calls, name, served, done, asked, reply>>
  BY DEF CoreRead, clientVars
<1> QED BY <1>1, <1>2, <1>3, <1>4 DEF Sent, CorePath

\* ... or in an answer, up to its end.
LEMMA CoreReadsAnswer ==
    ASSUME Answering, CoreRead
    PROVE  (Answering' /\ heard' = heard) \/ (Body' /\ heard' = asked.all)
<1>1. PICK g : CorePath(g) /\ g.at = "body" /\ g.heard = asked.all
  BY DEF Answering
<1>2. Path("core", CoreState', toCore', g)
  BY <1>1, CorePathRead
<1>3. UNCHANGED <<clientAt, toClient, ClientState, calls, name, served, done, asked, job>>
  BY DEF CoreRead, clientVars, ClientState
<1>4. Running' /\ InLoop'
  BY <1>3 DEF Answering, Running, InLoop, ClientPath
<1>5. CoreState'.at = coreAt' /\ CoreState'.heard = heard'
  BY DEF CoreState
<1>6. CASE coreAt' \in Waiting
  <2>1. coreAt' # "body"
    BY <1>6, Places
  <2>2. heard' = heard
    BY <2>1 DEF CoreRead
  <2>3. Answering'
    BY <1>1, <1>2, <1>3, <1>4, <1>6 DEF Answering, CorePath
  <2> QED BY <2>2, <2>3
<1>7. CASE coreAt' \notin Waiting
  <2>1. coreAt' \in {"body", Misaligned}
    BY <1>7, CoreReadTakes DEF Answering
  <2>2. CoreState'.at \notin Reading("core")
    BY <1>5, <2>1, Places DEF Misaligned
  <2>3. toCore' = <<>> /\ CoreState' = g
    BY <1>2, <2>2, PathStops
  <2>4. Body'
    BY <1>1, <1>3, <1>4, <1>5, <2>3 DEF Body, Answering
  <2> QED BY <1>1, <1>5, <2>3, <2>4
<1> QED BY <1>6, <1>7

LEMMA StepCoreRead == ASSUME IInv, CoreRead PROVE IInv'
<1>1. Counts'
  BY DEF IInv, Counts, CoreRead, clientVars
<1>2. coreAt \in CoreReading /\ toCore # <<>> /\ clientAt' = clientAt
  BY CoreReadTakes DEF CoreRead, clientVars
<1>3. coreAt # "body" /\ coreAt # "returned" /\ coreAt # "killed" /\ ~CoreEnded
  BY <1>2, CorePlaces DEF CoreEnded
<1>4. CASE Sent \/ Answering
  BY <1>1, <1>4, CoreReadsCommand, CoreReadsAnswer DEF IInv, Live
<1>5. CASE CoreAlone
  <2>1. PICK g : CorePath(g) /\ g.at # Misaligned
    BY <1>5 DEF CoreAlone, Hears
  <2>2. Path("core", CoreState', toCore', g)
    BY <2>1, CorePathRead
  <2>3. Hears'
    BY <2>1, <2>2 DEF Hears, CorePath
  <2>4. clientAt' = "gone"
    BY <1>2, <1>5 DEF CoreAlone
  <2> QED BY <1>1, <2>3, <2>4 DEF IInv, CoreAlone, ClientEnded
<1>6. ~Body /\ ~Asking /\ ~Finished /\ ~ClientAlone
  BY <1>2, <1>3 DEF Body, Asking, Finished, ClientAlone
<1> QED BY <1>3, <1>4, <1>5, <1>6 DEF IInv, Live

\* A client that has gone leaves the core alone.
LEMMA GoneMeansAlone ==
    ASSUME IInv, ClientEnded, ~CoreEnded
    PROVE  CoreAlone
  BY WhereClientIs DEF IInv, ClientAlone, ClientEnded, CoreEnded

LEMMA StepCoreReadsEof == ASSUME IInv, CoreReadsEof PROVE IInv'
<1>1. Counts'
  BY DEF IInv, Counts, CoreReadsEof, clientVars
<1>2. clientAt' = "gone" /\ toCore' = <<>>
  BY DEF CoreReadsEof, ClientEnded, clientVars
<1>3. coreAt' # Misaligned
  BY DEF CoreReadsEof, Misaligned
<1>4. Hears'
  BY <1>2, <1>3, CoreHearsNothing
<1> QED BY <1>1, <1>2, <1>4 DEF IInv, CoreAlone, ClientEnded

\* A command that has been read is dispatched.
LEMMA DispatchBegins ==
    ASSUME IInv, Dispatch, ~ClientEnded
    PROVE  Sent /\ Body'
<1>1. coreAt = "dispatch" /\ ~CoreEnded
  BY DEF Dispatch, CoreEnded
<1>2. UNCHANGED <<clientAt, toCore, ClientState, calls, name, served, done, reply>>
      /\ asked'.all = asked.all /\ coreAt' = "body" /\ job' = got[1]
  BY DEF Dispatch, clientVars, ClientState, IInv, Counts
<1>3. Sent
  <2>1. Live
    BY <1>1 DEF IInv, ClientAlone, CoreAlone, ClientEnded
  <2>2. "dispatch" \notin Waiting
    BY CorePlaces
  <2> QED BY <1>1, <2>1, <2>2, WhereCoreIs DEF Live
<1>4. PICK g : CorePath(g) /\ g.at = "dispatch" /\ g.got[1] = Datum(name, calls)
  BY <1>3 DEF Sent
<1>5. toCore = <<>> /\ CoreState = g
  BY <1>1, <1>4, PathStops, Places DEF CorePath, CoreState
<1>6. got[1] = Datum(name, calls)
  BY <1>4, <1>5 DEF CoreState
<1>7. Running'
  BY <1>2, <1>3, <1>6 DEF Running, Sent
<1>8. toClient' = <<Tagged("response", calls)>>
  <2>1. toClient' = <<>> \o <<Tagged("response", got[1].of)>>
    BY <1>3 DEF Dispatch, CoreWrites, Sent
  <2>2. got[1].of = calls
    BY <1>6 DEF Datum
  <2> QED BY <2>1, <2>2
<1>9. ClientState' = Client("await", question, NoReply, returned)
  BY <1>2, <1>3 DEF Sent, ClientState, Client
<1>10. calls \in Nat /\ calls' = calls
  BY <1>2 DEF IInv, Counts
<1>11. Path("client", ClientState', toClient',
           Client("loop", question, Response(calls, <<>>, Nothing), returned))
  BY <1>8, <1>9, <1>10, ResponseBegins
<1>12. InLoop'
  BY <1>10, <1>11 DEF InLoop, ClientPath
<1>13. Body'
  BY <1>2, <1>3, <1>5, <1>7, <1>12 DEF Body, Sent
<1> QED BY <1>3, <1>13

LEMMA StepDispatch == ASSUME IInv, Dispatch PROVE IInv'
<1>1. coreAt = "dispatch" /\ ~CoreEnded
  BY DEF Dispatch, CoreEnded
<1>2. Counts'
  BY DEF IInv, Counts, Dispatch, clientVars
<1>3. UNCHANGED <<clientAt, toCore, ClientState, calls, name, served, done, reply>>
      /\ asked'.all = asked.all /\ coreAt' = "body" /\ job' = got[1]
  BY DEF Dispatch, clientVars, ClientState, IInv, Counts
<1>4. CASE ClientEnded
  <2>1. CoreAlone
    BY <1>1, <1>4, GoneMeansAlone
  <2>2. PICK g : CorePath(g)
    BY <2>1 DEF CoreAlone, Hears
  <2>3. toCore = <<>>
    BY <1>1, <2>2, PathStops, Places DEF CorePath, CoreState
  <2>4. Hears'
    BY <1>3, <2>3, CoreHearsNothing DEF Misaligned
  <2> QED BY <1>2, <1>3, <1>4, <2>4 DEF IInv, CoreAlone, CoreEnded, ClientEnded
<1>5. CASE ~ClientEnded
  BY <1>2, <1>5, DispatchBegins DEF IInv, Live
<1> QED BY <1>4, <1>5

LEMMA StepCoreWriteFails == ASSUME IInv, CoreWriteFails PROVE IInv'
<1>1. Counts'
  BY DEF IInv, Counts, CoreWriteFails, clientVars
<1> QED BY <1>1 DEF IInv, CoreWriteFails, CoreEnded, ClientEnded, clientVars

\* The body of a command asks.
LEMMA AskingBegins ==
    ASSUME IInv, CoreAsks, ~ClientEnded
    PROVE  Body /\ Asking'
<1>1. coreAt = "body" /\ ~CoreEnded
  BY DEF CoreAsks, CoreEnded
<1>2. UNCHANGED <<clientAt, toCore, ClientState, calls, name, served, done, job>>
      /\ asked'.all = asked.all + 1 /\ coreAt' = "answer" /\ got' = <<>>
  BY DEF CoreAsks, clientVars, ClientState
<1>3. Body
  <2>1. Live
    BY <1>1 DEF IInv, ClientAlone, CoreAlone, ClientEnded
  <2>2. "body" \notin Waiting
    BY CorePlaces
  <2> QED BY <1>1, <2>1, <2>2, WhereCoreIs DEF Live
<1>4. PICK q, b : ClientPath(Client("loop", q, Response(calls, <<>>, Nothing), b))
  BY <1>3 DEF Body, InLoop
<1> DEFINE k    == asked.all + 1
           text == <<Mark("query")>> \o Str(Datum("query", k))
<1>5. k \in Nat
  <2>1. Counts
    BY DEF IInv
  <2> QED BY <2>1 DEF Counts
<1>6. toClient' = toClient \o (text \o QueryEnd)
  BY <1>2 DEF CoreAsks, CoreWrites, QueryEnd
<1>7. Path("client", Client("loop", q, Response(calls, <<>>, Nothing), b), text,
           Client("serve", Datum("query", k), Response(calls, <<>>, Nothing), b))
  BY <1>5, QueryIsRead
<1> HIDE DEF text
<1>8. Path("client", ClientState, toClient \o text,
           Client("serve", Datum("query", k), Response(calls, <<>>, Nothing), b))
  BY <1>4, <1>7, PathAppend DEF ClientPath
<1>9. toClient' = (toClient \o text) \o QueryEnd
  <2>1. Mark("queryEnd") \in Token
    BY Tokens, Codes
  <2>2. QueryEnd \in Seq(Token)
    BY <2>1 DEF QueryEnd
  <2>3. toClient \in Seq(Token) /\ text \in Seq(Token)
    BY <1>4, <1>7 DEF Path, ClientPath
  <2>4. (toClient \o text) \o QueryEnd = toClient \o (text \o QueryEnd)
    BY <2>2, <2>3, ConcatAssociative, SMTT(30)
  <2> QED BY <1>6, <2>4, Zenon
<1>10. Running' /\ (served + 1 = asked.all)'
  BY <1>2, <1>3 DEF Body, Running
<1>11. Asking'
  <2>1. asked'.all = k /\ calls' = calls /\ ClientState' = ClientState
    BY <1>2
  <2>2. Path("client", ClientState', toClient \o text,
             Client("serve", Datum("query", asked'.all), Response(calls', <<>>, Nothing), b))
    BY <1>8, <2>1
  <2>3. toCore' = <<>>
    BY <1>2, <1>3 DEF Body
  <2> QED BY <1>2, <1>9, <1>10, <2>2, <2>3 DEF Asking
<1> QED BY <1>3, <1>11

LEMMA StepCoreAsks == ASSUME IInv, CoreAsks PROVE IInv'
<1>1. coreAt = "body" /\ ~CoreEnded
  BY DEF CoreAsks, CoreEnded
<1>2. Counts'
  <2>1. Counts
    BY DEF IInv
  <2>2. asked' = [all |-> asked.all + 1, now |-> asked.now + 1]
    BY DEF CoreAsks
  <2>3. UNCHANGED <<calls, done, served, name>>
    BY DEF CoreAsks, clientVars
  <2> QED BY <2>1, <2>2, <2>3 DEF Counts
<1>3. UNCHANGED <<clientAt, toCore, ClientState, calls, name, served, done, job>>
      /\ asked'.all = asked.all + 1 /\ coreAt' = "answer" /\ got' = <<>>
  BY DEF CoreAsks, clientVars, ClientState
<1>4. CASE ClientEnded
  <2>1. CoreAlone
    BY <1>1, <1>4, GoneMeansAlone
  <2>2. PICK g : CorePath(g)
    BY <2>1 DEF CoreAlone, Hears
  <2>3. toCore = <<>>
    BY <1>1, <2>2, PathStops, Places DEF CorePath, CoreState
  <2>4. Hears'
    BY <1>3, <2>3, CoreHearsNothing DEF Misaligned
  <2> QED BY <1>2, <1>3, <1>4, <2>4 DEF IInv, CoreAlone, CoreEnded, ClientEnded
<1>5. CASE ~ClientEnded
  BY <1>2, <1>5, AskingBegins DEF IInv, Live
<1> QED BY <1>4, <1>5

\* The body of a command ends.
LEMMA FinishEnds ==
    ASSUME IInv, CoreFinishes, ~ClientEnded
    PROVE  Body /\ Finished'
<1>1. coreAt = "body" /\ ~CoreEnded
  BY DEF CoreFinishes, CoreEnded
<1>2. /\ UNCHANGED <<clientAt, toCore, ClientState, calls, name, served, asked, job>>
      /\ done' = done + 1 /\ got' = <<>>
      /\ coreAt' = IF job.text = "deregisterProgram" THEN "returned" ELSE "command"
  BY DEF CoreFinishes, clientVars, ClientState
<1>3. Body
  <2>1. Live
    BY <1>1 DEF IInv, ClientAlone, CoreAlone, ClientEnded
  <2>2. "body" \notin Waiting
    BY CorePlaces
  <2> QED BY <1>1, <2>1, <2>2, WhereCoreIs DEF Live
<1>4. PICK q, b : ClientPath(Client("loop", q, Response(calls, <<>>, Nothing), b))
  BY <1>3 DEF Body, InLoop
<1>5. PICK ok \in BOOLEAN : toClient' = toClient \o EndResponse(ok)
  BY DEF CoreFinishes, CoreWrites
<1>6. calls \in Nat /\ job.of = calls /\ job.text = name
  BY <1>3 DEF IInv, Counts, Body, Running, Datum
<1>7. PICK r : /\ Own(calls, job.text, r)
               /\ Path("client", Client("loop", q, Response(calls, <<>>, Nothing), b),
                       EndResponse(ok), Client("idle", q, r, r))
  BY <1>6, OutcomeIsRead
<1>8. Path("client", ClientState', toClient', Client("idle", q, r, r))
  BY <1>2, <1>4, <1>5, <1>7, PathAppend DEF ClientPath
<1>9. r.of = calls' /\ Own(calls', name', r)
  BY <1>2, <1>6, <1>7 DEF Own
<1>10. done' = calls' /\ served' = asked'.all /\ toCore' = <<>>
  BY <1>2, <1>3 DEF Body, Running
<1>11. \/ coreAt' = "command" /\ got' = <<>>
       \/ coreAt' = "returned" /\ name' = "deregisterProgram"
  BY <1>2, <1>6
<1>12. Finished'
  BY <1>8, <1>9, <1>10, <1>11 DEF Finished, ClientPath
<1> QED BY <1>3, <1>12

LEMMA StepCoreFinishes == ASSUME IInv, CoreFinishes PROVE IInv'
<1>1. coreAt = "body" /\ ~CoreEnded
  BY DEF CoreFinishes, CoreEnded
<1>2. Counts'
  <2>1. Counts
    BY DEF IInv
  <2>2. done' = done + 1 /\ UNCHANGED <<calls, asked, served, name>>
    BY DEF CoreFinishes, clientVars
  <2> QED BY <2>1, <2>2 DEF Counts
<1>3. /\ UNCHANGED <<clientAt, toCore, ClientState, calls, name, served, asked, job>>
      /\ done' = done + 1 /\ got' = <<>>
      /\ coreAt' = IF job.text = "deregisterProgram" THEN "returned" ELSE "command"
  BY DEF CoreFinishes, clientVars, ClientState
<1>4. CASE ClientEnded
  <2>1. CoreAlone
    BY <1>1, <1>4, GoneMeansAlone
  <2>2. PICK g : CorePath(g)
    BY <2>1 DEF CoreAlone, Hears
  <2>3. toCore = <<>>
    BY <1>1, <2>2, PathStops, Places DEF CorePath, CoreState
  <2>4. Hears'
    BY <1>3, <2>3, CoreHearsNothing DEF Misaligned
  <2> QED BY <1>2, <1>3, <1>4, <2>4 DEF IInv, CoreAlone, CoreEnded, ClientEnded
<1>5. CASE ~ClientEnded
  BY <1>2, <1>5, FinishEnds DEF IInv, Live
<1> QED BY <1>4, <1>5

\* No row of the client's table leads out of the session.
LEMMA ClientNeverGoes == ClientRead => clientAt' # "gone"
<1> SUFFICES ASSUME ClientRead PROVE clientAt' # "gone"
  OBVIOUS
<1> DEFINE code  == Head(toClient).code
           found == CHOOSE row \in ClientTable : row[1] = clientAt /\ row[2] = code
<1>1. clientAt' = After(ClientTable, clientAt, code)
  BY DEF ClientRead
<1> HIDE DEF code
<1>2. CASE \E to \in {row[3] : row \in ClientTable} : <<clientAt, code, to>> \in ClientTable
  <2>1. \A to : <<clientAt, code, to>>[1] = clientAt /\ <<clientAt, code, to>>[2] = code
    OBVIOUS
  <2>2. \E row \in ClientTable : row[1] = clientAt /\ row[2] = code
    BY <1>2, <2>1
  <2>3. found \in ClientTable
    BY <2>2
  <2>4. clientAt' = found[3]
    BY <1>1, <1>2 DEF After
  <2> HIDE DEF found
  <2>5. \A row \in ClientTable : row[3] # "gone"
    BY DEF ClientTable, ReadToResponse, ReadResponse, ReadQuery
  <2> QED BY <2>3, <2>4, <2>5
<1>3. CASE ~ \E to \in {row[3] : row \in ClientTable} : <<clientAt, code, to>> \in ClientTable
  BY <1>1, <1>3 DEF After, Misaligned
<1> QED BY <1>2, <1>3

\* A client that waits for nothing more has a path of its own.
LEMMA ClientReadsNothing ==
    ASSUME toClient' = <<>>, clientAt' \notin {"idle", Misaligned}
    PROVE  Reads'
<1>1. Path("client", ClientState', toClient', ClientState')
  BY PathEmpty
<1>2. ClientState'.at \notin {"idle", Misaligned}
  BY DEF ClientState
<1> QED BY <1>1, <1>2 DEF Reads, ClientPath

\* A client that reads stays in the stage of its call.
LEMMA ClientReadsOn ==
    ASSUME ClientRead
    PROVE  /\ Body => Body'
           /\ Asking => Asking'
           /\ Answering => Answering'
           /\ Finished => Finished'
<1>1. UNCHANGED <<coreAt, got, toCore, CoreState, calls, name, served, done, asked, job>>
  BY DEF ClientRead, coreVars, CoreState
<1>2. ASSUME InLoop PROVE InLoop'
  <2>1. PICK q, b : ClientPath(Client("loop", q, Response(calls, <<>>, Nothing), b))
    BY <1>2 DEF InLoop
  <2>2. Path("client", ClientState', toClient',
             Client("loop", q, Response(calls, <<>>, Nothing), b))
    BY <2>1, ClientPathRead
  <2> QED BY <1>1, <2>2 DEF InLoop, ClientPath
<1>3. Body => Body'
  BY <1>1, <1>2 DEF Body, Running
<1>4. ASSUME Asking PROVE Asking'
  <2>1. PICK w, b : /\ toClient = w \o QueryEnd
                    /\ Path("client", ClientState, w,
                            Client("serve", Datum("query", asked.all),
                                   Response(calls, <<>>, Nothing), b))
    BY <1>4 DEF Asking
  <2> DEFINE goal == Client("serve", Datum("query", asked.all), Response(calls, <<>>, Nothing), b)
  <2>2. goal.at = "serve"
    BY DEF Client
  <2>3. goal = Client("serve", Datum("query", asked'.all), Response(calls', <<>>, Nothing), b)
    BY <1>1
  <2> HIDE DEF goal
  <2>4. toClient' = Tail(w) \o QueryEnd /\ Path("client", ClientState', Tail(w), goal)
    BY <2>1, <2>2, QueryPathRead DEF goal
  <2>5. Running' /\ (served + 1 = asked.all)' /\ coreAt' = "answer" /\ got' = <<>> /\ toCore' = <<>>
    BY <1>1, <1>4 DEF Asking, Running
  <2> QED BY <2>3, <2>4, <2>5 DEF Asking
<1>5. Answering => Answering'
  BY <1>1, <1>2 DEF Answering, Running, CorePath
<1>6. ASSUME Finished PROVE Finished'
  <2>1. PICK q, r : /\ ClientPath(Client("idle", q, r, r))
                    /\ r.of = calls /\ (calls > 0 => Own(calls, name, r))
    BY <1>6 DEF Finished
  <2>2. Path("client", ClientState', toClient', Client("idle", q, r, r))
    BY <2>1, ClientPathRead
  <2>3. r.of = calls' /\ (calls' > 0 => Own(calls', name', r))
    BY <1>1, <2>1
  <2>4. /\ done' = calls' /\ served' = asked'.all /\ toCore' = <<>>
        /\ \/ coreAt' = "command" /\ got' = <<>>
           \/ coreAt' = "returned" /\ name' = "deregisterProgram"
    BY <1>1, <1>6 DEF Finished
  <2> QED BY <2>2, <2>3, <2>4 DEF Finished, ClientPath
<1> QED BY <1>3, <1>4, <1>5, <1>6

LEMMA StepClientRead == ASSUME IInv, ClientRead PROVE IInv'
<1>1. Counts'
  BY DEF IInv, Counts, ClientRead, coreVars
<1>2. UNCHANGED <<coreAt, calls, name>>
  BY DEF ClientRead, coreVars
<1>3. clientAt \in ClientReading /\ toClient # <<>>
  BY ClientReadTakes
<1>4. ~Sent /\ ~CoreAlone /\ ~ClientEnded
  BY <1>3, ClientPlaces DEF Sent, CoreAlone, ClientEnded
<1>5. CASE Live
  BY <1>1, <1>4, <1>5, ClientReadsOn DEF IInv, Live
<1>6. CASE ClientAlone
  <2>1. coreAt = "killed" /\ (Reads \/ Serves)
    BY <1>3, <1>6 DEF ClientAlone
  <2>2. ASSUME Reads PROVE Reads'
    <3>1. PICK g : /\ ClientPath(g) /\ g.at # Misaligned
                   /\ g.at = "idle" /\ calls > 0 => Own(calls, name, g.returned)
      BY <2>2 DEF Reads
    <3>2. Path("client", ClientState', toClient', g)
      BY <3>1, ClientPathRead
    <3> QED BY <1>2, <3>1, <3>2 DEF Reads, ClientPath
  <2>3. ASSUME Serves PROVE Serves'
    <3>1. PICK g, w : /\ toClient = w \o QueryEnd
                      /\ Path("client", ClientState, w, g) /\ g.at = "serve"
      BY <2>3 DEF Serves
    <3>2. toClient' = Tail(w) \o QueryEnd /\ Path("client", ClientState', Tail(w), g)
      BY <3>1, QueryPathRead
    <3> QED BY <3>1, <3>2 DEF Serves
  <2>4. clientAt' # "gone"
    BY ClientNeverGoes
  <2>5. ClientAlone'
    BY <1>2, <2>1, <2>2, <2>3, <2>4 DEF ClientAlone
  <2> QED BY <1>1, <2>5 DEF IInv
<1> QED BY <1>4, <1>5, <1>6 DEF IInv

LEMMA StepClientReadsEof == ASSUME IInv, ClientReadsEof PROVE IInv'
<1>1. Counts'
  BY DEF IInv, Counts, ClientReadsEof, coreVars
<1>2. /\ clientAt \in ClientReading /\ toClient = <<>> /\ CoreEnded /\ clientAt' = "failed"
      /\ UNCHANGED <<toClient, coreAt, calls, done>>
  BY DEF ClientReadsEof, coreVars
<1>3. clientAt # "gone" /\ clientAt # "idle"
  BY <1>2, ClientPlaces
<1>4. CASE coreAt = "killed"
  <2>1. Reads'
    BY <1>2, ClientReadsNothing DEF Misaligned
  <2> QED BY <1>1, <1>2, <1>4, <2>1 DEF IInv, ClientAlone
<1>5. CASE coreAt # "killed"
  <2>1. ~Live
    <3>1. SUFFICES ASSUME Live PROVE FALSE
      OBVIOUS
    <3>2. Finished
      <4>1. coreAt \in {"returned", "raised"}
        BY <1>2, <1>5 DEF CoreEnded
      <4>2. coreAt \notin Waiting
        BY <4>1, CorePlaces
      <4> QED BY <3>1, <4>1, <4>2, WhereCoreIs DEF Live
    <3>3. PICK q, r : ClientPath(Client("idle", q, r, r))
      BY <3>2 DEF Finished
    <3>4. ClientState = Client("idle", q, r, r)
      BY <1>2, <3>3, PathEmpty DEF ClientPath
    <3> QED BY <1>3, <3>4 DEF ClientState, Client
  <2>2. ClientAlone
    BY <1>2, <1>3, <2>1 DEF IInv, CoreAlone, ClientEnded
  <2> QED BY <1>1, <1>2, <1>5, <2>2 DEF IInv, ClientAlone
<1> QED BY <1>4, <1>5

\* A client answers the query the core has asked.
LEMMA ServeAnswers ==
    ASSUME IInv, Serve, Live
    PROVE  Asking /\ Answering'
<1>1. /\ clientAt = "serve" /\ clientAt' = "queryEnd" /\ served' = served + 1
      /\ UNCHANGED <<toClient, coreAt, got, job, asked, done, heard, calls, name,
                     question, reply, returned>>
  BY DEF Serve, coreVars
<1>2. clientAt \notin ClientReading
  BY <1>1, ClientPlaces
<1>3. ClientState.at = "serve" /\ ClientState.at \notin Reading("client")
  BY <1>1, Places DEF ClientState
<1>4. ClientState' = Client("queryEnd", question, reply, returned)
  BY <1>1 DEF ClientState, Client
<1>5. Asking
  BY <1>1, <1>2, WhereClientIs DEF Live
<1>6. PICK w, b : /\ toClient = w \o QueryEnd
                  /\ Path("client", ClientState, w,
                          Client("serve", Datum("query", asked.all),
                                 Response(calls, <<>>, Nothing), b))
  BY <1>5 DEF Asking
<1>7. w = <<>> /\ ClientState = Client("serve", Datum("query", asked.all),
                                       Response(calls, <<>>, Nothing), b)
  BY <1>3, <1>6, PathStops
<1>8. question = Datum("query", asked.all) /\ reply = Response(calls, <<>>, Nothing)
  BY <1>7 DEF ClientState, Client
<1>9. toClient' = QueryEnd
  <2>1. <<>> \o QueryEnd = QueryEnd
    BY DEF QueryEnd
  <2> QED BY <1>1, <1>6, <1>7, <2>1
<1>10. Path("client", ClientState', toClient',
           Client("loop", question, Response(calls, <<>>, Nothing), returned))
  BY <1>4, <1>8, <1>9, QueryEndIsRead DEF QueryEnd
<1>11. InLoop'
  BY <1>1, <1>10 DEF InLoop, ClientPath
<1>12. PICK tokens \in Answers(question.of) : ClientWrites(tokens)
  BY DEF Serve
<1>13. ~CoreEnded
  BY <1>5, WhereCoreIs DEF CoreEnded
<1>14. PICK g : /\ Path("core", Core("answer", <<>>, heard), tokens, g)
                /\ g.at = "body" /\ g.heard = asked.all
  <2>1. question.of = asked.all /\ asked.all \in Nat
    BY <1>8 DEF Datum, IInv, Counts
  <2> QED BY <1>12, <2>1, AnswerIsRead
<1>15. toCore' = tokens
  <2>1. toCore' = <<>> \o tokens
    BY <1>5, <1>12, <1>13 DEF ClientWrites, Asking
  <2>2. tokens \in Seq(Token)
    BY <1>14 DEF Path
  <2> QED BY <2>1, <2>2, ConcatEmptySeq
<1>16. CoreState' = Core("answer", <<>>, heard)
  BY <1>1, <1>5 DEF Asking, CoreState, Core
<1>17. coreAt' \in Waiting
  BY <1>1, <1>5, CorePlaces DEF Asking
<1>18. Running' /\ served' = asked'.all
  BY <1>1, <1>5 DEF Asking, Running
<1>19. Answering'
  BY <1>1, <1>11, <1>14, <1>15, <1>16, <1>17, <1>18 DEF Answering, CorePath
<1> QED BY <1>5, <1>19

LEMMA StepServe == ASSUME IInv, Serve PROVE IInv'
<1>1. /\ clientAt = "serve" /\ clientAt' = "queryEnd" /\ served' = served + 1
      /\ UNCHANGED <<toClient, coreAt, got, job, asked, done, heard, calls, name,
                     question, reply, returned>>
  BY DEF Serve, coreVars
<1>2. Counts'
  <2>1. Counts
    BY DEF IInv
  <2> QED BY <1>1, <2>1 DEF Counts
<1>3. clientAt \notin ClientReading
  BY <1>1, ClientPlaces
<1>4. ClientState.at = "serve" /\ ClientState.at \notin Reading("client")
  BY <1>1, Places DEF ClientState
<1>5. ClientState' = Client("queryEnd", question, reply, returned)
  BY <1>1 DEF ClientState, Client
<1>6. CASE Live
  BY <1>2, <1>6, ServeAnswers DEF IInv, Live
<1>7. CASE ~Live
  <2>1. coreAt = "killed" /\ (Reads \/ Serves)
    BY <1>1, <1>7 DEF IInv, ClientAlone, CoreAlone, ClientEnded
  <2>2. CASE Reads
    <3>1. PICK g : ClientPath(g)
      BY <2>2 DEF Reads
    <3>2. toClient' = <<>>
      BY <1>1, <1>4, <3>1, PathStops DEF ClientPath
    <3>3. Reads'
      BY <1>1, <3>2, ClientReadsNothing DEF Misaligned
    <3> QED BY <1>1, <1>2, <2>1, <3>3 DEF IInv, ClientAlone
  <2>3. CASE Serves
    <3>1. PICK g, w : toClient = w \o QueryEnd /\ Path("client", ClientState, w, g)
      BY <2>3 DEF Serves
    <3>2. w = <<>>
      BY <1>4, <3>1, PathStops
    <3>3. <<>> \o QueryEnd = QueryEnd
      BY DEF QueryEnd
    <3>4. toClient' = QueryEnd
      BY <1>1, <3>1, <3>2, <3>3
    <3>5. Path("client", ClientState', toClient', Client("loop", question, reply, returned))
      BY <1>5, <3>4, QueryEndIsRead DEF QueryEnd
    <3>6. Client("loop", question, reply, returned).at = "loop"
      BY DEF Client
    <3>7. Reads'
      BY <3>5, <3>6 DEF Reads, ClientPath, Misaligned
    <3> QED BY <1>1, <1>2, <2>1, <3>7 DEF IInv, ClientAlone
  <2> QED BY <2>1, <2>2, <2>3
<1> QED BY <1>6, <1>7

\* A command goes out when the outcome of the one before is in.
LEMMA CommandIsSent ==
    ASSUME IInv, NEW c \in Command, SendCommand(c), Live, ~CoreEnded
    PROVE  Finished /\ Sent'
<1>1. /\ clientAt = "idle" /\ clientAt' = "await" /\ calls' = calls + 1 /\ name' = c
      /\ reply' = NoReply
      /\ UNCHANGED <<toClient, coreAt, got, job, asked, done, heard, question, served, returned>>
  BY DEF SendCommand, coreVars
<1>2. calls' \in Nat
  <2>1. Counts
    BY DEF IInv
  <2> QED BY <1>1, <2>1 DEF Counts
<1>3. toCore' = IF CoreEnded THEN <<>> ELSE toCore \o CommandFrame(c, calls')
  BY DEF SendCommand, ClientWrites, CommandFrame
<1>4. Finished /\ toClient = <<>>
  BY <1>1, WhenIdle
<1>5. coreAt = "command" /\ got = <<>> /\ toCore = <<>> /\ done = calls /\ served = asked.all
  BY <1>4 DEF Finished, CoreEnded
<1>6. PICK g : /\ Path("core", Core("command", <<>>, heard), CommandFrame(c, calls'), g)
               /\ g.at = "dispatch" /\ g.got[1] = Datum(c, calls')
  BY <1>2, CommandIsRead
<1>7. toCore' = CommandFrame(c, calls')
  <2>1. CommandFrame(c, calls') \in Seq(Token)
    BY <1>6 DEF Path
  <2> QED BY <1>3, <1>5, <2>1, ConcatEmptySeq
<1>8. CoreState' = Core("command", <<>>, heard)
  BY <1>1, <1>5 DEF CoreState, Core
<1>9. coreAt' \notin Waiting
  BY <1>1, <1>5, CorePlaces
<1>10. done' + 1 = calls' /\ served' = asked'.all /\ toClient' = <<>>
  BY <1>1, <1>4, <1>5
<1>11. Sent'
  BY <1>1, <1>6, <1>7, <1>8, <1>9, <1>10 DEF Sent, CorePath
<1> QED BY <1>4, <1>11

LEMMA StepSendCommand == ASSUME IInv, NEW c \in Command, SendCommand(c) PROVE IInv'
<1>1. /\ clientAt = "idle" /\ clientAt' = "await" /\ calls' = calls + 1 /\ name' = c
      /\ reply' = NoReply
      /\ UNCHANGED <<toClient, coreAt, got, job, asked, done, heard, question, served, returned>>
  BY DEF SendCommand, coreVars
<1>2. calls' \in Nat
  <2>1. Counts
    BY DEF IInv
  <2> QED BY <1>1, <2>1 DEF Counts
<1>3. Counts'
  <2>1. Counts
    BY DEF IInv
  <2> QED BY <1>1, <1>2, <2>1 DEF Counts
<1>4. CASE Live /\ ~CoreEnded
  BY <1>3, <1>4, CommandIsSent DEF IInv, Live
<1>5. CASE Live /\ CoreEnded
  <2>1. Finished /\ toClient = <<>>
    BY <1>1, <1>5, WhenIdle
  <2>2. coreAt = "returned" /\ done = calls
    BY <1>5, <2>1 DEF Finished, CoreEnded
  <2>3. done' < calls'
    <3>1. calls \in Nat
      BY DEF IInv, Counts
    <3> QED BY <1>1, <2>2, <3>1
  <2>4. ClientAlone'
    BY <1>1, <2>1, <2>2, <2>3 DEF ClientAlone
  <2> QED BY <1>3, <2>4 DEF IInv
<1>6. CASE ~Live
  <2>1. coreAt = "killed" /\ toClient = <<>>
    BY <1>1, <1>6, WhenIdle
  <2>2. Reads'
    BY <1>1, <2>1, ClientReadsNothing DEF Misaligned
  <2>3. ClientAlone'
    BY <1>1, <2>1, <2>2 DEF ClientAlone
  <2> QED BY <1>3, <2>3 DEF IInv
<1> QED BY <1>4, <1>5, <1>6

\* What is left of a stream that is cut off, for either reader.
LEMMA CutLeavesPath ==
    ASSUME NEW end, NEW s, NEW g, NEW w, NEW v, Path(end, s, w, g), Cut(w, v)
    PROVE  \E h : Path(end, s, v, h) /\ (h = g \/ h.at \in Reading(end))
<1>1. PICK n \in 0..Len(w) : v = SubSeq(w, 1, n)
  BY DEF Cut
<1> QED BY <1>1, PathCut

LEMMA CutConcat ==
    ASSUME NEW D, NEW s \in Seq(D), NEW t \in D, NEW v, Cut(s \o <<t>>, v)
    PROVE  Cut(s, v) \/ v = s \o <<t>>
<1>1. <<t>> \in Seq(D) /\ Len(<<t>>) = 1
  OBVIOUS
<1>2. s \o <<t>> \in Seq(D) /\ Len(s \o <<t>>) = Len(s) + 1 /\ Len(s) \in Nat
  BY <1>1, ConcatProperties, LenProperties
<1>3. PICK n \in 0..Len(s) + 1 : v = SubSeq(s \o <<t>>, 1, n)
  BY <1>2 DEF Cut
<1>4. CASE n = Len(s) + 1
  BY <1>2, <1>3, <1>4, SubSeqFull
<1>5. CASE n = 0
  <2>1. v = <<>> /\ SubSeq(s, 1, 0) = <<>>
    BY <1>3, <1>5, SubSeqEmpty
  <2>2. v = SubSeq(s, 1, 0) /\ 0 \in 0..Len(s)
    BY <1>2, <2>1
  <2> QED BY <2>2 DEF Cut
<1>6. CASE n \in 1..Len(s)
  <2>1. 1 \in 1..Len(s)
    BY <1>2, <1>6
  <2>2. v = SubSeq(s, 1, n)
    BY <1>1, <1>3, <1>6, <2>1, SubSeqOfConcat1
  <2>3. n \in 0..Len(s)
    BY <1>2, <1>6
  <2> QED BY <2>2, <2>3 DEF Cut
<1> QED BY <1>2, <1>3, <1>4, <1>5, <1>6

LEMMA StepClientGoes == ASSUME IInv, ClientGoes PROVE IInv'
<1>1. ~ClientEnded /\ clientAt' = "gone" /\ CoreState' = CoreState /\ coreAt' = coreAt
  BY DEF ClientGoes, coreVars, CoreState
<1>2. Counts'
  BY DEF IInv, Counts, ClientGoes, coreVars
<1>3. CASE CoreEnded
  BY <1>1, <1>2, <1>3 DEF IInv, CoreEnded, ClientEnded
<1>4. CASE ~CoreEnded
  <2>1. Live
    BY <1>1, <1>4 DEF IInv, ClientAlone, CoreAlone, ClientEnded, CoreEnded
  <2>2. PICK g : CorePath(g) /\ g.at # Misaligned
    BY <1>4, <2>1, CoreHasPath DEF Hears
  <2>3. toCore' = toCore \/ Cut(toCore, toCore')
    BY DEF ClientGoes
  <2>4. \E h : Path("core", CoreState, toCore', h) /\ h.at # Misaligned
    <3>1. CASE toCore' = toCore
      BY <2>2, <3>1 DEF CorePath
    <3>2. CASE Cut(toCore, toCore')
      <4>1. PICK h : Path("core", CoreState, toCore', h) /\ (h = g \/ h.at \in Reading("core"))
        BY <2>2, <3>2, CutLeavesPath DEF CorePath
      <4>2. h.at # Misaligned
        BY <2>2, <4>1, Places DEF Misaligned
      <4> QED BY <4>1, <4>2
    <3> QED BY <2>3, <3>1, <3>2
  <2>5. Hears'
    BY <1>1, <2>4 DEF Hears, CorePath
  <2> QED BY <1>1, <1>2, <1>4, <2>5 DEF IInv, CoreAlone, CoreEnded, ClientEnded
<1> QED BY <1>3, <1>4

LEMMA StepCoreGoes == ASSUME IInv, CoreGoes PROVE IInv'
<1>1. /\ ~CoreEnded /\ coreAt' = "killed" /\ Cut(toClient, toClient')
      /\ UNCHANGED <<ClientState, clientAt, calls, name>>
  BY DEF CoreGoes, clientVars, ClientState
<1>2. Counts'
  BY DEF IInv, Counts, CoreGoes, clientVars
<1>3. CASE ClientEnded
  BY <1>1, <1>2, <1>3 DEF IInv, CoreEnded, ClientEnded
<1>4. CASE ~ClientEnded
  <2>1. Live
    BY <1>1, <1>4 DEF IInv, ClientAlone, CoreAlone, ClientEnded, CoreEnded
  <2>2. CASE Reads
    <3>1. PICK g : /\ ClientPath(g) /\ g.at # Misaligned
                   /\ g.at = "idle" /\ calls > 0 => Own(calls, name, g.returned)
      BY <2>2 DEF Reads
    <3>2. PICK h : /\ Path("client", ClientState, toClient', h)
                   /\ h = g \/ h.at \in Reading("client")
      BY <1>1, <3>1, CutLeavesPath DEF ClientPath
    <3>3. /\ h.at # Misaligned
          /\ h.at = "idle" /\ calls > 0 => Own(calls, name, h.returned)
      BY <3>1, <3>2, Places DEF Misaligned
    <3>4. Reads'
      BY <1>1, <3>2, <3>3 DEF Reads, ClientPath
    <3> QED BY <1>1, <1>2, <1>4, <3>4 DEF IInv, ClientAlone, ClientEnded
  <2>3. CASE Serves
    <3>1. PICK g, w : /\ toClient = w \o QueryEnd
                      /\ Path("client", ClientState, w, g) /\ g.at = "serve"
      BY <2>3 DEF Serves
    <3>2. w \in Seq(Token)
      BY <3>1 DEF Path
    <3>3. Mark("queryEnd") \in Token
      BY Tokens, Codes
    <3>4. Cut(w, toClient') \/ toClient' = w \o QueryEnd
      BY <1>1, <3>1, <3>2, <3>3, CutConcat DEF QueryEnd
    <3>5. CASE Cut(w, toClient')
      <4>1. PICK h : /\ Path("client", ClientState, toClient', h)
                     /\ h = g \/ h.at \in Reading("client")
        BY <3>1, <3>5, CutLeavesPath
      <4>2. h.at \notin {"idle", Misaligned}
        BY <3>1, <4>1, Places DEF Misaligned
      <4>3. Reads'
        BY <1>1, <4>1, <4>2 DEF Reads, ClientPath
      <4> QED BY <1>1, <1>2, <1>4, <4>3 DEF IInv, ClientAlone, ClientEnded
    <3>6. CASE toClient' = w \o QueryEnd
      <4>1. Serves'
        BY <1>1, <3>1, <3>6 DEF Serves
      <4> QED BY <1>1, <1>2, <1>4, <4>1 DEF IInv, ClientAlone, ClientEnded
    <3> QED BY <3>4, <3>5, <3>6
  <2> QED BY <2>1, <2>2, <2>3, ClientHasPath
<1> QED BY <1>3, <1>4

LEMMA StepStutter == ASSUME IInv, UNCHANGED vars PROVE IInv'
<1>1. UNCHANGED <<toCore, toClient, coreAt, got, job, asked, registered, done, heard, clientAt,
                  calls, name, question, served, reply, returned>>
  BY DEF vars, coreVars, clientVars
<1>2. CoreState' = CoreState /\ ClientState' = ClientState
  BY <1>1 DEF CoreState, ClientState
<1>3. Counts'
  BY <1>1 DEF IInv, Counts
<1>4. Live => Live'
  BY <1>1, <1>2 DEF Live, Sent, Body, Asking, Answering, Finished, Running, InLoop,
     CorePath, ClientPath
<1>5. (ClientAlone => ClientAlone') /\ (CoreAlone => CoreAlone')
  BY <1>1, <1>2 DEF ClientAlone, CoreAlone, Reads, Serves, Hears, CorePath, ClientPath, CoreEnded
<1> QED BY <1>1, <1>3, <1>4, <1>5 DEF IInv, CoreEnded, ClientEnded

LEMMA Next_IInv == IInv /\ [Next]_vars => IInv'
<1> SUFFICES ASSUME IInv, [Next]_vars PROVE IInv'
  OBVIOUS
<1>1. CASE CoreStep
  BY <1>1, StepCoreRead, StepCoreReadsEof, StepDispatch, StepCoreWriteFails, StepCoreAsks,
     StepCoreFinishes DEF CoreStep
<1>2. CASE ClientStep
  BY <1>2, StepClientRead, StepClientReadsEof, StepServe DEF ClientStep
<1>3. CASE \E c \in Command : SendCommand(c)
  BY <1>3, StepSendCommand
<1>4. CASE ClientGoes \/ CoreGoes
  BY <1>4, StepClientGoes, StepCoreGoes
<1>5. CASE Over \/ UNCHANGED vars
  BY <1>5, StepStutter DEF Over
<1> QED BY <1>1, <1>2, <1>3, <1>4, <1>5 DEF Next

LEMMA Inductive == Spec => []IInv
  BY Init_IInv, Next_IInv, PTL DEF Spec

\* No end ever reads a marker it does not expect, whatever is asked, answered,
\* refused or cut off (read_to_burst and read_payload at both ends,
\* ghidra_wire/framing.py, server.py and client.py).
THEOREM EndsStayInStep == Spec => []Aligned
  BY Inductive, AlignedFollows, PTL

\* When a command has returned nothing of it is left in the streams
\* (_read_response, client.py; serve, angr_core.py).
THEOREM NothingIsLeftOver == Spec => []NothingLeftOver
  BY Inductive, NothingLeftFollows, PTL

\* A command returns its own result or its own error and never another's
\* (_send_command and _read_response, client.py).
THEOREM OutcomesAreOwn == Spec => []ReturnsOwnOutcome
  BY Inductive, OutcomeFollows, PTL

-----------------------------------------------------------------------------
(* The session implements the calls of RemoteCall *)

\* The line in a phase, with the numbers the session has reached.
On(phase) == Calls!At(phase, calls, asked.all, heard, returned.of)

\* Each stage of a call is a phase of the line.
LineIsStage ==
    /\ Sent => Line = On("called")
    /\ Body => Line = On("running") /\ clientAt # "idle"
    /\ Asking => Line = On("asking") /\ clientAt # "idle"
    /\ Answering => Line = On("told") /\ clientAt # "idle"
    /\ Finished => \/ Line = On("finished") /\ clientAt # "idle"
                   \/ Line = On("idle") /\ clientAt = "idle" /\ returned.of = calls

LEMMA StageIsPhase == IInv => LineIsStage
<1> SUFFICES ASSUME IInv PROVE LineIsStage
  OBVIOUS
<1>1. calls \in Nat /\ done \in Nat /\ served \in Nat /\ asked.all \in Nat
  BY DEF IInv, Counts
<1>2. Live => Line = On(Phase)
  <2>1. SUFFICES ASSUME Live PROVE Up /\ clientAt \notin {"failed", "gone"}
    BY DEF Line, On, Calls!At
  <2>2. clientAt \notin {"failed", "gone"}
    BY <2>1, WhereClientIs
  <2>3. ~CoreEnded \/ Finished
    <3>1. {"returned", "raised", "killed"} \cap Waiting = {}
      BY Places
    <3> QED BY <2>1, <3>1, WhereCoreIs DEF Live, CoreEnded
  <2>4. Finished => Up
    BY DEF Finished, Up, CoreEnded
  <2> QED BY <2>2, <2>3, <2>4 DEF Up
<1>3. Sent => Phase = "called"
  <2>1. SUFFICES ASSUME Sent PROVE Phase = "called"
    OBVIOUS
  <2>2. done # calls
    BY <1>1, <2>1 DEF Sent
  <2>3. coreAt # "body" /\ coreAt \notin Waiting
    BY <2>1, WhereCoreIs DEF Sent
  <2> QED BY <2>2, <2>3 DEF Phase
<1>4. Body => Phase = "running"
  <2>1. SUFFICES ASSUME Body PROVE Phase = "running"
    OBVIOUS
  <2>2. done # calls
    BY <1>1, <2>1 DEF Body, Running
  <2>3. coreAt = "body" /\ coreAt \notin Waiting
    BY <2>1, Places DEF Body
  <2> QED BY <2>2, <2>3 DEF Phase
<1>5. ASSUME Asking \/ Answering
      PROVE  Phase = IF served = asked.all THEN "told" ELSE "asking"
  <2>1. done # calls
    BY <1>1, <1>5 DEF Asking, Answering, Running
  <2>2. coreAt \in Waiting
    BY <1>5, CorePlaces DEF Asking, Answering
  <2>3. coreAt # "body"
    BY <2>2, Places
  <2> QED BY <2>1, <2>2, <2>3 DEF Phase
<1>6. (Asking => served # asked.all) /\ (Answering => served = asked.all)
  BY <1>1 DEF Asking, Answering
<1>7. Finished => Phase = IF clientAt = "idle" THEN "idle" ELSE "finished"
  BY DEF Finished, Phase
<1>8. Body \/ Asking \/ Answering => clientAt # "idle"
  BY WhereClientIs, Places DEF Live
<1>9. Finished /\ clientAt = "idle" => returned.of = calls
  BY WhenIdle DEF Live
<1>10. Sent => Line = On("called")
  BY <1>2, <1>3 DEF Live
<1>11. Body => Line = On("running")
  BY <1>2, <1>4 DEF Live
<1>12. (Asking => Line = On("asking")) /\ (Answering => Line = On("told"))
  BY <1>2, <1>5, <1>6 DEF Live
<1>13. /\ Finished /\ clientAt = "idle" => Line = On("idle")
       /\ Finished /\ clientAt # "idle" => Line = On("finished")
  BY <1>2, <1>7 DEF Live
<1> QED BY <1>8, <1>9, <1>10, <1>11, <1>12, <1>13 DEF LineIsStage

\* An end that is gone breaks the line, and a broken line stays broken.
LEMMA BrokenIsNext == Line' = Calls!Broken => [Calls!CallNext]_Line
  BY DEF Calls!CallNext, Calls!Break

LEMMA AloneIsBroken ==
    ASSUME IInv, ~Live, Next
    PROVE  Line' = Calls!Broken \/ Line' = Line
<1>1. CASE coreAt = "killed"
  <2>1. "killed" \notin CoreReading
    BY Places
  <2>2. coreAt' = "killed"
    BY <1>1, <2>1 DEF Next, CoreStep, ClientStep, CoreRead, CoreReadsEof, Dispatch,
       CoreWriteFails, CoreAsks, CoreFinishes, ClientRead, ClientReadsEof, Serve, SendCommand,
       ClientGoes, CoreGoes, Over, CoreEnded, vars, coreVars
  <2> QED BY <2>2 DEF Line, Up, CoreEnded, Calls!Broken
<1>2. CASE clientAt = "gone"
  <2>1. "gone" \notin ClientReading
    BY Places
  <2>2. clientAt' = "gone"
    BY <1>2, <2>1 DEF Next, CoreStep, ClientStep, CoreRead, CoreReadsEof, Dispatch,
       CoreWriteFails, CoreAsks, CoreFinishes, ClientRead, ClientReadsEof, Serve, SendCommand,
       ClientGoes, CoreGoes, Over, ClientEnded, vars, clientVars
  <2> QED BY <2>2 DEF Line, Calls!Broken
<1>3. CASE coreAt = "returned" /\ clientAt \in {"await", "failed"} /\ toClient = <<>>
  <2>1. "returned" \notin CoreReading /\ "failed" \notin ClientReading
    BY Places
  <2>2. clientAt' \in {"failed", "gone"} \/ UNCHANGED vars
    BY <1>3, <2>1 DEF Next, CoreStep, ClientStep, CoreRead, CoreReadsEof, Dispatch,
       CoreWriteFails, CoreAsks, CoreFinishes, ClientRead, ClientReadsEof, Serve, SendCommand,
       ClientGoes, CoreGoes, Over, CoreEnded
  <2>3. UNCHANGED vars => Line' = Line
    BY DEF vars, coreVars, clientVars, Line, Up, CoreEnded, Phase
  <2>4. clientAt' \in {"failed", "gone"} => Line' = Calls!Broken
    BY DEF Line, Calls!Broken
  <2> QED BY <2>2, <2>3, <2>4
<1> QED BY <1>1, <1>2, <1>3 DEF IInv, ClientAlone, CoreAlone, ClientEnded

\* What each step of a session in which both ends are up is to the line.
LEMMA CoreReadIsHear ==
    ASSUME IInv, LineIsStage, LineIsStage', Live, CoreRead
    PROVE  Calls!Hear \/ Line' = Line
<1>1. coreAt \in CoreReading /\ toCore # <<>>
  BY CoreReadTakes
<1>2. Sent \/ Answering
  <2>1. coreAt # "body"
    BY <1>1, Places
  <2> QED BY <1>1, <2>1 DEF Live, Body, Asking, Finished
<1>3. UNCHANGED <<calls, asked, returned>>
  BY DEF CoreRead, clientVars
<1>4. CASE Sent
  <2>1. Line = On("called") /\ Line' = On("called")'
    BY <1>4, CoreReadsCommand DEF LineIsStage
  <2>2. heard' = heard
    BY <1>4, CoreReadsCommand
  <2> QED BY <1>3, <2>1, <2>2 DEF On, Calls!At
<1>5. CASE Answering
  <2>1. Line = On("told")
    BY <1>5 DEF LineIsStage
  <2>2. CASE Answering' /\ heard' = heard
    <3>1. Line' = On("told")'
      BY <2>2 DEF LineIsStage
    <3> QED BY <1>3, <2>1, <2>2, <3>1 DEF On, Calls!At
  <2>3. CASE Body' /\ heard' = asked.all
    <3>1. Line' = On("running")'
      BY <2>3 DEF LineIsStage
    <3> QED BY <1>3, <2>1, <2>3, <3>1 DEF On, Calls!At, Calls!Hear
  <2> QED BY <1>5, <2>2, <2>3, CoreReadsAnswer
<1> QED BY <1>2, <1>4, <1>5

LEMMA DispatchIsRun ==
    ASSUME IInv, LineIsStage, LineIsStage', ~ClientEnded, Dispatch
    PROVE  Calls!Run
<1>1. Line = On("called") /\ Line' = On("running")'
  BY DispatchBegins DEF LineIsStage
<1>2. UNCHANGED <<calls, heard, returned>> /\ asked'.all = asked.all
  BY DEF Dispatch, clientVars, IInv, Counts
<1> QED BY <1>1, <1>2 DEF On, Calls!At, Calls!Run

LEMMA CoreAsksIsAsk ==
    ASSUME IInv, LineIsStage, LineIsStage', ~ClientEnded, CoreAsks
    PROVE  Calls!Ask
<1>1. Line = On("running") /\ Line' = On("asking")'
  BY AskingBegins DEF LineIsStage
<1>2. UNCHANGED <<calls, heard, returned>> /\ asked'.all = asked.all + 1
  BY DEF CoreAsks, clientVars
<1> QED BY <1>1, <1>2 DEF On, Calls!At, Calls!Ask

LEMMA CoreFinishesIsFinish ==
    ASSUME IInv, LineIsStage, LineIsStage', ~ClientEnded, CoreFinishes
    PROVE  Calls!Finish
<1>1. Body /\ Finished' /\ UNCHANGED <<calls, heard, asked, returned, clientAt>>
  BY FinishEnds DEF CoreFinishes, clientVars
<1>2. clientAt # "idle"
  BY <1>1 DEF LineIsStage
<1>3. Line = On("running") /\ Line' = On("finished")'
  BY <1>1, <1>2 DEF LineIsStage
<1> QED BY <1>1, <1>3 DEF On, Calls!At, Calls!Finish

LEMMA ClientReadIsReturn ==
    ASSUME IInv, LineIsStage, LineIsStage', Live, ClientRead
    PROVE  Calls!Return \/ Line' = Line
<1>1. clientAt \in ClientReading /\ clientAt # "idle"
  BY ClientReadTakes, Places
<1>2. ~Sent
  BY ClientReadTakes DEF Sent
<1>3. UNCHANGED <<calls, asked, heard>> /\ (clientAt' # "idle" => returned' = returned)
  BY DEF ClientRead, coreVars
<1>4. ASSUME Body' \/ Asking' \/ Answering' PROVE returned' = returned
  BY <1>3, <1>4 DEF LineIsStage
<1>5. CASE Body
  <2>1. Line = On("running") /\ Line' = On("running")' /\ returned' = returned
    BY <1>4, <1>5, ClientReadsOn DEF LineIsStage
  <2> QED BY <1>3, <2>1 DEF On, Calls!At
<1>6. CASE Asking
  <2>1. Line = On("asking") /\ Line' = On("asking")' /\ returned' = returned
    BY <1>4, <1>6, ClientReadsOn DEF LineIsStage
  <2> QED BY <1>3, <2>1 DEF On, Calls!At
<1>7. CASE Answering
  <2>1. Line = On("told") /\ Line' = On("told")' /\ returned' = returned
    BY <1>4, <1>7, ClientReadsOn DEF LineIsStage
  <2> QED BY <1>3, <2>1 DEF On, Calls!At
<1>8. CASE Finished
  <2>1. Finished' /\ Line = On("finished")
    BY <1>1, <1>8, ClientReadsOn DEF LineIsStage
  <2>2. CASE clientAt' # "idle"
    <3>1. Line' = On("finished")'
      BY <2>1, <2>2 DEF LineIsStage
    <3> QED BY <1>3, <2>1, <2>2, <3>1 DEF On, Calls!At
  <2>3. CASE clientAt' = "idle"
    <3>1. Line' = On("idle")'
      BY <2>1, <2>3 DEF LineIsStage
    <3>2. returned'.of = calls'
      BY <2>1, <2>3 DEF LineIsStage
    <3> QED BY <1>3, <2>1, <3>1, <3>2 DEF On, Calls!At, Calls!Return
  <2> QED BY <2>2, <2>3
<1> QED BY <1>2, <1>5, <1>6, <1>7, <1>8 DEF Live

LEMMA ServeIsAnswer ==
    ASSUME IInv, LineIsStage, LineIsStage', Live, Serve
    PROVE  Calls!Answer
<1>1. Line = On("asking") /\ Line' = On("told")'
  BY ServeAnswers DEF LineIsStage
<1>2. UNCHANGED <<calls, asked, heard, returned>>
  BY DEF Serve, coreVars
<1> QED BY <1>1, <1>2 DEF On, Calls!At, Calls!Answer

\* A command sent to a core that has returned is a call, or breaks the line.
LEMMA SendCommandIsCall ==
    ASSUME IInv, LineIsStage, LineIsStage', Live, NEW c \in Command, SendCommand(c)
    PROVE  Calls!Call \/ Line' = Calls!Broken
<1>1. /\ clientAt = "idle" /\ calls' = calls + 1 /\ clientAt' = "await"
      /\ UNCHANGED <<coreAt, done, asked, heard, returned>>
  BY DEF SendCommand, coreVars
<1>2. Finished
  BY <1>1, WhenIdle
<1>3. Line = On("idle")
  BY <1>1, <1>2 DEF LineIsStage
<1>4. Line' = On("called")' \/ Line' = Calls!Broken
  <2>1. CASE ~CoreEnded
    BY <2>1, CommandIsSent DEF LineIsStage
  <2>2. CASE CoreEnded
    <3>1. coreAt' = "returned" /\ coreAt' # "body" /\ coreAt' \notin Waiting
      BY <1>1, <1>2, <2>2, Places DEF Finished, CoreEnded
    <3>2. done' # calls'
      <4>1. done = calls /\ calls \in Nat
        BY <1>2 DEF Finished, IInv, Counts
      <4> QED BY <1>1, <4>1
    <3>3. Phase' = "called"
      BY <3>1, <3>2 DEF Phase
    <3> QED BY <3>3 DEF Line, On, Calls!At, Calls!Broken
  <2> QED BY <2>1, <2>2
<1> QED BY <1>1, <1>3, <1>4 DEF On, Calls!At, Calls!Call

LEMMA NextImplements == IInv /\ LineIsStage /\ LineIsStage' /\ [Next]_vars => [Calls!CallNext]_Line
<1> SUFFICES ASSUME IInv, LineIsStage, LineIsStage', [Next]_vars PROVE [Calls!CallNext]_Line
  OBVIOUS
<1>1. CASE UNCHANGED vars
  <2>1. Line' = Line
    BY <1>1 DEF vars, coreVars, clientVars, Line, Up, CoreEnded, Phase
  <2> QED BY <2>1
<1>2. CASE Next /\ ~Live
  BY <1>2, AloneIsBroken, BrokenIsNext
<1>3. CASE Next /\ Live
  <2>1. ~ClientEnded
    BY <1>3, WhereClientIs DEF ClientEnded
  <2>2. CASE CoreStep
    <3>1. CoreRead \/ Dispatch \/ CoreAsks \/ CoreFinishes
      BY <2>1, <2>2 DEF CoreStep, CoreReadsEof, CoreWriteFails
    <3> QED BY <1>3, <2>1, <3>1, CoreReadIsHear, DispatchIsRun, CoreAsksIsAsk,
            CoreFinishesIsFinish DEF Calls!CallNext
  <2>3. CASE ClientRead \/ Serve
    BY <1>3, <2>3, ClientReadIsReturn, ServeIsAnswer DEF Calls!CallNext
  <2>4. CASE \E c \in Command : SendCommand(c)
    <3>1. PICK c \in Command : SendCommand(c)
      BY <2>4
    <3>2. Calls!Call \/ Line' = Calls!Broken
      BY <1>3, <3>1, SendCommandIsCall
    <3> QED BY <3>2, BrokenIsNext DEF Calls!CallNext
  <2>5. CASE ClientReadsEof \/ ClientGoes \/ CoreGoes
    <3>1. clientAt' \in {"failed", "gone"} \/ coreAt' = "killed"
      BY <2>5 DEF ClientReadsEof, ClientGoes, CoreGoes
    <3>2. Line' = Calls!Broken
      BY <3>1 DEF Line, Up, CoreEnded, Calls!Broken
    <3> QED BY <3>2, BrokenIsNext
  <2>6. ~Over
    BY <2>1 DEF Over
  <2> QED BY <1>3, <2>2, <2>3, <2>4, <2>5, <2>6 DEF Next, ClientStep
<1> QED BY <1>1, <1>2, <1>3

LEMMA InitImplements == Init => Calls!CallInit
<1> SUFFICES ASSUME Init PROVE Line = Calls!At("idle", 0, 0, 0, 0)
  BY DEF Calls!CallInit
<1>1. Up /\ clientAt = "idle" /\ Phase = "idle"
  BY DEF Init, Up, CoreEnded, Phase
<1>2. calls = 0 /\ asked.all = 0 /\ heard = 0 /\ returned.of = 0
  BY DEF Init, NoReply
<1> QED BY <1>1, <1>2 DEF Line, Calls!At

\* Whatever the frames and their order, the two ends see calls and nested
\* queries, one at a time, each run and answered once, every result with its
\* call (_send_command and _service_query, client.py; serve, angr_core.py;
\* query, server.py).
THEOREM SessionImplementsCalls == Spec => ImplementsCalls
<1>1. IInv /\ LineIsStage /\ LineIsStage' /\ [Next]_vars => [Calls!CallNext]_Line
  BY NextImplements
<1>2. Init => Calls!CallInit
  BY InitImplements
<1> QED BY <1>1, <1>2, Inductive, StageIsPhase, PTL DEF Spec, ImplementsCalls, Calls!CallSpec
=============================================================================
