---------------------------- MODULE PackedCodec ----------------------------
(***************************************************************************)
(* PackedEncoder and PackedDecoder of ghidra_wire/packed.py, and           *)
(* parse_tree of ghidra_wire/dump.py. A writer writes a document; then it  *)
(* is read by calls of the decoder, in any order a caller may make them,   *)
(* or parsed into a tree in one pass. A tree and the sequence of what is   *)
(* in it say the same, so parse_tree is taken to give the sequence.        *)
(***************************************************************************)
EXTENDS PackedFormat

CONSTANTS
    ElementIds, AttributeIds,
    SignedInputs, UnsignedInputs, SpaceInputs, SpecialInputs, StringInputs,
                    \* what attributes are written with
    None,           \* no id expected
    MaxItems,       \* bound on starts, attributes and ends
    MaxAttributes   \* bound on attributes

\* What a header holds: twelve bits. No id of ids.py is 0 or takes more.
Ids == 1..4095

ASSUME IdAssumption == ElementIds \cup AttributeIds \subseteq Ids

\* Strings are UTF-8 text without the character NUL: names and C text.
ASSUME InputAssumption ==
    /\ SignedInputs \cup UnsignedInputs \subseteq Int
    /\ SpaceInputs \subseteq Nat /\ SpecialInputs \subseteq 0..3
    /\ StringInputs \subseteq Seq(1..255)

VARIABLES
    buf,       \* PackedEncoder.buf, later PackedDecoder.data
    pos,       \* PackedDecoder.pos
    attrStart, \* PackedDecoder._attr_start
    answer,    \* what the last call returned
    raised,    \* it raised DecoderError
    phase,     \* "writing", "reading", "parsing", or "failed" parsing
    tree,      \* parse_tree: its pos, its stack of ids and what it has put
               \* into the tree
    doc,       \* history: what was written
    marks,     \* history: where each item of doc starts in buf
    nest       \* the elements the writer has not closed

reader == <<pos, attrStart, answer, raised>>
vars == <<buf, reader, phase, tree, doc, marks, nest>>

Values ==
    {<<"bool", b>> : b \in BOOLEAN} \cup {<<"special", c>> : c \in SpecialInputs}
    \cup {<<"string", s>> : s \in StringInputs}
    \cup {<<"int", n>> : n \in SignedInputs \cup SpaceInputs
                               \cup {m % Limit : m \in UnsignedInputs}}

At == IF raised THEN 0
      ELSE IF pos = Len(buf) THEN Len(doc) + 1
      ELSE IF \E i \in DOMAIN marks : marks[i] = pos
           THEN CHOOSE i \in DOMAIN marks : marks[i] = pos
           ELSE 0

Open == IF raised THEN <<>>
        ELSE [k \in DOMAIN attrStart |-> CHOOSE i \in 1..(Len(doc) + 1) :
                 attrStart[k] = IF i <= Len(doc) THEN marks[i] ELSE Len(buf)]

Stream == INSTANCE ElementStream
              WITH reading <- phase # "writing", at <- At, open <- Open

Init ==
    /\ buf = <<>> /\ pos = 0 /\ attrStart = <<>>
    /\ answer = <<"nothing">> /\ raised = FALSE
    /\ phase = "writing"
    /\ tree = [pos |-> 0, stack |-> <<>>, items |-> <<>>]
    /\ doc = <<>> /\ marks = <<>> /\ nest = <<>>

-----------------------------------------------------------------------------
(* PackedEncoder *)

Put(item, bytes) ==
    /\ phase = "writing"
    /\ buf' = buf \o bytes
    /\ doc' = Append(doc, item)
    /\ marks' = Append(marks, Len(buf))
    /\ UNCHANGED <<reader, phase, tree>>

\* Every caller closes what it opens, in order.
OpenElement(id) ==
    /\ Len(doc) + Len(nest) + 2 <= MaxItems
    /\ Put([kind |-> "start", id |-> id], Header(ELEMENT_START, id))
    /\ nest' = Append(nest, id)

CloseElement ==
    /\ nest # <<>>
    /\ LET id == nest[Len(nest)]
       IN Put([kind |-> "end", id |-> id], Header(ELEMENT_END, id))
    /\ nest' = SubSeq(nest, 1, Len(nest) - 1)

\* Every caller writes attributes before children.
PutAttribute(id, value, bytes) ==
    /\ nest # <<>> /\ doc[Len(doc)].kind # "end"
    /\ Len(doc) + Len(nest) + 1 <= MaxItems
    /\ Cardinality({i \in 1..Len(doc) : doc[i].kind = "attribute"}) < MaxAttributes
    /\ Put([kind |-> "attribute", id |-> id, value |-> value],
           Header(ATTRIBUTE, id) \o bytes)
    /\ UNCHANGED nest

WriteBool(id, b) == PutAttribute(id, <<"bool", b>>, Bool(b))

\* The assertion of _integer raises after the header is in the buffer, which
\* is then lost with the exception.
WriteSigned(id, n) ==
    /\ Fits(IF n < 0 THEN -n ELSE n)
    /\ PutAttribute(id, <<"int", n>>, Signed(n))

WriteUnsigned(id, n) == PutAttribute(id, <<"int", n % Limit>>, Unsigned(n))
WriteString(id, s)   == Fits(Len(s)) /\ PutAttribute(id, <<"string", s>>, String(s))
WriteSpace(id, i)    == Fits(i) /\ PutAttribute(id, <<"int", i>>, Space(i))
WriteSpecial(id, c)  == PutAttribute(id, <<"special", c>>, Special(c))

\* write_opcode is write_signed of what is never negative.
WriteOpcode(id, n) == n >= 0 /\ WriteSigned(id, n)

\* to_bytes, and PackedDecoder(data) or parse_tree(data) on the other side.
ToBytes(to) ==
    /\ phase = "writing" /\ nest = <<>>
    /\ phase' = to
    /\ UNCHANGED <<buf, reader, tree, doc, marks, nest>>

-----------------------------------------------------------------------------
(* PackedDecoder *)

Call ==
    /\ phase = "reading" /\ ~raised
    /\ UNCHANGED <<buf, phase, tree, doc, marks, nest>>

Return(a) == answer' = a /\ UNCHANGED raised
Raise == answer' = <<"nothing">> /\ raised' = TRUE

KindHere == Kind(buf, pos)
IdHere   == ReadId(buf, pos)

PeekElement ==
    /\ Call
    /\ Return(IF KindHere = ELEMENT_START THEN <<"id", IdHere>> ELSE <<"nothing">>)
    /\ UNCHANGED <<pos, attrStart>>

\* open_element: behind the attributes, whose place is remembered.
DecodeOpen(expect) ==
    /\ Call
    /\ \/ /\ KindHere = ELEMENT_START /\ expect \in {None, IdHere}
          /\ attrStart' = Append(attrStart, IdEnd(buf, pos))
          /\ pos' = RunEnd(buf, IdEnd(buf, pos))
          /\ Return(<<"id", IdHere>>)
       \/ /\ KindHere = ELEMENT_START /\ expect \notin {None, IdHere}
          /\ pos' = IdEnd(buf, pos)
          /\ Raise /\ UNCHANGED attrStart
       \/ KindHere # ELEMENT_START /\ Raise /\ UNCHANGED <<pos, attrStart>>

Pop == SubSeq(attrStart, 1, Len(attrStart) - 1)

\* What follows the end an element is closed with: the id is compared only
\* when the end has been read.
CloseAt(end, id) ==
    \/ /\ Kind(buf, end) = ELEMENT_END
       /\ pos' = IdEnd(buf, end)
       /\ IF ReadId(buf, end) = id
          THEN attrStart' = Pop /\ Return(<<"nothing">>)
          ELSE UNCHANGED attrStart /\ Raise
    \/ /\ Kind(buf, end) # ELEMENT_END
       /\ pos' = end
       /\ Raise /\ UNCHANGED attrStart

DecodeClose(id) == Call /\ CloseAt(pos, id)

\* Mutant: elements opened on the way are not counted.
CloseAtFirstEnd(id) == Call /\ CloseAt(FirstEnd(buf, pos), id)

CloseElementSkipping(id) == Call /\ CloseAt(EndBehind(buf, pos), id)

\* skip_element: opens and closes the element, so _attr_start is as before.
SkipElement ==
    /\ Call
    /\ \/ /\ KindHere = ELEMENT_START
          /\ LET end == EndBehind(buf, IdEnd(buf, pos)) IN
                IF Kind(buf, end) = ELEMENT_END /\ ReadId(buf, end) = IdHere
                THEN pos' = IdEnd(buf, end) /\ Return(<<"nothing">>)
                ELSE pos' = end /\ Raise
       \/ KindHere # ELEMENT_START /\ UNCHANGED pos /\ Raise
    /\ UNCHANGED attrStart

RunHere == Run(buf, attrStart[Len(attrStart)])

Attributes ==
    /\ Call /\ attrStart # <<>>
    /\ Return(<<"attributes", RunHere>>)
    /\ UNCHANGED <<pos, attrStart>>

\* The value of the first attribute with an id.
Matching(id) == {i \in 1..Len(RunHere) : RunHere[i].id = id}
FirstMatching(id) == RunHere[Min(Matching(id))].value

ReadAttribute(id) ==
    /\ Call /\ attrStart # <<>>
    /\ IF Matching(id) # {}
       THEN Return(<<"value", FirstMatching(id)>>)
       ELSE Raise
    /\ UNCHANGED <<pos, attrStart>>

ReadOpt(id) ==
    /\ Call /\ attrStart # <<>>
    /\ Return(IF Matching(id) # {} THEN <<"value", FirstMatching(id)>> ELSE <<"nothing">>)
    /\ UNCHANGED <<pos, attrStart>>

-----------------------------------------------------------------------------
(* parse_tree *)

Parsing ==
    /\ phase = "parsing" /\ tree.pos < Len(buf)
    /\ UNCHANGED <<buf, reader, doc, marks, nest>>

ParsedId == ReadId(buf, tree.pos)

ParseStart ==
    /\ Parsing /\ Kind(buf, tree.pos) = ELEMENT_START
    /\ tree' = [pos   |-> IdEnd(buf, tree.pos),
                stack |-> Append(tree.stack, ParsedId),
                items |-> Append(tree.items, [kind |-> "start", id |-> ParsedId])]
    /\ UNCHANGED phase

ParseEnd ==
    /\ Parsing /\ Kind(buf, tree.pos) = ELEMENT_END
    /\ IF tree.stack # <<>> /\ tree.stack[Len(tree.stack)] = ParsedId
       THEN /\ tree' = [pos   |-> IdEnd(buf, tree.pos),
                        stack |-> SubSeq(tree.stack, 1, Len(tree.stack) - 1),
                        items |-> Append(tree.items, [kind |-> "end", id |-> ParsedId])]
            /\ UNCHANGED phase
       ELSE phase' = "failed" /\ UNCHANGED tree

\* An attribute outside of any element is read and dropped.
ParseAttribute ==
    /\ Parsing /\ Kind(buf, tree.pos) = ATTRIBUTE
    /\ LET at == IdEnd(buf, tree.pos)
           item == [kind |-> "attribute", id |-> ParsedId, value |-> AttrValue(buf, at)]
       IN tree' = [tree EXCEPT
                      !.pos = SkipAttrValue(buf, at),
                      !.items = IF tree.stack # <<>> THEN Append(@, item) ELSE @]
    /\ UNCHANGED phase

-----------------------------------------------------------------------------
Write ==
    \/ CloseElement
    \/ \E id \in ElementIds : OpenElement(id)
    \/ \E id \in AttributeIds :
          \/ \E b \in BOOLEAN : WriteBool(id, b)
          \/ \E n \in SignedInputs : WriteSigned(id, n) \/ WriteOpcode(id, n)
          \/ \E n \in UnsignedInputs : WriteUnsigned(id, n)
          \/ \E s \in StringInputs : WriteString(id, s)
          \/ \E i \in SpaceInputs : WriteSpace(id, i)
          \/ \E c \in SpecialInputs : WriteSpecial(id, c)

Read ==
    \/ PeekElement \/ SkipElement \/ Attributes
    \/ \E id \in ElementIds \cup {None} : DecodeOpen(id)
    \/ \E id \in ElementIds : DecodeClose(id) \/ CloseElementSkipping(id)
    \/ \E id \in AttributeIds : ReadAttribute(id) \/ ReadOpt(id)

Next ==
    \/ Write \/ Read
    \/ \E to \in {"reading", "parsing"} : ToBytes(to)
    \/ ParseStart \/ ParseEnd \/ ParseAttribute

Spec == Init /\ [][Next]_vars

-----------------------------------------------------------------------------
(* Properties *)

\* Whatever a caller asks of the decoder (packed.py:215-301), in whatever
\* order, it gets what the encoder was given: no call stops between two items,
\* takes the end of a child for the end of the element, or reads one value for
\* another, and a call raises just when the document does not allow it.
ReadsWhatWasWritten == Stream!Spec

\* parse_tree (dump.py:50-82) gives what was written so far, in order, raises
\* on no document the encoder wrote, and at the end has all of it.
ParsesWhatWasWritten ==
    /\ phase # "failed"
    /\ IsPrefix(tree.items, doc)
    /\ phase = "parsing" =>
          \/ tree.pos < Len(buf) /\ Kind(buf, tree.pos) # 0
          \/ tree.pos = Len(buf) /\ tree.items = doc

\* All bytes of the grammar are non-zero (packed.py:4), so no payload looks
\* like the burst of zeros that ends a frame (framing.py:3).
NoZeroByte == 0 \notin ToSet(buf)

-----------------------------------------------------------------------------
(* What the comments say and the code does not do *)

\* packed.py:140-141, of PackedDecoder: "close_element skips any unread portion up
\* to the matching end marker", so that it closes the innermost open element from
\* wherever in it the reader is.
CloseSkipsUnread ==
    [][\A id \in ElementIds :
          /\ attrStart # <<>> /\ ReadId(buf, EndBehind(buf, pos)) = id
          /\ DecodeClose(id)
          => ~raised']_vars
=============================================================================
