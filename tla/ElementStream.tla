--------------------------- MODULE ElementStream ---------------------------
(***************************************************************************)
(* What the packed encoding of ghidra_wire/packed.py promises: a reader    *)
(* walks the elements and attributes the writer wrote, as if there were no *)
(* bytes. A document is the sequence of what was written; a call that the  *)
(* document does not allow raises, and ends the use of the reader.         *)
(***************************************************************************)
EXTENDS Integers, Sequences, FiniteSets

CONSTANTS
    ElementIds,   \* ids of elements
    AttributeIds, \* ids of attributes
    Values,       \* what an attribute can be read as
    None          \* no id expected; no value found

VARIABLES
    doc,      \* what was written
    nest,     \* the elements the writer has not closed
    reading,  \* the document was handed to a reader
    at,       \* the next item of doc the reader will see
    open,     \* for each element the reader is in, the item behind its start
    answer,   \* what the last call returned
    raised    \* the last call raised

vars == <<doc, nest, reading, at, open, answer, raised>>

StartOf(id)        == [kind |-> "start", id |-> id]
EndOf(id)          == [kind |-> "end", id |-> id]
AttributeOf(id, v) == [kind |-> "attribute", id |-> id, value |-> v]

Nothing == <<"nothing">>

Init ==
    /\ doc = <<>> /\ nest = <<>>
    /\ reading = FALSE /\ at = 1 /\ open = <<>>
    /\ answer = Nothing /\ raised = FALSE

-----------------------------------------------------------------------------
(* The writer *)

Written(item) ==
    /\ ~reading
    /\ doc' = Append(doc, item)
    /\ UNCHANGED <<reading, at, open, answer, raised>>

WriteStart(id) == Written(StartOf(id)) /\ nest' = Append(nest, id)

WriteEnd ==
    /\ nest # <<>>
    /\ Written(EndOf(nest[Len(nest)]))
    /\ nest' = SubSeq(nest, 1, Len(nest) - 1)

\* Attributes come before the children of their element.
WriteAttribute(id, v) ==
    /\ nest # <<>> /\ doc[Len(doc)].kind # "end"
    /\ Written(AttributeOf(id, v))
    /\ UNCHANGED nest

HandOver ==
    /\ ~reading /\ nest = <<>>
    /\ reading' = TRUE
    /\ UNCHANGED <<doc, nest, at, open, answer, raised>>

-----------------------------------------------------------------------------
(* The reader *)

Is(i, kind) == i \in 1..Len(doc) /\ doc[i].kind = kind

\* The first item at i or behind it that is no attribute.
Behind(i) == CHOOSE j \in i..(Len(doc) + 1) :
                 /\ ~Is(j, "attribute")
                 /\ \A k \in i..(j - 1) : Is(k, "attribute")

Count(kind, i, j) == Cardinality({k \in i..j : Is(k, kind)})

\* The end of the innermost element the reader is in, when it is at item i.
MatchingEnd(i) == CHOOSE j \in i..Len(doc) :
                      /\ Count("end", i, j) = Count("start", i, j) + 1
                      /\ \A k \in i..(j - 1) : Count("end", i, k) <= Count("start", i, k)

Leave == open' = SubSeq(open, 1, Len(open) - 1)

Call ==
    /\ reading /\ ~raised
    /\ UNCHANGED <<doc, nest, reading>>

Returns(a) == answer' = a /\ raised' = FALSE
Raises == answer' = Nothing /\ raised' = TRUE /\ at' = 0 /\ open' = <<>>

Peek ==
    /\ Call
    /\ Returns(IF Is(at, "start") THEN <<"id", doc[at].id>> ELSE Nothing)
    /\ UNCHANGED <<at, open>>

Open(expect) ==
    /\ Call
    /\ IF Is(at, "start") /\ expect \in {None, doc[at].id}
       THEN /\ Returns(<<"id", doc[at].id>>)
            /\ open' = Append(open, at + 1)
            /\ at' = Behind(at + 1)
       ELSE Raises

\* The reader must be at the end: a child it has not read is not skipped, whatever
\* the docstring of PackedDecoder (packed.py:140-141) says; CloseSkipping does.
Close(id) ==
    /\ Call
    /\ IF Is(at, "end") /\ doc[at].id = id
       THEN Returns(Nothing) /\ at' = at + 1 /\ Leave
       ELSE Raises

CloseSkipping(id) ==
    /\ Call
    /\ IF open # <<>> /\ doc[MatchingEnd(at)].id = id
       THEN Returns(Nothing) /\ at' = MatchingEnd(at) + 1 /\ Leave
       ELSE Raises

Skip ==
    /\ Call
    /\ IF Is(at, "start")
       THEN Returns(Nothing) /\ at' = MatchingEnd(at + 1) + 1 /\ UNCHANGED open
       ELSE Raises

\* The attributes of the innermost element, from the one behind its start on.
Own == LET first == open[Len(open)] IN SubSeq(doc, first, Behind(first) - 1)

Attributes ==
    /\ Call /\ open # <<>>
    /\ Returns(<<"attributes", Own>>)
    /\ UNCHANGED <<at, open>>

Found(id) == {i \in 1..Len(Own) : Own[i].id = id}
FirstFound(id) == Own[CHOOSE i \in Found(id) : \A j \in Found(id) : i <= j].value

ReadAttribute(id) ==
    /\ Call /\ open # <<>>
    /\ IF Found(id) # {}
       THEN Returns(<<"value", FirstFound(id)>>) /\ UNCHANGED <<at, open>>
       ELSE Raises

ReadOpt(id) ==
    /\ Call /\ open # <<>>
    /\ Returns(IF Found(id) # {} THEN <<"value", FirstFound(id)>> ELSE Nothing)
    /\ UNCHANGED <<at, open>>

Next ==
    \/ \E id \in ElementIds : WriteStart(id) \/ Close(id) \/ CloseSkipping(id)
    \/ \E id \in AttributeIds, v \in Values : WriteAttribute(id, v)
    \/ WriteEnd \/ HandOver
    \/ \E id \in ElementIds \cup {None} : Open(id)
    \/ Peek \/ Skip \/ Attributes
    \/ \E id \in AttributeIds : ReadAttribute(id) \/ ReadOpt(id)

Spec == Init /\ [][Next]_vars
=============================================================================
