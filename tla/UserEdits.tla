----------------------------- MODULE UserEdits -----------------------------
(***************************************************************************)
(* The round trip of a rename (core/edits.py). The user picks a token;     *)
(* Ghidra finds its variable through the varnode it refers to and keeps    *)
(* the new name with the storage of the variable, or with a hash that      *)
(* identifies the varnode. The next decompilation is given all names kept  *)
(* so far, finds for each a variable at its storage, and renames that.     *)
(*                                                                         *)
(* The name is kept with Ghidra's storage and matched by angr's. A stack   *)
(* offset is the same in both; the way back from a register is by its name *)
(* (AngrCore._reg_to_angr), and may end nowhere or at another register.    *)
(*                                                                         *)
(* A retype is matched in the same way and is left out. angr and the       *)
(* lowering are taken to give the same text and varnodes again, as         *)
(* AngrCore._apply_edits does, and a hash to identify its varnode (see     *)
(* DynamicHash).                                                           *)
(***************************************************************************)
EXTENDS HighVariables

CONSTANTS
    Unified,    \* angr's unified variables: what is shown and renamed
    Stack,      \* the offsets that are the stack's; the others are registers'
    Registers,  \* angr's registers, each size of one by itself
    MaxEdits    \* bound on the renames

ASSUME StorageAssumption == Nowhere \notin Stack \cup Registers

VARIABLES
    unified,    \* the unified variable of each variable
    storage,    \* angr's storage of each variable
    edits,      \* the renames in Ghidra's database, in order
    led,        \* the storage of angr's that each edit led to at the last decompilation
    name,       \* of each unified variable: the edit it is named by, 0 for angr's name
    shown       \* the text shows all edits

editVars == <<unified, storage, edits, led, name, shown>>

\* angr's storage of a variable that has storage s for Ghidra (_make_symbol).
StorageOf(s) ==
    IF s = Nowhere THEN Registers \cup {Nowhere}
    ELSE IF s.offset \in Stack THEN {s.offset} ELSE Registers

\* And the way back (reg_to_angr): the callback may fail or give no name, and the
\* name may be none of angr's registers, or that of another.
WaysBack(s) ==
    IF s = Nowhere THEN {Nowhere}
    ELSE IF s.offset \in Stack THEN {s.offset} ELSE Registers \cup {Nowhere}

EditsInit ==
    /\ Init
    /\ unified \in [Vars -> Unified]
    /\ storage \in [Vars -> Stack \cup Registers \cup {Nowhere}]
    /\ \A v \in Vars : storage[v] \in StorageOf(slot[v])
    /\ edits = <<>>
    /\ led = <<>>
    /\ name = [u \in Unified |-> 0]
    /\ shown = TRUE

Built == Build /\ UNCHANGED editVars

-----------------------------------------------------------------------------
(* Ghidra keeps a rename *)

Rename(k) ==
    /\ pass = "done" /\ shown
    /\ Len(edits) < MaxEdits
    /\ VarRef(k) # 0
    /\ \E kept \in {slot[chunks[k].var], varnodes[VarRef(k)]} :
           edits' = Append(edits, [var |-> chunks[k].var, slot |-> kept])
    /\ shown' = FALSE
    /\ UNCHANGED <<vars, unified, storage, led, name>>

-----------------------------------------------------------------------------
(* The next decompilation applies it *)

\* A unified variable is entered under the storage of its first occurrence.
Entered(k) == \A j \in 1..(k - 1) : unified[chunks[j].var] # unified[chunks[k].var]

\* The occurrences whose unified variables are entered under a key, which is a
\* stack offset (by_stack) or a register and its size (by_reg_angr).
Matches(key) ==
    {k \in 1..NumChunks : Entered(k) /\ key # Nowhere /\ storage[chunks[k].var] = key}

\* A key means the first of them in the text (setdefault).
Means(key, u) ==
    \E k \in Matches(key) : (\A j \in Matches(key) : k <= j) /\ u = unified[chunks[k].var]

Newest(some) == IF some = {} THEN 0 ELSE CHOOSE i \in some : \A j \in some : j <= i

LookUp ==
    led' \in {to \in [1..Len(edits) -> Stack \cup Registers \cup {Nowhere}] :
                \A i \in 1..Len(edits) : to[i] \in WaysBack(edits[i].slot)}

\* Mutant: only the newest edit is applied.
RedecompileNewest ==
    /\ pass = "done" /\ ~shown
    /\ LookUp
    /\ name' = [u \in Unified |-> IF Means(led'[Len(edits)], u) THEN Len(edits) ELSE 0]
    /\ shown' = TRUE
    /\ UNCHANGED <<vars, unified, storage, edits>>

\* The names are angr's again, and then every edit that has a match is applied.
Redecompile ==
    /\ pass = "done" /\ ~shown
    /\ LookUp
    /\ name' = [u \in Unified |-> Newest({i \in 1..Len(edits) : Means(led'[i], u)})]
    /\ shown' = TRUE
    /\ UNCHANGED <<vars, unified, storage, edits>>

\* The user leaves it at that.
Rest == pass = "done" /\ shown /\ UNCHANGED <<vars, editVars>>

Next == Built \/ (\E k \in 1..NumChunks : Rename(k)) \/ Redecompile \/ Rest

EditsSpec == EditsInit /\ [][Next]_<<vars, editVars>>

-----------------------------------------------------------------------------
(* Properties *)

Occurring == {chunks[k].var : k \in 1..NumChunks}

\* The variable has its storage, and its unified variable, to itself.
Alone(v) ==
    \A w \in Occurring \ {v} : unified[w] # unified[v] /\ storage[w] # storage[v]

\* The edit has led back to the storage of the variable it was made to.
LedBack(i) == led[i] = storage[edits[i].var]

\* It has led to the storage of another.
LedAstray(i) == led[i] \notin {storage[edits[i].var], Nowhere}

\* A variable that shares neither storage nor unified variable shows the newest of
\* the names the user gave it whose register led back, and no name that was given
\* to another, unless one led astray. (A stack offset always leads back. A name whose
\* register leads nowhere is dropped without a word, and the one before it shows.)
AloneIsRenamed ==
    shown /\ (\A i \in 1..Len(edits) : ~LedAstray(i)) =>
        \A v \in Occurring : Alone(v) =>
            name[unified[v]] = Newest({i \in 1..Len(edits) : edits[i].var = v /\ LedBack(i)})

-----------------------------------------------------------------------------
(* What the documentation says and the code does not do *)

\* The last edit that was made to a unified variable.
IsLast(i) == \A j \in (i + 1)..Len(edits) : unified[edits[j].var] # unified[edits[i].var]

\* "renames and retypes round-trip" (README.md:29), "enabling
\* highlight-all-occurrences and per-occurrence rename/retype" (ROADMAP.md:25):
\* a variable shows the last name it was given, at least where each has a unified
\* variable of its own and all names lead back to where they were given. (Two
\* variables may live in one register at different times.)
RenameIsShown ==
    /\ shown
    /\ \A v, w \in Vars : unified[v] = unified[w] => v = w
    /\ \A i \in 1..Len(edits) : LedBack(i)
    =>
        \A i \in 1..Len(edits) : IsLast(i) => name[unified[edits[i].var]] = i
=============================================================================
