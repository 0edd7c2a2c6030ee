----------------------------- MODULE ImageProbe -----------------------------
(***************************************************************************)
(* probe_image of core/imagecache.py: from the page of a function's entry  *)
(* the readable run around it is read page by page, downwards and then     *)
(* upwards, until a page is missing or the limit is reached. What it reads *)
(* is hashed (image_hash) into the identity of the cached image, so two    *)
(* functions share an image only if their probes read the same pages.      *)
(***************************************************************************)
EXTENDS Integers

CONSTANTS
    PageSize,  \* PAGE
    MaxSize,   \* max_size
    LastPage,  \* bound on the address space, in pages
    Readable   \* how much of a page get_bytes may return: 0 for an exception or
               \* nothing, PageSize, or less at the end of a mapping

ASSUME PageSizeAssumption == PageSize \in Nat \ {0}
ASSUME MaxSizeAssumption  == MaxSize \in Nat
ASSUME LastPageAssumption == LastPage \in Nat
ASSUME ReadableAssumption == Readable \subseteq 0..PageSize

VARIABLES
    memory,     \* what get_bytes returns of each page, fixed
    entry,      \* the page of the entry, fixed
    low, high,  \* the pages read so far: those from low to high
    total,      \* their bytes
    stage       \* where probe_image is

probeVars == <<memory, entry, low, high, total, stage>>

Page == 0..LastPage

\* Nothing is mapped beyond the last page.
Bytes(page) == IF page \in Page THEN memory[page] ELSE 0

ProbeInit ==
    /\ memory \in [Page -> Readable]
    /\ entry \in Page
    /\ low = entry /\ high = entry
    /\ total = 0
    /\ stage = "first"

-----------------------------------------------------------------------------
ReadFirst ==
    /\ stage = "first"
    /\ total' = memory[entry]
    /\ stage' = IF memory[entry] = 0 THEN "none" ELSE "down"
    /\ UNCHANGED <<memory, entry, low, high>>

\* Mutant: a short page is taken on the way down as well.
FitsDownShort == low > 0 /\ total + PageSize <= MaxSize /\ Bytes(low - 1) > 0

\* The page below is read and kept: a short read there leaves a gap.
FitsDown == low > 0 /\ total + PageSize <= MaxSize /\ Bytes(low - 1) = PageSize

ReadDown ==
    /\ stage = "down"
    /\ FitsDown
    /\ low' = low - 1
    /\ total' = total + Bytes(low - 1)
    /\ UNCHANGED <<memory, entry, high, stage>>

TurnRound ==
    /\ stage = "down"
    /\ ~FitsDown
    /\ stage' = "up"
    /\ UNCHANGED <<memory, entry, low, high, total>>

\* Mutant: one page less than the limit allows.
FitsUpStrictly == total + PageSize < MaxSize /\ Bytes(high + 1) > 0

FitsUp == total + PageSize <= MaxSize /\ Bytes(high + 1) > 0

\* The page above is read and kept, and ends the walk when it is short.
ReadUp ==
    /\ stage = "up"
    /\ FitsUp
    /\ high' = high + 1
    /\ total' = total + Bytes(high + 1)
    /\ stage' = IF Bytes(high + 1) < PageSize THEN "check" ELSE "up"
    /\ UNCHANGED <<memory, entry, low>>

\* Mutant: a missing page is passed over with "continue", before addr moves on.
StopUpContinues ==
    /\ stage = "up"
    /\ ~FitsUp
    /\ stage' = IF total + PageSize <= MaxSize THEN "up" ELSE "check"
    /\ UNCHANGED <<memory, entry, low, high, total>>

StopUp ==
    /\ stage = "up"
    /\ ~FitsUp
    /\ stage' = "check"
    /\ UNCHANGED <<memory, entry, low, high, total>>

\* len(content) > max_size
Check ==
    /\ stage = "check"
    /\ stage' = IF total > MaxSize THEN "none" ELSE "done"
    /\ UNCHANGED <<memory, entry, low, high, total>>

Returned == stage \in {"none", "done"} /\ UNCHANGED probeVars

ProbeNext == ReadFirst \/ ReadDown \/ TurnRound \/ ReadUp \/ StopUp \/ Check \/ Returned

ProbeSpec == ProbeInit /\ [][ProbeNext]_probeVars /\ WF_probeVars(ProbeNext)

-----------------------------------------------------------------------------
(* The reference: the run of pages around a page, as get_bytes shows it. A page *)
(* belongs to it when every page on the way to it is there in full.            *)

Full(page) == Bytes(page) = PageSize

Run(page) ==
    {p \in Page : /\ p <= page => \A q \in p..page : Full(q)
                  /\ p > page  => Bytes(p) > 0 /\ \A q \in page..(p - 1) : Full(q)}

\* The run counts as too large as soon as it does not fit in whole pages.
TooLarge(run) == \E p, q \in run : (q - p + 1) * PageSize > MaxSize

-----------------------------------------------------------------------------
(* Properties *)

\* The types; and no more is held than the limit, or one page.
ProbeTypeOK ==
    /\ memory \in [Page -> Readable]
    /\ entry \in Page /\ low \in Page /\ high \in Page
    /\ total \in Nat /\ (total <= PageSize \/ total <= MaxSize)
    /\ stage \in {"first", "down", "up", "check", "none", "done"}

\* Every byte of the content is at its place: the k-th byte is the one at the
\* base plus k, because no page but the last is short. (A short first page is
\* glued to the page above it; Ghidra answers in whole pages or not at all.)
BytesInPlace ==
    stage = "done" /\ Full(entry) => \A p \in low..(high - 1) : Full(p)

\* A run that fits is read whole and nothing else is, from whichever of its full
\* pages the probe starts: all its functions share one image ("session 2 reuses
\* it -- no new image entry", test_two_sessions_share_image_cache).
RunIsReadWhole ==
    stage = "done" /\ Full(entry) /\ ~TooLarge(Run(entry)) => low..high = Run(entry)

\* The probe always returns.
Returns == <>(stage \in {"none", "done"})

-----------------------------------------------------------------------------
(* What the documentation says and the code does not do *)

\* "Returns (base_addr, content) or None when the entry page is unreadable or the
\* run would exceed `max_size`" (imagecache.py:51-52): a program that is too large
\* has no image. (Both loops stop at the limit instead, and what they have read by
\* then is returned.)
TooLargeGivesNone == stage = "done" => ~TooLarge(Run(entry))
=============================================================================
