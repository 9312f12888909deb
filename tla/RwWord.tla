------------------------------- MODULE RwWord -------------------------------
(***************************************************************************)
(* The lock word shared by RwLock (spinning) and RwMutex (sleeping).       *)
(* Both keep their whole state in one AtomicUsize:                         *)
(*                                                                         *)
(*     bit 63 WRITER | 62 UPGRADEABLE_READER | 61 BEING_UPGRADED           *)
(*     bits 60-0 the reader count, whose top bit 60 is MAX_READER          *)
(*                                                                         *)
(* The four flag bits keep their order and the reader field its position   *)
(* below them; MAX_READER (2^60 in the code) is a constant, so that a      *)
(* model can reach the reader limit.  The atomic operations are those of   *)
(* AtomicUsize: they wrap around at the width of the word, so a            *)
(* fetch_sub of a bit that is not set would corrupt the bits next to it.   *)
(***************************************************************************)
EXTENDS Integers

CONSTANT MAX_READER

ASSUME MaxReaderAssumption == MAX_READER \in Nat \ {0}

READER             == 1
BEING_UPGRADED     == 2 * MAX_READER
UPGRADEABLE_READER == 4 * MAX_READER
WRITER             == 8 * MAX_READER
WordSize           == 16 * MAX_READER      \* 2^64 in the code

Word == 0 .. WordSize - 1

(* The bit tests, from the top bit down: each drops the bits above it.     *)
HasWriter(w)   == w >= WRITER
BelowWriter(w) == IF HasWriter(w) THEN w - WRITER ELSE w

HasUpgradeable(w)   == BelowWriter(w) >= UPGRADEABLE_READER
BelowUpgradeable(w) == IF HasUpgradeable(w)
                         THEN BelowWriter(w) - UPGRADEABLE_READER
                         ELSE BelowWriter(w)

HasBeingUpgraded(w) == BelowUpgradeable(w) >= BEING_UPGRADED
ReaderField(w)      == IF HasBeingUpgraded(w)
                         THEN BelowUpgradeable(w) - BEING_UPGRADED
                         ELSE BelowUpgradeable(w)

HasMaxReader(w) == ReaderField(w) >= MAX_READER

(* fetch_add and fetch_sub wrap; fetch_or and fetch_and act on one bit.    *)
FetchAdd(w, x) == IF w + x < WordSize THEN w + x ELSE w + x - WordSize
FetchSub(w, x) == IF w >= x THEN w - x ELSE w - x + WordSize

FetchOrUpgradeable(w)   == IF HasUpgradeable(w) THEN w
                           ELSE w + UPGRADEABLE_READER
FetchOrBeingUpgraded(w) == IF HasBeingUpgraded(w) THEN w
                           ELSE w + BEING_UPGRADED
FetchAndNotWriter(w)    == BelowWriter(w)

(* Mutant: a reader may enter during an upgrade.                           *)
RefusesReaderNotUpgrading(w) == HasWriter(w) \/ HasMaxReader(w)

(* try_read: the bits that refuse a new reader, tested on the word as it   *)
(* was before the reader added itself.                                     *)
RefusesReader(w) == HasWriter(w) \/ HasMaxReader(w) \/ HasBeingUpgraded(w)
=============================================================================
