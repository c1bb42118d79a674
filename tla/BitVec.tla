------------------------------- MODULE BitVec -------------------------------
(***************************************************************************)
(* The bit vector dg_dbitvec_t of dg_bitvec.c and dg_bitvec.h.  The client *)
(* keeps to the assertions of dbitvec_set() and dbitvec_get().             *)
(***************************************************************************)
EXTENDS Naturals

CONSTANTS
  BitsPerCell,   \* BITVEC_BITS_PER_CELL
  BitSizes,      \* the sizes a vector is made with
  None           \* NULL

VARIABLES
  ncells,
  pbits,         \* None, or the bits that are set in each cell
  ones           \* history: the bits that were last set to a value other than 0

Init == ncells = 0 /\ pbits = None /\ ones = {}

\* DG_ALIGN_UP() and the division
Cells(size) == (size + BitsPerCell - 1) \div BitsPerCell

\* Without cells the vector keeps its memory, without memory its cells.
dbitvec_init(size) ==
  /\ ncells' = Cells(size)
  /\ \/ Cells(size) = 0 /\ UNCHANGED pbits
     \/ Cells(size) > 0 /\ pbits' \in {None, [c \in 0 .. Cells(size) - 1 |-> {}]}
  /\ ones' = {}

dbitvec_deinit == ncells' = 0 /\ pbits' = None /\ ones' = {}

InRange(bit) == pbits # None /\ bit \div BitsPerCell < ncells

dbitvec_set(bit, value) ==
  /\ InRange(bit)
  /\ LET c == bit \div BitsPerCell  b == {bit % BitsPerCell} IN
     pbits' = [pbits EXCEPT ![c] = IF value # 0 THEN @ \cup b ELSE @ \ b]
  /\ ones' = IF value # 0 THEN ones \cup {bit} ELSE ones \ {bit}
  /\ UNCHANGED ncells

dbitvec_get(bit) == bit % BitsPerCell \in pbits[bit \div BitsPerCell]

Bits == 0 .. (CHOOSE m \in BitSizes : \A n \in BitSizes : n <= m) + BitsPerCell

Next ==
  \/ \E size \in BitSizes : dbitvec_init(size)
  \/ dbitvec_deinit
  \/ \E bit \in Bits, value \in {0, 1, 2} : dbitvec_set(bit, value)

Spec == Init /\ [][Next]_<<ncells, pbits, ones>>
-----------------------------------------------------------------------------
(* Every bit in range is what it was last set to, in whatever order and    *)
(* beside whatever neighbours, also after the vector was made again.       *)
HoldsBits == \A bit \in Bits : InRange(bit) => (dbitvec_get(bit) <=> bit \in ones)
=============================================================================
