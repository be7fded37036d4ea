------------------------------ MODULE DiskSizes ------------------------------
(***************************************************************************)
(* The sizes of a disk resize (internal/tools/common.go): texts of a       *)
(* number and a unit, which the server compares in machine words and       *)
(* Proxmox takes for what they say.                                        *)
(***************************************************************************)
EXTENDS Integers

CONSTANTS
  Word,   \* values of an int64: 2^64
  Kilo    \* 1024

\* A word holds the factor of the largest unit.
ASSUME SizesAssumption ==
  /\ Kilo \in Nat /\ Kilo > 1
  /\ Word \in Nat /\ Word > 2 * Kilo * Kilo * Kilo * Kilo
  /\ Word % 2 = 0

Units == {"K", "M", "G", "T"}

\* A size is [plus, num, unit]; diskSizeRegex admits every number of digits.
SizeTexts == [plus : BOOLEAN, num : Nat, unit : Units]

Factor == [u \in Units |->
  CASE u = "K" -> Kilo [] u = "M" -> Kilo * Kilo [] u = "G" -> Kilo * Kilo * Kilo
    [] u = "T" -> Kilo * Kilo * Kilo * Kilo]

\* The bytes a text stands for.
Bytes(size) == size.num * Factor[size.unit]

MaxInt64 == (Word \div 2) - 1

\* The product of two words, as int64 arithmetic leaves it.
Wrap(x) == LET low == x % Word IN IF low > MaxInt64 THEN low - Word ELSE low

\* ParseInt refuses what does not fit in a word; the product is not looked at.
ParsesSize(size) == size.num \in 1 .. MaxInt64

ParseSizeBytes(size) == Wrap(Bytes(size))

\* The entry of a disk as the configuration spells it out, which may lack a size.
ExtractDiskSizeBytes(sized, entry) ==
  IF sized /\ ParsesSize(entry) THEN ParseSizeBytes(entry) ELSE 0

\* (mutant: the numbers are compared without their units)
ValidateNumberGrowth(sized, entry, size) == size.plus \/ ~sized \/ size.num > entry.num

\* A size "+N" is not looked at, nor is any when the current one is unknown.
ValidateDiskGrowth(sized, entry, size) ==
  LET current == ExtractDiskSizeBytes(sized, entry)
  IN  \/ size.plus
      \/ ParsesSize(size) /\ (current > 0 => ParseSizeBytes(size) > current)
=============================================================================
