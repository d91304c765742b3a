--------------------------------- MODULE Data --------------------------------
(***************************************************************************)
(* The functions of lib/ and partition_scan, each asked about one input:   *)
(* a content of a bitmap and of the byte behind it, two strings, an int,   *)
(* or what is on a disk.                                                   *)
(***************************************************************************)
EXTENDS BitmapOps, Text, Partition

CONSTANTS MapBytes,     \* bound: the bytes of a map
          MaxRun        \* bound: how long a run a scan is asked for

ASSUME DataAssumption == MapBytes \in Nat /\ MaxRun \in Nat

VARIABLES asked,        \* which functions are asked
          input         \* what they are asked about

dataVars == <<asked, input>>

Contents == SUBSET (0 .. (MapBytes + 1) * ByteBits - 1)

DataInit ==
    \/ asked = "map" /\ input \in Contents
    \/ asked = "strings" /\ input \in Strings \X Strings
    \/ asked = "number" /\ input \in Numbers
    \/ asked = "disk" /\ input \in Layouts

\* The functions keep no state: once they are asked there is nothing left to do.
DataNext == asked' = "nothing" /\ input' = <<>>

DataSpec == DataInit /\ [][DataNext]_dataVars

-----------------------------------------------------------------------------
(* Correctness *)

\* bitmap_scan answers the lowest clear run there is among the bits it looks
\* at, fails only if there is none, and halts only on a full map; and the
\* callers' loop then sets that run and no other bit.
LowestClearRun == asked = "map" => \A cnt \in 1 .. MaxRun : ScanRight(input, MapBytes, cnt)

\* The string functions agree with each other on where strings end, on their
\* order, and on the characters in them: strcmp is an order that a common
\* prefix does not change and that memcmp over the whole string shares, and
\* strcat loses no character.  A byte above 127 is never found, because the
\* character searched for is compared with a signed one.
StringsRight ==
    asked = "strings" =>
        /\ OrderRight(input[1], input[2])
        /\ \A ch \in Chars : SearchRight(input[1], input[2], ch)

\* Every number is printed with its value and without leading zeros, by itoa
\* and by put_int alike, the smallest int included, and vsprintf hands each
\* conversion its own argument wherever it stands in the format.
PrintedRight == asked = "number" => NumberRight(input) /\ FormatRight(input)

\* The scan finds every primary partition and lists each logical one it comes to
\* once, at its absolute sector and under a name of its own.  No call follows a
\* link behind the eighth; but only where there is one extended partition and no
\* record's link stands before its partition is it sure to list no more than
\* logic_parts holds (elsewhere ide.c:247 writes beyond it, after the return at
\* ide.c:253).  It keeps one buffer for each from the eighth on, and gives back
\* every other.  It stops the machine over a fourth primary partition, which the
\* comment at ide.c:243 still allows, and over nothing else.
PartitionsFound == asked = "disk" => ScanFinds(input)
=============================================================================
