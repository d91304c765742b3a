------------------------------ MODULE Partition ------------------------------
(***************************************************************************)
(* partition_scan of device/ide.c: the tables of a disk's boot record and  *)
(* of the chain of extended boot records, walked by recursion with three   *)
(* globals.  Only ide_init calls it, with interrupts masked, so a scan is  *)
(* one function of the layout that ide_read finds on the disk.             *)
(***************************************************************************)
EXTENDS Naturals, Sequences, FiniteSets

CONSTANTS MaxChain,     \* bound: extended boot records on a disk
          Ext, Gap      \* where the extended partition starts; a record's share of it

ASSUME PartitionAssumption == MaxChain \in Nat /\ Ext \in Nat \ {0} /\ Gap \in Nat \ {0, 1}

Types == {"none", "prim", "ext"}        \* fs_type: 0, any other, 5
Slots == 1 .. 4

\* An extended record describes a partition before its link to the next record
\* or behind it, or it has lost its own.
Shapes == {"first", "last", "none"}

\* The extended records on a disk: one of them may have its partition behind its
\* link, or else the first has lost its own.
Chains ==
    {c \in UNION {[1 .. n -> Shapes] : n \in 1 .. MaxChain} :
        /\ \A j, k \in DOMAIN c : c[j] # "first" /\ c[k] # "first" => j = k
        /\ \A k \in DOMAIN c : c[k] = "none" => k = 1}

\* The boot record's entries that are extended partitions, at most two.
ExtendedSlots(disk) == {i \in Slots : disk.mbr[i] = "ext"}

\* What is on a disk: the types in the boot record, the extended records, and the
\* one, perhaps behind the last, that a second extended partition leads to; the
\* first's records end before it.
Layouts ==
    {disk \in [mbr : [Slots -> Types], chain : Chains, second : 2 .. MaxChain + 1] :
        /\ Cardinality(ExtendedSlots(disk)) <= 2
        /\ disk.second - 1 \in DOMAIN disk.chain
        /\ disk.second \in DOMAIN disk.chain => Cardinality(ExtendedSlots(disk)) = 2}

\* Where each part of the layout is.  Record k starts its partition one sector
\* behind itself and names the next record relative to the first.
Record(k) == Ext + (k - 1) * Gap
PrimStart(i) == 100 * i

\* A second extended partition is found relative to the first.
StartOf(disk, i) ==
    IF disk.mbr[i] # "ext" THEN PrimStart(i)
    ELSE IF \E j \in ExtendedSlots(disk) : j < i THEN Record(disk.second) - Ext ELSE Ext

Entry(type, start) == [type |-> type, start |-> start]

\* The entries that ide_read finds at lba.
Table(disk, lba) ==
    LET Has(shape) == \E k \in DOMAIN disk.chain : lba = Record(k) /\ disk.chain[k] = shape
        Links == \E k \in DOMAIN disk.chain :
                    lba = Record(k) /\ k + 1 \in DOMAIN disk.chain /\ k + 1 # disk.second
    IN  [i \in Slots |->
            IF lba = 0 THEN Entry(disk.mbr[i], StartOf(disk, i))
            ELSE CASE i = (IF Has("last") THEN 2 ELSE 1) /\ (Has("first") \/ Has("last"))
                        -> Entry("prim", 1)
                   [] i = (IF Has("last") THEN 1 ELSE 2) /\ Links
                        -> Entry("ext", lba + Gap - Ext)
                   [] OTHER -> Entry("none", 0)]

-----------------------------------------------------------------------------
\* What a scan reads and writes; names lists partition_list's partitions as
\* <<name's number, start>>; leave is the return at the eighth logical one and
\* at every later one.  logic_parts has room for eight: what a ninth overwrites
\* behind it is not modelled, only that it is listed.
Scans == [ext_lba_base : Nat, p_no : Nat, l_no : Nat, prim_parts : Seq(Nat), logic_parts : Seq(Nat),
          names : Seq(Nat \X Nat), buffers : Nat, leave : BOOLEAN, panic : BOOLEAN]

Start == [ext_lba_base |-> 0, p_no |-> 0, l_no |-> 0, prim_parts |-> <<>>, logic_parts |-> <<>>,
          names |-> <<>>, buffers |-> 0, leave |-> FALSE, panic |-> FALSE]

\* ASSERT(p_no < 4) comes after the increment.
Primary(s, entry) ==
    [s EXCEPT !.prim_parts = Append(@, entry.start),
              !.names = Append(@, <<s.p_no + 1, entry.start>>),
              !.p_no = @ + 1, !.panic = s.p_no + 1 >= 4]

\* The eighth one ends the call, which keeps its buffer.  The calls above it go
\* on with their own entries, so that more may follow.
Logical(s, entry, lba) ==
    [s EXCEPT !.logic_parts = Append(@, lba + entry.start),
              !.names = Append(@, <<s.l_no + 5, lba + entry.start>>),
              !.l_no = @ + 1, !.leave = s.l_no + 1 >= 8]

\* Mutant: a link is taken relative to the record it stands in.
LinkedRelative(s, entry, lba) == entry.start + lba

\* Links are relative to the start of the extended partition.
Linked(s, entry, lba) == entry.start + s.ext_lba_base

\* The recursive call for an extended partition.
Extended(s, entry, lba, inner) ==
    inner[<<Linked(s, entry, lba),
            IF s.ext_lba_base = 0 THEN [s EXCEPT !.ext_lba_base = entry.start] ELSE s>>]

\* One turn of the loop; inner is what a recursive call does.
Turn(s, entry, lba, inner) ==
    CASE s.leave \/ s.panic \/ entry.type = "none" -> s
      [] ~(s.leave \/ s.panic) /\ entry.type = "ext" -> Extended(s, entry, lba, inner)
      [] ~(s.leave \/ s.panic) /\ entry.type = "prim" ->
            IF lba = 0 THEN Primary(s, entry) ELSE Logical(s, entry, lba)

\* What one call keeps of its buffer and of its return.
Left(s) ==
    IF s.panic THEN s
    ELSE [s EXCEPT !.leave = FALSE, !.buffers = IF s.leave THEN @ ELSE @ - 1]

\* One call: a buffer, the table at lba, its four entries in turn.
ScanTable(disk, lba, s, inner) ==
    LET entry == Table(disk, lba)
        turn[i \in 0 .. 4] == IF i = 0 THEN [s EXCEPT !.buffers = @ + 1]
                              ELSE Turn(turn[i - 1], entry[i], lba, inner)
    IN  Left(turn[4])

\* The calls that may go on d levels deep; on the disks of Layouts none is ever
\* cut short.
partition_scan(disk) ==
    LET call[d \in 0 .. MaxChain + 1] ==
            [at \in Nat \X Scans |->
                IF d = 0 THEN [at[2] EXCEPT !.panic = TRUE]
                ELSE ScanTable(disk, at[1], at[2], call[d - 1])]
    IN  call[MaxChain + 1][<<0, Start>>]

-----------------------------------------------------------------------------
(* Correctness *)

Primaries(disk) == {i \in Slots : disk.mbr[i] = "prim"}

\* The records in S, consecutive ones, whose partitions a walk through them lists
\* when l are listed before it: the walk stops at a record that lists its own
\* before it follows the link, if that is the eighth or a later one.
ListedBy(disk, S, l) ==
    {k \in S :
        /\ disk.chain[k] # "none"
        /\ \A j \in S : j < k /\ disk.chain[j] = "first" =>
              l + Cardinality({i \in S : i <= j /\ disk.chain[i] = "first"}) < 8}

\* The records whose partitions are listed.
Logicals(disk) ==
    LET before == {k \in DOMAIN disk.chain : k < disk.second}
        one == ListedBy(disk, before, 0)
    IN  IF ExtendedSlots(disk) = {} THEN {}
        ELSE one \cup ListedBy(disk, DOMAIN disk.chain \ before, Cardinality(one))

\* Disks with one extended partition, each record with its partition before its
\* link.
Plain(disk) ==
    /\ \A i, j \in ExtendedSlots(disk) : i = j
    /\ \A k \in DOMAIN disk.chain : disk.chain[k] # "last"

\* q lists the elements of S, each once and in ascending order.
Ascending(q, S) ==
    /\ \A i, j \in DOMAIN q : i < j => q[i] < q[j]
    /\ {q[i] : i \in DOMAIN q} = S

\* q lists the elements of S, each once.
EachOnce(q, S) ==
    /\ \A i, j \in DOMAIN q : q[i] = q[j] => i = j
    /\ {q[i] : i \in DOMAIN q} = S

ScanFinds(disk) ==
    LET s == partition_scan(disk)
        prims == {PrimStart(i) : i \in Primaries(disk)}
        logics == {Record(k) + 1 : k \in Logicals(disk)}
    IN  /\ s.panic <=> Primaries(disk) = Slots
        /\ Plain(disk) => Len(s.logic_parts) <= 8
        /\ ~s.panic =>
              /\ Ascending(s.prim_parts, prims) /\ EachOnce(s.logic_parts, logics)
              /\ s.buffers = IF Len(s.logic_parts) >= 8 THEN Len(s.logic_parts) - 7 ELSE 0
              /\ Len(s.names) = Len(s.prim_parts) + Len(s.logic_parts)
              /\ {s.names[i][2] : i \in DOMAIN s.names} = prims \cup logics
              /\ \A i, j \in DOMAIN s.names : s.names[i][1] = s.names[j][1] => i = j
=============================================================================
