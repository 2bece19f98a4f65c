----------------------------- MODULE TarHeader -----------------------------
(***************************************************************************)
(* The header of a tar member (tokio-tar/src/header.rs, entry_type.rs):    *)
(* what the setters store in the fixed-size fields and what the getters    *)
(* read back.                                                              *)
(*                                                                         *)
(* A path is a record of its components; a component is a name and its     *)
(* length in bytes, so that the limits of the fields can be expressed.     *)
(* Paths with doubled separators are left out.  The sizes of the fields    *)
(* are parameters: 100, 155, base 8 and 11 digits in the code.             *)
(***************************************************************************)
EXTENDS Naturals, Sequences, SequencesExt

CONSTANTS
    NameLen,     \* bytes of the name and linkname fields
    PrefixLen,   \* bytes of ustar's prefix field
    Radix,       \* base of the textual numeric fields
    SizeDigits   \* digits of the size field

ASSUME TarHeaderAssumption ==
    /\ NameLen \in Nat \ {0} /\ PrefixLen \in Nat \ {0}
    /\ Radix \in Nat /\ Radix > 1 /\ SizeDigits \in Nat \ {0}

Comp(n, w) == [n |-> n, w |-> w]
CurDir == Comp(".", 1)
ParentDir == Comp("..", 2)
Path(comps) == [abs |-> FALSE, comps |-> comps, slash |-> FALSE]
NoPath == Path(<<>>)
CompType == [n : STRING, w : Nat]
PathType == [abs : BOOLEAN, comps : Seq(CompType), slash : BOOLEAN]

PathLen(p) ==
    LET upto[i \in 0..Len(p.comps)] == IF i = 0 THEN 0 ELSE upto[i - 1] + p.comps[i].w IN
    (IF p.abs THEN 1 ELSE 0) + upto[Len(p.comps)]
        + (IF p.comps = <<>> THEN 0 ELSE Len(p.comps) - 1)
        + (IF p.slash THEN 1 ELSE 0)

JoinPath(dir, p) == IF dir = NoPath THEN p ELSE [p EXCEPT !.comps = dir.comps \o @]

\* The first n bytes of a path: a component cut inside is another name,
\* (the same one, shorter), and it may be `..`.
CutComp(c, k) ==
    IF k >= c.w THEN c
    ELSE IF c.n = "..x" /\ k = 2 THEN ParentDir ELSE Comp(c.n, k)
CutPath(p, n) ==
    LET Upto(i) == PathLen([p EXCEPT !.comps = SubSeq(p.comps, 1, i), !.slash = FALSE])
        full == {i \in 0..Len(p.comps) : Upto(i) <= n}
        k == CHOOSE i \in full : \A j \in full : j <= i
        left == n - Upto(k) - (IF k = 0 THEN 0 ELSE 1)
    IN  IF k = Len(p.comps) THEN [p EXCEPT !.slash = @ /\ PathLen(p) <= n]
        ELSE IF left <= 0
        THEN [p EXCEPT !.comps = SubSeq(p.comps, 1, k), !.slash = (left = 0)]
        ELSE [p EXCEPT !.comps = SubSeq(p.comps, 1, k) \o <<CutComp(p.comps[k + 1], left)>>,
                       !.slash = FALSE]

-----------------------------------------------------------------------------
(* Fields.                                                                 *)

\* What a digit is worth with i digits behind it.
Weight[i \in 0..SizeDigits] == IF i = 0 THEN 1 ELSE Radix * Weight[i - 1]
\* octal_into keeps the low digits and leaves the last byte of the field NUL.
OctalInto(v) == [i \in 1..SizeDigits |-> (v \div Weight[SizeDigits - i]) % Radix]
OctalFrom(digits) ==
    LET upto[i \in 0..Len(digits)] == IF i = 0 THEN 0 ELSE upto[i - 1] * Radix + digits[i]
    IN  upto[Len(digits)]

\* Binary, as wide as the field's 64 bits.
ExtInto(v) == [ext |-> TRUE, digits |-> <<v>>]
ExtFrom(field) == field.digits[1]

\* Mutant: the limit of the textual form is one too high.
NumInto_LimitOff(v) == IF v > Weight[SizeDigits]
                       THEN ExtInto(v)
                       ELSE [ext |-> FALSE, digits |-> OctalInto(v)]

\* A value too large for the digits is stored in binary, with the high bit of
\* the first byte set.
NumInto(v) == IF v >= Weight[SizeDigits]
              THEN ExtInto(v)
              ELSE [ext |-> FALSE, digits |-> OctalInto(v)]
NumFrom(field) == IF field.ext THEN ExtFrom(field) ELSE OctalFrom(field.digits)

\* `.` components are dropped unless the path is `.` itself; only a link may
\* be absolute or have `..`.
Normalized(p, isLink) ==
    IF isLink \/ Len(p.comps) = 1 \/ \A i \in DOMAIN p.comps : p.comps[i] # CurDir THEN p
    ELSE [p EXCEPT !.comps = SelectSeq(@, LAMBDA c : c # CurDir)]
CopyPathOk(p, len, isLink) ==
    /\ isLink \/ (~p.abs /\ \A i \in DOMAIN p.comps : p.comps[i] # ParentDir)
    /\ Normalized(p, isLink).comps # <<>> \/ (isLink /\ p.abs)
    /\ PathLen(Normalized(p, isLink)) <= len

AsByte ==
    [Regular |-> "0", Link |-> "1", Symlink |-> "2", Char |-> "3", Block |-> "4",
     Directory |-> "5", Fifo |-> "6", Continuous |-> "7", XHeader |-> "x",
     XGlobalHeader |-> "g", GNULongName |-> "L", GNULongLink |-> "K", GNUSparse |-> "S"]
TypeNew(byte) ==
    IF byte = "NUL" THEN "Regular"
    ELSE IF \E t \in DOMAIN AsByte : AsByte[t] = byte
    THEN CHOOSE t \in DOMAIN AsByte : AsByte[t] = byte ELSE "Other"

-----------------------------------------------------------------------------
(* Headers.  `sum` says whether the checksum field is that of the others.  *)

NewHeader(format) ==
    [format |-> format, flag |-> "NUL", name |-> NoPath, prefix |-> NoPath,
     link |-> NoPath, size |-> NumInto(0), sparse |-> <<>>, real |-> 0,
     sum |-> FALSE]

HeaderFields ==
    {"format", "flag", "name", "prefix", "link", "size", "sparse", "real", "sum"}
IsHeader(h) == h = [f \in HeaderFields |-> h[f]]

SetCksum(h) == [h EXCEPT !.sum = TRUE]
SetEntryType(h, t) == [h EXCEPT !.flag = AsByte[t], !.sum = FALSE]
SetSize(h, n) == [h EXCEPT !.size = NumInto(n), !.sum = FALSE]

EntryTypeOf(h) == TypeNew(h.flag)
EntrySize(h) == NumFrom(h.size)
RealSize(h) == IF EntryTypeOf(h) = "GNUSparse" THEN h.real ELSE EntrySize(h)
PathOf(h) == IF h.format = "ustar" THEN JoinPath(h.prefix, h.name) ELSE h.name
LinkNameOf(h) == h.link

\* Ustar's longest parent directory that fits the prefix field.  The root of
\* a relative path is the empty path, which cannot be copied.
Splits(p) == {i \in 0..Len(p.comps) - 1 : PathLen(Path(SubSeq(p.comps, 1, i))) <= PrefixLen}
Split(p) == CHOOSE i \in Splits(p) : \A j \in Splits(p) : j <= i
Tail2(p) == [p EXCEPT !.comps = SubSeq(@, Split(p) + 1, Len(@))]

\* What set_path answers, and the header it leaves behind.  A path that fits
\* the name field leaves the prefix field as it was.
SetPathOk(h, p) ==
    IF h.format # "ustar" \/ PathLen(p) <= NameLen THEN CopyPathOk(p, NameLen, FALSE)
    ELSE /\ ~p.abs /\ Splits(p) # {}
         /\ CopyPathOk(Path(SubSeq(p.comps, 1, Split(p))), PrefixLen, FALSE)
         /\ CopyPathOk(Tail2(p), NameLen, FALSE)
SetPath(h, p) ==
    IF h.format # "ustar" \/ PathLen(p) <= NameLen
    THEN [h EXCEPT !.name = Normalized(p, FALSE), !.sum = FALSE]
    ELSE [h EXCEPT !.prefix = Normalized(Path(SubSeq(p.comps, 1, Split(p))), FALSE),
                   !.name = Normalized(Tail2(p), FALSE), !.sum = FALSE]

\* A path that fails after the split leaves its directory in the prefix field.
SetPathLeaves(h, p) ==
    IF h.format = "ustar" /\ PathLen(p) > NameLen /\ Splits(p) # {} /\ Split(p) > 0
    THEN [h EXCEPT !.prefix = Normalized(Path(SubSeq(p.comps, 1, Split(p))), FALSE)]
    ELSE h

SetLinkOk(h, p) == CopyPathOk(p, NameLen, TRUE)
SetLink(h, p) == [h EXCEPT !.link = p, !.sum = FALSE]
\* A link name that is too long leaves the components that fitted.
SetLinkLeaves(h, p) ==
    LET Upto(i) == PathLen([p EXCEPT !.comps = SubSeq(p.comps, 1, i), !.slash = FALSE])
        fits == {i \in 0..Len(p.comps) : Upto(i) <= NameLen}
        k == CHOOSE i \in fits : \A j \in fits : j <= i
    IN  [h EXCEPT !.link = [p EXCEPT !.comps = SubSeq(p.comps, 1, k),
                                     !.slash = (k > 0 /\ Upto(k) < NameLen)]]

\* The bytes behind the device fields (345 to 511): ustar's prefix, GNU's
\* sparse map.  They are all zero in most headers.
TailIsZero(h) == h.prefix = NoPath /\ h.sparse = <<>>
=============================================================================
