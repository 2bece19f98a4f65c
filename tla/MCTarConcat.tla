---------------------------- MODULE MCTarConcat ----------------------------
(* Instance of TarConcat: archives made by TarBuilder's operations and by  *)
(* raw appends that stand for other tools, whole and cut short.            *)
EXTENDS TarConcat

pk == Comp("pk", 2)
a == Comp("a", 1)
dd == Comp("dd", 2)
PkA == Path(<<pk, a>>)
PkD == Path(<<pk, dd>>)
PkLong == Path(<<pk, Comp("lll", 3)>>)
MCPrefix == Path(<<Comp("n@", 2)>>)
MCListened == {PkA}

Sized(format, t, n) == SetSize(SetEntryType(NewHeader(format), t), n)
Fs(how, p, link, c, n) == Request(how, None, p, link, c, n, DataCells(c, n))
File(p, c, n) == Fs("Regular", p, NoPath, c, n)
Given(header, p, c, n) == Request("data", header, p, NoPath, c, n, DataCells(c, n))
Ustar(p, c, n) == Given(Sized("ustar", "Regular", n), p, c, n)
\* A type the TOC has no name for, in a header of the old format.
Old(p, c, n) == Given(Sized("old", "Continuous", n), p, c, n)
Raw(header, p, c, n) == Request("raw", SetCksum(header), p, NoPath, c, n, DataCells(c, n))
\* A pax extension, and the member it belongs to: npm writes these for a
\* path that does not fit.
PaxOf(p) == <<[key |-> "mtime", val |-> NoPath, ok |-> TRUE], [key |-> "path", val |-> p, ok |-> TRUE]>>
Pax(p) == Raw([Sized("ustar", "XHeader", 2) EXCEPT !.name = Path(<<dd>>)], p, PaxOf(p), 2)
Shortened(p, c, n) == Raw([Sized("ustar", "Regular", n) EXCEPT !.name = CutPath(p, NameLen)], p, c, n)
\* A sparse file: a block listed in its header, one in an extension.
s == DataCells("s", 5)
Sparse(p) ==
    [Raw([Sized("gnu", "GNUSparse", 3) EXCEPT !.name = p, !.real = 4,
            !.sparse = <<<<[off |-> 0, len |-> 2]>>, <<[off |-> 3, len |-> 1]>>>>],
         p, "s", 5) EXCEPT !.data = <<s[3], s[4], Zero, s[5]>>]

MCJobs == {
    <<File(PkA, "c", 3), File(PkD, "d", 1)>>,
    <<File(PkLong, "c", 2), File(PkA, "d", 1)>>,
    <<Ustar(Path(<<pk, dd, a>>), "c", 2), Ustar(PkA, "d", 4)>>,
    <<Ustar(Path(<<Comp("root", 4), a>>), "c", 1)>>,
    \* the renamed path does not fit
    <<File(Path(<<a, Comp("eee", 3)>>), "c", 1)>>,
    <<Pax(PkLong), Shortened(PkLong, "c", 1), File(PkA, "d", 0)>>,
    <<Fs("Directory", Path(<<pk>>), NoPath, "", 0), Fs("Symlink", PkD, Path(<<dd, dd, a>>), "", 0)>>,
    <<File(PkA, "c", 1), Sparse(PkD)>>,
    \* the cut name ends in `..`: the builder gives up after the long name
    <<File(PkA, "e", 1), File(Path(<<pk, Comp("..x", 3)>>), "c", 1)>>,
    <<Old(PkA, "c", 2), Old(Path(<<ParentDir>>), "c", 1)>>,
    <<Old(PkA, "c", 2), Old(PkD, "d", 1)>>}
\* The theorems about plain archives speak of all of them but the sparse one.
ASSUME PlainJobsAssumption ==
    \A j \in MCJobs : PlainJob(j) <=> \A i \in 1..Len(j) : j[i].header = None \/ j[i].header.sparse = <<>>
MCCuts == {1, 3, 5, 6, 7, 9}
=============================================================================
