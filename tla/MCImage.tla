------------------------------ MODULE MCImage ------------------------------
(* Instance of LayerBuilder: TOCs as the npm fs writes them, the root      *)
(* entry last, built on hosts with and without attributes on `/`; and      *)
(* layers of two TOCs.                                                     *)
EXTENDS LayerBuilder

\* Names 1 and 2 have short and long names.
MCNameSize == <<3, 9, 4>>
b1 == <<"b", "1">>
b2 == <<"b", "l", "o", "b", "2">>

Reg(path, blob, offset, size) == TocEntry("reg", path, blob, offset, size)
Dir(path) == TocEntry("dir", path, b1, 0, 0)
Link(path, n) == [TocEntry("symlink", path, b1, 0, 0) EXCEPT !.linkSize = n]
Hard(path, link) == [TocEntry("hardlink", path, b1, 0, 0) EXCEPT !.link = link]

NewJob(tool, toc, blobs) == [tool |-> tool, toc |-> toc, blobs |-> blobs, hints |-> {}, parent |-> 0]
FromToc(toc, blobs) == NewJob("bootstrap", Append(toc, TocEntry("dir", <<>>, blobs[1], 0, 0)), blobs)

Nested == FromToc(<<Reg(<<2, 1>>, b2, 7, 2), Reg(<<2, 3, 1>>, b2, 20, 5), Reg(<<1>>, b1, 3, 0),
                  Link(<<3>>, 6), Reg(<<2, 2>>, b1, 40, 9)>>, <<b1, b2>>)
Small == FromToc(<<Reg(<<1>>, b1, 5, 4), Reg(<<2>>, b1, 11, 1)>>, <<b1>>)
\* Same number of inodes and same blobs, names of other lengths.
Renamed == FromToc(<<Reg(<<2>>, b1, 5, 4), Reg(<<3>>, b1, 11, 1)>>, <<b1>>)
Linked == FromToc(<<Dir(<<1>>), Reg(<<1, 2>>, b1, 0, 3), Hard(<<1, 1>>, <<1, 2>>), Hard(<<2>>, <<3>>),
                  TocEntry("char", <<1, 3>>, b1, 0, 0)>>, <<b1>>)
Empty == FromToc(<<>>, <<b1>>)
\* The directory comes after its files.
Late == FromToc(<<Reg(<<1, 2, 1>>, b1, 0, 3), Dir(<<1>>), Reg(<<1, 2, 2>>, b1, 5, 1), Reg(<<1, 3>>, b1, 7, 1)>>, <<b1>>)
\* A large file in chunks, as the stargz index describes it.
Chunks == FromToc(<<[Reg(<<1>>, b1, 0, 9) EXCEPT !.chunkSize = 4],
                  [TocEntry("chunk", <<1>>, b1, 4, 0) EXCEPT !.chunkOffset = 4, !.chunkSize = 4],
                  [TocEntry("chunk", <<1>>, b1, 8, 0) EXCEPT !.chunkOffset = 8]>>, <<b1>>)
Rootless == NewJob("bootstrap", <<Reg(<<1>>, b1, 0, 1)>>, <<b1>>)

\* Layers.
Create(job, id, files) == [job EXCEPT !.tool = "create", !.blobs = <<id>>, !.hints = files]
Apply(id, lower) == [NewJob("apply", <<>>, <<id>>) EXCEPT !.parent = lower]
\* Links to one file, a file in chunks, attributes.
Lower == FromToc(<<Dir(<<1>>), Reg(<<1, 2>>, b1, 0, 3), Hard(<<1, 1>>, <<1, 2>>), [Reg(<<1, 3>>, b1, 4, 2) EXCEPT !.xattrs = <<5>>]>>, <<b1>>)
Upper == FromToc(<<Reg(<<2, 3>>, b2, 1, 4), Reg(<<2, 1>>, b2, 6, 2), [Link(<<3>>, 6) EXCEPT !.blob = b2]>>, <<b2>>)
Again == FromToc(<<Reg(<<1, 2>>, b2, 9, 1), Reg(<<3>>, b2, 2, 2)>>, <<b2>>)
Layers == <<Create(Lower, b1, {}), Create(Upper, b2, {<<2, 3>>, <<1>>}), Apply(b2, 1)>>

MCBuilds == {<<Nested>>, <<Small, Renamed>>, <<Linked>>, <<Empty>>, <<Late>>, <<Chunks>>, <<Rootless>>,
    <<Create(Chunks, b1, {<<1>>})>>, Layers, <<Create(Lower, b1, {}), Create(Again, b2, {}), Apply(b2, 1)>>,
    <<Create(Upper, b2, {<<2>>, <<2, 1>>}), Create(Lower, b1, {}), Apply(b1, 1)>>,
    <<Small, Create(Upper, b2, {}), Apply(b2, 1)>>}
MCHosts == {<<>>, <<5, 12>>}
MCAsked == {<<>>, <<1>>, <<2>>, <<3>>, <<1, 1>>, <<1, 2>>, <<2, 1>>, <<2, 2>>, <<2, 3, 1>>, <<2, 3>>, <<1, 2, 1>>}
MCLengths == {0, 1, 4, 6}
=============================================================================
