----------------------------- MODULE MCInstall ---------------------------
EXTENDS Install

Json(name, version, deps, bins, scripts) ==
    [name |-> name, version |-> version, deps |-> deps, bundled |-> {"z"}, scripts |-> scripts, rebuild |-> FALSE,
     bins |-> [i \in DOMAIN bins |-> [bin |-> bins[i], file |-> <<"cli">>]]]

\* a's version is written v1; c's install script is node-gyp's.
MCPackageJson ==
    <<"a", 1>> :> Json("a", "v1", <<"b", "z">>, <<"run">>, {"preinstall", "prepare"}) @@
    <<"b", 1>> :> Json("b", "1", <<"c">>, <<"run", "b">>, {}) @@
    <<"b", 2>> :> Json("b", "2", <<"c">>, <<"run", "b">>, {}) @@
    <<"c", 1>> :> [Json("c", "1", <<"a", "b">>, <<"run">>, {"install", "postinstall"}) EXCEPT !.rebuild = TRUE] @@
    <<"c", 2>> :> Json("c", "2", <<>>, <<>>, {}) @@
    <<"d", 1>> :> Json("d", "1", <<>>, <<>>, {})
MCGyps  == {<<"d", 1>>}
MCParse == "v1" :> 1 @@ "1" :> 1 @@ "2" :> 2
MCPlatform == [os |-> "linux", cpu |-> "x64"]

Reg(id, rel) == [blob |-> "bucket_0", id |-> id, rel |-> rel, kind |-> "reg"]
MCToc == FlattenSeq([i \in 1..6 |-> LET id == <<<<"a", 1>>, <<"b", 1>>, <<"b", 2>>, <<"c", 1>>, <<"c", 2>>, <<"d", 1>>>>[i] IN
                        <<Reg(id, <<"package.json">>), Reg(id, <<"cli">>)>>])
         \o <<Reg(<<"d", 1>>, <<"binding.gyp">>), Reg(<<"a", 1>>, <<"node_modules", "z", "index.js">>)>>

Dep(ws, at, tarball, version) ==
    [ws |-> ws, at |-> at, name |-> None, version |-> version, link |-> FALSE, to |-> <<>>, tarball |-> tarball,
     dev |-> FALSE, optional |-> FALSE, bundled |-> FALSE, os |-> {}, cpu |-> {}]
Dev(e)       == [e EXCEPT !.dev = TRUE]
Optional(e)  == [e EXCEPT !.optional = TRUE]
NotHere(e)   == [Optional(e) EXCEPT !.cpu = {[not |-> TRUE, is |-> "x64"]}]
Alias(e, n)  == [e EXCEPT !.name = n]
Space(w)     == Dep(w, <<>>, None, 1)
LinkTo(n, w) == [Dep(Root, <<n>>, None, None) EXCEPT !.link = TRUE, !.to = w]
Self         == Dep(Root, <<>>, None, 1)
W == <<"w">>
V == <<"v">>
V2 == <<"v", "2">>

Proj(os, mode, lock, deps, spaces) ==
    [os |-> os, mode |-> mode, lock |-> lock, deps |-> deps, spaces |-> spaces, production |-> FALSE,
     single |-> FALSE, daemon |-> TRUE, ignore |-> FALSE,
     scripts |-> [p \in ToSet(spaces) \cup {Root} |-> IF p = Root THEN {"prepare"} ELSE {"install"}]]

Tree == <<Self, Dep(Root, <<"a">>, "a", 1), Dep(Root, <<"a", "b">>, "b", 1), Dep(Root, <<"b">>, "b", 2),
          Optional(Dep(Root, <<"c">>, "c", 1)), NotHere(Dep(Root, <<"d">>, "d", 1)),
          Dev(NotHere(Dep(Root, <<"b", "a">>, "a", 1)))>>
Spaces == <<Self, LinkTo("v", V), Dep(Root, <<"b">>, "b", 2), Space(V), Dev(Dep(V, <<"a">>, "a", 1)),
            Space(W), Dep(W, <<"a">>, "a", 1), Alias(Dep(W, <<"e">>, "d", 1), "d")>>

MCProjects == <<
    Proj("Linux", "npm", Tree, {"b"}, <<>>),
    Proj("Linux", "npminstall", InsertAt(Tree, 4, Dep(Root, <<"a", "c">>, "c", 2)), {"a"}, <<>>),
    [Proj("Darwin", "npm", Spaces, {"b"}, <<V, W>>) EXCEPT !.production = TRUE],
    Proj("Linux", "npm", SubSeq(Spaces, 1, 5) \o <<Space(V2), Dep(V2, <<"b">>, "b", 1)>>, {}, <<V, V2>>),
    [Proj("Darwin", "npm", Spaces, {}, <<W>>) EXCEPT !.single = TRUE, !.daemon = FALSE],
    [Proj("Linux", "npm", Tree \o <<Dep(Root, <<"e">>, "d", 1)>>, {}, <<>>) EXCEPT !.ignore = TRUE],
    [Proj("Darwin", "npminstall", <<Self, Alias(Dep(Root, <<"e">>, "d", 1), "d")>>, {}, <<>>) EXCEPT !.single = TRUE],
    [Proj("Linux", "npm", <<Self, Dev(Dep(Root, <<"d">>, "d", 1)), Dev(NotHere(Dep(Root, <<"e", "d">>, "d", 1)))>>, {}, <<>>)
        EXCEPT !.daemon = FALSE],
    [Proj("Darwin", "npm", <<Self, Dep(Root, <<"d">>, "d", 1)>>, {}, <<>>) EXCEPT !.single = TRUE, !.daemon = FALSE]>>
=============================================================================
