------------------------------- MODULE WebMC --------------------------------
(* Instances of the pages.                                                  *)
EXTENDS Browser

CONSTANTS r1, r2, d1, d2

\* Assistants: two tiers, an OU for groups, one that no tier has yet. Others may remove
\* an OU before the one that is renamed, and one behind it.
MCNames == {"T1", "T2", "groups", "new", "staging"}
MCNameTier == [n \in MCNames |-> CASE n = "T1" -> 1 [] n = "T2" -> 2 [] OTHER -> NoTier]
MCServes == [n \in MCNames |-> IF n = "groups" THEN {"groups", "accounts"} ELSE {}]
MCSams == <<"a", "b", "c">>
MCStart ==
    [ous |-> <<[name |-> "new", path |-> <<>>], [name |-> "T1", path |-> <<>>],
               [name |-> "groups", path |-> <<"T1">>], [name |-> "T2", path |-> <<>>]>>,
     groups |-> {[sam |-> "a", ou |-> <<"groups", "T1">>, says |-> NoTier]},
     users |-> {}, acls |-> {[target |-> <<"groups", "T1">>, who |-> "a", allow |-> TRUE]},
     links |-> {[at |-> <<"T1">>, gpo |-> "p"]}, silos |-> {<<"groups", "T1">>}]

\* Import: the file has both sections, the other instance one of them.
MCAreas == <<"a", "b">>
MCOffer == [s \in Origin |-> [r \in RuleSets |-> [k \in KeySet |->
              CASE s = "file" /\ k = "b" -> IF r = NoRules THEN "new" ELSE "old"
                [] s = "file" /\ k = "a" -> "new"
                [] s = "remote" /\ k = "a" -> "old"
                [] OTHER -> Broken]]]
MCStored == [k \in KeySet |-> IF k = "a" THEN <<>> ELSE <<"old">>]

\* GPOs: two at an OU, or one of them among the templates.
MCGpo(n, o) ==
    [name |-> n, mode |-> "createAndImport", importPath |-> Has("backup"),
     linkOrder |-> o, linkEnabled |-> TRUE, deny |-> Missing,
     restricted |-> EmptyArray, rights |-> Has({}), obj |-> 0]
MCSection(ou, templates) ==
    [t \in {"ou", TemplateKey} |-> IF t = "ou" THEN [ImportOnlyGpo |-> <<>>, PostConfigureGpo |-> ou]
                                   ELSE [ImportOnlyGpo |-> templates, PostConfigureGpo |-> <<>>]]
MCGpos ==
    {MCSection(<<MCGpo("a", 1), MCGpo("b", 2)>>, <<>>),
     MCSection(<<MCGpo("b", 2)>>, <<MCGpo("a", 0)>>)}

\* Reviews: delegations of which two may have the same identity, files by name, two lists
\* of one section, and a list outside of any collection, with and without a key.
MCSeqs(S) == {<<>>} \cup {<<x>> : x \in S} \cup {<<x, y>> : x, y \in S}
MCObj(keys, values) == Object([k \in ToSet(keys) |-> values[CHOOSE i \in DOMAIN keys : keys[i] = k]])
MCAcl(who, rights, allow) ==
    MCObj(<<"who", "target", "allow", "rights">>,
          <<Scalar(who), Scalar("ou"), Scalar(allow), List(rights)>>)
MCAcls == {MCAcl("a", <<Scalar("x"), Scalar("y")>>, "yes"), MCAcl("a", <<Scalar("y"), Scalar("x")>>, "no"),
           MCAcl("a", <<Scalar("x")>>, "yes"), MCAcl("b", <<Scalar("x")>>, "yes")}
MCFile(h) == MCObj(<<"hash">>, <<Scalar(h)>>)
MCNamed(n) == MCObj(<<"name", "enforce">>, <<Scalar(n), Scalar("yes")>>)
MCPairs(x, y) == {List(<<MCNamed(x), MCNamed(y)>>), List(<<MCNamed(y), MCNamed(x)>>),
                  List(<<MCNamed(x)>>)}
MCServers == {MCObj(<<"name", "tier">>, <<Scalar("s"), Scalar("1")>>),
              MCObj(<<"name", "tier">>, <<Scalar("s"), Scalar("2")>>),
              MCObj(<<"name", "tier">>, <<Scalar("t"), Scalar("1")>>),
              MCObj(<<"tier">>, <<Scalar("1")>>)}
MCReviewed ==
    [acls |-> {MCObj(<<"aclDelegations">>, <<List(s)>>) : s \in MCSeqs(MCAcls)},
     admx |-> {MCObj(<<"admx">>, <<MCObj(<<"files", "version">>,
                   <<Object([f \in S |-> MCFile(h[f])]), Scalar(v)>>)>>) :
                 S \in SUBSET {"f", "g"}, h \in [{"f", "g"} -> {"1", "2"}], v \in {"1", "2"}},
     authsilos |-> {MCObj(<<"policies", "silos">>, <<p, s>>) :
                      p \in MCPairs("p", "q"), s \in MCPairs("s", "t")},
     tiers |-> {MCObj(<<"servers">>, <<List(s)>>) : s \in MCSeqs(MCServers)}]
=============================================================================
