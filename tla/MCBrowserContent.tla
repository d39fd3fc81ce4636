-------------------------- MODULE MCBrowserContent --------------------------
(* Instances of BrowserContent for TLC. *)
EXTENDS BrowserContent

MCFiles == {"site", "shop", "note"}
MCChunksOf == [f \in MCFiles |-> CASE f = "site" -> <<Leaf("s1"), Leaf("s2")>>
                                   [] f = "shop" -> <<Leaf("o1"), Leaf("o2")>>
                                   [] f = "note" -> <<Leaf("n1")>>]

\* A document whose links declare less than there is below them, one that is nested
\* too deep, and a small one.
MCBig   == [Leaf("big") EXCEPT !.declared = 2]
MCSmall == Leaf("small")
MCLie   == Node(<<MCBig, MCSmall>>, 2)
MCInner == Node(<<MCSmall>>, 1)
MCDeep  == Node(<<MCInner>>, 1)
MCShared == {MCLie, MCBig, MCSmall, MCInner, MCDeep}
MCNote  == CidOf("note")
MCPages == Places \union {MCLie, MCDeep, MCNote, MCSmall}

\* Two uploads at once; an upload beside fetches of its file; fetches of documents.
MCScope ==
    UNION {{<<>>, <<"site">>, <<"site", "site">>, <<"site", "shop">>}
               \X {<<>>} \X {Landing, Elsewhere},
           {<<>>, <<"note">>} \X {<<>>, <<MCNote>>, <<MCNote, MCSmall>>}
               \X {Landing, Malformed, MCNote, MCSmall},
           {<<>>} \X {<<>>, <<MCLie>>, <<MCDeep>>, <<MCDeep, MCDeep>>} \X MCPages}
=============================================================================
