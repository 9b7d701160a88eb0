--------------------------- MODULE MCUnifiedDiff ---------------------------
EXTENDS UnifiedDiff

CONSTANTS f, g, u, n, x       \* two files of the component, one of another, a new one; a line

Line(marks, texts) == [mark : marks, text : texts]
Old == Line({" ", "-"}, {x, MinusMinus})
New == Line({"+"}, {x, MinusMinus, PlusPlus})

\* Every hunk of up to two lines, and the shorter ones with an old line for pairs of hunks.
Bodies == {<<l>> : l \in Old \cup New} \cup
          {<<k, l>> : k \in Old, l \in Old \cup New} \cup {<<k, l>> : k \in New, l \in Old}
ShortBodies == {<<l>> : l \in Old} \cup {<<k, l>> : k \in Old, l \in New}
Hunks(bodies) == [start : 1 .. 3, body : bodies]
Tops == [start : {0}, body : {<<l>> : l \in New}]

Contents == UNION {[1 .. k -> {x, MinusMinus}] : k \in 1 .. 3}

Change(p, hunks) == [old |-> p, new |-> p, hunks |-> hunks]
DiskOf(c, d, e) == [p \in ProjectPaths |-> CASE p = f -> c [] p = g -> d [] p = u -> <<x>>
                                      [] p = n -> Missing [] OTHER -> e]

OneSection ==
    {[diff |-> <<Change(f, hs)>>, disk |-> DiskOf(c, <<x>>, e)] :
        hs \in {<<h>> : h \in Hunks(Bodies) \cup Tops} \cup
              {<<h, k>> : h \in Hunks(ShortBodies) \cup Tops, k \in Hunks(ShortBodies)},
        c \in Contents, e \in {Missing}}

\* Sections of every status on every kind of path, with hunks and without, in pairs, and
\* an empty diff.
Swap == <<[start |-> 1, body |-> <<[mark |-> "-", text |-> x], [mark |-> "+", text |-> MinusMinus]>>]>>
Fill == <<[start |-> 0, body |-> <<[mark |-> "+", text |-> x]>>]>>
Show == <<[start |-> 0, body |-> <<[mark |-> "+", text |-> PlusPlus]>>]>>
Drop == <<[start |-> 1, body |-> <<[mark |-> "-", text |-> x]>>]>>
Mask == <<[start |-> 1, body |-> <<[mark |-> "-", text |-> MinusMinus], [mark |-> " ", text |-> x]>>]>>
Places == {f, g, u, n, Outside}
Section == {Change(p, Swap) : p \in Places} \cup {Change(f, Mask)}
    \cup {[old |-> NoPath, new |-> p, hunks |-> b] :
            p \in Places \cup {NoPath}, b \in {Fill, Show, <<>>}}
    \cup {[old |-> p, new |-> NoPath, hunks |-> b] : p \in Places, b \in {Drop, <<>>}}
    \cup {[old |-> p, new |-> q, hunks |-> b] : p \in {f, u}, q \in {g, n}, b \in {Swap, <<>>}}
    \cup {Change(p, <<>>) : p \in {f, u}}
SomeSections ==
    {[diff |-> d, disk |-> DiskOf(c, <<x>>, e)] :
        d \in {<<>>} \cup {<<s>> : s \in Section} \cup {<<s, t>> : s, t \in Section},
        c \in {<<x>>, <<MinusMinus, x>>}, e \in {Missing, <<x>>}}

MCRequests == OneSection \cup SomeSections
=============================================================================
