-------------------------- MODULE MC_OrderPlacement --------------------------
\* Menus, carts and patches for the runs of OrderPlacement.
EXTENDS OrderPlacement, TLC

\* n of an item, in one line.
Line(n) == [sums |-> {n}, qty |-> n]

\* Three of an item in one line, and three less in the next.
BackAgain == [sums |-> {3, 0}, qty |-> 0]

\* Three of the first item and one of the second.
TwoTracked == <<3, 1>>

\* Neither item is counted.
Untracked == <<Null, Null>>

OneLeft == <<1>>
ThreeLeft == <<3>>
TwoLeft == <<2, 1>>

\* Both items, or all of the first and back again.
BackAgainCarts == {<<Line(1), Line(1)>>, 1 :> Line(3), 1 :> BackAgain}

\* One of the first item, with or without one of the second.
AllOfFirst == {<<Line(1), Line(1)>>, 1 :> Line(1)}

OneOfFirst == {1 :> Line(1)}
ThreeOfFirst == {1 :> Line(3)}

\* One of either item.
OneOfEither == {1 :> Line(1), 2 :> Line(1)}

Hide == [stock |-> Keep, avail |-> FALSE]
SellOut == [stock |-> 0, avail |-> Keep]

\* A console that hides an item, sets its stock to zero, or restocks and shows it.
AnyPatch == {Hide, SellOut, [stock |-> 3, avail |-> TRUE]}

\* A console that hides an item, and puts it back with a stock of one.
HideOrShow == {Hide, [stock |-> 1, avail |-> TRUE]}

\* A console that hides an item, and puts it back with a stock of three.
HideOrRestock == {Hide, [stock |-> 3, avail |-> TRUE]}

SetToZero == {SellOut}

Restock == {[stock |-> 3, avail |-> Keep]}

RequestSymmetry == Permutations(OrderReqs)
=============================================================================
