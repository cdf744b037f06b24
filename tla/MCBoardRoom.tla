----------------------------- MODULE MCBoardRoom -----------------------------
(* BoardRoom for the model checker: who is in the room at the start.       *)
EXTENDS BoardRoom, FiniteSetsExt

CONSTANTS alice, bob

OneFounds == <<alice>>
BothFound == <<alice, bob>>

\* When both members are there from the start nobody joins, and order and serving,
\* which only a join reads, keep their first values. Two states that differ only
\* in which of the two is alice then have the same future up to that exchange,
\* and the view leaves the names aside; the invariants treat the two alike.
Desk(m) == <<board[m], tool[m], link[m], callback[m], dataQueue[m], outbox[m],
             apiQueue[m], up[m], down[m], synced[m], early[m]>>
WithoutNames == <<{Desk(m) : m \in Members}, nextId, mirrored, torn, crossed>>

\* Bound: how many pages a board has, and elements on them, together.
MaxLoad == 3
Load(b) == Len(b.pages) + SumFunction([p \in DOMAIN b.pages |-> Len(b.pages[p].elements)])
LightBoards == \A m \in Members : Load(board[m]) <= MaxLoad
=============================================================================
