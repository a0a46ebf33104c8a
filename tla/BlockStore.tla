----------------------------- MODULE BlockStore -----------------------------
(***************************************************************************)
(* What the buffer cache promises: each block has one content, and the     *)
(* process that has the block (from bread to brelse) has it alone.         *)
(***************************************************************************)
CONSTANTS NoProc, Blocks, Values
VARIABLES content, owner

vars == <<content, owner>>

Init == content \in [Blocks -> Values] /\ owner = [b \in Blocks |-> NoProc]

Bread(b, p) == owner[b] = NoProc /\ p # NoProc /\ owner' = [owner EXCEPT ![b] = p]
Brelse(b) == owner[b] # NoProc /\ owner' = [owner EXCEPT ![b] = NoProc]
Modify(b, v) == owner[b] # NoProc /\ content' = [content EXCEPT ![b] = v]

\* A step concerns one block, whose owner or content changes.
Next ==
  \E b \in Blocks :
    \/ owner'[b] # owner[b] /\ (Brelse(b) \/ Bread(b, owner'[b])) /\ UNCHANGED content
    \/ content'[b] # content[b] /\ Modify(b, content'[b]) /\ UNCHANGED owner

Spec == Init /\ [][Next]_vars
====
