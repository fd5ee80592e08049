------------------------------ MODULE Barrier ------------------------------
(***************************************************************************)
(* What a spawn group promises its parent, whoever the children are: each  *)
(* member comes to one outcome, and the aggregate is submitted when all    *)
(* members have one.  An aggregate may be submitted again (a recovered     *)
(* parent sends it a second time), but it says the same.                   *)
(***************************************************************************)
CONSTANTS Groups, Members, Outcomes

VARIABLES outcome,     \* <<group, member>> -> its outcome so far
          submitted    \* groups whose aggregate went to OpenAI

barrierVars == <<outcome, submitted>>

Slots == Groups \X Members

Init == outcome = [s \in Slots |-> "absent"] /\ submitted = {}

MembersOf(g) == {m \in Members : outcome[<<g, m>>] # "absent"}

(* A group opens once, with all its members. *)
Open(g) ==
  /\ MembersOf(g) = {}
  /\ \E members \in SUBSET Members :
       outcome' = [s \in Slots |-> IF s \in {g} \X members THEN "pending" ELSE outcome[s]]
  /\ UNCHANGED submitted

Settle(s) ==
  /\ outcome[s] = "pending"
  /\ \E o \in Outcomes : outcome' = [outcome EXCEPT ![s] = o]
  /\ UNCHANGED submitted

Submit(g) ==
  /\ MembersOf(g) # {}
  /\ \A m \in MembersOf(g) : outcome[<<g, m>>] \in Outcomes
  /\ submitted' = submitted \cup {g}
  /\ UNCHANGED outcome

Next == (\E g \in Groups : Open(g) \/ Submit(g)) \/ (\E s \in Slots : Settle(s))

Spec == Init /\ [][Next]_barrierVars
=============================================================================
