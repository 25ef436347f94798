------------------------------ MODULE OrderPlan ------------------------------
(***************************************************************************)
(* How a wallet assembles one note of an exact amount: an exact note, a    *)
(* split of the smallest larger note, or joins of the largest notes.       *)
(***************************************************************************)
EXTENDS Integers, FiniteSetsExt, SequencesExt

\* Notes a join, an order or a withdrawal may consume.
SpendableNotes(notes, asset) ==
  {n \in DOMAIN notes : /\ notes[n].status = "active" /\ notes[n].indexed
                        /\ notes[n].asset = asset
                        /\ notes[n].state # "reserved"}

AmountOf(notes, ids) == MapThenSumSet(LAMBDA n : notes[n].amount, ids)

\* A step consumes a and b into target and change.  Note 0 as a stands for the
\* target of the step before, as b for the null padding note of a split.
Split(notes, n, target) ==
  <<[a |-> n, b |-> 0, target |-> target, change |-> notes[n].amount - target]>>

\* The notes that are merged, in order: each the largest that is left, until the
\* running sum reaches the target.
Merges(notes, ids, target) ==
  {s \in UNION {[1..k -> ids] : k \in 2..Cardinality(ids)} :
     /\ \A i \in DOMAIN s :
          LET before == {s[j] : j \in 1..(i - 1)}
          IN  /\ s[i] \notin before
              /\ \A n \in ids \ before : notes[n].amount <= notes[s[i]].amount
     /\ AmountOf(notes, ToSet(s)) >= target
     /\ AmountOf(notes, ToSet(Front(s))) < target}

\* Each join adds a note to what the one before has made; the last one carves.
Joins(notes, s, target) ==
  LET sum(i) == AmountOf(notes, {s[j] : j \in 1..i})
      last == Len(s)
  IN  [i \in 1..(last - 1) |->
         [a |-> IF i = 1 THEN s[1] ELSE 0, b |-> s[i + 1],
          target |-> IF i + 1 = last THEN target ELSE sum(i + 1),
          change |-> IF i + 1 = last THEN sum(last) - target ELSE 0]]

\* The plans there may be: none if the balance is short, several when equal
\* amounts leave the choice to the order the store lists its notes in.
PlanAssembly(notes, asset, target) ==
  LET spendable == SpendableNotes(notes, asset)
      exact == {n \in spendable : notes[n].amount = target}
      covering == {n \in spendable : notes[n].amount > target}
      smallest == {n \in covering :
                     \A m \in covering : notes[n].amount <= notes[m].amount}
  IN  IF target = 0 \/ AmountOf(notes, spendable) < target THEN {}
      ELSE IF exact # {} THEN {[note |-> n, steps |-> <<>>] : n \in exact}
      ELSE IF covering # {}
           THEN {[note |-> 0, steps |-> Split(notes, n, target)] : n \in smallest}
      ELSE {[note |-> 0, steps |-> Joins(notes, s, target)] :
              s \in Merges(notes, spendable, target)}
==============================================================================
