------------------------------ MODULE Workload ------------------------------
(***************************************************************************)
(* What saving a copy of version 5 credits its labeller with               *)
(* (UpdateTask5 and editDistance in service/task5.go).  Every save counts  *)
(* anew how far the new output is from the model's, both as the page sends *)
(* them, and how far the notes about the visitor are from those stored;    *)
(* the notes of the last save are not counted a second time, so that a     *)
(* repeated save credits less.                                             *)
(*                                                                         *)
(* A copy has one round of dialogue and one note of three; remarks, which  *)
(* are counted by their length, are left out.                              *)
(***************************************************************************)
EXTENDS Integers, Sequences

CONSTANTS
  Letters,    \* what texts are made of
  MaxOutput,  \* bound: length of an output
  MaxNote     \* bound: length of a note

WorkloadAssumption == MaxOutput \in Nat /\ MaxNote \in Nat

VARIABLES
  model,   \* the output of the model stored with the copy: the last one sent
  copy,    \* the copy stored: its note and its editQuantity
  save     \* a save between its read and its write, with the note it found

vars == <<model, copy, save>>

-----------------------------------------------------------------------------
Texts(n) == UNION {[1..k -> Letters] : k \in 0..n}

Smaller(a, b) == IF a <= b THEN a ELSE b
minThree(a, b, c) == Smaller(a, Smaller(b, c))

\* Slip: what is deleted counts as well.
editDistanceBoth(s1, s2) ==
  LET dp[at \in (0..Len(s1)) \X (0..Len(s2))] ==
        LET i == at[1]  j == at[2] IN
        IF i = 0 THEN j
        ELSE IF j = 0 THEN i
        ELSE IF s1[i] = s2[j] THEN dp[<<i - 1, j - 1>>]
        ELSE minThree(dp[<<i - 1, j>>] + 1, dp[<<i, j - 1>>] + 1, dp[<<i - 1, j - 1>>] + 1)
  IN dp[<<Len(s1), Len(s2)>>]

\* Row 0 is filled, column 0 is left zero, and dropping a letter of s1 is free.
editDistance(s1, s2) ==
  LET dp[at \in (0..Len(s1)) \X (0..Len(s2))] ==
        LET i == at[1]  j == at[2] IN
        IF i = 0 THEN j
        ELSE IF j = 0 THEN 0
        ELSE IF s1[i] = s2[j] THEN dp[<<i - 1, j - 1>>]
        ELSE minThree(dp[<<i - 1, j>>], dp[<<i, j - 1>>] + 1, dp[<<i - 1, j - 1>>] + 1)
  IN dp[<<Len(s1), Len(s2)>>]

Idle == [at |-> "idle"]

Init ==
  /\ model \in Texts(MaxOutput)
  /\ copy = [note |-> <<>>, editQuantity |-> 0]
  /\ save = Idle

\* sent is what the request calls the output of the model; nothing compares it
\* with the one stored.
UpdateTask5Read(sent, output, note) ==
  /\ save = Idle
  /\ save' = [at |-> "write", model |-> sent, output |-> output, note |-> note,
              found |-> copy.note]
  /\ UNCHANGED <<model, copy>>

UpdateTask5Write ==
  /\ save # Idle
  /\ copy' = [note |-> save.note,
              editQuantity |-> editDistance(save.model, save.output)
                               + editDistance(save.found, save.note)]
  /\ model' = save.model
  /\ save' = Idle

Next ==
  \/ \E sent, output \in Texts(MaxOutput), note \in Texts(MaxNote) :
       UpdateTask5Read(sent, output, note)
  \/ UpdateTask5Write

Spec == Init /\ [][Next]_vars

-----------------------------------------------------------------------------
(* Properties. *)

\* Some n letters of old appear in new, in the same order.
TakenOver(old, new, n) ==
  \E from \in [1..n -> 1..Len(old)], to \in [1..n -> 1..Len(new)] :
    /\ \A i \in 1..n : old[from[i]] = new[to[i]]
    /\ \A i, j \in 1..n : i < j => from[i] < from[j] /\ to[i] < to[j]

\* The letters of new that are not taken over from old, at the least.
Written(old, new) ==
  LET lengths == {n \in 0..Len(new) : TakenOver(old, new, n)}
  IN Len(new) - CHOOSE n \in lengths : \A m \in lengths : m <= n

\* A save credits exactly the letters its author must have written: those of
\* the output that are not in the model's it came with and those of the note that were not
\* stored before, whatever was deleted on the way.
CreditsWritten ==
  [][save # Idle =>
       copy'.editQuantity = Written(save.model, save.output)
                            + Written(save.found, save.note)]_vars

=============================================================================
