-------------------------- MODULE Task2AllocProofs --------------------------
(***************************************************************************)
(* Sharing tasks among checkers, for any number of tasks and persons: the  *)
(* counter never drifts, nobody checks his own, nothing is left behind.    *)
(***************************************************************************)
EXTENDS Task2Alloc, FiniteSetTheorems, TLAPS

Given == UNION {given[p] : p \in persons}

\* Outside the early returns the request is one that can be served.
Accepted ==
  phase \in {"share", "save", "done", "failed"} => number > 0 /\ persons # {}

NothingGivenYet == phase \in {"start", "refused"} => Given = {}

\* A task found is left or given.
Partition ==
  phase \notin {"start", "refused"} => DOMAIN labeler = left \cup Given

\* Whoever was served and is not being served stopped for a reason.
FullyServed(p) ==
  Total < number /\ Cardinality(given[p]) < MaxCount => \A t \in left : labeler[t] = p
ServedFully ==
  phase = "share" =>
    \A p \in persons : p \notin DOMAIN counter /\ p # serving => FullyServed(p)

\* Only a request that gave something out saves.
SavesSomething == phase \in {"save", "done"} => Total # 0

SharingInv ==
  /\ TypeOK /\ Accepted /\ NothingGivenYet /\ Partition
  /\ CounterExact /\ FairShare /\ ServedFully
  /\ SavesSomething /\ NothingLeftBehind /\ HonestFailure

LEMMA FiniteParts ==
  ASSUME TypeOK
  PROVE  /\ \A S \in SUBSET left : IsFiniteSet(S)
         /\ \A S \in SUBSET DOMAIN labeler : IsFiniteSet(S)
<1>1. DOMAIN labeler \subseteq Tasks /\ left \subseteq DOMAIN labeler BY DEF TypeOK
<1> QED BY <1>1, AllocAssumption, FS_Subset

\* Giving task t away lowers the count of its labeller by one, nobody else's.
LEMMA CountAfterTake ==
  ASSUME TypeOK, NEW t \in left, NEW p
  PROVE  Cardinality(LabeledBy(p, left \ {t})) =
           IF p = labeler[t] THEN Cardinality(LabeledBy(p, left)) - 1
           ELSE Cardinality(LabeledBy(p, left))
<1>1. LabeledBy(p, left) \in SUBSET left BY DEF LabeledBy
<1>2. IsFiniteSet(LabeledBy(p, left)) BY <1>1, FiniteParts
<1>3. CASE p = labeler[t]
  <2>1. t \in LabeledBy(p, left) BY <1>3 DEF LabeledBy
  <2>2. LabeledBy(p, left \ {t}) = LabeledBy(p, left) \ {t} BY DEF LabeledBy
  <2> QED BY <1>2, <1>3, <2>1, <2>2, FS_RemoveElement
<1>4. CASE p # labeler[t]
  <2>1. LabeledBy(p, left \ {t}) = LabeledBy(p, left) BY <1>4 DEF LabeledBy
  <2> QED BY <1>4, <2>1
<1> QED BY <1>3, <1>4

LEMMA OwnTaskCounts ==
  ASSUME TypeOK, NEW S \in SUBSET DOMAIN labeler, NEW p
  PROVE  /\ Cardinality(LabeledBy(p, S)) \in Nat
         /\ \A t \in S : labeler[t] = p => Cardinality(LabeledBy(p, S)) > 0
<1>1. LabeledBy(p, S) \in SUBSET DOMAIN labeler BY DEF LabeledBy
<1>2. IsFiniteSet(LabeledBy(p, S)) BY <1>1, FiniteParts
<1>3. Cardinality(LabeledBy(p, S)) \in Nat BY <1>2, FS_CardinalityType
<1>4. ASSUME NEW t \in S, labeler[t] = p PROVE Cardinality(LabeledBy(p, S)) # 0
  <2>1. t \in LabeledBy(p, S) BY <1>4 DEF LabeledBy
  <2> QED BY <1>2, <2>1, FS_EmptySet
<1> QED BY <1>3, <1>4

LEMMA GivenCounts ==
  ASSUME TypeOK
  PROVE  /\ Total = Cardinality(Given) /\ Total \in Nat
         /\ IsFiniteSet(Given)
         /\ \A p \in persons : IsFiniteSet(given[p]) /\ Cardinality(given[p]) \in Nat
<1>1. Given \in SUBSET DOMAIN labeler BY DEF Given, TypeOK
<1>2. IsFiniteSet(Given) BY <1>1, FiniteParts
<1>3. \A p \in persons : IsFiniteSet(given[p]) BY FiniteParts DEF TypeOK
<1>4. Total = Cardinality(Given) BY DEF Total, Given
<1> QED BY <1>2, <1>3, <1>4, FS_CardinalityType

LEMMA MaxCountIsNat ==
  ASSUME TypeOK, number > 0, persons # {}
  PROVE  MaxCount \in Nat \ {0}
<1>1. IsFiniteSet(persons) BY AllocAssumption, FS_Subset DEF TypeOK
<1>2. Cardinality(persons) \in Nat /\ Cardinality(persons) # 0
  BY <1>1, FS_CardinalityType, FS_EmptySet
<1>3. number \div Cardinality(persons) \in Int BY <1>2 DEF TypeOK
<1> QED BY <1>3 DEF MaxCount

LEMMA InitSharing == Init => SharingInv
<1> SUFFICES ASSUME Init PROVE SharingInv OBVIOUS
<1>1. PICK S \in SUBSET Tasks : labeler \in [S -> Users] BY DEF Init
<1>2. TypeOK BY <1>1, AllocAssumption DEF Init, TypeOK
<1>3. Given = {} BY DEF Init, Given
<1>4. FairShare BY DEF Init, FairShare
<1> QED BY <1>2, <1>3, <1>4
        DEF Init, SharingInv, Accepted, NothingGivenYet, Partition, CounterExact,
            ServedFully, SavesSomething, NothingLeftBehind, HonestFailure

LEMMA CountStep ==
  ASSUME SharingInv, Count
  PROVE  SharingInv'
<1> USE DEF SharingInv
<1>1. \A p \in persons : Cardinality(LabeledBy(p, DOMAIN labeler)) \in Nat
  BY OwnTaskCounts
<1>2. TypeOK' BY <1>1 DEF Count, TypeOK
<1>3. Given = {} /\ Given' = Given BY DEF Count, NothingGivenYet, Given
<1>4. Total' = Total /\ Total = 0 BY <1>3, GivenCounts, FS_EmptySet DEF Count, Total
<1>5. \A p \in persons : given[p] = {} BY <1>3 DEF Given
<1>6. Accepted' /\ NothingGivenYet' /\ SavesSomething' /\ NothingLeftBehind'
      /\ HonestFailure'
  BY DEF Count, Accepted, NothingGivenYet, SavesSomething, NothingLeftBehind,
         HonestFailure
<1>7. Partition' BY <1>3 DEF Count, Partition
<1>8. CounterExact' BY DEF Count, CounterExact, LabeledBy
<1>9. FairShare' BY <1>4, <1>5 DEF Count, FairShare, TypeOK
<1>10. ServedFully' BY DEF Count, ServedFully
<1> QED BY <1>2, <1>6, <1>7, <1>8, <1>9, <1>10

LEMMA TakeStep ==
  ASSUME SharingInv, NEW t \in Tasks, Take(t)
  PROVE  SharingInv'
<1> USE DEF SharingInv
<1> DEFINE s == serving
<1>1. /\ s \in persons /\ s # Unserved
      /\ t \in left /\ labeler[t] # s
      /\ Total # number /\ Cardinality(given[s]) # MaxCount
  BY DEF Take, Takeable, TypeOK, LabeledBy
<1>2. /\ given' = [given EXCEPT ![s] = @ \cup {t}]
      /\ left' = left \ {t}
      /\ UNCHANGED <<phase, number, persons, labeler, serving, saved>>
      /\ phase = "share"
  BY DEF Take
<1>3. number > 0 /\ persons # {} BY <1>2 DEF Accepted
<1>4. /\ given'[s] = given[s] \cup {t}
      /\ \A p \in persons : p # s => given'[p] = given[p]
  BY <1>1, <1>2 DEF TypeOK
<1>5. \A p \in persons : t \notin given[p] BY <1>1 DEF FairShare
<1>6. Cardinality(given'[s]) = Cardinality(given[s]) + 1
  BY <1>1, <1>4, <1>5, GivenCounts, FS_AddElement
<1>7. Given' = Given \cup {t}
  <2>1. ASSUME NEW e \in Given' PROVE e \in Given \cup {t}
    <3>1. PICK p \in persons : e \in given'[p] BY <1>2, <2>1 DEF Given
    <3> QED BY <1>4, <3>1 DEF Given
  <2>2. ASSUME NEW e \in Given \cup {t} PROVE e \in Given'
    <3>1. CASE e = t BY <1>1, <1>2, <1>4, <3>1 DEF Given
    <3>2. CASE e \in Given
      <4>1. PICK p \in persons : e \in given[p] BY <3>2 DEF Given
      <4>2. e \in given'[p] BY <1>4, <4>1
      <4> QED BY <1>2, <4>2 DEF Given
    <3> QED BY <2>2, <3>1, <3>2
  <2> QED BY <2>1, <2>2
<1>8. Total' = Total + 1
  <2>1. t \notin Given BY <1>5 DEF Given
  <2>2. Total' = Cardinality(Given') BY DEF Total, Given
  <2> QED BY <1>7, <2>1, <2>2, GivenCounts, FS_AddElement
<1>9. Total \in Nat /\ number \in Int BY GivenCounts DEF TypeOK
<1>10. MaxCount' = MaxCount BY <1>2 DEF MaxCount
<1>11. MaxCount \in Nat \ {0} BY <1>3, MaxCountIsNat
<1>12. \A p \in DOMAIN counter : labeler[t] = p => counter[p] > 0
  BY <1>1, <1>2, OwnTaskCounts DEF CounterExact, TypeOK
<1>13. TypeOK'
  <2>1. \A p \in DOMAIN counter : counter[p] \in Nat BY DEF TypeOK
  <2>2. counter' \in [DOMAIN counter -> Nat] /\ DOMAIN counter' = DOMAIN counter
    BY <1>12, <2>1 DEF Take
  <2>3. given' \in [persons -> SUBSET DOMAIN labeler]
    BY <1>1, <1>2 DEF TypeOK
  <2> QED BY <1>2, <2>2, <2>3 DEF TypeOK
<1>14. Accepted' /\ NothingGivenYet' /\ SavesSomething' /\ NothingLeftBehind'
       /\ HonestFailure'
  BY <1>2, <1>3 DEF Accepted, NothingGivenYet, SavesSomething, NothingLeftBehind,
                    HonestFailure
<1>15. Partition' BY <1>1, <1>2, <1>7 DEF Partition
<1>16. CounterExact'
  <2> SUFFICES ASSUME NEW p \in DOMAIN counter
               PROVE  counter'[p] = Cardinality(LabeledBy(p, left \ {t}))
    BY <1>2 DEF CounterExact, Take, LabeledBy
  <2>1. counter[p] = Cardinality(LabeledBy(p, left)) BY <1>2 DEF CounterExact
  <2> QED BY <1>1, <2>1, CountAfterTake DEF Take
<1>17. FairShare'
  <2>1. \A p \in persons : \A e \in given'[p] : labeler[e] # p /\ e \notin left'
    BY <1>1, <1>2, <1>4, <1>5 DEF FairShare
  <2>2. \A p, q \in persons : p # q => given'[p] \cap given'[q] = {}
    BY <1>4, <1>5 DEF FairShare
  <2>3. \A p \in persons : given'[p] # {} => Cardinality(given'[p]) <= MaxCount
    <3>1. Cardinality(given[s]) \in Nat BY <1>1, GivenCounts
    <3>2. Cardinality(given[s]) <= MaxCount
      <4>1. CASE given[s] = {} BY <4>1, <1>11, FS_EmptySet
      <4>2. CASE given[s] # {} BY <1>1, <4>2 DEF FairShare
      <4> QED BY <4>1, <4>2
    <3>3. Cardinality(given'[s]) <= MaxCount BY <1>1, <1>6, <1>11, <3>1, <3>2
    <3> QED BY <1>4, <3>3 DEF FairShare
  <2>4. Total' <= number BY <1>1, <1>2, <1>8, <1>9 DEF FairShare
  <2> QED BY <1>2, <1>10, <2>1, <2>2, <2>3, <2>4 DEF FairShare
<1>18. ServedFully'
  <2> SUFFICES ASSUME NEW p \in persons, p \notin DOMAIN counter, p # serving,
                      Total' < number, Cardinality(given'[p]) < MaxCount,
                      NEW e \in left'
               PROVE  labeler[e] = p
    BY <1>2, <1>10 DEF ServedFully, FullyServed, Take
  <2>1. Total < number BY <1>8, <1>9
  <2>2. given'[p] = given[p] BY <1>4
  <2> QED BY <1>2, <2>1, <2>2 DEF ServedFully, FullyServed
<1> QED BY <1>13, <1>14, <1>15, <1>16, <1>17, <1>18

\* The person served last takes no more: nothing he may take is left.
LEMMA StoppedForAReason ==
  ASSUME SharingInv, NobodyTakes, serving # Unserved
  PROVE  FullyServed(serving)
<1> SUFFICES ASSUME Total < number, Cardinality(given[serving]) < MaxCount,
                    NEW t \in left
             PROVE  labeler[t] = serving
  BY DEF FullyServed
<1>1. TypeOK /\ serving \in persons BY DEF SharingInv, TypeOK
<1>2. Total # number BY <1>1, GivenCounts DEF TypeOK
<1>3. Cardinality(given[serving]) # MaxCount BY <1>1, GivenCounts
<1>4. Takeable(serving) = left \ LabeledBy(serving, left) BY <1>2, <1>3 DEF Takeable
<1>5. t \in LabeledBy(serving, left) BY <1>4 DEF NobodyTakes
<1> QED BY <1>5 DEF LabeledBy

LEMMA PopStep ==
  ASSUME SharingInv, NEW p \in Users, PopMax(p)
  PROVE  SharingInv'
<1> USE DEF SharingInv
<1>1. UNCHANGED <<phase, number, persons, labeler, left, given, saved>> /\ phase = "share"
  BY DEF PopMax
<1>2. /\ p \in DOMAIN counter /\ p \in persons /\ serving' = p
      /\ DOMAIN counter' = DOMAIN counter \ {p}
      /\ \A q \in DOMAIN counter' : counter'[q] = counter[q]
  BY DEF PopMax, TypeOK
<1>3. TypeOK'
  <2>1. counter' \in [DOMAIN counter' -> Nat] BY DEF PopMax, TypeOK
  <2> QED BY <1>1, <1>2, <2>1 DEF TypeOK
<1>4. CounterExact' BY <1>1, <1>2 DEF CounterExact, LabeledBy
<1>5. ServedFully'
  <2> SUFFICES ASSUME NEW q \in persons, q \notin DOMAIN counter', q # p
               PROVE  FullyServed(q)
    BY <1>1, <1>2 DEF ServedFully, FullyServed, Total, MaxCount
  <2>1. CASE q = serving
    BY <2>1, StoppedForAReason, AllocAssumption DEF PopMax, TypeOK
  <2>2. CASE q # serving BY <1>1, <1>2, <2>2 DEF ServedFully
  <2> QED BY <2>1, <2>2
<1>6. /\ Accepted' /\ NothingGivenYet' /\ Partition' /\ FairShare'
      /\ SavesSomething' /\ NothingLeftBehind' /\ HonestFailure'
  BY <1>1 DEF Accepted, NothingGivenYet, Partition, Given, FairShare, Total, MaxCount,
              SavesSomething, NothingLeftBehind, HonestFailure
<1> QED BY <1>3, <1>4, <1>5, <1>6

LEMMA SharedStep ==
  ASSUME SharingInv, Shared
  PROVE  SharingInv'
<1> USE DEF SharingInv
<1>1. /\ UNCHANGED <<number, persons, labeler, counter, left, serving, given, saved>>
      /\ phase = "share" /\ NobodyTakes
      /\ phase' = IF Total = 0 THEN "failed" ELSE "save"
  BY DEF Shared
<1>2. number > 0 /\ persons # {} BY <1>1 DEF Accepted
<1>3. Total \in Nat /\ Total = Cardinality(Given) /\ IsFiniteSet(Given) BY GivenCounts
<1>4. ASSUME Total < number, NEW p \in persons PROVE FullyServed(p)
  <2>1. DOMAIN counter = {} BY <1>3, <1>4 DEF Shared, TypeOK
  <2>2. CASE p = serving
    BY <1>1, <2>2, StoppedForAReason, AllocAssumption DEF TypeOK
  <2>3. CASE p # serving BY <1>1, <2>1, <2>3 DEF ServedFully
  <2> QED BY <2>2, <2>3
<1>5. NothingLeftBehind' BY <1>1, <1>4 DEF NothingLeftBehind, FullyServed, Total, MaxCount
<1>6. HonestFailure'
  <2> SUFFICES ASSUME Total = 0, NEW p \in persons, NEW t \in DOMAIN labeler
               PROVE  labeler[t] = p
    BY <1>1 DEF HonestFailure, Total
  <2>1. Given = {} BY <1>3, FS_EmptySet
  <2>2. t \in left BY <1>1, <2>1 DEF Partition
  <2>3. Cardinality(given[p]) = 0
    <3>1. given[p] = {} BY <2>1 DEF Given
    <3> QED BY <3>1, FS_EmptySet
  <2>4. Cardinality(given[p]) < MaxCount BY <1>2, <2>3, MaxCountIsNat
  <2>5. Total < number BY <1>2
  <2> QED BY <1>4, <2>2, <2>4, <2>5 DEF FullyServed
<1>7. TypeOK' BY <1>1 DEF TypeOK
<1>8. /\ Accepted' /\ NothingGivenYet' /\ Partition' /\ CounterExact' /\ ServedFully'
      /\ SavesSomething'
  BY <1>1, <1>2 DEF Accepted, NothingGivenYet, Partition, Given, CounterExact, ServedFully,
                    SavesSomething, Total
<1>9. FairShare' BY <1>1 DEF FairShare, Total, MaxCount
<1> QED BY <1>5, <1>6, <1>7, <1>8, <1>9

LEMMA OtherSteps ==
  ASSUME SharingInv, Refuse \/ (\E p \in Users : Save(p)) \/ Finish \/ UNCHANGED vars
  PROVE  SharingInv'
<1> USE DEF SharingInv
<1>1. UNCHANGED <<number, persons, labeler, counter, left, serving, given>>
  BY DEF Refuse, Save, Finish, vars
<1>2. Given' = Given /\ Total' = Total /\ MaxCount' = MaxCount
  BY <1>1 DEF Given, Total, MaxCount
<1>3. CASE UNCHANGED <<phase, saved>>
  BY <1>1, <1>2, <1>3
     DEF TypeOK, Accepted, NothingGivenYet, Partition, CounterExact, LabeledBy, FairShare,
         ServedFully, FullyServed, SavesSomething, NothingLeftBehind, HonestFailure
<1>4. CASE Refuse
  <2>1. phase = "start" /\ phase' = "refused" /\ saved' = saved BY <1>4 DEF Refuse
  <2>2. TypeOK' BY <1>1, <2>1 DEF TypeOK
  <2> QED BY <1>1, <1>2, <2>1, <2>2
          DEF Accepted, NothingGivenYet, Partition, CounterExact, FairShare,
              ServedFully, SavesSomething, NothingLeftBehind, HonestFailure
<1>5. ASSUME NEW p \in Users, Save(p) PROVE SharingInv'
  <2>1. phase = "save" /\ phase' = "save" /\ saved' = saved \cup given[p] /\ p \in persons
    BY <1>5 DEF Save, ToSave
  <2>2. TypeOK' BY <1>1, <2>1 DEF TypeOK
  <2> QED BY <1>1, <1>2, <2>1, <2>2
          DEF Accepted, NothingGivenYet, Partition, CounterExact, FairShare,
              ServedFully, SavesSomething, NothingLeftBehind, HonestFailure
<1>6. CASE Finish
  <2>1. phase = "save" /\ phase' \in {"done", "failed"} /\ saved' = saved
    BY <1>6 DEF Finish
  <2>2. TypeOK' BY <1>1, <2>1 DEF TypeOK
  <2> QED BY <1>1, <1>2, <2>1, <2>2
          DEF Accepted, NothingGivenYet, Partition, CounterExact, FairShare,
              ServedFully, SavesSomething, NothingLeftBehind, HonestFailure
<1> QED BY <1>3, <1>4, <1>5, <1>6 DEF vars

LEMMA SharingStep == SharingInv /\ [Next]_vars => SharingInv'
BY CountStep, TakeStep, PopStep, SharedStep, OtherSteps DEF Next

\* Every variable of the handler keeps its type.
THEOREM SharingTypes == Spec => []TypeOK
<1>1. SharingInv => TypeOK BY DEF SharingInv
<1> QED BY InitSharing, SharingStep, <1>1, PTL DEF Spec

\* After any number of increments, decrements and pops the counter of a person
\* still to be served is the number of his own tasks that are left; it never
\* goes below zero, so that PopMax always finds somebody.
THEOREM CounterNeverDrifts == Spec => []CounterExact
<1>1. SharingInv => CounterExact BY DEF SharingInv
<1> QED BY InitSharing, SharingStep, <1>1, PTL DEF Spec

\* Nobody checks his own labelling, no task has two checkers, nobody gets more
\* than his share and all together no more than was asked for.
THEOREM SharesAreFair == Spec => []FairShare
<1>1. SharingInv => FairShare BY DEF SharingInv
<1> QED BY InitSharing, SharingStep, <1>1, PTL DEF Spec

\* A task is left over only if everyone who could take one labelled it.
THEOREM NothingIsLeftBehind == Spec => []NothingLeftBehind
<1>1. SharingInv => NothingLeftBehind BY DEF SharingInv
<1> QED BY InitSharing, SharingStep, <1>1, PTL DEF Spec

\* The handler blames the overlap of labeller and checker only when it is why.
THEOREM FailureIsHonest == Spec => []HonestFailure
<1>1. SharingInv => HonestFailure BY DEF SharingInv
<1> QED BY InitSharing, SharingStep, <1>1, PTL DEF Spec

=============================================================================
