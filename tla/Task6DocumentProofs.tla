------------------------ MODULE Task6DocumentProofs ------------------------
(***************************************************************************)
(* The optimistic lock of version 6 loses no update: proved for any number *)
(* of pages, requests, repetitions and versions.                           *)
(***************************************************************************)
EXTENDS Task6Document, TLAPS

\* A request whose version is the next one was made from the stored content.
RequestsNameContent ==
  \A r \in Requests : request[r] # Free =>
    /\ request[r].version <= Decoded(version) + 1
    /\ request[r].version = Decoded(version) + 1 => request[r].base = rpg

DocumentInv == TypeOK /\ VersionNamesContent /\ RequestsNameContent

LEMMA DecodedIsNat == TypeOK => Decoded(version) \in Nat
BY DEF TypeOK, Decoded, Missing

\* A write that matches takes the version one further.
LEMMA MatchIsNext ==
  ASSUME TypeOK, NEW v \in Nat, VersionMatches(v)
  PROVE  v = Decoded(version) + 1
BY DEF TypeOK, VersionMatches, Decoded, Missing

LEMMA InitDocument == Init => DocumentInv
<1> SUFFICES ASSUME Init PROVE DocumentInv OBVIOUS
<1>1. TypeOK BY DEF Init, TypeOK, NoView, Free, Missing
<1> QED BY <1>1 DEF Init, DocumentInv, VersionNamesContent, RequestsNameContent

LEMMA RequestFields ==
  ASSUME NEW q \in Update \cup {Free}
  PROVE  /\ q # Free => q \in Update
         /\ q.at \in {"sent", "checked"} => q # Free /\ q \in Update
BY DEF Update, Free

\* A save follows from the content its author had, and is the next version.
LEMMA WriteFollows ==
  ASSUME DocumentInv, NEW r \in Requests, UpdateWrite(r)
  PROVE  /\ request[r] \in Update
         /\ request[r].base = rpg
         /\ version' = Decoded(version) + 1
         /\ Decoded(version') = Decoded(version) + 1
<1>1. request[r] # Free /\ request[r] \in Update
  BY RequestFields DEF UpdateWrite, DocumentInv, TypeOK
<1>2. request[r].version \in Nat BY <1>1 DEF Update
<1>3. request[r].version = Decoded(version) + 1
  BY <1>2, MatchIsNext DEF UpdateWrite, DocumentInv
<1>4. Decoded(version) \in Nat BY DecodedIsNat DEF DocumentInv
<1> QED BY <1>1, <1>3, <1>4 DEF UpdateWrite, DocumentInv, RequestsNameContent, Decoded, Missing

LEMMA DocumentStep == DocumentInv /\ [Next]_vars => DocumentInv'
<1> SUFFICES ASSUME DocumentInv, [Next]_vars PROVE DocumentInv' OBVIOUS
<1> USE DEF DocumentInv
<1>0. Decoded(version) \in Nat BY DecodedIsNat
<1>1. ASSUME NEW c \in Pages, GetTask6(c) PROVE DocumentInv'
  <2> DEFINE shown == [version |-> Decoded(version), rpg |-> rpg]
  <2>1. shown \in View BY <1>0 DEF View, TypeOK
  <2>2. TypeOK' BY <1>1, <2>1 DEF GetTask6, TypeOK
  <2>3. VersionNamesContent'
    BY <1>0, <1>1 DEF GetTask6, VersionNamesContent, TypeOK
  <2>4. RequestsNameContent' BY <1>1 DEF GetTask6, RequestsNameContent
  <2> QED BY <2>2, <2>3, <2>4
<1>2. ASSUME NEW r \in Requests, NEW c \in Pages, NEW new \in Contents,
             Send(r, c, new)
      PROVE  DocumentInv'
  <2> DEFINE q == [at |-> "sent", page |-> c, version |-> view[c].version + 1,
                   base |-> view[c].rpg, rpg |-> new]
  <2>1. view[c] \in View /\ view[c] # NoView BY <1>2 DEF Send, TypeOK
  <2>2. q \in Update BY <2>1 DEF View, Update
  <2>3. TypeOK' BY <1>2, <2>2 DEF Send, TypeOK
  <2>4. VersionNamesContent' BY <1>2 DEF Send, VersionNamesContent
  <2>5. /\ q.version <= Decoded(version) + 1
        /\ q.version = Decoded(version) + 1 => q.base = rpg
    BY <1>0, <2>1 DEF VersionNamesContent, View
  <2>6. /\ request' = [request EXCEPT ![r] = q]
        /\ UNCHANGED <<version, rpg>>
    BY <1>2 DEF Send
  <2> HIDE DEF q
  <2>7. RequestsNameContent'
    BY <2>5, <2>6 DEF RequestsNameContent, TypeOK
  <2> QED BY <2>3, <2>4, <2>7
<1>3. ASSUME NEW r \in Requests, NEW q \in Requests, Duplicate(r, q)
      PROVE  DocumentInv'
  <2> DEFINE copy == [request[r] EXCEPT !.at = "sent"]
  <2>1. request[r] \in Update BY <1>3 DEF Duplicate, TypeOK
  <2>2. /\ copy \in Update
        /\ copy.version = request[r].version
        /\ copy.base = request[r].base
    BY <2>1 DEF Update
  <2>3. /\ request' = [request EXCEPT ![q] = copy]
        /\ UNCHANGED <<stored, version, rpg, holder, view>>
        /\ request[r] # Free
    BY <1>3 DEF Duplicate
  <2> HIDE DEF copy
  <2>4. TypeOK' BY <2>2, <2>3 DEF TypeOK
  <2>5. VersionNamesContent' BY <2>3 DEF VersionNamesContent
  <2>6. RequestsNameContent' BY <2>2, <2>3 DEF RequestsNameContent, TypeOK
  <2> QED BY <2>4, <2>5, <2>6
<1>4. ASSUME NEW r \in Requests, UpdateCheck(r) PROVE DocumentInv'
  <2> DEFINE checked == [request[r] EXCEPT !.at = "checked"]
  <2>1. request[r] # Free /\ request[r] \in Update
    BY <1>4, RequestFields DEF UpdateCheck, TypeOK
  <2>2. /\ checked \in Update
        /\ checked.version = request[r].version
        /\ checked.base = request[r].base
    BY <2>1 DEF Update
  <2>3. /\ request' = [request EXCEPT ![r] = checked] \/ request' = [request EXCEPT ![r] = Free]
        /\ UNCHANGED <<stored, version, rpg, holder, view>>
    BY <1>4 DEF UpdateCheck
  <2> HIDE DEF checked
  <2>4. TypeOK' BY <2>2, <2>3 DEF TypeOK
  <2>5. VersionNamesContent' BY <2>3 DEF VersionNamesContent
  <2>6. RequestsNameContent' BY <2>1, <2>2, <2>3 DEF RequestsNameContent, TypeOK
  <2> QED BY <2>4, <2>5, <2>6
<1>5. ASSUME NEW r \in Requests, UpdateWrite(r) PROVE DocumentInv'
  <2> DEFINE shown == [version |-> request[r].version, rpg |-> request[r].rpg]
  <2>1. /\ request[r] \in Update
        /\ version' = Decoded(version) + 1
        /\ Decoded(version') = Decoded(version) + 1
    BY <1>5, WriteFollows
  <2>2. /\ version' = request[r].version
        /\ rpg' = request[r].rpg
        /\ view' = view \/ view' = [view EXCEPT ![request[r].page] = shown]
        /\ request' = [request EXCEPT ![r] = Free]
        /\ UNCHANGED <<stored, holder>>
    BY <1>5 DEF UpdateWrite
  <2>3. /\ shown \in View /\ request[r].page \in Pages /\ rpg' \in Contents
        /\ shown.version = Decoded(version') /\ shown.rpg = rpg'
    BY <2>1, <2>2 DEF View, Update
  <2> HIDE DEF shown
  <2>4. TypeOK' BY <1>0, <2>1, <2>2, <2>3 DEF TypeOK
  <2>5. VersionNamesContent'
    <3> SUFFICES ASSUME NEW c \in Pages, view'[c] # NoView
                 PROVE  /\ view'[c].version <= Decoded(version')
                        /\ view'[c].version = Decoded(version') => view'[c].rpg = rpg'
      BY DEF VersionNamesContent
    <3>1. CASE view'[c] = shown BY <3>1, <1>0, <2>1, <2>3
    <3>2. CASE view'[c] = view[c]
      <4>1. view[c] \in View BY <3>2 DEF TypeOK
      <4>2. view[c].version \in Nat BY <4>1 DEF View
      <4>3. view[c].version <= Decoded(version) BY <3>2 DEF VersionNamesContent
      <4> QED BY <1>0, <2>1, <3>2, <4>2, <4>3
    <3> QED BY <2>2, <3>1, <3>2 DEF TypeOK
  <2>6. RequestsNameContent'
    <3> SUFFICES ASSUME NEW q \in Requests, request'[q] # Free
                 PROVE  /\ request'[q].version <= Decoded(version') + 1
                        /\ request'[q].version = Decoded(version') + 1 =>
                             request'[q].base = rpg'
      BY DEF RequestsNameContent
    <3>1. request'[q] = request[q] BY <2>2 DEF TypeOK
    <3>2. request[q] \in Update BY <3>1 DEF TypeOK
    <3>3. request[q].version \in Nat BY <3>2 DEF Update
    <3>4. request[q].version <= Decoded(version) + 1
      BY <3>1 DEF RequestsNameContent
    <3> QED BY <1>0, <2>1, <3>1, <3>3, <3>4
  <2> QED BY <2>4, <2>5, <2>6
<1>6. ASSUME NEW r \in Requests, UpdateRefuse(r) \/ Abort(r) PROVE DocumentInv'
  BY <1>6 DEF UpdateRefuse, Abort, TypeOK, VersionNamesContent, RequestsNameContent
<1>7. ASSUME NEW c \in Pages \cup {Unallocated}, Reallocate(c) PROVE DocumentInv'
  BY <1>7 DEF Reallocate, TypeOK, VersionNamesContent, RequestsNameContent
<1>8. CASE DeleteTask6
  BY <1>8 DEF DeleteTask6, TypeOK, VersionNamesContent, RequestsNameContent
<1>9. CASE UNCHANGED vars
  BY <1>9 DEF vars, TypeOK, VersionNamesContent, RequestsNameContent
<1> QED BY <1>1, <1>2, <1>3, <1>4, <1>5, <1>6, <1>7, <1>8, <1>9 DEF Next

\* The task, the pages and the requests keep the shape the code gives them,
\* whatever is sent twice, overtaken or lost.
THEOREM DocumentTypes == Spec => []TypeOK
<1>1. DocumentInv => TypeOK BY DEF DocumentInv
<1> QED BY InitDocument, DocumentStep, <1>1, PTL DEF Spec

\* Whatever is sent twice, overtaken or lost, a version names one content.
THEOREM VersionsNameContents == Spec => []VersionNamesContent
<1>1. DocumentInv => VersionNamesContent BY DEF DocumentInv
<1> QED BY InitDocument, DocumentStep, <1>1, PTL DEF Spec

\* Content is replaced only by a request made from that content, and every
\* replacement is the next version.
THEOREM NoUpdateIsLost == Spec => NoLostUpdate /\ OneSavePerVersion
<1>1. DocumentInv /\ [Next]_vars =>
        [\/ version' = version /\ rpg' = rpg
         \/ \E r \in Requests : /\ request[r].at = "checked"
                                /\ request[r].base = rpg
                                /\ rpg' = request[r].rpg]_<<version, rpg>>
  <2> SUFFICES ASSUME DocumentInv, [Next]_vars, <<version, rpg>>' # <<version, rpg>>
               PROVE  \E r \in Requests : /\ request[r].at = "checked"
                                          /\ request[r].base = rpg
                                          /\ rpg' = request[r].rpg
    OBVIOUS
  <2>1. PICK r \in Requests : UpdateWrite(r)
    BY DEF Next, vars, GetTask6, Send, Duplicate, UpdateCheck, UpdateRefuse, Abort,
           Reallocate, DeleteTask6
  <2> QED BY <2>1, WriteFollows DEF UpdateWrite
<1>2. DocumentInv /\ [Next]_vars => [version' = Decoded(version) + 1]_<<version, rpg>>
  <2> SUFFICES ASSUME DocumentInv, [Next]_vars, <<version, rpg>>' # <<version, rpg>>
               PROVE  version' = Decoded(version) + 1
    OBVIOUS
  <2>1. PICK r \in Requests : UpdateWrite(r)
    BY DEF Next, vars, GetTask6, Send, Duplicate, UpdateCheck, UpdateRefuse, Abort,
           Reallocate, DeleteTask6
  <2> QED BY <2>1, WriteFollows
<1> QED BY InitDocument, DocumentStep, <1>1, <1>2, PTL
        DEF Spec, NoLostUpdate, OneSavePerVersion

=============================================================================
