------------------------- MODULE ConfigurationProofs -------------------------
(***************************************************************************)
(* Theorems about Configuration: for any number of processes that load it, *)
(* any ids and any intervals.  A sidecar alone keeps its node id; what is  *)
(* said of the other values holds whatever runs beside it.                 *)
(***************************************************************************)
EXTENDS Configuration, TLAPS

LEMMA InitTypes == Init => TypeOK
PROOF BY ProcessesAssumption DEF Init, TypeOK, Values, Runs

LEMMA StepTypes == TypeOK /\ [Next]_vars => TypeOK'
PROOF
<1> SUFFICES ASSUME TypeOK, [Next]_vars PROVE TypeOK'
    OBVIOUS
<1> USE ProcessesAssumption DEF TypeOK, Runs, disk, idVars, runVars
<1>1. ASSUME NEW p \in Processes, Load(p) PROVE TypeOK'
  <2>1. CASE Begin(p)
        BY <2>1 DEF Begin
  <2>2. CASE Create(p) \/ CannotCreate(p) \/ CannotWrite(p)
        BY <2>2 DEF Create, CannotCreate, CannotWrite
  <2>3. CASE \E id \in Ids : Write(p, id)
        BY <2>3 DEF Write
  <2>4. CASE ReadId(p)
    <3>1. /\ \A i \in used' \ used : i \in Ids /\ nodeId' = i
          /\ nodeId' \in Ids \cup {Empty}
          BY <2>4 DEF ReadId
    <3>2. /\ interval' \in Intervals /\ sendStatus' \in BOOLEAN
          /\ marked' \in BOOLEAN /\ fellBack' \in BOOLEAN
      <4>1. loaded[p].interval \in Intervals /\ loaded[p].sendStatus \in BOOLEAN
            BY DEF Values
      <4>2. \/ UNCHANGED runVars
            \/ /\ interval' = loaded[p].interval /\ sendStatus' = loaded[p].sendStatus
               /\ marked' = FALSE /\ fellBack' = FALSE
            BY <2>4 DEF ReadId
      <4>3. QED
            BY <4>1, <4>2
    <3>3. pc'[Sidecar] = "up" => nodeId' \in used'
          BY <2>4 DEF ReadId
    <3>4. UNCHANGED <<file, readable, nodeFile, issued, lost, loaded, answer>>
          BY <2>4 DEF ReadId
    <3>5. pc' \in [Processes -> {"down", "create", "write", "read", "up"}]
          BY <2>4 DEF ReadId
    <3>6. QED
          BY <3>1, <3>2, <3>3, <3>4, <3>5
  <2>5. QED
        BY <1>1, <2>1, <2>2, <2>3, <2>4 DEF Load
<1>2. ASSUME NEW p \in Processes, Ends(p) PROVE TypeOK'
      BY <1>2 DEF Ends
<1>3. CASE Override
      BY <1>3 DEF Override, IntervalChanges, StatusChanges, Answers
<1>4. CASE Reset
      BY <1>4 DEF Reset, Values
<1>5. CASE FallBack
      BY <1>5 DEF FallBack
<1>6. CASE \E values \in Values, valid \in BOOLEAN : Edit(values, valid)
      BY <1>6 DEF Edit
<1>7. CASE \E values \in Answers : ServerDecides(values)
      BY <1>7 DEF ServerDecides
<1>8. CASE UNCHANGED vars
      BY <1>8 DEF vars
<1>9. QED
      BY <1>1, <1>2, <1>3, <1>4, <1>5, <1>6, <1>7, <1>8 DEF Next

(* The invariant TypeOK of Configuration.                                  *)
THEOREM TypeCorrect == Spec => []TypeOK
PROOF BY InitTypes, StepTypes, PTL DEF Spec

(* DifferencesAreMarked of Configuration: whatever the server overrides or *)
(* withdraws, values that are not those of the file can be put back.       *)
THEOREM OverridesAreMarked == Spec => []DifferencesAreMarked
PROOF
<1>1. Init => DifferencesAreMarked
      BY ProcessesAssumption DEF Init, DifferencesAreMarked, Runs
<1>2. TypeOK /\ DifferencesAreMarked /\ [Next]_vars => DifferencesAreMarked'
  <2> SUFFICES ASSUME TypeOK, DifferencesAreMarked, [Next]_vars PROVE DifferencesAreMarked'
      OBVIOUS
  <2> USE ProcessesAssumption DEF TypeOK, DifferencesAreMarked, Runs, runVars
  <2>1. ASSUME NEW p \in Processes, Begin(p) PROVE DifferencesAreMarked'
        BY <2>1 DEF Begin
  <2>2. ASSUME NEW p \in Processes, ReadId(p) PROVE DifferencesAreMarked'
        BY <2>2 DEF ReadId, Values
  <2>3. ASSUME NEW p \in Processes,
               \/ Create(p) \/ CannotCreate(p) \/ CannotWrite(p) \/ Ends(p)
               \/ \E id \in Ids : Write(p, id)
        PROVE DifferencesAreMarked'
        BY <2>3 DEF Create, CannotCreate, CannotWrite, Ends, Write
  <2>4. CASE Override
        BY <2>4 DEF Override
  <2>5. CASE Reset
        BY <2>5 DEF Reset, Values
  <2>6. CASE FallBack
        BY <2>6 DEF FallBack
  <2>7. ASSUME \/ \E values \in Values, valid \in BOOLEAN : Edit(values, valid)
               \/ \E values \in Answers : ServerDecides(values)
               \/ UNCHANGED vars
        PROVE DifferencesAreMarked'
        BY <2>7 DEF Edit, ServerDecides, vars
  <2>8. QED
        BY <2>1, <2>2, <2>3, <2>4, <2>5, <2>6, <2>7 DEF Next, Load
<1>3. QED
      BY <1>1, <1>2, TypeCorrect, PTL DEF Spec

-----------------------------------------------------------------------------
(* EmptyOnlyIfLost of Configuration: only a crash or an error in the first *)
(* write leaves the node-id file empty, whoever else reads or writes it.   *)
THEOREM EmptyIsLost == Spec => []EmptyOnlyIfLost
PROOF
<1>1. Init => EmptyOnlyIfLost
      BY IdsAssumption DEF Init, EmptyOnlyIfLost
<1>2. TypeOK /\ EmptyOnlyIfLost /\ [Next]_vars => EmptyOnlyIfLost'
  <2> SUFFICES ASSUME TypeOK, EmptyOnlyIfLost, [Next]_vars PROVE EmptyOnlyIfLost'
      OBVIOUS
  <2> USE IdsAssumption DEF TypeOK, EmptyOnlyIfLost, disk, idVars
  <2>1. ASSUME NEW p \in Processes, Begin(p) \/ CannotCreate(p) PROVE EmptyOnlyIfLost'
        BY <2>1 DEF Begin, CannotCreate
  <2>2. ASSUME NEW p \in Processes, Create(p) PROVE EmptyOnlyIfLost'
        BY <2>2 DEF Create
  <2>3. ASSUME NEW p \in Processes, NEW id \in Ids, Write(p, id) PROVE EmptyOnlyIfLost'
        BY <2>3 DEF Write
  <2>4. ASSUME NEW p \in Processes, CannotWrite(p) \/ Ends(p) PROVE EmptyOnlyIfLost'
        BY <2>4 DEF CannotWrite, Ends
  <2>5. ASSUME NEW p \in Processes, ReadId(p) PROVE EmptyOnlyIfLost'
        BY <2>5 DEF ReadId
  <2>6. CASE \/ Override \/ Reset \/ FallBack
             \/ \E values \in Values, valid \in BOOLEAN : Edit(values, valid)
             \/ \E values \in Answers : ServerDecides(values)
             \/ UNCHANGED vars
        BY <2>6 DEF Override, Reset, FallBack, Edit, ServerDecides, vars
  <2>7. QED
        BY <2>1, <2>2, <2>3, <2>4, <2>5, <2>6 DEF Next, Load
<1>3. QED
      BY <1>1, <1>2, TypeCorrect, PTL DEF Spec

(* An id in use is in the file, and no id is written over.                 *)
IdIsFinal ==
    /\ NodeIdKept
    /\ pc[Sidecar] \in {"create", "write"} => used = {}

(* NodeIdKept of Configuration: without a second process that finds no id  *)
(* at the same time, the sidecar is the same node after every restart.     *)
THEOREM NodeIdIsKept == ASSUME Processes = {Sidecar} PROVE Spec => []NodeIdKept
PROOF
<1>1. Init => IdIsFinal
      BY ProcessesAssumption DEF Init, IdIsFinal, NodeIdKept
<1>2. TypeOK /\ IdIsFinal /\ [Next]_vars => IdIsFinal'
  <2> SUFFICES ASSUME TypeOK, IdIsFinal, [Next]_vars PROVE IdIsFinal'
      OBVIOUS
  <2> USE IdsAssumption DEF TypeOK, IdIsFinal, NodeIdKept, disk, idVars
  <2>1. CASE Begin(Sidecar)
        BY <2>1 DEF Begin
  <2>2. CASE Create(Sidecar) \/ CannotCreate(Sidecar) \/ CannotWrite(Sidecar)
        BY <2>2 DEF Create, CannotCreate, CannotWrite
  <2>3. ASSUME NEW id \in Ids, Write(Sidecar, id) PROVE IdIsFinal'
        BY <2>3 DEF Write
  <2>4. CASE ReadId(Sidecar)
        BY <2>4 DEF ReadId
  <2>5. CASE Ends(Sidecar)
        BY <2>5 DEF Ends
  <2>6. CASE \/ Override \/ Reset \/ FallBack
             \/ \E values \in Values, valid \in BOOLEAN : Edit(values, valid)
             \/ \E values \in Answers : ServerDecides(values)
             \/ UNCHANGED vars
        BY <2>6 DEF Override, Reset, FallBack, Edit, ServerDecides, vars
  <2>7. QED
        BY <2>1, <2>2, <2>3, <2>4, <2>5, <2>6 DEF Next, Load
<1>3. IdIsFinal => NodeIdKept
      BY DEF IdIsFinal
<1>4. QED
      BY <1>1, <1>2, <1>3, TypeCorrect, PTL DEF Spec
=============================================================================
