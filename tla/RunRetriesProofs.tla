-------------------------- MODULE RunRetriesProofs --------------------------
(***************************************************************************)
(* Theorems about two calls of Orchestrator.Run on one run, for every      *)
(* configuration and every bound on the failures.  What one call keeps by  *)
(* itself is proved in OrchestratorProofs and used here for each of the    *)
(* two.                                                                    *)
(***************************************************************************)
EXTENDS RunRetries, TLAPS

(* One call moves; the other learns no more of it than what the run's row  *)
(* says, which it does not read.                                           *)
LEMMA FirstKeeps ==
  ASSUME RetriesInv, FirstCall
  PROVE  RetriesInv'
<1> USE RetriesAssumption
<1>1. /\ A!OwnInv /\ A!VerdictInv /\ B!OwnInv /\ B!VerdictInv /\ RowInv
      /\ [A!Next]_(A!vars) /\ UNCHANGED bVars
  BY DEF RetriesInv, FirstCall
<1>2. A!OwnInv'
  BY <1>1, A!OwnStep
<1>3. /\ A!VerdictInv'
      /\ aVerdict' = aVerdict \/ aVerdict = "pending"
      /\ \/ runRow' = runRow
         \/ runRow'.status = "running"
         \/ runRow'.status = aVerdict' /\ aVerdict' # "pending"
  BY <1>1, A!VerdictStep
<1>4. runRow' \in B!RunRow /\ faults' \in 0..MaxFaults
  BY <1>2 DEF A!OwnInv, A!TypeOK, B!RunRow, A!RunStates, B!RunStates
<1>5. B!OwnInv'
  BY <1>1, <1>4, B!OthersKeep DEF bVars, B!mainVars, B!stepVars
<1>6. B!VerdictInv'
  BY <1>1 DEF bVars, B!VerdictInv
<1>7. runRow'.status \in {"pending", "running"} \cup ({aVerdict', bVerdict'} \ {"pending"})
  BY <1>1, <1>3 DEF RowInv, bVars
<1>8. ASSUME faults' = 0, runRow'.status \in {"pending", "running"}, A!Stopped'
      PROVE  \/ CutOff(aPc', aVerdict', aCtxDone')
             \/ ~B!Stopped' \/ CutOff(bPc', bVerdict', bCtxDone')
  <2>1. CASE ~A!Stopped
    BY <1>1, <1>8, <2>1, A!EndStep DEF CutOff
  <2>2. CASE A!Stopped
    <3>1. UNCHANGED <<runRow, aPc, aVerdict, aCtxDone>>
      BY <1>1, <2>2, A!StoppedRests DEF A!dbVars, A!mainVars
    <3>2. faults = 0
      BY <1>1, <1>8, A!FaultsGrow DEF A!OwnInv
    <3>3. B!Stopped' = B!Stopped
      BY <1>1 DEF bVars, B!Stopped
    <3> QED
      BY <1>1, <1>8, <2>2, <3>1, <3>2, <3>3 DEF RowInv, CutOff, bVars
  <2> QED
    BY <2>1, <2>2
<1> QED
  BY <1>2, <1>3, <1>5, <1>6, <1>7, <1>8 DEF RetriesInv, RowInv

(* The same with the calls exchanged.                                      *)
LEMMA SecondKeeps ==
  ASSUME RetriesInv, SecondCall
  PROVE  RetriesInv'
<1> USE RetriesAssumption
<1>1. /\ B!OwnInv /\ B!VerdictInv /\ A!OwnInv /\ A!VerdictInv /\ RowInv
      /\ [B!Next]_(B!vars) /\ UNCHANGED aVars
  BY DEF RetriesInv, SecondCall
<1>2. B!OwnInv'
  BY <1>1, B!OwnStep
<1>3. /\ B!VerdictInv'
      /\ bVerdict' = bVerdict \/ bVerdict = "pending"
      /\ \/ runRow' = runRow
         \/ runRow'.status = "running"
         \/ runRow'.status = bVerdict' /\ bVerdict' # "pending"
  BY <1>1, B!VerdictStep
<1>4. runRow' \in A!RunRow /\ faults' \in 0..MaxFaults
  BY <1>2 DEF B!OwnInv, B!TypeOK, A!RunRow, B!RunStates, A!RunStates
<1>5. A!OwnInv'
  BY <1>1, <1>4, A!OthersKeep DEF aVars, A!mainVars, A!stepVars
<1>6. A!VerdictInv'
  BY <1>1 DEF aVars, A!VerdictInv
<1>7. runRow'.status \in {"pending", "running"} \cup ({aVerdict', bVerdict'} \ {"pending"})
  BY <1>1, <1>3 DEF RowInv, aVars
<1>8. ASSUME faults' = 0, runRow'.status \in {"pending", "running"}, B!Stopped'
      PROVE  \/ CutOff(bPc', bVerdict', bCtxDone')
             \/ ~A!Stopped' \/ CutOff(aPc', aVerdict', aCtxDone')
  <2>1. CASE ~B!Stopped
    BY <1>1, <1>8, <2>1, B!EndStep DEF CutOff
  <2>2. CASE B!Stopped
    <3>1. UNCHANGED <<runRow, bPc, bVerdict, bCtxDone>>
      BY <1>1, <2>2, B!StoppedRests DEF B!dbVars, B!mainVars
    <3>2. faults = 0
      BY <1>1, <1>8, B!FaultsGrow DEF B!OwnInv
    <3>3. A!Stopped' = A!Stopped
      BY <1>1 DEF aVars, A!Stopped
    <3> QED
      BY <1>1, <1>8, <2>2, <3>1, <3>2, <3>3 DEF RowInv, CutOff, aVars
  <2> QED
    BY <2>1, <2>2
<1> QED
  BY <1>2, <1>3, <1>5, <1>6, <1>7, <1>8 DEF RetriesInv, RowInv

-----------------------------------------------------------------------------
LEMMA InitRetries == Init => RetriesInv
<1> SUFFICES ASSUME Init PROVE RetriesInv
  OBVIOUS
<1> USE RetriesAssumption
<1>1. A!Init /\ B!Init
  BY DEF Init
<1>2. A!OwnInv /\ B!OwnInv
  BY <1>1, A!InitOwn, B!InitOwn
<1>3. A!VerdictInv /\ B!VerdictInv
  BY <1>1 DEF A!Init, B!Init, A!VerdictInv, B!VerdictInv
<1>4. RowInv
  BY <1>1 DEF A!Init, A!NewRow, A!Stopped, RowInv
<1> QED
  BY <1>2, <1>3, <1>4 DEF RetriesInv

LEMMA IdleRetries == RetriesInv /\ UNCHANGED <<runRow, faults, aVars, bVars>> => RetriesInv'
<1> SUFFICES ASSUME RetriesInv, UNCHANGED <<runRow, faults, aVars, bVars>> PROVE RetriesInv'
  OBVIOUS
<1> USE RetriesAssumption
<1>1. /\ A!OwnInv /\ A!VerdictInv /\ B!OwnInv /\ B!VerdictInv /\ RowInv
      /\ UNCHANGED A!vars /\ UNCHANGED B!vars
  BY DEF RetriesInv, aVars, bVars, A!vars, A!dbVars, A!mainVars, A!stepVars,
         B!vars, B!dbVars, B!mainVars, B!stepVars
<1>2. A!OwnInv' /\ A!VerdictInv'
  BY <1>1, A!OwnStep, A!VerdictStep
<1>3. B!OwnInv' /\ B!VerdictInv'
  BY <1>1, B!OwnStep, B!VerdictStep
<1>4. RowInv'
  BY <1>1 DEF aVars, bVars, RowInv, A!Stopped, B!Stopped, CutOff
<1> QED
  BY <1>2, <1>3, <1>4 DEF RetriesInv

(* The two calls keep RetriesInv, in whatever order they move.             *)
THEOREM RetriesInvariance == Spec => []RetriesInv
<1>1. RetriesInv /\ [Next]_<<runRow, faults, aVars, bVars>> => RetriesInv'
  BY FirstKeeps, SecondKeeps, IdleRetries DEF Next
<1> QED
  BY <1>1, InitRetries, PTL DEF Spec

(* A run recorded as "success" was earned by one call that ran every step  *)
(* to exit code 0, also when another call of Run was made for it (Run).    *)
THEOREM SuccessIsEarned == Spec => []SuccessWasEarned
<1>1. RetriesInv => SuccessWasEarned
  <2> SUFFICES ASSUME RetriesInv, runRow.status = "success" PROVE SuccessWasEarned
    BY DEF SuccessWasEarned
  <2>1. aVerdict = "success" \/ bVerdict = "success"
    BY DEF RetriesInv, RowInv
  <2>2. aVerdict = "success" => \A s \in A!Steps : A!Passed(s)
    BY DEF RetriesInv, A!OwnInv, A!EndInv, A!AllDone
  <2>3. bVerdict = "success" => \A s \in B!Steps : B!Passed(s)
    BY DEF RetriesInv, B!OwnInv, B!EndInv, B!AllDone
  <2> QED
    BY <2>1, <2>2, <2>3 DEF SuccessWasEarned
<1> QED
  BY <1>1, RetriesInvariance, PTL

(* When both calls are over and no call failed on its own account the row  *)
(* holds what one of them decided, unless one was cut off (Run's last      *)
(* write, under a context that cannot be cancelled).                       *)
THEOREM RowHoldsAVerdict == Spec => []RowIsAVerdict
<1>1. RetriesInv => RowIsAVerdict
  BY DEF RetriesInv, RowInv, RowIsAVerdict, CutOff
<1> QED
  BY <1>1, RetriesInvariance, PTL
=============================================================================
