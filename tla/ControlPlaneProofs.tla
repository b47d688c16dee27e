------------------------- MODULE ControlPlaneProofs -------------------------
(***************************************************************************)
(* Proofs about ControlPlane for every set of requests, codes, calls and   *)
(* origins and every budget of faults and crashes: types, the exclusive    *)
(* claim of a code and the refinement of EnrollmentContract; then the life *)
(* of a device, from the first key to the last: each key can be reached    *)
(* through a device row, a revocation closes local access, a completed one *)
(* left neither a recorded key nor an installation, devices with Desk      *)
(* provenance keep their revocation target, an accepted enrollment is      *)
(* usable until the device is revoked, a code given back has left nothing  *)
(* behind, and the rollback audit row tells the truth.                     *)
(***************************************************************************)
EXTENDS ControlInvariants, TLAPS

USE DEF dbVars, remoteVars, deviceVars, deskColumns, bindingVars, auditVars, deskVars, lateVars,
        undoVars, enrollVars, localVars, flagVars, snapVars, revokeVars, opVars, otherCalls,
        ghostVars, rowVars, otherRows, otherActors, Goto, Throw, NoFault, Fault, FailsIf,
        Continue, Return, OpGoto, OpReturn

-----------------------------------------------------------------------------
(***************************************************************************)
(* What each actor leaves alone.                                           *)
(***************************************************************************)

\* A step of enroll changes no binding row, no other call's locals and neither racing nor probed.
LEMMA EnrollFrame ==
  ASSUME NEW r \in Requests, EnrollStep(r)
  PROVE  UNCHANGED <<bindingVars, revokeVars, opVars, crashes, racing, probed>>
  BY DEF EnrollStep, ReadCode, SeatCheck, ClaimCode, ClaimCodeFails, CreateDevice, CreateDeviceFails, IssueKey,
     IssueKeyRefused, IssueKeyUncertain, CleanUncertainKey, CleanUncertainKeyFails, CreateToken,
     CreateTokenFails, AuditEnroll, AuditEnrollFails, ReserveNothing, Reserve, ReserveFails,
     ReadEnrollKey, ReadEnrollKeyFails, Unreserve, UnreserveFails, Register, RegisterUncertain,
     CleanDesk, CleanDeskFails, Finalize, FinalizeFails, UndoDesk, UndoDeskFails, UndoKey,
     UndoKeyFails, UndoDevice, UndoDeviceFails, UndoCode, UndoCodeFails, UndoAudit, UndoAuditFails

\* A step of revokeDevice creates and deletes no row and touches no enrollment and no binding.
LEMMA RevokeFrame ==
  ASSUME NEW v \in Admins, RevokeProceeds(v)
  PROVE  UNCHANGED <<usedAt, devices, tokens, bindingVars, auditVars, lateVars, enrollVars, opVars,
                     crashes, holds, swallowed, probed>>
  BY DEF RevokeProceeds, RevokeIntent, RevokeIntentFails, RevokeReread, RevokeReadTokens, RevokeReadFails,
     RevokeGatewayKey, RevokeGatewayKeyFails, RevokeResolve, RevokeResolveFails, RevokeDesk,
     RevokeDeskFails, RevokeComplete, RevokeCompleteFails

\* A binding mutation touches the binding row, the secret store and its own locals only.
LEMMA BindingFrame ==
  ASSUME NEW p \in BindingOps, BindingStep(p)
  PROVE  UNCHANGED <<otherRows, otherActors, holds, racing, swallowed>>
  BY DEF BindingStep, UpsertStart, UpsertCommit, UpsertRejected, RemoveCredential,
     RemoveCredentialFails, VerifyStart, VerifyProbe, VerifyCommit, VerifyCommitFails, Disable

-----------------------------------------------------------------------------
(***************************************************************************)
(* Types.                                                                  *)
(***************************************************************************)

\* Initially every variable has its type and no request has a row.
LEMMA TypeInit == Init => TypeInv
  BY LegacyOriginType DEF Init, ControlInit, Unenrolled, Unbound, TypeInv, TypeOK, StepOK, BeforeRow, RowSteps, TargetSteps,
     EnrollSteps, ForwardSteps, UndoSteps, Answered, RevokeSteps, OpSteps, Statuses

\* Every step keeps the types and the rows that the step of a request implies.
LEMMA TypeStep == TypeInv /\ [Next]_vars => TypeInv'
<1> SUFFICES ASSUME TypeInv, [Next]_vars PROVE TypeInv'
  OBVIOUS
<1> USE NoneIsFresh, LegacyOriginType, CodeOfType, StampType
    DEF TypeInv, TypeOK, StepOK, BeforeRow, RowSteps, TargetSteps, EnrollSteps, ForwardSteps,
        UndoSteps, Answered, RevokeSteps, OpSteps, Statuses

<1>1. ASSUME NEW r \in Requests, EnrollStep(r) PROVE TypeInv'
  <2>1. CASE \E unexpired \in BOOLEAN : ReadCode(r, unexpired)
    BY <2>1 DEF ReadCode
  <2>2. CASE \E resolvable \in BOOLEAN : SeatCheck(r, resolvable)
    BY <2>2 DEF SeatCheck
  <2>3. CASE ClaimCode(r)
    BY <2>3 DEF ClaimCode
  <2>4. CASE ClaimCodeFails(r)
    BY <2>4 DEF ClaimCodeFails
  <2>5. CASE CreateDevice(r)
    BY <2>5 DEF CreateDevice, CodeHasDevice
  <2>6. CASE CreateDeviceFails(r)
    BY <2>6 DEF CreateDeviceFails, CodeHasDevice
  <2>7. CASE IssueKey(r)
    BY <2>7 DEF IssueKey
  <2>8. CASE IssueKeyRefused(r)
    BY <2>8 DEF IssueKeyRefused
  <2>9. CASE IssueKeyUncertain(r)
    BY <2>9 DEF IssueKeyUncertain
  <2>10. CASE CleanUncertainKey(r)
    BY <2>10 DEF CleanUncertainKey
  <2>11. CASE CleanUncertainKeyFails(r)
    BY <2>11 DEF CleanUncertainKeyFails
  <2>12. CASE CreateToken(r)
    BY <2>12 DEF CreateToken
  <2>13. CASE CreateTokenFails(r)
    BY <2>13 DEF CreateTokenFails
  <2>14. CASE AuditEnroll(r)
    BY <2>14 DEF AuditEnroll
  <2>15. CASE AuditEnrollFails(r)
    BY <2>15 DEF AuditEnrollFails
  <2>16. CASE ReserveNothing(r)
    BY <2>16 DEF ReserveNothing
  <2>17. CASE Reserve(r)
    BY <2>17 DEF Reserve, ReservedOrigin
  <2>18. CASE ReserveFails(r)
    BY <2>18 DEF ReserveFails
  <2>19. CASE ReadEnrollKey(r)
    BY <2>19 DEF ReadEnrollKey
  <2>20. CASE ReadEnrollKeyFails(r)
    BY <2>20 DEF ReadEnrollKeyFails
  <2>21. CASE Unreserve(r)
    BY <2>21 DEF Unreserve
  <2>22. CASE UnreserveFails(r)
    BY <2>22 DEF UnreserveFails
  <2>23. CASE Register(r)
    BY <2>23 DEF Register
  <2>24. CASE RegisterUncertain(r)
    BY <2>24 DEF RegisterUncertain
  <2>25. CASE CleanDesk(r)
    BY <2>25 DEF CleanDesk, DeskRevoke
  <2>26. CASE CleanDeskFails(r)
    BY <2>26 DEF CleanDeskFails, DeskRevoke
  <2>27. CASE Finalize(r)
    BY <2>27 DEF Finalize
  <2>28. CASE FinalizeFails(r)
    BY <2>28 DEF FinalizeFails
  <2>29. CASE UndoDesk(r)
    BY <2>29 DEF UndoDesk, DeskRevoke
  <2>30. CASE UndoDeskFails(r)
    BY <2>30 DEF UndoDeskFails, DeskRevoke
  <2>31. CASE UndoKey(r)
    BY <2>31 DEF UndoKey, AfterUndo
  <2>32. CASE UndoKeyFails(r)
    BY <2>32 DEF UndoKeyFails, AfterUndo
  <2>33. CASE UndoDevice(r)
    BY <2>33 DEF UndoDevice
  <2>34. CASE UndoDeviceFails(r)
    BY <2>34 DEF UndoDeviceFails, AfterUndo
  <2>35. CASE UndoCode(r)
    BY <2>35 DEF UndoCode, AfterUndo
  <2>36. CASE UndoCodeFails(r)
    BY <2>36 DEF UndoCodeFails, AfterUndo
  <2>37. CASE UndoAudit(r)
    BY <2>37 DEF UndoAudit
  <2>38. CASE UndoAuditFails(r)
    BY <2>38 DEF UndoAuditFails
  <2> HIDE DEF TypeInv
  <2>39. QED
    BY <1>1,
    <2>1, <2>2, <2>3, <2>4, <2>5, <2>6, <2>7, <2>8, <2>9, <2>10, <2>11, <2>12, <2>13,
    <2>14, <2>15, <2>16, <2>17, <2>18, <2>19, <2>20, <2>21, <2>22, <2>23, <2>24, <2>25,
    <2>26, <2>27, <2>28, <2>29, <2>30, <2>31, <2>32, <2>33, <2>34, <2>35, <2>36, <2>37,
    <2>38
    DEF EnrollStep
<1>2. ASSUME NEW r \in Requests, ExecuteLateKey(r) PROVE TypeInv'
    BY <1>2 DEF ExecuteLateKey
<1>3. ASSUME NEW r \in Requests, ExecuteLateRegister(r) PROVE TypeInv'
    BY <1>3 DEF ExecuteLateRegister
<1>4. ASSUME NEW v \in Admins, NEW e \in Requests, RevokeStart(v, e) PROVE TypeInv'
    BY <1>4 DEF RevokeStart
<1>5. ASSUME NEW v \in Admins, RevokeProceeds(v) PROVE TypeInv'
  <2>1. CASE RevokeIntent(v)
    BY <2>1 DEF RevokeIntent
  <2>2. CASE RevokeIntentFails(v)
    BY <2>2 DEF RevokeIntentFails
  <2>3. CASE RevokeReread(v)
    BY <2>3 DEF RevokeReread
  <2>4. CASE RevokeReadTokens(v)
    BY <2>4 DEF RevokeReadTokens, AfterKeys
  <2>5. CASE RevokeReadFails(v)
    BY <2>5 DEF RevokeReadFails
  <2>6. CASE RevokeGatewayKey(v)
    BY <2>6 DEF RevokeGatewayKey, AfterKeys
  <2>7. CASE RevokeGatewayKeyFails(v)
    BY <2>7 DEF RevokeGatewayKeyFails
  <2>8. CASE RevokeResolve(v)
    BY <2>8 DEF RevokeResolve
  <2>9. CASE RevokeResolveFails(v)
    BY <2>9 DEF RevokeResolveFails
  <2>10. CASE RevokeDesk(v)
    BY <2>10 DEF RevokeDesk, DeskRevoke
  <2>11. CASE RevokeDeskFails(v)
    BY <2>11 DEF RevokeDeskFails, DeskRevoke
  <2>12. CASE RevokeComplete(v)
    BY <2>12 DEF RevokeComplete
  <2>13. CASE RevokeCompleteFails(v)
    BY <2>13 DEF RevokeCompleteFails
  <2> HIDE DEF TypeInv
  <2>14. QED
    BY <1>5,
    <2>1, <2>2, <2>3, <2>4, <2>5, <2>6, <2>7, <2>8, <2>9, <2>10, <2>11, <2>12, <2>13
    DEF RevokeProceeds
<1>6. ASSUME NEW p \in BindingOps, BindingStep(p) PROVE TypeInv'
  <2>1. CASE \E o \in Origins, withCredential \in BOOLEAN : UpsertStart(p, o, withCredential)
    BY <2>1 DEF UpsertStart
  <2>2. CASE UpsertCommit(p)
    BY <2>2 DEF UpsertCommit
  <2>3. CASE UpsertRejected(p)
    BY <2>3 DEF UpsertRejected
  <2>4. CASE RemoveCredential(p)
    BY <2>4 DEF RemoveCredential
  <2>5. CASE RemoveCredentialFails(p)
    BY <2>5 DEF RemoveCredentialFails
  <2>6. CASE VerifyStart(p)
    BY <2>6 DEF VerifyStart
  <2>7. CASE VerifyCommit(p)
    BY <2>7 DEF VerifyCommit
  <2>8. CASE VerifyCommitFails(p)
    BY <2>8 DEF VerifyCommitFails
  <2>9. CASE Disable(p)
    BY <2>9 DEF Disable
  <2>10. CASE \E healthy \in HealthAnswers : VerifyProbe(p, healthy)
    <3>1. /\ probed' \in {probed, probed \cup {opVersion[p]}}
          /\ \E step \in {"commitActive", "commitDegraded"} : OpGoto(p, step)
          /\ UNCHANGED <<dbVars, otherActors, faults, holds, racing, swallowed>>
      BY <2>10 DEF VerifyProbe
    <3>2. opVersion[p] \in Nat
      OBVIOUS
    <3>3. probed' \subseteq Nat
      BY <3>1, <3>2
    <3>4. bpc' \in [BindingOps -> OpSteps]
      BY <3>1
    <3>5. QED
      BY <3>1, <3>3, <3>4
  <2> HIDE DEF TypeInv
  <2>11. QED
    BY <1>6,
    <2>1, <2>2, <2>3, <2>4, <2>5, <2>6, <2>7, <2>8, <2>9, <2>10
    DEF BindingStep
<1>7. CASE Crash
    BY <1>7 DEF Crash, Running
<1>8. CASE UNCHANGED vars
    BY <1>8 DEF vars
<1> HIDE DEF TypeInv
<1>9. QED
  BY <1>1, <1>2, <1>3, <1>4, <1>5, <1>6, <1>7, <1>8 DEF Next

\* The typing invariant holds in every behaviour.
THEOREM TypeInvariant == Spec => []TypeInv
<1>1. QED
  BY TypeInit, TypeStep, PTL DEF Spec

\* Rows, remote objects and locals keep their types, and tokens and Desk columns belong to device
\* rows, in every behaviour of the control plane.
THEOREM TypeCorrect == Spec => []TypeOK
<1>1. TypeInv => TypeOK
  BY DEF TypeInv
<1>2. QED
  BY <1>1, TypeInvariant, PTL

-----------------------------------------------------------------------------
(***************************************************************************)
(* The exclusive claim.                                                    *)
(***************************************************************************)

\* Initially nobody holds a code.
LEMMA ClaimInit == Init => ClaimInv
  BY DEF Init, ControlInit, Unenrolled, Unbound, ClaimInv, ClaimExclusive, HeldSteps, RowSteps

\* Only the compare-and-set of ClaimCode and the compensation UndoCode move a claim; every other
\* step of enroll stays among the steps of a holder or leaves them.
LEMMA ClaimStep == TypeInv /\ ClaimInv /\ [Next]_vars => ClaimInv'
<1> SUFFICES ASSUME TypeInv, ClaimInv, [Next]_vars PROVE ClaimInv'
  OBVIOUS
<1> USE CodeOfType, StampType DEF ClaimInv, ClaimExclusive, HeldSteps, RowSteps
<1>1. usedAt \in [Codes -> Nat] /\ epc \in [Requests -> EnrollSteps] /\ holds \subseteq Requests
  BY DEF TypeInv, TypeOK
<1>2. ASSUME NEW r \in Requests, EnrollStep(r) PROVE ClaimInv'
  <2>1. CASE ClaimCode(r)
    BY <1>1, <2>1 DEF ClaimCode
  <2>2. CASE UndoCode(r)
    BY <1>1, <2>2 DEF UndoCode, AfterUndo
  <2>3. ASSUME ~ClaimCode(r), ~UndoCode(r)
        PROVE  /\ UNCHANGED <<usedAt, holds>>
               /\ \E step \in EnrollSteps :
                    /\ Goto(r, step)
                    /\ step \in HeldSteps => epc[r] \in HeldSteps
    BY SMTT(60), <1>1, <1>2, <2>3
    DEF EnrollSteps, ForwardSteps, UndoSteps, Answered, AfterUndo, EnrollStep,
     ReadCode, SeatCheck, ClaimCodeFails, CreateDevice, CreateDeviceFails, IssueKey,
     IssueKeyRefused, IssueKeyUncertain, CleanUncertainKey, CleanUncertainKeyFails,
     CreateToken, CreateTokenFails, AuditEnroll, AuditEnrollFails, ReserveNothing, Reserve,
     ReserveFails, ReadEnrollKey, ReadEnrollKeyFails, Unreserve, UnreserveFails, Register,
     RegisterUncertain, CleanDesk, CleanDeskFails, Finalize, FinalizeFails, UndoDesk,
     UndoDeskFails, UndoKey, UndoKeyFails, UndoDevice, UndoDeviceFails, UndoCodeFails,
     UndoAudit, UndoAuditFails
  <2>4. QED
    BY <1>1, <2>1, <2>2, <2>3
<1>3. CASE Crash
  BY <1>1, <1>3 DEF Crash, Running
<1>4. ASSUME UNCHANGED <<usedAt, epc, holds>> PROVE ClaimInv'
  BY <1>4
<1>5. QED
  BY <1>2, <1>3, <1>4, RevokeFrame, BindingFrame
  DEF Next, ExecuteLateKey, ExecuteLateRegister, RevokeStart, vars

\* The claim invariant holds in every behaviour.
THEOREM ClaimInvariant == Spec => []ClaimInv
<1>1. QED
  BY TypeInvariant, ClaimInit, ClaimStep, PTL DEF Spec

\* Whatever enrollments race for a code, fail, are compensated or crash: one request at a time
\* holds it, and its row carries that request's stamp.
THEOREM ClaimIsExclusive == Spec => []ClaimExclusive
<1>1. ClaimInv => ClaimExclusive
  BY DEF ClaimInv
<1>2. QED
  BY <1>1, ClaimInvariant, PTL

-----------------------------------------------------------------------------
(***************************************************************************)
(* The one-time-code contract.                                             *)
(***************************************************************************)

\* Initially nothing is held, usable or accepted.
LEMMA ContractInitially == Init => Contract!ContractInit
  BY DEF Init, ControlInit, Unenrolled, Unbound, Contract!ContractInit

\* Every step of the control plane is a step of the contract or leaves its variables alone.
LEMMA ContractStep == TypeInv /\ ClaimInv /\ [Next]_vars => [Contract!ContractNext]_(Contract!contractVars)
<1> SUFFICES ASSUME TypeInv, ClaimInv, [Next]_vars
             PROVE  Contract!ContractNext \/ UNCHANGED Contract!contractVars
  OBVIOUS
<1> DEFINE usable == tokens \ tokenRevoked
           accepted == {r \in Requests : epc[r] = "enrolled"}
<1>1. /\ epc \in [Requests -> EnrollSteps] /\ holds \subseteq Requests
      /\ tokens \subseteq devices /\ tokenRevoked \subseteq tokens /\ devices \subseteq Requests
  BY DEF TypeInv, TypeOK
<1>2. \A r \in Requests : /\ epc[r] \in HeldSteps => r \in holds
                          /\ epc[r] = "undoCode" => r \notin devices
  BY DEF TypeInv, StepOK, ClaimInv
<1>3. ASSUME NEW r \in Requests, EnrollStep(r)
      PROVE  Contract!ContractNext \/ UNCHANGED Contract!contractVars
  <2>1. CASE ClaimCode(r)
    BY <1>1, <2>1, CodeOfType, StampType DEF ClaimCode, ClaimInv, ClaimExclusive,
       Contract!ContractNext, Contract!Acquire, Contract!contractVars
  <2>2. CASE CreateToken(r)
    BY <1>1, <1>2, <2>2 DEF CreateToken, HeldSteps, RowSteps, Contract!ContractNext, Contract!Grant,
       Contract!contractVars
  <2>3. CASE ReserveNothing(r) \/ Finalize(r)
    BY <1>1, <1>2, <2>3 DEF ReserveNothing, Finalize, HeldSteps, RowSteps, Contract!ContractNext,
       Contract!Accept, Contract!contractVars
  <2>4. CASE UndoDevice(r)
    BY <1>1, <2>4 DEF UndoDevice, Contract!ContractNext, Contract!Withdraw, Contract!contractVars
  <2>5. CASE UndoCode(r)
    BY <1>1, <1>2, <2>5 DEF UndoCode, AfterUndo, HeldSteps, Contract!ContractNext, Contract!Release,
       Contract!contractVars
  <2>6. ASSUME ~ClaimCode(r), ~CreateToken(r), ~ReserveNothing(r), ~Finalize(r), ~UndoDevice(r),
               ~UndoCode(r)
        PROVE  UNCHANGED <<holds, tokens, tokenRevoked, accepted>>
    BY <1>1, <1>3, <2>6 DEF EnrollStep, AfterUndo,
     ReadCode, SeatCheck, ClaimCodeFails, CreateDevice, CreateDeviceFails, IssueKey,
     IssueKeyRefused, IssueKeyUncertain, CleanUncertainKey, CleanUncertainKeyFails,
     CreateTokenFails, AuditEnroll, AuditEnrollFails, Reserve, ReserveFails, ReadEnrollKey,
     ReadEnrollKeyFails, Unreserve, UnreserveFails, Register, RegisterUncertain, CleanDesk,
     CleanDeskFails, FinalizeFails, UndoDesk, UndoDeskFails, UndoKey, UndoKeyFails,
     UndoDeviceFails, UndoCodeFails, UndoAudit, UndoAuditFails
  <2>7. QED
    BY <1>3, <2>1, <2>2, <2>3, <2>4, <2>5, <2>6 DEF Contract!contractVars
<1>4. ASSUME NEW v \in Admins, RevokeProceeds(v)
      PROVE  Contract!ContractNext \/ UNCHANGED Contract!contractVars
  <2>1. CASE RevokeIntent(v)
    <3>1. CASE aDevice[v] \in tokens
      <4>1. usable' = usable \ {aDevice[v]} /\ UNCHANGED <<holds, accepted>>
        BY <1>1, <2>1, <3>1 DEF RevokeIntent
      <4>2. QED
        BY <1>1, <3>1, <4>1 DEF Contract!ContractNext, Contract!Withdraw
    <3>2. CASE aDevice[v] \notin tokens
      BY <1>1, <2>1, <3>2 DEF RevokeIntent, Contract!contractVars
    <3>3. QED
      BY <3>1, <3>2
  <2>2. ASSUME ~RevokeIntent(v) PROVE UNCHANGED tokenRevoked
    BY <1>4, <2>2 DEF RevokeProceeds, RevokeIntentFails, RevokeReread, RevokeReadTokens, RevokeReadFails,
     RevokeGatewayKey, RevokeGatewayKeyFails, RevokeResolve, RevokeResolveFails, RevokeDesk,
     RevokeDeskFails, RevokeComplete, RevokeCompleteFails
  <2>3. QED
    BY <1>4, <2>1, <2>2, RevokeFrame DEF Contract!contractVars
<1>5. CASE Crash
  BY <1>1, <1>5 DEF Crash, Running, ForwardSteps, UndoSteps, Contract!contractVars
<1>6. ASSUME UNCHANGED <<holds, tokens, tokenRevoked, epc>> PROVE UNCHANGED Contract!contractVars
  BY <1>6 DEF Contract!contractVars
<1>7. QED
  BY <1>3, <1>4, <1>5, <1>6, BindingFrame
  DEF Next, ExecuteLateKey, ExecuteLateRegister, RevokeStart, vars

\* The control plane implements the contract of one-time codes: a code is held by one request at
\* a time, only its holder is ever given a usable token or a success answer, and it is given back
\* only when neither is left, whatever fails in between.
THEOREM Refinement == Spec => ImplementsContract
<1>1. QED
  BY ContractInitially, ContractStep, TypeInvariant, ClaimInvariant, PTL
  DEF Spec, ImplementsContract, Contract!ContractSpec

-----------------------------------------------------------------------------
(***************************************************************************)
(* Gateway keys.                                                           *)
(***************************************************************************)

\* Initially there is no key.
LEMMA KeyInit == Init => KeyInv
  BY DEF Init, ControlInit, Unenrolled, Unbound, KeyInv

\* A key appears at issueKey, while the row exists, and the row goes only after the key.
LEMMA KeyStep == TypeInv /\ KeyInv /\ [Next]_vars => KeyInv'
<1> SUFFICES ASSUME TypeInv, KeyInv, [Next]_vars, ~LateDelivery PROVE KeyInv'
  BY DEF KeyInv
<1> USE DEF KeyInv, BeforeRow
<1>1. /\ epc \in [Requests -> EnrollSteps] /\ keys \subseteq Requests /\ devices \subseteq Requests
      /\ \A r \in Requests : epc[r] \in RowSteps => r \in devices
  BY DEF TypeInv, TypeOK, StepOK
<1>2. ASSUME NEW r \in Requests, EnrollStep(r) PROVE KeyInv'
  <2>1. CASE IssueKey(r) \/ IssueKeyUncertain(r)
    BY <1>1, <2>1 DEF IssueKey, IssueKeyUncertain, RowSteps
  <2>2. CASE IssueKeyRefused(r) \/ CleanUncertainKey(r) \/ CleanUncertainKeyFails(r)
    BY <1>1, <2>2 DEF IssueKeyRefused, CleanUncertainKey, CleanUncertainKeyFails
  <2>3. CASE UndoKey(r) \/ UndoKeyFails(r)
    BY <1>1, <2>3 DEF UndoKey, UndoKeyFails, AfterUndo
  <2>4. CASE UndoDevice(r)
    BY <1>1, <2>4 DEF UndoDevice
  <2>5. ASSUME ~IssueKey(r), ~IssueKeyUncertain(r), ~IssueKeyRefused(r), ~CleanUncertainKey(r),
               ~CleanUncertainKeyFails(r), ~UndoKey(r), ~UndoKeyFails(r), ~UndoDevice(r)
        PROVE  /\ UNCHANGED <<keys, lateKeys, swallowed>> /\ devices \subseteq devices'
               /\ \E step \in EnrollSteps \ {"undoDevice"} :
                    /\ Goto(r, step)
                    /\ step \in BeforeRow \cup {"issue"} => epc[r] \in BeforeRow
    BY <1>1, <1>2, <2>5 DEF EnrollStep, EnrollSteps, ForwardSteps, UndoSteps, Answered, AfterUndo,
     ReadCode, SeatCheck, ClaimCode, ClaimCodeFails, CreateDevice, CreateDeviceFails,
     CreateToken, CreateTokenFails, AuditEnroll, AuditEnrollFails, ReserveNothing, Reserve,
     ReserveFails, ReadEnrollKey, ReadEnrollKeyFails, Unreserve, UnreserveFails, Register,
     RegisterUncertain, CleanDesk, CleanDeskFails, Finalize, FinalizeFails, UndoDesk,
     UndoDeskFails, UndoDeviceFails, UndoCode, UndoCodeFails, UndoAudit, UndoAuditFails
  <2>6. QED
    BY <1>1, <2>1, <2>2, <2>3, <2>4, <2>5
<1>3. ASSUME NEW v \in Admins, RevokeProceeds(v) PROVE KeyInv'
  <2>1. keys' \subseteq keys
    BY <1>3 DEF RevokeProceeds, RevokeIntent, RevokeIntentFails, RevokeReread, RevokeReadTokens, RevokeReadFails,
       RevokeGatewayKey, RevokeGatewayKeyFails, RevokeResolve, RevokeResolveFails, RevokeDesk,
       RevokeDeskFails, RevokeComplete, RevokeCompleteFails
  <2>2. QED
    BY <1>3, <2>1, RevokeFrame
<1>4. CASE Crash
  BY <1>1, <1>4 DEF Crash, Running, ForwardSteps, UndoSteps
<1>5. ASSUME UNCHANGED <<epc, keys, lateKeys, devices, swallowed>> PROVE KeyInv'
  BY <1>5
<1>6. QED
  BY <1>2, <1>3, <1>4, <1>5, BindingFrame
  DEF Next, ExecuteLateKey, ExecuteLateRegister, RevokeStart, vars

\* The key invariant holds in every behaviour.
THEOREM KeyInvariant == Spec => []KeyInv
<1>1. QED
  BY TypeInvariant, KeyInit, KeyStep, PTL DEF Spec

\* Unless the adapter's own cleanup of an uncertain key failed, no failure or crash leaves a
\* gateway key without the device row through which it can be revoked.
THEOREM KeysHaveRows == Spec => []NoOrphanKey
<1>1. KeyInv => NoOrphanKey
  BY DEF KeyInv, NoOrphanKey
<1>2. QED
  BY <1>1, KeyInvariant, PTL

-----------------------------------------------------------------------------
(***************************************************************************)
(* Revocation.                                                             *)
(***************************************************************************)

\* Initially nothing is revoked.
LEMMA RevokeInit == Init => RevokeInv
  BY DEF Init, ControlInit, Unenrolled, Unbound, RevokeInv, RevokedIsClosed, Running, ForwardSteps, UndoSteps, BeforeRow,
     AfterIntent, AfterRead

\* Once the intent is committed no step of a finished enrollment touches the device again.
LEMMA RevokeStep == TypeInv /\ RevokeInv /\ [Next]_vars => RevokeInv'
<1> SUFFICES ASSUME TypeInv, RevokeInv, [Next]_vars PROVE RevokeInv'
  OBVIOUS
<1> USE NoneIsFresh DEF RevokeInv, RevokedIsClosed, Running, BeforeRow, AfterIntent, AfterRead
<1>1. /\ epc \in [Requests -> EnrollSteps] /\ keys \subseteq Requests /\ devices \subseteq Requests
      /\ tokens \subseteq devices /\ revocationRequested \subseteq devices
      /\ apc \in [Admins -> RevokeSteps] /\ aDevice \in [Admins -> Requests \cup {None}]
      /\ lateKeys \subseteq Requests
      /\ \A r \in Requests : /\ epc[r] \in RowSteps => r \in devices
                            /\ r \in devices => epc[r] \notin BeforeRow
  BY DEF TypeInv, TypeOK, StepOK
<1>2. ASSUME NEW r \in Requests, EnrollStep(r) PROVE RevokeInv'
  <2>1. UNCHANGED <<apc, aDevice, racing>>
    BY <1>2, EnrollFrame
  <2>2. CASE CreateDevice(r)
    BY <1>1, <2>1, <2>2 DEF CreateDevice, ForwardSteps, UndoSteps
  <2>3. CASE IssueKey(r) \/ IssueKeyUncertain(r)
    BY <1>1, <2>1, <2>3 DEF IssueKey, IssueKeyUncertain, ForwardSteps, UndoSteps, RowSteps
  <2>4. CASE CreateToken(r)
    BY <1>1, <2>1, <2>4 DEF CreateToken, ForwardSteps, UndoSteps, RowSteps
  <2>5. CASE UndoDevice(r)
    BY <1>1, <2>1, <2>5 DEF UndoDevice, ForwardSteps, UndoSteps, RowSteps
  <2>6. ASSUME ~CreateDevice(r), ~IssueKey(r), ~IssueKeyUncertain(r), ~CreateToken(r), ~UndoDevice(r)
        PROVE  /\ UNCHANGED <<deviceVars, lateKeys>> /\ keys' \subseteq keys
               /\ \E step \in EnrollSteps \ {"issue", "token", "cleanKey"} :
                    /\ Goto(r, step)
                    /\ step \in ForwardSteps \cup UndoSteps
                         => epc[r] \in ForwardSteps \cup UndoSteps \/ r \notin devices
                    /\ step \in BeforeRow => epc[r] \in BeforeRow
    BY <1>1, <1>2, <2>6 DEF EnrollStep, EnrollSteps, ForwardSteps, UndoSteps, Answered, AfterUndo,
     ReadCode, SeatCheck, ClaimCode, ClaimCodeFails, CreateDeviceFails, IssueKeyRefused,
     CleanUncertainKey, CleanUncertainKeyFails, CreateTokenFails, AuditEnroll,
     AuditEnrollFails, ReserveNothing, Reserve, ReserveFails, ReadEnrollKey,
     ReadEnrollKeyFails, Unreserve, UnreserveFails, Register, RegisterUncertain, CleanDesk,
     CleanDeskFails, Finalize, FinalizeFails, UndoDesk, UndoDeskFails, UndoKey,
     UndoKeyFails, UndoDeviceFails, UndoCode, UndoCodeFails, UndoAudit, UndoAuditFails
  <2>7. QED
    BY <1>1, <2>1, <2>2, <2>3, <2>4, <2>5, <2>6
<1>3. ASSUME NEW r \in Requests, ExecuteLateKey(r) PROVE RevokeInv'
  BY <1>1, <1>3 DEF ExecuteLateKey
<1>4. ASSUME NEW v \in Admins, NEW d \in Requests, RevokeStart(v, d) PROVE RevokeInv'
  BY <1>1, <1>4 DEF RevokeStart
<1>5. ASSUME NEW v \in Admins, RevokeProceeds(v) PROVE RevokeInv'
  <2>1. CASE RevokeIntent(v)
    BY <1>1, <2>1 DEF RevokeIntent
  <2>2. CASE RevokeReread(v)
    BY <1>1, <2>2 DEF RevokeReread
  <2>3. CASE RevokeReadTokens(v)
    BY <1>1, <2>3 DEF RevokeReadTokens, AfterKeys
  <2>4. CASE RevokeGatewayKey(v)
    BY <1>1, <2>4 DEF RevokeGatewayKey, AfterKeys
  <2>5. CASE RevokeGatewayKeyFails(v)
    BY <1>1, <2>5 DEF RevokeGatewayKeyFails
  <2>6. CASE RevokeResolve(v) \/ RevokeDesk(v)
    BY <1>1, <2>6 DEF RevokeResolve, RevokeDesk
  <2>7. CASE \/ RevokeIntentFails(v) \/ RevokeReadFails(v) \/ RevokeResolveFails(v)
             \/ RevokeDeskFails(v) \/ RevokeCompleteFails(v)
    BY <1>1, <2>7 DEF RevokeIntentFails, RevokeReadFails, RevokeResolveFails, RevokeDeskFails, RevokeCompleteFails
  <2>8. CASE RevokeComplete(v)
    BY <1>1, <2>8 DEF RevokeComplete
  <2> HIDE DEF RevokeInv
  <2>9. QED
    BY <1>5, <2>1, <2>2, <2>3, <2>4, <2>5, <2>6, <2>7, <2>8 DEF RevokeProceeds
<1>6. CASE Crash
  BY <1>1, <1>6 DEF Crash, Running, ForwardSteps, UndoSteps
<1>7. ASSUME UNCHANGED <<deviceVars, epc, keys, lateKeys, apc, aDevice, racing>> PROVE RevokeInv'
  BY <1>7
<1>8. QED
  BY <1>2, <1>3, <1>4, <1>5, <1>6, <1>7, BindingFrame
  DEF Next, ExecuteLateRegister, vars

\* The revocation invariant holds in every behaviour.
THEOREM RevokeInvariant == Spec => []RevokeInv
<1>1. QED
  BY TypeInvariant, RevokeInit, RevokeStep, PTL DEF Spec

\* From the intent transaction on no token of the device is usable, in every interleaving in which
\* the revocation did not overtake the device's own enrollment.
THEOREM RevocationClosesAccess == Spec => []RevokedIsClosed
<1>1. RevokeInv => RevokedIsClosed
  BY DEF RevokeInv
<1>2. QED
  BY <1>1, RevokeInvariant, PTL

-----------------------------------------------------------------------------
(***************************************************************************)
(* Desk installations.                                                     *)
(***************************************************************************)

\* Initially nothing is installed.
LEMMA DeskInit == Init => DeskInv
  BY DEF Init, ControlInit, Unenrolled, Unbound, DeskInv, NoOrphanInstallation, TargetSteps, BeforeRegister, BeforeRow,
     AfterRead

\* The reservation puts an installation on record before it can exist, and the record goes only
\* with the installation.
LEMMA DeskStep == TypeInv /\ RevokeInv /\ DeskInv /\ [Next]_vars => DeskInv'
<1> SUFFICES ASSUME TypeInv, RevokeInv, DeskInv, [Next]_vars PROVE DeskInv'
  OBVIOUS
<1> USE NoneIsFresh DEF DeskInv, NoOrphanInstallation, AfterRead
<1>1. /\ epc \in [Requests -> EnrollSteps] /\ devices \subseteq Requests
      /\ installs \subseteq Requests \X Origins
      /\ revocationRequested \subseteq devices /\ revocationCompleted \subseteq devices
      /\ deskProvisioned \subseteq devices /\ deskCleanupPending \subseteq devices
      /\ deskOrigin \in [Requests -> Origins \cup {None}]
      /\ target \in [Requests -> Origins \cup {None}]
      /\ deskRevoked \subseteq Requests /\ lateRegisters \subseteq Requests
      /\ apc \in [Admins -> RevokeSteps] /\ aDevice \in [Admins -> Requests \cup {None}]
      /\ snapOrigin \in [Admins -> Origins \cup {None}]
      /\ \A r \in Requests : /\ epc[r] \in RowSteps => r \in devices
                             /\ r \in devices => epc[r] \notin BeforeRow
                             /\ epc[r] \in TargetSteps => target[r] \in Origins
                             /\ r \in lateRegisters => target[r] \in Origins
  BY DEF TypeInv, TypeOK, StepOK
<1>2. /\ \A d \in revocationRequested : Running(d) => d \in racing
      /\ \A v \in Admins :
           /\ apc[v] # "idle" => aDevice[v] \in Requests /\ epc[aDevice[v]] \notin BeforeRow
           /\ apc[v] \in AfterIntent /\ aDevice[v] \in devices => aDevice[v] \in revocationRequested
           /\ apc[v] \in AfterRead /\ aDevice[v] \notin racing => aDevice[v] \in devices
      /\ revocationCompleted \subseteq revocationRequested
  BY DEF RevokeInv
<1>3. ASSUME NEW r \in Requests, EnrollStep(r) PROVE DeskInv'
  <2> USE DEF ForwardSteps, UndoSteps, RowSteps, BeforeRow, BeforeRegister, TargetSteps, AfterIntent,
      Running
  <2>1. CASE Reserve(r)
    BY <1>1, <1>2, <2>1 DEF Reserve, ReservedOrigin
  <2>2. CASE Unreserve(r)
    BY <1>1, <1>2, <2>2 DEF Unreserve
  <2>3. CASE Register(r) \/ RegisterUncertain(r)
    BY <1>1, <1>2, <2>3 DEF Register, RegisterUncertain
  <2>4. CASE CleanDesk(r) \/ CleanDeskFails(r)
    BY <1>1, <1>2, <2>4 DEF CleanDesk, CleanDeskFails, DeskRevoke
  <2>5. CASE Finalize(r)
    BY <1>1, <1>2, <2>5 DEF Finalize
  <2>6. CASE UndoDesk(r) \/ UndoDeskFails(r)
    BY <1>1, <1>2, <2>6 DEF UndoDesk, UndoDeskFails, DeskRevoke
  <2>7. CASE UndoDevice(r)
    BY <1>1, <1>2, <2>7 DEF UndoDevice
  <2>8. CASE \/ \E b \in BOOLEAN : ReadCode(r, b) \/ SeatCheck(r, b)
             \/ ClaimCode(r) \/ ClaimCodeFails(r) \/ CreateDevice(r) \/ CreateDeviceFails(r)
    BY <1>1, <1>2, <2>8 DEF EnrollSteps, Answered, AfterUndo, ReadCode, SeatCheck, ClaimCode,
       ClaimCodeFails, CreateDevice, CreateDeviceFails
  <2>9. CASE IssueKey(r) \/ IssueKeyRefused(r) \/ IssueKeyUncertain(r) \/ CleanUncertainKey(r) \/
             CleanUncertainKeyFails(r)
    BY <1>1, <1>2, <2>9 DEF EnrollSteps, Answered, AfterUndo, IssueKey, IssueKeyRefused,
       IssueKeyUncertain, CleanUncertainKey, CleanUncertainKeyFails
  <2>10. CASE CreateToken(r) \/ CreateTokenFails(r) \/ AuditEnroll(r) \/ AuditEnrollFails(r)
    BY <1>1, <1>2, <2>10 DEF EnrollSteps, Answered, AfterUndo, CreateToken, CreateTokenFails,
       AuditEnroll, AuditEnrollFails
  <2>11. CASE ReserveNothing(r) \/ ReserveFails(r) \/ ReadEnrollKey(r) \/ ReadEnrollKeyFails(r) \/
             UnreserveFails(r) \/ FinalizeFails(r)
    BY <1>1, <1>2, <2>11 DEF EnrollSteps, Answered, AfterUndo, ReserveNothing, ReserveFails,
       ReadEnrollKey, ReadEnrollKeyFails, UnreserveFails, FinalizeFails
  <2>12. CASE UndoKey(r) \/ UndoKeyFails(r) \/ UndoDeviceFails(r) \/ UndoCode(r) \/
             UndoCodeFails(r) \/ UndoAudit(r) \/ UndoAuditFails(r)
    BY <1>1, <1>2, <2>12 DEF EnrollSteps, Answered, AfterUndo, UndoKey, UndoKeyFails,
       UndoDeviceFails, UndoCode, UndoCodeFails, UndoAudit, UndoAuditFails
  <2>13. QED
    BY <1>3, <2>1, <2>2, <2>3, <2>4, <2>5, <2>6, <2>7, <2>8, <2>9, <2>10, <2>11, <2>12 DEF EnrollStep
<1>4. ASSUME NEW r \in Requests, ExecuteLateRegister(r) PROVE DeskInv'
  BY <1>1, <1>2, <1>4 DEF ExecuteLateRegister
<1>5. ASSUME NEW v \in Admins, NEW d \in Requests, RevokeStart(v, d) PROVE DeskInv'
  BY <1>1, <1>2, <1>5 DEF RevokeStart
<1>6. ASSUME NEW v \in Admins, RevokeProceeds(v) PROVE DeskInv'
  <2>1. CASE RevokeIntent(v)
    BY <1>1, <1>2, <2>1 DEF RevokeIntent, Running, AfterIntent
  <2>2. CASE RevokeIntentFails(v)
    BY <1>1, <1>2, <2>2 DEF RevokeIntentFails
  <2>3. CASE RevokeReread(v)
    BY <1>1, <1>2, <2>3 DEF RevokeReread
  <2>4. CASE RevokeReadTokens(v)
    BY <1>1, <1>2, <2>4 DEF RevokeReadTokens, AfterKeys
  <2>5. CASE RevokeGatewayKey(v)
    BY <1>1, <1>2, <2>5 DEF RevokeGatewayKey, AfterKeys
  <2>6. CASE RevokeGatewayKeyFails(v)
    BY <1>1, <1>2, <2>6 DEF RevokeGatewayKeyFails
  <2>7. CASE RevokeResolve(v)
    BY <1>1, <1>2, <2>7 DEF RevokeResolve
  <2>8. CASE RevokeResolveFails(v)
    BY <1>1, <1>2, <2>8 DEF RevokeResolveFails
  <2>9. CASE RevokeDesk(v)
    BY <1>1, <1>2, <2>9 DEF RevokeDesk, DeskRevoke
  <2>10. CASE RevokeDeskFails(v)
    BY <1>1, <1>2, <2>10 DEF RevokeDeskFails, DeskRevoke
  <2>11. CASE RevokeComplete(v)
    BY <1>1, <1>2, <2>11 DEF RevokeComplete, AfterIntent, Running, TargetSteps, ForwardSteps,
       UndoSteps
  <2>12. CASE RevokeCompleteFails(v)
    BY <1>1, <1>2, <2>12 DEF RevokeCompleteFails
  <2>13. CASE RevokeReadFails(v)
    BY <1>1, <1>2, <2>13 DEF RevokeReadFails
  <2> HIDE DEF DeskInv
  <2>14. QED
    BY <1>6, <2>1, <2>2, <2>3, <2>4, <2>5, <2>6, <2>7, <2>8, <2>9, <2>10, <2>11, <2>12, <2>13
    DEF RevokeProceeds
<1>7. CASE Crash
  BY <1>1, <1>7 DEF Crash, Running, ForwardSteps, UndoSteps, BeforeRow, BeforeRegister, TargetSteps
<1>8. ASSUME UNCHANGED <<deviceVars, deskColumns, deskVars, lateRegisters, enrollVars, revokeVars,
                       racing>>
      PROVE DeskInv'
  BY <1>8
<1>9. QED
  BY <1>3, <1>4, <1>5, <1>6, <1>7, <1>8, BindingFrame
  DEF Next, ExecuteLateKey, vars

\* The Desk invariant holds in every behaviour.
THEOREM DeskInvariant == Spec => []DeskInv
<1>1. QED
  BY TypeInvariant, RevokeInvariant, DeskInit, DeskStep, PTL DEF Spec

\* Every live installation is on record at its device row, across faults and crashes.
THEOREM InstallationsAreOnRecord == Spec => []NoOrphanInstallation
<1>1. DeskInv => NoOrphanInstallation
  BY DEF DeskInv, NoOrphanInstallation
<1>2. QED
  BY <1>1, DeskInvariant, PTL

\* revocationCompletedAt is written only when the tokens are revoked, the keys of the token rows
\* are deleted and no Desk column is left, and this stays so, also when an abandoned request is
\* executed later; without such requests no installation is left either.
THEOREM CompletionRevokes == Spec => [](CompletedIsRevoked /\ CompletedIsUninstalled)
<1>1. RevokeInv /\ DeskInv => CompletedIsRevoked /\ CompletedIsUninstalled
  BY DEF RevokeInv, RevokedIsClosed, DeskInv, CompletedIsRevoked, CompletedIsUninstalled
<1>2. QED
  BY <1>1, RevokeInvariant, DeskInvariant, PTL

-----------------------------------------------------------------------------
(***************************************************************************)
(* The managed Desk binding.                                               *)
(***************************************************************************)

\* No step of an enrollment or a revocation touches the binding or its mutations.
LEMMA BindingUntouched ==
  ASSUME Next, \A p \in BindingOps : ~BindingStep(p), ~Crash
  PROVE  UNCHANGED <<bindingVars, opVars, probed>>
  BY EnrollFrame, RevokeFrame DEF Next, ExecuteLateKey, ExecuteLateRegister, RevokeStart

\* Initially there is no binding.
LEMMA BindingInit == Init => BindingInv
  BY NoneIsFresh DEF Init, ControlInit, Unenrolled, Unbound, BindingInv, ActiveIsVerified

\* A reference enters the row with the transaction of the call that stored it and is removed only
\* by the call that has replaced it; a verification acts on the version it probed.
LEMMA BindingInvStep == TypeInv /\ BindingInv /\ [Next]_vars => BindingInv'
<1> SUFFICES ASSUME TypeInv, BindingInv, [Next]_vars PROVE BindingInv'
  OBVIOUS
<1> USE NoneIsFresh DEF BindingInv, ActiveIsVerified
<1>1. /\ bindingStatus \in Statuses /\ bindingCredential \in BindingOps \cup {None}
      /\ configVersion \in Nat /\ secrets \subseteq BindingOps
      /\ bpc \in [BindingOps -> OpSteps]
      /\ opCredential \in [BindingOps -> BindingOps \cup {None}]
      /\ opVersion \in [BindingOps -> Nat]
      /\ opOrigin \in [BindingOps -> Origins \cup {None}]
  BY DEF TypeInv, TypeOK
<1>2. ASSUME NEW p \in BindingOps, BindingStep(p) PROVE BindingInv'
  <2>1. CASE \E o \in Origins, withCredential \in BOOLEAN : UpsertStart(p, o, withCredential)
    BY <1>1, <2>1 DEF UpsertStart
  <2>2. CASE UpsertCommit(p)
    BY <1>1, <2>2 DEF UpsertCommit
  <2>3. CASE UpsertRejected(p)
    BY <1>1, <2>3 DEF UpsertRejected
  <2>4. CASE RemoveCredential(p)
    BY <1>1, <2>4 DEF RemoveCredential
  <2>5. CASE RemoveCredentialFails(p)
    BY <1>1, <2>5 DEF RemoveCredentialFails
  <2>6. CASE VerifyStart(p)
    BY <1>1, <2>6 DEF VerifyStart
  <2>7. CASE \E healthy \in HealthAnswers : VerifyProbe(p, healthy)
    BY <1>1, <2>7 DEF VerifyProbe
  <2>8. CASE VerifyCommit(p)
    BY <1>1, <2>8 DEF VerifyCommit
  <2>9. CASE VerifyCommitFails(p)
    BY <1>1, <2>9 DEF VerifyCommitFails
  <2>10. CASE Disable(p)
    BY <1>1, <2>10 DEF Disable
  <2> HIDE DEF BindingInv
  <2>11. QED
    BY <1>2, <2>1, <2>2, <2>3, <2>4, <2>5, <2>6, <2>7, <2>8, <2>9, <2>10 DEF BindingStep
<1>3. CASE Crash
  BY <1>1, <1>3 DEF Crash
<1>4. ASSUME UNCHANGED <<bindingVars, opVars, probed>> PROVE BindingInv'
  BY <1>4
<1> HIDE DEF BindingInv
<1>5. QED
  BY <1>2, <1>3, <1>4, BindingUntouched DEF vars

\* The binding invariant holds in every behaviour.
THEOREM BindingInvariant == Spec => []BindingInv
<1>1. QED
  BY TypeInvariant, BindingInit, BindingInvStep, PTL DEF Spec

\* The credential the binding names is always in the secret store, although it is written before
\* and the replaced one removed after the lock.
THEOREM BindingCredentialIsStored == Spec => []CredentialIsStored
<1>1. BindingInv => CredentialIsStored
  BY DEF BindingInv, CredentialIsStored
<1>2. QED
  BY <1>1, BindingInvariant, PTL

\* An ACTIVE binding was probed healthy in its current version.
THEOREM ActiveBindingIsVerified == Spec => []ActiveIsVerified
<1>1. BindingInv => ActiveIsVerified
  BY DEF BindingInv
<1>2. QED
  BY <1>1, BindingInvariant, PTL

-----------------------------------------------------------------------------
(***************************************************************************)
(* The fence between reservations and binding mutations.                   *)
(***************************************************************************)

\* A device gets its provenance from the binding as it is, and the binding keeps its row, origin
\* and credential while any device has provenance.
LEMMA FenceStep ==
  TypeInv /\ DeskInv /\ BindingInv /\ BindingInv' /\ ProvenanceFence /\ [Next]_vars => ProvenanceFence'
<1> SUFFICES ASSUME TypeInv, DeskInv, BindingInv, BindingInv', ProvenanceFence, [Next]_vars
             PROVE  ProvenanceFence'
  OBVIOUS
<1> USE NoneIsFresh DEF ProvenanceFence, RevocationTargetResolves
<1>1. /\ epc \in [Requests -> EnrollSteps] /\ devices \subseteq Requests
      /\ deskProvisioned \subseteq devices /\ deskCleanupPending \subseteq devices
      /\ deskOrigin \in [Requests -> Origins \cup {None}]
      /\ bindingStatus \in Statuses /\ secrets \subseteq BindingOps
      /\ aDevice \in [Admins -> Requests \cup {None}]
  BY DEF TypeInv, TypeOK
<1>2. /\ bindingCredential # None => bindingCredential \in secrets
      /\ bindingCredential' # None => bindingCredential' \in secrets'
  BY DEF BindingInv
<1>3. ASSUME NEW r \in Requests, EnrollStep(r) PROVE ProvenanceFence'
  <2>1. UNCHANGED <<bindingVars, racing>>
    BY <1>3, EnrollFrame
  <2>2. CASE Reserve(r)
    BY <1>1, <1>2, <2>1, <2>2 DEF Reserve, ReservedOrigin, Statuses
  <2>3. CASE Finalize(r)
    BY <1>1, <2>1, <2>3 DEF Finalize, DeskInv, TargetSteps
  <2>4. ASSUME ~Reserve(r), ~Finalize(r)
        PROVE  /\ deskProvisioned' \subseteq deskProvisioned
               /\ deskCleanupPending' \subseteq deskCleanupPending
               /\ \A d \in deskProvisioned' \cup deskCleanupPending' : deskOrigin'[d] = deskOrigin[d]
    BY <1>1, <1>3, <2>4 DEF EnrollStep,
     ReadCode, SeatCheck, ClaimCode, ClaimCodeFails, CreateDevice, CreateDeviceFails,
     IssueKey, IssueKeyRefused, IssueKeyUncertain, CleanUncertainKey,
     CleanUncertainKeyFails, CreateToken, CreateTokenFails, AuditEnroll, AuditEnrollFails,
     ReserveNothing, ReserveFails, ReadEnrollKey, ReadEnrollKeyFails, Unreserve,
     UnreserveFails, Register, RegisterUncertain, CleanDesk, CleanDeskFails, FinalizeFails,
     UndoDesk, UndoDeskFails, UndoKey, UndoKeyFails, UndoDevice, UndoDeviceFails, UndoCode,
     UndoCodeFails, UndoAudit, UndoAuditFails
  <2>5. QED
    BY <2>1, <2>2, <2>3, <2>4
<1>4. ASSUME NEW v \in Admins, RevokeProceeds(v) PROVE ProvenanceFence'
  <2>1. UNCHANGED bindingVars /\ racing \subseteq racing'
    BY <1>4, RevokeFrame DEF RevokeProceeds, RevokeIntent, RevokeIntentFails, RevokeReread,
       RevokeReadTokens, RevokeReadFails, RevokeGatewayKey, RevokeGatewayKeyFails, RevokeResolve, RevokeResolveFails,
       RevokeDesk, RevokeDeskFails, RevokeComplete, RevokeCompleteFails
  <2>2. CASE RevokeComplete(v)
    BY <1>1, <2>1, <2>2 DEF RevokeComplete
  <2>3. ASSUME ~RevokeComplete(v) PROVE UNCHANGED deskColumns
    BY <1>4, <2>3 DEF RevokeProceeds, RevokeIntent, RevokeIntentFails, RevokeReread,
       RevokeReadTokens, RevokeReadFails, RevokeGatewayKey, RevokeGatewayKeyFails, RevokeResolve, RevokeResolveFails,
       RevokeDesk, RevokeDeskFails, RevokeCompleteFails
  <2>4. QED
    BY <2>1, <2>2, <2>3
<1>5. ASSUME NEW p \in BindingOps, BindingStep(p) PROVE ProvenanceFence'
  <2>1. UNCHANGED <<deskColumns, racing>>
    BY <1>5, BindingFrame
  <2>2. CASE HasProvisionedDeskDevices
    <3>1. /\ UNCHANGED <<bindingOrigin, bindingCredential>>
          /\ (bindingStatus' = "NONE") <=> (bindingStatus = "NONE")
      BY <1>1, <1>5, <2>2 DEF BindingInv, BindingStep, UpsertStart, UpsertCommit, UpsertRejected,
         RemoveCredential, RemoveCredentialFails, VerifyStart, VerifyProbe, VerifyCommit,
         VerifyCommitFails, Disable
    <3>2. QED
      BY <1>2, <2>1, <3>1
  <2>3. CASE ~HasProvisionedDeskDevices
    BY <2>1, <2>3 DEF HasProvisionedDeskDevices
  <2>4. QED
    BY <2>2, <2>3
<1>6. ASSUME UNCHANGED <<deskColumns, bindingVars, racing>> PROVE ProvenanceFence'
  BY <1>6
<1>7. QED
  BY <1>3, <1>4, <1>5, <1>6 DEF Next, ExecuteLateKey, ExecuteLateRegister, RevokeStart, Crash, vars

\* Whatever binding mutations interleave with enrollments and revocations, a device row with Desk
\* provenance can still be revoked: its recorded origin is the one the binding (or, without a
\* row, the legacy mapping) resolves to.
THEOREM RevocationTargetIsKept == Spec => []ProvenanceFence
<1>1. Init => ProvenanceFence
  BY DEF Init, ControlInit, Unenrolled, Unbound, ProvenanceFence
<1>2. QED
  BY <1>1, FenceStep, TypeInvariant, DeskInvariant, BindingInvariant, PTL DEF Spec

-----------------------------------------------------------------------------
(***************************************************************************)
(* What the try block has built.                                           *)
(***************************************************************************)

\* Initially nothing is built.
LEMMA ForwardInit == Init => ForwardInv
  BY DEF Init, ControlInit, Unenrolled, Unbound, ForwardInv, KeySteps, TokenSteps

\* Each step of the try block adds its piece; only the request's own catch block or a revocation
\* whose intent is committed takes a piece away.
LEMMA ForwardStep == TypeInv /\ RevokeInv /\ ForwardInv /\ [Next]_vars => ForwardInv'
<1> SUFFICES ASSUME TypeInv, RevokeInv, ForwardInv, [Next]_vars PROVE ForwardInv'
  OBVIOUS
<1> USE NoneIsFresh DEF ForwardInv, KeySteps, TokenSteps, NotPending, BeforeRow
<1>1. /\ epc \in [Requests -> EnrollSteps] /\ devices \subseteq Requests
      /\ tokens \subseteq devices /\ tokenRevoked \subseteq tokens
      /\ revocationRequested \subseteq devices
      /\ deskProvisioned \subseteq devices /\ deskCleanupPending \subseteq devices
      /\ deskOrigin \in [Requests -> Origins \cup {None}]
      /\ target \in [Requests -> Origins \cup {None}]
      /\ apc \in [Admins -> RevokeSteps] /\ aDevice \in [Admins -> Requests \cup {None}]
      /\ \A r \in Requests : epc[r] \in RowSteps => r \in devices
      /\ \A r \in Requests : r \in devices => epc[r] \notin BeforeRow
  BY DEF TypeInv, TypeOK, StepOK
<1>2. \A v \in Admins :
        apc[v] \in AfterIntent /\ aDevice[v] \in devices => aDevice[v] \in revocationRequested
  BY DEF RevokeInv
<1>3. ASSUME NEW r \in Requests, EnrollStep(r) PROVE ForwardInv'
  <2>1. CASE CreateDevice(r)
    BY <1>1, <2>1 DEF CreateDevice
  <2>2. CASE IssueKey(r) \/ IssueKeyUncertain(r)
    BY <1>1, <2>2 DEF IssueKey, IssueKeyUncertain
  <2>3. CASE CleanUncertainKey(r) \/ CleanUncertainKeyFails(r)
    BY <1>1, <2>3 DEF CleanUncertainKey, CleanUncertainKeyFails
  <2>4. CASE CreateToken(r)
    BY <1>1, <2>4 DEF CreateToken
  <2>5. CASE AuditEnroll(r)
    BY <1>1, <2>5 DEF AuditEnroll
  <2>6. CASE ReserveNothing(r)
    BY <1>1, <2>6 DEF ReserveNothing
  <2>7. CASE Reserve(r)
    BY <1>1, <2>7 DEF Reserve, ReservedOrigin
  <2>8. CASE Unreserve(r)
    BY <1>1, <2>8 DEF Unreserve
  <2>9. CASE Register(r)
    BY <1>1, <2>9 DEF Register
  <2>10. CASE RegisterUncertain(r)
    BY <1>1, <2>10 DEF RegisterUncertain
  <2>11. CASE CleanDesk(r) \/ CleanDeskFails(r)
    BY <1>1, <2>11 DEF CleanDesk, CleanDeskFails, DeskRevoke
  <2>12. CASE Finalize(r)
    BY <1>1, <2>12 DEF Finalize, RowSteps
  <2>13. CASE UndoDesk(r) \/ UndoDeskFails(r)
    BY <1>1, <2>13 DEF UndoDesk, UndoDeskFails, DeskRevoke
  <2>14. CASE UndoKey(r) \/ UndoKeyFails(r)
    BY <1>1, <2>14 DEF UndoKey, UndoKeyFails, AfterUndo
  <2>15. CASE UndoDevice(r)
    BY <1>1, <2>15 DEF UndoDevice
  <2>16. CASE \/ \E b \in BOOLEAN : ReadCode(r, b) \/ SeatCheck(r, b)
              \/ ClaimCode(r) \/ ClaimCodeFails(r) \/ CreateDeviceFails(r) \/ IssueKeyRefused(r)
    BY <1>1, <2>16 DEF ReadCode, SeatCheck, ClaimCode, ClaimCodeFails, CreateDeviceFails, IssueKeyRefused
  <2>17. CASE CreateTokenFails(r) \/ AuditEnrollFails(r) \/ ReserveFails(r) \/ UnreserveFails(r)
    BY <1>1, <2>17 DEF CreateTokenFails, AuditEnrollFails, ReserveFails, UnreserveFails
  <2>18. CASE ReadEnrollKey(r) \/ ReadEnrollKeyFails(r) \/ FinalizeFails(r)
    BY <1>1, <2>18 DEF ReadEnrollKey, ReadEnrollKeyFails, FinalizeFails
  <2>19. CASE UndoDeviceFails(r) \/ UndoCode(r) \/ UndoCodeFails(r) \/ UndoAudit(r) \/ UndoAuditFails(r)
    BY <1>1, <2>19 DEF UndoDeviceFails, UndoCode, UndoCodeFails, UndoAudit, UndoAuditFails, AfterUndo
  <2> HIDE DEF ForwardInv
  <2>20. QED
    BY <1>3, <2>1, <2>2, <2>3, <2>4, <2>5, <2>6, <2>7, <2>8, <2>9, <2>10, <2>11, <2>12, <2>13, <2>14,
       <2>15, <2>16, <2>17, <2>18, <2>19 DEF EnrollStep
<1>4. ASSUME NEW r \in Requests, ExecuteLateKey(r) \/ ExecuteLateRegister(r) PROVE ForwardInv'
  BY <1>1, <1>4 DEF ExecuteLateKey, ExecuteLateRegister
<1>5. ASSUME NEW v \in Admins, RevokeProceeds(v) PROVE ForwardInv'
  <2>1. CASE RevokeIntent(v)
    BY <1>1, <2>1 DEF RevokeIntent
  <2>2. CASE RevokeGatewayKey(v) \/ RevokeGatewayKeyFails(v)
    BY <1>1, <1>2, <2>2 DEF RevokeGatewayKey, RevokeGatewayKeyFails, AfterIntent, RowSteps
  <2>3. CASE RevokeDesk(v) \/ RevokeDeskFails(v)
    BY <1>1, <1>2, <2>3 DEF RevokeDesk, RevokeDeskFails, DeskRevoke, AfterIntent, RowSteps
  <2>4. CASE RevokeComplete(v)
    BY <1>1, <1>2, <2>4 DEF RevokeComplete, AfterIntent
  <2>5. ASSUME ~RevokeIntent(v), ~RevokeGatewayKey(v), ~RevokeGatewayKeyFails(v), ~RevokeDesk(v),
               ~RevokeDeskFails(v), ~RevokeComplete(v)
        PROVE  UNCHANGED <<dbVars, remoteVars, enrollVars>>
    BY <1>5, <2>5 DEF RevokeProceeds, RevokeIntentFails, RevokeReread, RevokeReadTokens, RevokeReadFails,
       RevokeResolve, RevokeResolveFails, RevokeCompleteFails
  <2>6. QED
    BY <2>1, <2>2, <2>3, <2>4, <2>5
<1>6. CASE Crash
  BY <1>1, <1>6 DEF Crash, Running, ForwardSteps, UndoSteps
<1>7. ASSUME UNCHANGED <<deviceVars, deskColumns, enrollAudited, keys, installs, epc, target>>
      PROVE  ForwardInv'
  BY <1>7
<1>8. QED
  BY <1>3, <1>4, <1>5, <1>6, <1>7, BindingFrame DEF Next, RevokeStart, vars

\* What was built stands in every behaviour.
THEOREM ForwardInvariant == Spec => []ForwardInv
<1>1. QED
  BY TypeInvariant, RevokeInvariant, ForwardInit, ForwardStep, PTL DEF Spec

-----------------------------------------------------------------------------
(***************************************************************************)
(* What the catch block has undone.                                        *)
(***************************************************************************)

\* Initially nothing is undone.
LEMMA UndoInit == Init => UndoInv
  BY DEF Init, ControlInit, Unenrolled, Unbound, UndoInv, BeforeRow, UndoSteps

\* Each flag is set by the step that has done what it says, and nothing restores what was undone:
\* a key delivered late belongs to a request that never reached its audit entry.
LEMMA UndoStep == TypeInv /\ ClaimInv /\ DeskInv /\ UndoInv /\ [Next]_vars => UndoInv'
<1> SUFFICES ASSUME TypeInv, ClaimInv, DeskInv, UndoInv, [Next]_vars PROVE UndoInv'
  OBVIOUS
<1> USE NoneIsFresh DEF UndoInv, UndoSteps, BeforeRow
<1>1. /\ epc \in [Requests -> EnrollSteps] /\ devices \subseteq Requests /\ holds \subseteq Requests
      /\ enrollAudited \subseteq Requests /\ rollbackAudited \subseteq Requests
      /\ lateKeys \subseteq Requests /\ keys \subseteq Requests
      /\ gatewayRevoked \subseteq Requests /\ deskRevoked \subseteq Requests
      /\ deviceRemoved \subseteq Requests /\ codeRestored \subseteq Requests
      /\ cleanupReported \subseteq Requests
      /\ \A r \in Requests : epc[r] \in TargetSteps /\ r \notin racing => r \in deskCleanupPending
      /\ \A r \in Requests : /\ epc[r] \in RowSteps => r \in devices
                             /\ r \in devices => epc[r] \notin BeforeRow
                             /\ epc[r] = "undoCode" => r \notin devices
                             /\ epc[r] \in HeldSteps => r \in holds
                             /\ epc[r] \in {"undoDevice", "undoCode"} => r \in deskRevoked
      /\ \A r \in holds : usedAt[CodeOf[r]] = Stamp[r]
  BY DEF TypeInv, TypeOK, StepOK, ClaimInv, ClaimExclusive, DeskInv
<1>2. ASSUME NEW r \in Requests, EnrollStep(r) PROVE UndoInv'
  <2> USE DEF RowSteps, HeldSteps, TargetSteps
  <2>1. CASE \E b \in BOOLEAN : ReadCode(r, b) \/ SeatCheck(r, b)
    BY <1>1, <2>1 DEF ReadCode, SeatCheck
  <2>2. CASE ClaimCode(r) \/ ClaimCodeFails(r)
    BY <1>1, <2>2 DEF ClaimCode, ClaimCodeFails
  <2>3. CASE CreateDevice(r)
    BY <1>1, <2>3 DEF CreateDevice
  <2>4. CASE CreateDeviceFails(r)
    BY <1>1, <2>4 DEF CreateDeviceFails
  <2>5. CASE IssueKey(r) \/ IssueKeyRefused(r)
    BY <1>1, <2>5 DEF IssueKey, IssueKeyRefused
  <2>6. CASE IssueKeyUncertain(r)
    BY <1>1, <2>6 DEF IssueKeyUncertain
  <2>7. CASE CleanUncertainKey(r) \/ CleanUncertainKeyFails(r)
    BY <1>1, <2>7 DEF CleanUncertainKey, CleanUncertainKeyFails
  <2>8. CASE CreateToken(r) \/ CreateTokenFails(r)
    BY <1>1, <2>8 DEF CreateToken, CreateTokenFails
  <2>9. CASE AuditEnroll(r) \/ AuditEnrollFails(r)
    BY <1>1, <2>9 DEF AuditEnroll, AuditEnrollFails
  <2>10. CASE ReserveNothing(r) \/ Reserve(r) \/ ReserveFails(r)
    BY <1>1, <2>10 DEF ReserveNothing, Reserve, ReserveFails
  <2>11. CASE ReadEnrollKey(r) \/ ReadEnrollKeyFails(r) \/ Unreserve(r) \/ UnreserveFails(r)
    BY <1>1, <2>11 DEF ReadEnrollKey, ReadEnrollKeyFails, Unreserve, UnreserveFails
  <2>12. CASE Register(r) \/ RegisterUncertain(r) \/ CleanDesk(r) \/ CleanDeskFails(r)
    BY <1>1, <2>12 DEF Register, RegisterUncertain, CleanDesk, CleanDeskFails
  <2>13. CASE Finalize(r) \/ FinalizeFails(r)
    BY <1>1, <2>13 DEF Finalize, FinalizeFails
  <2>14. CASE UndoDesk(r) \/ UndoDeskFails(r)
    BY <1>1, <2>14 DEF UndoDesk, UndoDeskFails
  <2>15. CASE UndoKey(r)
    BY <1>1, <2>15 DEF UndoKey, AfterUndo
  <2>16. CASE UndoKeyFails(r)
    BY <1>1, <2>16 DEF UndoKeyFails, AfterUndo
  <2>17. CASE UndoDevice(r)
    BY <1>1, <2>17 DEF UndoDevice
  <2>18. CASE UndoDeviceFails(r)
    BY <1>1, <2>18 DEF UndoDeviceFails, AfterUndo
  <2>19. CASE UndoCode(r)
    BY <1>1, <2>19 DEF UndoCode, AfterUndo
  <2>20. CASE UndoCodeFails(r)
    BY <1>1, <2>20 DEF UndoCodeFails, AfterUndo
  <2>21. CASE UndoAudit(r) \/ UndoAuditFails(r)
    BY <1>1, <2>21 DEF UndoAudit, UndoAuditFails
  <2> HIDE DEF UndoInv
  <2>22. QED
    BY <1>2, <2>1, <2>2, <2>3, <2>4, <2>5, <2>6, <2>7, <2>8, <2>9, <2>10, <2>11, <2>12, <2>13, <2>14,
       <2>15, <2>16, <2>17, <2>18, <2>19, <2>20, <2>21 DEF EnrollStep
<1>3. ASSUME NEW r \in Requests, ExecuteLateKey(r) PROVE UndoInv'
  BY <1>1, <1>3 DEF ExecuteLateKey
<1>4. ASSUME NEW v \in Admins, RevokeProceeds(v) PROVE UndoInv'
  <2>1. keys' \subseteq keys
    BY <1>4 DEF RevokeProceeds, RevokeIntent, RevokeIntentFails, RevokeReread, RevokeReadTokens,
       RevokeReadFails, RevokeGatewayKey, RevokeGatewayKeyFails, RevokeResolve, RevokeResolveFails,
       RevokeDesk, RevokeDeskFails, RevokeComplete, RevokeCompleteFails
  <2>2. deskCleanupPending \cup revocationCompleted \cup racing
          \subseteq (deskCleanupPending \cup revocationCompleted \cup racing)'
    BY <1>4 DEF RevokeProceeds, RevokeIntent, RevokeIntentFails, RevokeReread, RevokeReadTokens,
       RevokeReadFails, RevokeGatewayKey, RevokeGatewayKeyFails, RevokeResolve, RevokeResolveFails,
       RevokeDesk, RevokeDeskFails, RevokeComplete, RevokeCompleteFails
  <2>3. QED
    BY <1>4, <2>1, <2>2, RevokeFrame
<1>5. CASE Crash
  BY <1>1, <1>5 DEF Crash, Running, ForwardSteps
<1>6. ASSUME UNCHANGED <<devices, auditVars, keys, lateKeys, enrollVars, holds, racing,
                         deskCleanupPending, revocationCompleted>> PROVE UndoInv'
  BY <1>6
<1> HIDE DEF UndoInv
<1>7. QED
  BY <1>2, <1>3, <1>4, <1>5, <1>6, BindingFrame DEF Next, ExecuteLateRegister, RevokeStart, vars

\* The catch block's flags are right in every behaviour.
THEOREM UndoInvariant == Spec => []UndoInv
<1>1. QED
  BY TypeInvariant, ClaimInvariant, DeskInvariant, UndoInit, UndoStep, PTL DEF Spec

-----------------------------------------------------------------------------
(***************************************************************************)
(* The two ends of an enrollment.                                          *)
(***************************************************************************)

\* An accepted enrollment stays usable until somebody revokes the device, whatever other requests,
\* binding changes, faults, crashes and late deliveries happen around it.
THEOREM AcceptedStaysUsable == Spec => []SuccessIsUsable
<1>1. TypeInv /\ ClaimInv /\ ForwardInv /\ UndoInv => SuccessIsUsable
  BY DEF TypeInv, StepOK, ClaimInv, ForwardInv, UndoInv, SuccessIsUsable, HeldSteps, RowSteps,
     TokenSteps, KeySteps, NotPending
<1>2. QED
  BY <1>1, TypeInvariant, ClaimInvariant, ForwardInvariant, UndoInvariant, PTL

\* A code that was given back has left no row, token or claim behind and, as long as no remote
\* system executes an abandoned request, no installation and no key the adapter did not report.
THEOREM RestoredCodesAreClean == Spec => []RestoredCodeIsClean
<1>1. TypeInv /\ KeyInv /\ DeskInv /\ UndoInv => RestoredCodeIsClean
  BY DEF TypeInv, TypeOK, KeyInv, DeskInv, UndoInv, RestoredCodeIsClean
<1>2. QED
  BY <1>1, TypeInvariant, KeyInvariant, DeskInvariant, UndoInvariant, PTL

\* What the five flags of the rollback audit row say about the key, the installation, the pending
\* cleanup, the device row and the code is so, and stays so, except that a row which reports the
\* device removed may report a cleanup that has been done.
THEOREM RollbacksAreTruthful == Spec => []RollbackIsTruthful
<1>1. TypeInv /\ DeskInv /\ UndoInv => RollbackIsTruthful
  BY DEF TypeInv, TypeOK, DeskInv, UndoInv, RollbackIsTruthful, BeforeRow
<1>2. QED
  BY <1>1, TypeInvariant, DeskInvariant, UndoInvariant, PTL
=============================================================================
