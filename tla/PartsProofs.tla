----------------------------- MODULE PartsProofs -----------------------------
(***************************************************************************)
(* The types of the parts side by side, for any scopes and instances: each   *)
(* part starts as its own specification does, and a step of the whole is one *)
(* of each part or leaves that part as it is.                                *)
(***************************************************************************)
EXTENDS MCParts, PageProofs, VaultProofs

PartsIInv ==
  ContentIInv /\ PageTypes /\ PopupIInv /\ OnboardingTypeOK /\ LockIInv

(* Each part starts in its invariant.                                        *)
LEMMA PartsInit == Init => PartsIInv
<1> SUFFICES ASSUME Init PROVE PartsIInv
  OBVIOUS
<1>1. ContentInit /\ PopupInit /\ OnboardingInit /\ LockInit
  BY DEF Init
<1> QED BY <1>1, ContentInitInv, PageTypesInit, PopupInitInv, OnboardingInitTypes, LockInitInv
        DEF PartsIInv

(* A step of the whole, seen from each part.                                 *)
LEMMA PartsSteps ==
  ASSUME [Next]_vars
  PROVE  /\ [ContentNext]_contentVars /\ [PopupNext]_popupVars
         /\ [OnboardingNext]_onboardingVars /\ [LockNext]_lockVars
BY DEF Next, vars

(* TypeOK of all the parts, for any instance of them.                        *)
THEOREM PartsTypes == Spec => []TypeOK
<1>1. PartsIInv /\ [Next]_vars => PartsIInv'
  <2> SUFFICES ASSUME PartsIInv, [Next]_vars PROVE PartsIInv'
    OBVIOUS
  <2> QED BY PartsSteps, ContentStep, PageTypesStep, PopupNextInv, OnboardingStepTypes, LockNextInv
          DEF PartsIInv
<1>2. PartsIInv => TypeOK
  BY ContentTyped DEF PartsIInv, PopupIInv, LockIInv, SafeLock, Locks, Lock, LockTypeOK, TypeOK
<1> QED BY <1>1, <1>2, PartsInit, PTL DEF Spec
=============================================================================
