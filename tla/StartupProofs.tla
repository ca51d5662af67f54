--------------------------- MODULE StartupProofs ---------------------------
(***************************************************************************)
(* Proofs about Startup for any number of pods, registration tokens and    *)
(* kills.                                                                  *)
(***************************************************************************)
EXTENDS Startup, TLAPS

\* A pod registers with a registration token, saves a token that Hydra gave
\* it, and runs with a persisted one; every persisted token is Hydra's.
Tokens ==
    /\ \A p \in Pod : pc[p] = "register" => config[p] # NoToken
    /\ \A p \in Pod : pc[p] \in {"create", "update"} => token[p] \in used
    /\ secret \in Token => secret \in used
    /\ RunsPersisted

IInv == TypeOK /\ Tokens

\* The pods' half of TypeOK.
PodTypes ==
    /\ pc \in [Pod -> PC] /\ verdict \in [Pod -> Verdict]
    /\ config \in [Pod -> 0..MaxGrants] /\ token \in [Pod -> 0..MaxGrants]

\* Nothing is registered, saved or running in an initial state.
LEMMA InitInvariant == Init => IInv
<1> SUFFICES ASSUME Init PROVE IInv
  OBVIOUS
<1>1. TypeOK
  <2>1. "down" \in PC /\ "none" \in Verdict /\ NoToken \in 0..MaxGrants
    BY StartupAssumption DEF PC, Verdict, NoToken
  <2>2. PodTypes
    BY <2>1 DEF Init, PodTypes
  <2>3. served \in BOOLEAN /\ grant \in 0..MaxGrants /\ kills \in 0..MaxKills
    BY StartupAssumption DEF Init
  <2>4. used \subseteq Token /\ secret \in Token \cup {Absent, NoToken}
    BY DEF Init
  <2>5. QED
    BY <2>2, <2>3, <2>4 DEF TypeOK, PodTypes
<1>2. Tokens
  <2>1. secret \notin Token
    BY StartupAssumption DEF Init, Token, NoToken, Absent
  <2>2. QED
    BY <2>1 DEF Init, Tokens, RunsPersisted
<1>3. QED
  BY <1>1, <1>2 DEF IInv

\* Going on to another step of main() keeps the types.
LEMMA GotoType ==
    ASSUME PodTypes, NEW p \in Pod, NEW step \in PC, Goto(p, step),
           token' \in [Pod -> 0..MaxGrants]
    PROVE  PodTypes'
BY DEF PodTypes, Goto

\* So does the exit of a process.
LEMMA ExitType ==
    ASSUME PodTypes, NEW p \in Pod, NEW v \in Verdict, Exit(p, v)
    PROVE  PodTypes'
<1>1. "down" \in PC /\ 0 \in 0..MaxGrants
  BY StartupAssumption DEF PC
<1>2. QED
  BY <1>1 DEF PodTypes, Exit, NoToken

\* Every step preserves the types: one step per action.
LEMMA TypeStep == ASSUME IInv, [Next]_vars PROVE TypeOK'
<1> USE StartupAssumption DEF TypeOK, clusterVars
<1>1. TypeOK /\ Tokens /\ PodTypes
  BY DEF IInv, PodTypes
<1>2. ASSUME PodTypes', served' \in BOOLEAN, grant' \in 0..MaxGrants, used' \subseteq Token,
             secret' \in Token \cup {Absent, NoToken}, kills' \in 0..MaxKills
      PROVE  TypeOK'
  BY <1>2 DEF PodTypes
<1>3. /\ \A p \in Pod : token[p] \in Token \cup {NoToken}
      /\ \A p \in Pod : config[p] # NoToken => config[p] \in Token
  BY <1>1 DEF PodTypes, Token, NoToken
<1>4. \A t \in Token \cup {NoToken} : t \in 0..MaxGrants
  BY DEF Token, NoToken
<1>5. ASSUME NEW p \in Pod, NEW v \in Verdict, Exit(p, v)
      PROVE  PodTypes'
  BY <1>1, <1>5, ExitType
<1>6. ASSUME NEW p \in Pod, NEW step \in PC, Goto(p, step), token' = token
      PROVE  PodTypes'
  BY <1>1, <1>6, GotoType DEF PodTypes
<1>7. ASSUME NEW p \in Pod, NEW step \in PC, Goto(p, step),
             NEW t \in 0..MaxGrants, token' = [token EXCEPT ![p] = t]
      PROVE  PodTypes'
  <2>1. token' \in [Pod -> 0..MaxGrants]
    BY <1>1, <1>7 DEF PodTypes
  <2>2. QED
    BY <1>1, <1>7, <2>1, GotoType
<1>8. /\ PC = {"down", "preflight", "load", "register", "create", "update", "run"}
      /\ Verdict = {"none", "knative missing", "error"}
  BY DEF PC, Verdict
<1>9. ASSUME NEW p \in Pod, Boot(p) PROVE TypeOK'
  <2>1. PodTypes'
    BY <1>1, <1>8, <1>9 DEF Boot, PodTypes
  <2>2. QED
    BY <1>1, <1>2, <1>9, <2>1 DEF Boot
<1>10. ASSUME NEW p \in Pod, PreflightPasses(p) PROVE TypeOK'
  BY <1>1, <1>2, <1>6, <1>8, <1>10 DEF PreflightPasses
<1>11. ASSUME NEW p \in Pod, PreflightFails(p) PROVE TypeOK'
  BY <1>1, <1>2, <1>5, <1>8, <1>11 DEF PreflightFails
<1>12. ASSUME NEW p \in Pod, LoadsToken(p) PROVE TypeOK'
  BY <1>1, <1>2, <1>4, <1>7, <1>8, <1>12 DEF LoadsToken
<1>13. ASSUME NEW p \in Pod, LoadsNothing(p) PROVE TypeOK'
  BY <1>1, <1>2, <1>6, <1>8, <1>13 DEF LoadsNothing
<1>14. ASSUME NEW p \in Pod, Register(p) PROVE TypeOK'
  <2>1. config[p] \in Token
    BY <1>1, <1>3, <1>14 DEF Register, Tokens
  <2>2. QED
    BY <1>1, <1>2, <1>4, <1>7, <1>8, <1>14, <2>1 DEF Register
<1>15. ASSUME NEW p \in Pod, RegisterUnheard(p) PROVE TypeOK'
  <2>1. config[p] \in Token
    BY <1>1, <1>3, <1>15 DEF RegisterUnheard, Tokens
  <2>2. QED
    BY <1>1, <1>2, <1>5, <1>8, <1>15, <2>1 DEF RegisterUnheard
<1>16. ASSUME NEW p \in Pod, SaveCreates(p) PROVE TypeOK'
  BY <1>1, <1>2, <1>3, <1>6, <1>8, <1>16 DEF SaveCreates
<1>17. ASSUME NEW p \in Pod, SaveFindsSecret(p) PROVE TypeOK'
  BY <1>1, <1>2, <1>6, <1>8, <1>17 DEF SaveFindsSecret
<1>18. ASSUME NEW p \in Pod, SaveUpdates(p) PROVE TypeOK'
  BY <1>1, <1>2, <1>3, <1>6, <1>8, <1>18 DEF SaveUpdates
<1>19. ASSUME NEW p \in Pod, Fatal(p) PROVE TypeOK'
  BY <1>1, <1>2, <1>3, <1>5, <1>8, <1>19 DEF Fatal
<1>20. ASSUME NEW p \in Pod, Kill(p) PROVE TypeOK'
  <2>1. PodTypes'
    BY <1>5, <1>8, <1>20 DEF Kill
  <2>2. kills' \in 0..MaxKills
    BY <1>1, <1>20 DEF Kill
  <2>3. QED
    BY <1>1, <1>2, <1>20, <2>1, <2>2 DEF Kill
<1>21. CASE InstallKnative
  BY <1>1, <1>21 DEF InstallKnative, podVars
<1>22. CASE Grant
  BY <1>1, <1>22 DEF Grant, podVars
<1>23. CASE UNCHANGED vars
  BY <1>1, <1>23 DEF vars, podVars
<1>24. QED
  BY <1>9, <1>10, <1>11, <1>12, <1>13, <1>14, <1>15, <1>16, <1>17, <1>18, <1>19, <1>20,
     <1>21, <1>22, <1>23 DEF Next, Step

\* Every step preserves Tokens: what is registered, saved or loaded is Hydra's.
LEMMA TokensStep == ASSUME IInv, [Next]_vars PROVE Tokens'
<1> USE DEF IInv, TypeOK, Tokens, RunsPersisted, clusterVars, podVars
<1>1. ASSUME NEW p \in Pod, Boot(p) PROVE Tokens'
  BY <1>1 DEF Boot
<1>2. ASSUME NEW p \in Pod, PreflightPasses(p) PROVE Tokens'
  BY <1>2 DEF PreflightPasses, Goto
<1>3. ASSUME NEW p \in Pod, PreflightFails(p) PROVE Tokens'
  BY <1>3 DEF PreflightFails, Exit
<1>4. ASSUME NEW p \in Pod, LoadsToken(p) PROVE Tokens'
  BY <1>4 DEF LoadsToken, Goto
<1>5. ASSUME NEW p \in Pod, LoadsNothing(p) PROVE Tokens'
  BY <1>5 DEF LoadsNothing, Goto
<1>6. ASSUME NEW p \in Pod, Register(p) PROVE Tokens'
  BY <1>6 DEF Register, Goto
<1>7. ASSUME NEW p \in Pod, RegisterUnheard(p) PROVE Tokens'
  BY <1>7 DEF RegisterUnheard, Exit
<1>8. ASSUME NEW p \in Pod, SaveCreates(p) PROVE Tokens'
  BY <1>8 DEF SaveCreates, Goto
<1>9. ASSUME NEW p \in Pod, SaveFindsSecret(p) PROVE Tokens'
  BY <1>9 DEF SaveFindsSecret, Goto
<1>10. ASSUME NEW p \in Pod, SaveUpdates(p) PROVE Tokens'
  BY <1>10 DEF SaveUpdates, Goto
<1>11. ASSUME NEW p \in Pod, Fatal(p) PROVE Tokens'
  BY <1>11 DEF Fatal, Exit
<1>12. ASSUME NEW p \in Pod, Kill(p) PROVE Tokens'
  BY <1>12 DEF Kill, Exit
<1>13. CASE InstallKnative
  BY <1>13 DEF InstallKnative
<1>14. CASE Grant
  BY <1>14 DEF Grant
<1>15. CASE UNCHANGED vars
  BY <1>15 DEF vars
<1>16. QED
  BY <1>1, <1>2, <1>3, <1>4, <1>5, <1>6, <1>7, <1>8, <1>9, <1>10, <1>11, <1>12,
     <1>13, <1>14, <1>15 DEF Next, Step

\* IInv is an inductive invariant.
LEMMA Invariant == Spec => []IInv
<1>1. IInv /\ [Next]_vars => IInv'
  BY TypeStep, TokensStep DEF IInv
<1>2. QED
  BY <1>1, InitInvariant, PTL DEF Spec

\* Every variable of Startup has its type throughout (Startup!TypeOK).
THEOREM TypeCorrect == Spec => []TypeOK
BY Invariant, PTL DEF IInv

\* A pod that reconciles works with a token of Hydra's and has one persisted
\* (Startup!RunsPersisted), however many pods register, save and crash.
THEOREM RunningPodsArePersisted == Spec => []RunsPersisted
<1>1. IInv => RunsPersisted
  BY DEF IInv, Tokens
<1>2. QED
  BY <1>1, Invariant, PTL

----------------------------------------------------------------------------
(* RegistrationsEnd.  What is saved is a token of Hydra's, and a pod that    *)
(* finds one does not register.                                              *)

\* The steps that leave the Secret, and who is registering, alone.
LEMMA RegisteringStays ==
    ASSUME TypeOK, NEW p \in Pod, NEW step \in PC \ {"register"},
           Goto(p, step) \/ \E v : Exit(p, v)
    PROVE  /\ Registering' \subseteq Registering
           /\ pc[p] = "register" => Registering' # Registering
BY DEF TypeOK, Registering, Goto, Exit

\* Once a token is persisted there is one for ever, no pod begins to register,
\* and each exchange is the last one of a pod that had begun
\* (Startup!RegistrationsEnd), for any number of pods, tokens and kills.
THEOREM RegistrationsComeToAnEnd == Spec => RegistrationsEnd
<1>1. IInv /\ [Next]_vars =>
        [(secret \in Token) =>
           /\ secret' \in Token
           /\ Registering' \subseteq Registering
           /\ used' # used => Registering' # Registering]_vars
  <2> SUFFICES ASSUME IInv, [Next]_vars, secret \in Token
               PROVE  /\ secret' \in Token
                      /\ Registering' \subseteq Registering
                      /\ used' # used => Registering' # Registering
    OBVIOUS
  <2> USE DEF clusterVars
  <2>1. TypeOK /\ Tokens /\ secret # Absent
    BY StartupAssumption DEF IInv, Token, Absent
  <2>2. ASSUME NEW p \in Pod, pc[p] \in {"create", "update"}
        PROVE  token[p] \in Token
    BY <2>1, <2>2 DEF Tokens, TypeOK
  <2>3. PC \ {"register"} = {"down", "preflight", "load", "create", "update", "run"}
    BY DEF PC
  <2>4. ASSUME NEW p \in Pod, Boot(p) \/ PreflightPasses(p) \/ PreflightFails(p) \/ LoadsToken(p)
        PROVE  UNCHANGED <<secret, used>> /\ Registering' \subseteq Registering
    <3>1. UNCHANGED <<secret, used>>
      BY <2>4 DEF Boot, PreflightPasses, PreflightFails, LoadsToken
    <3>2. CASE Boot(p)
      BY <2>1, <3>2 DEF Boot, Registering, TypeOK
    <3>3. CASE PreflightPasses(p) \/ PreflightFails(p) \/ LoadsToken(p)
      BY <2>1, <2>3, <3>3, RegisteringStays DEF PreflightPasses, PreflightFails, LoadsToken
    <3>4. QED
      BY <2>4, <3>1, <3>2, <3>3
  <2>5. ASSUME NEW p \in Pod
        PROVE  ~LoadsNothing(p) /\ ~SaveCreates(p)
    BY <2>1 DEF LoadsNothing, SaveCreates
  <2>6. ASSUME NEW p \in Pod, Register(p) \/ RegisterUnheard(p)
        PROVE  UNCHANGED secret /\ Registering' \subseteq Registering /\ Registering' # Registering
    BY <2>1, <2>3, <2>6, RegisteringStays DEF Register, RegisterUnheard
  <2>7. ASSUME NEW p \in Pod, SaveFindsSecret(p) \/ SaveUpdates(p) \/ Fatal(p) \/ Kill(p)
        PROVE  UNCHANGED used /\ secret' \in Token /\ Registering' \subseteq Registering
    <3>1. UNCHANGED used /\ secret' \in Token
      BY <2>2, <2>7 DEF SaveFindsSecret, SaveUpdates, Fatal, Kill
    <3>2. (\E v : Exit(p, v)) \/ Goto(p, "update") \/ Goto(p, "run")
      BY <2>7 DEF SaveFindsSecret, SaveUpdates, Fatal, Kill
    <3>3. QED
      BY <2>1, <2>3, <3>1, <3>2, RegisteringStays
  <2>8. CASE InstallKnative \/ Grant \/ UNCHANGED vars
    BY <2>8 DEF InstallKnative, Grant, vars, podVars, Registering
  <2>9. QED
    BY <2>4, <2>5, <2>6, <2>7, <2>8 DEF Next, Step
<1>2. QED
  BY <1>1, Invariant, PTL DEF Spec, RegistrationsEnd

=============================================================================
