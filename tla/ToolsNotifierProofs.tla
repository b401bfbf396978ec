------------------------- MODULE ToolsNotifierProofs -------------------------
(***************************************************************************)
(* Proof that the notifier loses no wake-up, for any set of agents and any *)
(* number of changes.                                                      *)
(***************************************************************************)
EXTENDS ToolsNotifier, TLAPS

USE MaxChangesAssumption

\* Every variable of the notifier keeps its type.
THEOREM NotifierTypeCorrect == Spec => []TypeOK
<1>1. Init => TypeOK
  <2> SUFFICES ASSUME Init PROVE TypeOK
    OBVIOUS
  <2>1. changes \in 0..MaxChanges /\ announced \in 0..MaxChanges
    BY DEF Init
  <2>2. known \in [Agent -> 0..MaxChanges]
    BY DEF Init
  <2>3. permit \in BOOLEAN
    BY Zenon DEF Init
  <2>4. QED
    BY <2>1, <2>2, <2>3 DEF Init, TypeOK
<1>2. TypeOK /\ [Next]_vars => TypeOK'
  <2> SUFFICES ASSUME TypeOK, [Next]_vars PROVE TypeOK'
    OBVIOUS
  <2> USE DEF TypeOK, registryVars, notifierVars, agentVars
  <2>1. CASE MarkToolsChanged
    BY <2>1 DEF MarkToolsChanged
  <2>2. CASE NotifierStep
    BY <2>2 DEF NotifierStep, Wake, BeginBroadcast, NotifyPeer, EndBroadcast
  <2>3. ASSUME NEW a \in Agent, AgentStep(a) PROVE TypeOK'
    BY <2>3 DEF AgentStep, RegisterPeer, ReturnFromRegister, ListTools
  <2>4. CASE UNCHANGED vars
    BY <2>4 DEF vars
  <2>5. QED
    BY <2>1, <2>2, <2>3, <2>4 DEF Next
<1>3. QED
  BY <1>1, <1>2, PTL DEF Spec

\* No change of the tools is forgotten while the notifier debounces, sends or
\* waits: whenever the last broadcast does not cover it, the stored permit or the
\* open debounce window does.
THEOREM NotifierLosesNoWakeup == Spec => []NoLostWakeup
<1>1. Init => NoLostWakeup
  BY DEF Init, NoLostWakeup
<1>2. TypeOK /\ NoLostWakeup /\ [Next]_vars => NoLostWakeup'
  <2> SUFFICES ASSUME TypeOK, NoLostWakeup, [Next]_vars PROVE NoLostWakeup'
    OBVIOUS
  <2> USE DEF TypeOK, NoLostWakeup, registryVars, notifierVars, agentVars
  <2>1. CASE MarkToolsChanged
    BY <2>1 DEF MarkToolsChanged
  <2>2. CASE NotifierStep
    BY <2>2 DEF NotifierStep, Wake, BeginBroadcast, NotifyPeer, EndBroadcast
  <2>3. ASSUME NEW a \in Agent, AgentStep(a) PROVE NoLostWakeup'
    BY <2>3 DEF AgentStep, RegisterPeer, ReturnFromRegister, ListTools
  <2>4. CASE UNCHANGED vars
    BY <2>4 DEF vars
  <2>5. QED
    BY <2>1, <2>2, <2>3, <2>4 DEF Next
<1>3. QED
  BY <1>1, <1>2, NotifierTypeCorrect, PTL DEF Spec
=============================================================================
