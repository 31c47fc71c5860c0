------------------------------ MODULE MCServices ------------------------------
(***************************************************************************)
(* Five parts that share no state, in one run: a behaviour is one of a      *)
(* single part, the others stay in their initial state.  Interleaving the   *)
(* parts would only repeat the states of each.                              *)
(***************************************************************************)
EXTENDS EquityAlerts, PhoneSession, RateLimit, PositionLedger, DrawdownHalt

VARIABLE part

serviceVars == <<part, alertVars, sessionVars, rateVars, ledgerVars, haltVars>>

ServiceInit ==
  /\ part \in {"alerts", "session", "rate", "ledger", "halt"}
  /\ AlertInit /\ SessionInit /\ RateInit
  /\ LedgerInit /\ HaltInit
  /\ part # "ledger" => contributors = [d \in Decisions |-> {}]

InAlerts(A) ==
  part = "alerts" /\ A /\ UNCHANGED <<part, sessionVars, rateVars, ledgerVars, haltVars>>
InSession(A) ==
  part = "session" /\ A /\ UNCHANGED <<part, alertVars, rateVars, ledgerVars, haltVars>>
InRate(A) ==
  part = "rate" /\ A /\ UNCHANGED <<part, alertVars, sessionVars, ledgerVars, haltVars>>
InLedger(A) ==
  part = "ledger" /\ A /\ UNCHANGED <<part, alertVars, sessionVars, rateVars, haltVars>>
InHalt(A) ==
  part = "halt" /\ A /\ UNCHANGED <<part, alertVars, sessionVars, rateVars, ledgerVars>>

ServiceNext ==
  \/ InAlerts(AlertNext) \/ InSession(SessionNext) \/ InRate(RateNext)
  \/ InLedger(LedgerNext) \/ InHalt(HaltNext)

\* The fairness of AlertFairSpec, SessionFairSpec, RateFairSpec and HaltFairSpec.
ServiceSpec ==
  /\ ServiceInit /\ [][ServiceNext]_serviceVars
  /\ SF_serviceVars(InAlerts(CheckStep)) /\ WF_serviceVars(InAlerts(ShowStep))
  /\ \A c \in Callers : WF_serviceVars(InSession(CallStep(c)))
  /\ WF_serviceVars(InHalt(NoteHalt)) /\ WF_serviceVars(InHalt(HaltBeat))
  /\ WF_serviceVars(InRate(WindowEnds))
  /\ \A s \in Servers : WF_serviceVars(InRate(SetExpiry(s)))
=============================================================================
