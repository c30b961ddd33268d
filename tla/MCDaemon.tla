------------------------------ MODULE MCDaemon ------------------------------
(***************************************************************************)
(* Parts of one daemon in one run: the writer lease with a single spawner, *)
(* the life of the daemon process itself, and the adapters it drives: that *)
(* of local models, of Codex and of Claude.  A behaviour is a behaviour of *)
(* one part, chosen at the start; the variables of the others stay as they *)
(* began.                                                                  *)
(***************************************************************************)
EXTENDS MCWriterLease, LocalLlm, DaemonLifecycle, CodexAdapter, ClaudeAgent

CONSTANTS t1, nobody

VARIABLE component

ASSUME LocalOK == LocalConstantsOK
ASSUME DaemonOK == DaemonConstantsOK
ASSUME CodexOK == CodexConstantsOK
ASSUME ClaudeOK == ClaudeConstantsOK
----------------------------------------------------------------------------
PartsInit ==
    /\ component \in {"lease", "local", "daemon", "codex", "claude"}
    /\ Init /\ LocalInit /\ DaemonInit /\ CodexInit /\ ClaudeInit
    /\ component # "lease" => file = [p \in Path |-> Absent]

PartsNext ==
    /\ UNCHANGED component
    /\ \/ /\ component = "lease" /\ Next
          /\ UNCHANGED <<localVars, daemonVars, codexVars, claudeVars>>
       \/ /\ component = "local" /\ LocalNext
          /\ UNCHANGED <<vars, daemonVars, codexVars, claudeVars>>
       \/ /\ component = "daemon" /\ DaemonNext
          /\ UNCHANGED <<vars, localVars, codexVars, claudeVars>>
       \/ /\ component = "codex" /\ CodexNext
          /\ UNCHANGED <<vars, localVars, daemonVars, claudeVars>>
       \/ /\ component = "claude" /\ ClaudeNext
          /\ UNCHANGED <<vars, localVars, daemonVars, codexVars>>

PartsSpec ==
    PartsInit /\ [][PartsNext]_<<component, vars, localVars, daemonVars, codexVars, claudeVars>>

\* A conversation of Claude that has failed is not followed further.
ConversationGoesOn == driver.pc # "over"
=============================================================================
