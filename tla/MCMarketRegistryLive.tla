----------------------- MODULE MCMarketRegistryLive -----------------------
(* Synchronisations go on for ever.  To stay finite the instance forgets    *)
(* ended runs with their snapshots, so that their numbers can be used       *)
(* again; nothing the registry does depends on them.                        *)
EXTENDS MCMarketRegistry

Forget(s) ==
    /\ syncs[s].status \in {"completed", "failed"}
    /\ syncs' = [syncs EXCEPT ![s] = Absent]
    /\ snapshots' = [snapshots EXCEPT ![s] = NoAnswers]
    /\ UNCHANGED <<external, faults, discovery, synced, markets, tokens, local>>

LiveNext == Next \/ \E s \in SyncRun : Forget(s)

LiveSpec ==
    /\ Init /\ [][LiveNext]_vars
    /\ WF_vars(SyncStep)
    /\ WF_vars(\E s \in SyncRun : StartSync(s))
    /\ WF_vars(\E s \in SyncRun : Forget(s))
===========================================================================
