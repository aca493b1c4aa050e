--------------------------------- MODULE MCProgress ---------------------------------
(***************************************************************************)
(* Finite instances of the components that promise to finish something: what *)
(* must happen happens under the fairness each component's own module states. *)
(* Each behaviour is one component's; the others stay where they began.    *)
(***************************************************************************)
EXTENDS AuditChain, SmsCampaign, Vetting, CandidateList, TenantBackup, Mirror, Cutover

VARIABLE part       \* the component this behaviour is about

Parts == {"chain", "campaign", "vetting", "list", "backup", "mirror", "cutover"}

vars == <<part, chainVars, campaignVars, vettingVars, listVars, backupVars, mirrorVars,
          cutoverVars>>

Init ==
    /\ part \in Parts
    /\ ChainInit /\ CampaignInit /\ VettingInit /\ ListInit /\ BackupInit /\ MirrorInit /\ CutoverInit

Next ==
    \/ part = "chain" /\ ChainNext
       /\ UNCHANGED <<part, campaignVars, vettingVars, listVars, backupVars, mirrorVars,
                      cutoverVars>>
    \/ part = "campaign" /\ CampaignNext
       /\ UNCHANGED <<part, chainVars, vettingVars, listVars, backupVars, mirrorVars,
                      cutoverVars>>
    \/ part = "vetting" /\ VettingNext
       /\ UNCHANGED <<part, chainVars, campaignVars, listVars, backupVars, mirrorVars,
                      cutoverVars>>
    \/ part = "list" /\ ListNext
       /\ UNCHANGED <<part, chainVars, campaignVars, vettingVars, backupVars, mirrorVars,
                      cutoverVars>>
    \/ part = "backup" /\ BackupNext
       /\ UNCHANGED <<part, chainVars, campaignVars, vettingVars, listVars, mirrorVars,
                      cutoverVars>>
    \/ part = "mirror" /\ MirrorNext
       /\ UNCHANGED <<part, chainVars, campaignVars, vettingVars, listVars, backupVars,
                      cutoverVars>>
    \/ part = "cutover" /\ CutoverNext
       /\ UNCHANGED <<part, chainVars, campaignVars, vettingVars, listVars, backupVars,
                      mirrorVars>>

Spec == Init /\ [][Next]_vars

\* ChainFairness, CampaignFairness and the others, each for the behaviours of its component: a
\* component that stays where it began owes nothing.
ChainGoesOn ==
    /\ WF_chainVars(part = "chain" /\ ClockTicks)
    /\ \A w \in Workers : WF_chainVars(part = "chain" /\ WorkerStep(w))

CampaignGoesOn ==
    /\ WF_campaignVars(part = "campaign" /\ AdminStep)
    /\ \A s \in Servers : /\ WF_campaignVars(part = "campaign" /\ TaskStep(s))
                          /\ WF_campaignVars(part = "campaign" /\ Boot(s))

VettingGoesOn ==
    \A h \in Handlers : /\ WF_vettingVars(part = "vetting" /\ Continue(h))
                        /\ WF_vettingVars(part = "vetting" /\ BeginCloseout(h))

ListGoesOn ==
    /\ WF_listVars(part = "list" /\ QuietPasses) /\ WF_listVars(part = "list" /\ VettingEnds)
    /\ \A e \in Editors : WF_listVars(part = "list" /\ MarkDirty(e))
    /\ \A i \in Issuers : WF_listVars(part = "list" /\ SweepStep(i))

CopiesGoOn ==
    /\ \A s \in Schedulers : /\ WF_backupVars(part = "backup" /\ RunStep(s))
                             /\ SF_backupVars(part = "backup" /\ Begin(s, "full"))
    /\ WF_mirrorVars(part = "mirror" /\ SyncStep)
    /\ SF_mirrorVars(part = "mirror" /\ BeginSync(TRUE))
    /\ \A k \in Kinds : WF_cutoverVars(part = "cutover" /\ JobStep(k))

FairSpec == Spec /\ ChainGoesOn /\ CampaignGoesOn /\ VettingGoesOn /\ ListGoesOn /\ CopiesGoOn

\* What is cast or written is in a backup, and in the mirror, in the end.
CopiesCatchUp == BallotsReachBackup /\ MirrorCatchesUp
=====================================================================================
