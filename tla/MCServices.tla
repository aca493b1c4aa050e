--------------------------------- MODULE MCServices ---------------------------------
(***************************************************************************)
(* Finite instances of the components behind the election: the SMS channel, *)
(* the backups, their mirror and restore tests, the audit chain and the move *)
(* to another cluster.  They share no state, so there is nothing to        *)
(* interleave: a behaviour of this module is a behaviour of one component  *)
(* while the others stay where they began.                                 *)
(***************************************************************************)
EXTENDS SendLadder, GuessBucket, SmsCampaign, SmsBudget, TenantBackup, Mirror, Cutover,
        RestoreTest, AuditChain

\* Two sends a day, the second after two units: the steps and the ceiling of the code in small.
LadderV == <<2, 3>>

VARIABLE part       \* the component this behaviour is about

Parts == {"ladder", "campaign", "bucket", "budget", "backup", "mirror", "cutover", "drill",
          "chain"}

vars == <<part, ladderVars, campaignVars, bucketVars, budgetVars, backupVars, mirrorVars, cutoverVars,
          restoreVars, chainVars>>

Init ==
    /\ part \in Parts
    /\ LadderInit /\ CampaignInit /\ BucketInit /\ BudgetInit /\ BackupInit /\ MirrorInit
    /\ CutoverInit /\ RestoreInit /\ ChainInit

Next ==
    \/ part = "ladder" /\ LadderNext
       /\ UNCHANGED <<part, campaignVars, bucketVars, budgetVars, backupVars, mirrorVars, cutoverVars,
                         restoreVars, chainVars>>
    \/ part = "campaign" /\ CampaignNext
       /\ UNCHANGED <<part, ladderVars, bucketVars, budgetVars, backupVars, mirrorVars, cutoverVars,
                         restoreVars, chainVars>>
    \/ part = "bucket" /\ BucketNext
       /\ UNCHANGED <<part, ladderVars, campaignVars, budgetVars, backupVars, mirrorVars, cutoverVars,
                         restoreVars, chainVars>>
    \/ part = "budget" /\ BudgetNext
       /\ UNCHANGED <<part, ladderVars, campaignVars, bucketVars, backupVars, mirrorVars, cutoverVars,
                         restoreVars, chainVars>>
    \/ part = "backup" /\ BackupNext
       /\ UNCHANGED <<part, ladderVars, campaignVars, bucketVars, budgetVars, mirrorVars, cutoverVars,
                         restoreVars, chainVars>>
    \/ part = "mirror" /\ MirrorNext
       /\ UNCHANGED <<part, ladderVars, campaignVars, bucketVars, budgetVars, backupVars, cutoverVars,
                         restoreVars, chainVars>>
    \/ part = "cutover" /\ CutoverNext
       /\ UNCHANGED <<part, ladderVars, campaignVars, bucketVars, budgetVars, backupVars, mirrorVars,
                         restoreVars, chainVars>>
    \/ part = "drill" /\ RestoreNext
       /\ UNCHANGED <<part, ladderVars, campaignVars, bucketVars, budgetVars, backupVars, mirrorVars,
                         cutoverVars, chainVars>>
    \/ part = "chain" /\ ChainNext
       /\ UNCHANGED <<part, ladderVars, campaignVars, bucketVars, budgetVars, backupVars, mirrorVars,
                         cutoverVars, restoreVars>>

Spec == Init /\ [][Next]_vars

\* The types of all of them; the others are where they began.
ServicesTypeOK ==
    /\ part = "ladder" => LadderTypeOK
    /\ part = "campaign" => CampaignTypeOK
    /\ part = "bucket" => BucketTypeOK
    /\ part = "budget" => BudgetTypeOK
    /\ part = "backup" => BackupTypeOK
    /\ part = "mirror" => MirrorTypeOK
    /\ part = "cutover" => CutoverTypeOK
    /\ part = "drill" => RestoreTypeOK
    /\ part = "chain" => ChainTypeOK

\* What guards the codes: the send ladder of a number, and the bucket of guesses.
CodesGuarded == LadderKept /\ BucketNotOverdrawn

\* A backup that is on record can be restored, and a restore test that says so has tried it.
BackupsRestore == BackupSound /\ RestoreSound

\* The copy is what it says it is: the mirror of its source, and the new cluster before it is used.
CopiesTrusted == MirrorSound /\ ReadyMeansMoved

=====================================================================================
