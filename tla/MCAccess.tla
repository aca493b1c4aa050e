---------------------------------- MODULE MCAccess ----------------------------------
(***************************************************************************)
(* Finite instances of who gets in and what is seen: sessions of the staff, *)
(* revoked tokens, login limits, uploaded forms, the release of the results, *)
(* demo mode and corrected applications.  Each behaviour is one component's; *)
(* the others stay where they began.                                       *)
(***************************************************************************)
EXTENDS AdminSessions, RevocationCache, LoginLimits, NominationFiles, ResultsRelease,
        DemoMode, ApplicationEdits

VARIABLE part       \* the component this behaviour is about

Parts == {"sessions", "revoked", "limits", "forms", "release", "demo", "edits"}

vars == <<part, sessionVars, cacheVars, limitVars, nominationVars, releaseVars, demoVars, editVars>>

\* The others begin in one of their initial states.
OthersSettled ==
    /\ part # "sessions" => account.panel.held = {} /\ account.voter.password["overseer"] = "own"
    /\ part # "forms" => rule = CHOOSE r \in Rules : TRUE
    /\ part # "release" => status = "open"
    /\ part # "demo" => ownRows = {}
    /\ part # "edits" => app.status = "pending"

Init ==
    /\ part \in Parts
    /\ SessionsInit /\ CacheInit /\ LimitsInit /\ NominationInit /\ ReleaseInit /\ DemoInit
    /\ EditsInit
    /\ OthersSettled

Next ==
    \/ part = "sessions" /\ SessionsNext
       /\ UNCHANGED <<part, cacheVars, limitVars, nominationVars, releaseVars, demoVars, editVars>>
    \/ part = "revoked" /\ CacheNext
       /\ UNCHANGED <<part, sessionVars, limitVars, nominationVars, releaseVars, demoVars, editVars>>
    \/ part = "limits" /\ LimitsNext
       /\ UNCHANGED <<part, sessionVars, cacheVars, nominationVars, releaseVars, demoVars, editVars>>
    \/ part = "forms" /\ NominationNext
       /\ UNCHANGED <<part, sessionVars, cacheVars, limitVars, releaseVars, demoVars, editVars>>
    \/ part = "release" /\ ReleaseNext
       /\ UNCHANGED <<part, sessionVars, cacheVars, limitVars, nominationVars, demoVars, editVars>>
    \/ part = "demo" /\ DemoNext
       /\ UNCHANGED <<part, sessionVars, cacheVars, limitVars, nominationVars, releaseVars, editVars>>
    \/ part = "edits" /\ EditsNext
       /\ UNCHANGED <<part, sessionVars, cacheVars, limitVars, nominationVars, releaseVars, demoVars>>

Spec == Init /\ [][Next]_vars

\* The types of all of them; the others are where they began.
AccessTypeOK ==
    /\ part \in Parts
    /\ part = "sessions" => SessionsTypeOK
    /\ part = "revoked" => CacheTypeOK
    /\ part = "limits" => LimitsTypeOK
    /\ part = "forms" => NominationTypeOK
    /\ part = "release" => ReleaseTypeOK
    /\ part = "demo" => DemoTypeOK
    /\ part = "edits" => EditsTypeOK

\* Nobody is let in whom the code means to keep out: a session ends with what it rests on, a revoked
\* token stays revoked in every process, and a locked account is not guessed at any further.
LoginsSound == SessionsSound /\ RevokedStaysOut /\ LimitsSound
=====================================================================================
