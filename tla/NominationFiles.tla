--------------------------- MODULE NominationFiles ---------------------------
(***************************************************************************)
(* The signed nomination forms.  A form is uploaded before there is an     *)
(* application for it: the file goes to a private bucket, its record waits *)
(* as "pending" until an application claims it, and a sweep deletes what   *)
(* nobody claimed in time.  Applications are deleted, archived, restored   *)
(* and purged, and a permanent deletion takes the file with it.            *)
(***************************************************************************)
EXTENDS Integers

CONSTANTS
    Files,          \* uploads of signed forms
    Applicants,     \* students who apply, each for one position
    Submissions,    \* POSTs to /apply; also the application one creates
    Clerks,         \* superadmins deleting and restoring applications
    UploadTTL,      \* NOMINATION_UPLOAD_TTL_HOURS, in steps of the clock
    Rules,          \* settings of the form used: "off", "optional", "required"
    Hours,          \* bound: of the clock
    FormFaults      \* bound: bucket calls that fail and inserts that report an error

NoFile == "no file"
Nobody == "nobody"

ASSUME NominationAssumption ==
    /\ {UploadTTL, Hours, FormFaults} \subseteq Nat
    /\ Rules \subseteq {"off", "optional", "required"} /\ Rules # {}
    /\ NoFile \notin Files /\ Nobody \notin Applicants

VARIABLES
    hour,
    rule,           \* the nomination form setting
    bucket,         \* files in the private bucket
    uploads,        \* Files -> the record of the upload
    submissions,    \* Submissions -> the request under way
    applications, archive,   \* submissions whose application is live, or soft-deleted
    forms,          \* Submissions -> nomination_form and nomination_form_required of the application
    phones,         \* Applicants -> where the phone number on the voter record came from
    sweep,          \* stale records the sweep has still to delete
    clerks,         \* Clerks -> the deletion or restoration under way
    faults,         \* bucket failures and lost answers so far
    reviewed,       \* history: applicants whose number was set through the reviewed channel
    doubtful, purged         \* history: applications stored by an insert that reported an error;
                             \*          those whose permanent deletion was carried out

nominationVars == <<hour, rule, bucket, uploads, submissions, applications, archive, forms, phones,
                    sweep, clerks, faults, reviewed, doubtful, purged>>

FormStages == {"new", "checked", "claimed", "released", "stored", "done"}
ClerkStages == {"idle", "archived", "restored", "files", "records"}

Upload == [status : {"none", "pending", "attached", "gone"}, born : Nat]
Submission == [pc : FormStages, who : Applicants \cup {Nobody}, file : Files \cup {NoFile},
               required : BOOLEAN, phone : BOOLEAN]
NoClerk == [pc |-> "idle", app |-> {}]

FaultsLeft == faults.bucket + faults.insert < FormFaults

NominationInit ==
    /\ hour = 0
    /\ rule \in Rules
    /\ bucket = {}
    /\ uploads = [f \in Files |-> [status |-> "none", born |-> 0]]
    /\ submissions = [s \in Submissions |-> [pc |-> "new", who |-> Nobody, file |-> NoFile,
                                             required |-> FALSE, phone |-> FALSE]]
    /\ applications = {} /\ archive = {}
    /\ forms = [s \in Submissions |-> [file |-> NoFile, required |-> FALSE]]
    /\ phones = [a \in Applicants |-> "none"]
    /\ sweep = {}
    /\ clerks = [c \in Clerks |-> NoClerk]
    /\ faults = [bucket |-> 0, insert |-> 0]
    /\ reviewed = {} /\ doubtful = {} /\ purged = {}

NextHour ==
    /\ hour < Hours
    /\ hour' = hour + 1
    /\ UNCHANGED <<rule, bucket, uploads, submissions, applications, archive, forms, phones, sweep,
                   clerks, faults, reviewed, doubtful, purged>>

SetRule(r) ==
    /\ r # rule
    /\ rule' = r
    /\ UNCHANGED <<hour, bucket, uploads, submissions, applications, archive, forms, phones, sweep,
                   clerks, faults, reviewed, doubtful, purged>>

-----------------------------------------------------------------------------
(* POST /apply/upload-document: the file, then its record; a process that
   stops in between leaves a file nothing refers to.                         *)

PutObject(f) ==
    /\ rule # "off"
    /\ uploads[f].status = "none" /\ f \notin bucket
    /\ bucket' = bucket \cup {f}
    /\ UNCHANGED <<hour, rule, uploads, submissions, applications, archive, forms, phones, sweep,
                   clerks, faults, reviewed, doubtful, purged>>

RecordUpload(f) ==
    /\ uploads[f].status = "none" /\ f \in bucket
    /\ uploads' = [uploads EXCEPT ![f] = [status |-> "pending", born |-> hour]]
    /\ UNCHANGED <<hour, rule, bucket, submissions, applications, archive, forms, phones, sweep,
                   clerks, faults, reviewed, doubtful, purged>>

\* A claim takes what is at most the TTL old, a sweep what is older: no record is both.
RecentUpload(f) == uploads[f].born \geq hour - UploadTTL

\* Faulty: also what has just reached its age.
StaleAtOnce(f) == uploads[f].status = "pending" /\ uploads[f].born \leq hour - UploadTTL

Stale(f) == uploads[f].status = "pending" /\ uploads[f].born < hour - UploadTTL

\* At the end of every upload.
FindStale ==
    /\ sweep = {} /\ \E f \in Files : Stale(f)
    /\ sweep' = {f \in Files : Stale(f)}
    /\ UNCHANGED <<hour, rule, bucket, uploads, submissions, applications, archive, forms, phones,
                   clerks, faults, reviewed, doubtful, purged>>

\* A file that cannot be deleted keeps its record, for a later sweep.
SweepObject(f) ==
    /\ f \in sweep /\ f \in bucket
    /\ \/ bucket' = bucket \ {f} /\ UNCHANGED <<sweep, faults>>
       \/ /\ FaultsLeft
          /\ faults' = [faults EXCEPT !.bucket = @ + 1]
          /\ sweep' = sweep \ {f}
          /\ UNCHANGED bucket
    /\ UNCHANGED <<hour, rule, uploads, submissions, applications, archive, forms, phones, clerks,
                   reviewed, doubtful, purged>>

\* By _id alone: whatever the record says by now.
SweepRecord(f) ==
    /\ f \in sweep /\ f \notin bucket
    /\ uploads' = [uploads EXCEPT ![f].status = "gone"]
    /\ sweep' = sweep \ {f}
    /\ UNCHANGED <<hour, rule, bucket, submissions, applications, archive, forms, phones, clerks,
                   faults, reviewed, doubtful, purged>>

-----------------------------------------------------------------------------
(* POST /apply.                                                              *)

Holds(a) == \E s \in applications : submissions[s].who = a

\* What is read before anything is stored: no earlier application, the setting, the phone.
Check(s, a, f) ==
    /\ submissions[s].pc = "new"
    /\ ~Holds(a)
    /\ f # NoFile => rule # "off"
    /\ rule = "required" => f # NoFile
    /\ submissions' = [submissions EXCEPT ![s] =
         [pc |-> IF f = NoFile THEN "claimed" ELSE "checked", who |-> a, file |-> f,
          required |-> rule = "required", phone |-> phones[a] = "none"]]
    /\ UNCHANGED <<hour, rule, bucket, uploads, applications, archive, forms, phones, sweep, clerks,
                   faults, reviewed, doubtful, purged>>

\* Faulty: whatever its age.
ClaimableStale(f) == uploads[f].status = "pending"

\* Faulty: also a file that serves another application.
ClaimableTwice(f) == uploads[f].status \in {"pending", "attached"} /\ RecentUpload(f)

Claimable(f) == uploads[f].status = "pending" /\ RecentUpload(f)

Claim(s) ==
    /\ submissions[s].pc = "checked"
    /\ IF Claimable(submissions[s].file)
       THEN /\ uploads' = [uploads EXCEPT ![submissions[s].file].status = "attached"]
            /\ submissions' = [submissions EXCEPT ![s].pc = "claimed"]
       ELSE /\ submissions' = [submissions EXCEPT ![s].pc = "done"]
            /\ UNCHANGED uploads
    /\ UNCHANGED <<hour, rule, bucket, applications, archive, forms, phones, sweep, clerks, faults,
                   reviewed, doubtful, purged>>

\* Faulty: the setting as it is now, not as it was when the form was asked for.
RequiredNow(s) == rule = "required"

RequiredThen(s) == submissions[s].required

Stored(s) ==
    /\ applications' = applications \cup {s}
    /\ forms' = [forms EXCEPT ![s] = [file |-> submissions[s].file, required |-> RequiredThen(s)]]

\* The insert succeeds, or reports an error after it was stored or without having been.
InsertApplication(s) ==
    /\ submissions[s].pc = "claimed"
    /\ \/ /\ Stored(s)
          /\ submissions' = [submissions EXCEPT ![s].pc = "stored"]
          /\ UNCHANGED <<faults, doubtful>>
       \/ /\ FaultsLeft
          /\ faults' = [faults EXCEPT !.insert = @ + 1]
          /\ submissions' = [submissions EXCEPT ![s].pc = IF submissions[s].file = NoFile THEN "done" ELSE "released"]
          /\ \/ Stored(s) /\ doubtful' = doubtful \cup {s}
             \/ UNCHANGED <<applications, forms, doubtful>>
    /\ UNCHANGED <<hour, rule, bucket, uploads, archive, phones, sweep, clerks, reviewed, purged>>

\* The file is given back with the age it had, so that a stale one stays out of reach of a claim.
GiveBack(s) ==
    /\ submissions[s].pc = "released"
    /\ uploads' = IF uploads[submissions[s].file].status = "attached"
                  THEN [uploads EXCEPT ![submissions[s].file].status = "pending"] ELSE uploads
    /\ submissions' = [submissions EXCEPT ![s].pc = "done"]
    /\ UNCHANGED <<hour, rule, bucket, applications, archive, forms, phones, sweep, clerks, faults,
                   reviewed, doubtful, purged>>

\* Faulty: on the strength of the record read at the start.
StillBareAsRead(s) == TRUE

StillBare(s) == phones[submissions[s].who] = "none"

SavePhone(s) ==
    /\ submissions[s].pc = "stored"
    /\ phones' = IF submissions[s].phone /\ StillBare(s)
                 THEN [phones EXCEPT ![submissions[s].who] = "applicant"] ELSE phones
    /\ submissions' = [submissions EXCEPT ![s].pc = "done"]
    /\ UNCHANGED <<hour, rule, bucket, uploads, applications, archive, forms, sweep, clerks, faults,
                   reviewed, doubtful, purged>>

\* The contact change of another endpoint, after its review.
ReviewedPhone(a) ==
    /\ a \notin reviewed
    /\ phones' = [phones EXCEPT ![a] = "reviewed"]
    /\ reviewed' = reviewed \cup {a}
    /\ UNCHANGED <<hour, rule, bucket, uploads, submissions, applications, archive, forms, sweep,
                   clerks, faults, doubtful, purged>>

-----------------------------------------------------------------------------
(* Deleting, archiving, restoring and purging applications.                  *)

ClerkTo(c, pc, s) == clerks' = [clerks EXCEPT ![c] = IF pc = "idle" THEN NoClerk ELSE [pc |-> pc, app |-> {s}]]

\* The archived copy first: there is no moment at which the application is in neither.
Archive(c, s) ==
    /\ clerks[c].pc = "idle" /\ s \in applications /\ s \notin archive
    /\ archive' = archive \cup {s}
    /\ ClerkTo(c, "archived", s)
    /\ UNCHANGED <<hour, rule, bucket, uploads, submissions, applications, forms, phones, sweep,
                   faults, reviewed, doubtful, purged>>

\* The live one next; the copy goes again if somebody changed the application meanwhile.
TakeOut(c, s) ==
    /\ clerks[c] = [pc |-> "archived", app |-> {s}]
    /\ \/ s \in applications /\ applications' = applications \ {s} /\ UNCHANGED archive
       \/ archive' = archive \ {s} /\ UNCHANGED applications
    /\ ClerkTo(c, "idle", s)
    /\ UNCHANGED <<hour, rule, bucket, uploads, submissions, forms, phones, sweep, faults, reviewed,
                   doubtful, purged>>

HardDelete(c, s) ==
    /\ clerks[c].pc = "idle" /\ s \in applications
    /\ applications' = applications \ {s}
    /\ purged' = purged \cup {s}
    /\ ClerkTo(c, "files", s)
    /\ UNCHANGED <<hour, rule, bucket, uploads, submissions, archive, forms, phones, sweep, faults,
                   reviewed, doubtful>>

PutBack(c, s) ==
    /\ clerks[c].pc = "idle" /\ s \in archive /\ s \notin applications
    /\ ~Holds(submissions[s].who)
    /\ applications' = applications \cup {s}
    /\ ClerkTo(c, "restored", s)
    /\ UNCHANGED <<hour, rule, bucket, uploads, submissions, archive, forms, phones, sweep, faults,
                   reviewed, doubtful, purged>>

DropCopy(c, s) ==
    /\ clerks[c] = [pc |-> "restored", app |-> {s}]
    /\ archive' = archive \ {s}
    /\ ClerkTo(c, "idle", s)
    /\ UNCHANGED <<hour, rule, bucket, uploads, submissions, applications, forms, phones, sweep,
                   faults, reviewed, doubtful, purged>>

PurgeArchived(c, s) ==
    /\ clerks[c].pc = "idle" /\ s \in archive
    /\ archive' = archive \ {s}
    /\ purged' = purged \cup {s}
    /\ ClerkTo(c, "files", s)
    /\ UNCHANGED <<hour, rule, bucket, uploads, submissions, applications, forms, phones, sweep,
                   faults, reviewed, doubtful>>

\* Best effort ...
RemoveObject(c, s) ==
    /\ clerks[c] = [pc |-> "files", app |-> {s}]
    /\ LET f == forms[s].file
       IN  \/ bucket' = bucket \ {f} /\ UNCHANGED faults
           \/ /\ f \in bucket /\ FaultsLeft
              /\ faults' = [faults EXCEPT !.bucket = @ + 1]
              /\ UNCHANGED bucket
    /\ ClerkTo(c, "records", s)
    /\ UNCHANGED <<hour, rule, uploads, submissions, applications, archive, forms, phones, sweep,
                   reviewed, doubtful, purged>>

\* Faulty: every record of the applicant.
RecordsOfApplicant(s) ==
    {f \in Files : \E t \in Submissions : submissions[t].who = submissions[s].who /\ submissions[t].file = f}

RecordsOf(s) == {f \in Files : f = forms[s].file}

\* ... and the record goes whether the file went or not.
RemoveRecord(c, s) ==
    /\ clerks[c] = [pc |-> "records", app |-> {s}]
    /\ uploads' = [f \in Files |-> IF f \in RecordsOf(s) THEN [uploads[f] EXCEPT !.status = "gone"] ELSE uploads[f]]
    /\ ClerkTo(c, "idle", s)
    /\ UNCHANGED <<hour, rule, bucket, submissions, applications, archive, forms, phones, sweep,
                   faults, reviewed, doubtful, purged>>

NominationNext ==
    \/ NextHour
    \/ \E r \in Rules : SetRule(r)
    \/ FindStale
    \/ \E f \in Files : PutObject(f) \/ RecordUpload(f) \/ SweepObject(f) \/ SweepRecord(f)
    \/ \E s \in Submissions :
        \/ \E a \in Applicants, f \in Files \cup {NoFile} : Check(s, a, f)
        \/ Claim(s) \/ InsertApplication(s) \/ GiveBack(s) \/ SavePhone(s)
        \/ \E c \in Clerks :
            \/ Archive(c, s) \/ TakeOut(c, s) \/ HardDelete(c, s) \/ PutBack(c, s) \/ DropCopy(c, s)
            \/ PurgeArchived(c, s) \/ RemoveObject(c, s) \/ RemoveRecord(c, s)
    \/ \E a \in Applicants : ReviewedPhone(a)

NominationSpec == NominationInit /\ [][NominationNext]_nominationVars

-----------------------------------------------------------------------------

NominationTypeOK ==
    /\ hour \in 0 .. Hours /\ rule \in Rules
    /\ bucket \subseteq Files /\ sweep \subseteq Files
    /\ uploads \in [Files -> Upload]
    /\ submissions \in [Submissions -> Submission]
    /\ {applications, archive, doubtful, purged} \subseteq SUBSET Submissions
    /\ forms \in [Submissions -> [file : Files \cup {NoFile}, required : BOOLEAN]]
    /\ phones \in [Applicants -> {"none", "applicant", "reviewed"}] /\ reviewed \subseteq Applicants
    /\ clerks \in [Clerks -> [pc : ClerkStages, app : SUBSET Submissions]]
    /\ faults \in [bucket : 0 .. FormFaults, insert : 0 .. FormFaults]

\* What the panel sees when it opens the form of an application.
Readable(f) == uploads[f].status = "attached" /\ f \in bucket

\* The file of an application whose insert reported an error though it stored it: given back, and
\* perhaps claimed by another.
InDoubt(f) == \E s \in doubtful : forms[s].file = f

\* "Attached uploads are NEVER touched (the application depends on them)": the form of an application,
\* live or archived, can be read, unless an insert that stored an application with it reported an
\* error, or the application is being deleted for good.
FormKept ==
    \A s \in (applications \cup archive) \ purged :
        forms[s].file # NoFile /\ ~InDoubt(forms[s].file) => Readable(forms[s].file)

\* "One upload serves one application."
OneFormEach ==
    \A s, t \in (applications \cup archive) \ doubtful :
        s # t /\ forms[s].file # NoFile => forms[s].file # forms[t].file

\* An application that says the form was required has one, whenever the setting changed.
RequiredIsThere == \A s \in applications \cup archive : forms[s].required => forms[s].file # NoFile

\* "a voter who already has a phone on file is never changed": a number that went through review
\* while an application was being submitted stays.
PhoneKept == \A a \in reviewed : phones[a] = "reviewed"

NominationSound == FormKept /\ OneFormEach /\ RequiredIsThere /\ PhoneKept

\* Not so with two superadmins at once: one restores an application, the other purges the archived copy.
RestoredIsReadable ==
    \A s \in applications :
        forms[s].file # NoFile /\ ~InDoubt(forms[s].file) => Readable(forms[s].file)
=============================================================================
