----------------------------- MODULE AdminSessions -----------------------------
(***************************************************************************)
(* The sessions of one administrator who also sits on the vetting panel:   *)
(* logging in, the guard every request passes, logging out, switching to   *)
(* the panel's view and back, and the superadmin who resets passwords and  *)
(* takes roles away.  A session is a signed token; nothing about it is     *)
(* stored but its revocation (what processes remember of that is           *)
(* RevocationCache).                                                       *)
(***************************************************************************)
EXTENDS Integers, FiniteSets

CONSTANTS
    AdminRoles,     \* roles on the person's voter document
    Paused,         \* of these, the ones paused while serving on the panel (overseer)
    Signers,        \* requests under way at once
    MaxTokens,      \* bound: tokens minted
    SessionSeconds, \* bound: of the clock
    StampsMade      \* bound: interventions of the superadmin

ASSUME SessionsAssumption ==
    /\ Paused \subseteq AdminRoles
    /\ {"vetting", "none"} \cap AdminRoles = {}
    /\ {MaxTokens, StampsMade} \subseteq Nat /\ SessionSeconds \in Nat \ {0}

VARIABLES
    second,         \* the clock
    account,        \* Documents -> [held, password, cutoff]
    tokens,         \* the tokens handed out, by number
    given,          \* the tokens in revoked_tokens
    sessions,       \* Callers -> the request under way
    stamps

sessionVars == <<second, account, tokens, given, sessions, stamps>>

TokenIds == 1 .. MaxTokens

\* The panel record is a document of its own.
Seats == AdminRoles \cup {"vetting"}

DocOf(role) == IF role = "vetting" THEN "panel" ELSE "voter"

\* home: the role a panel session returns to; root and proof are history, the role and the kind of
\* password of the login the token descends from; parent is the token it was exchanged for.
NoToken == [role |-> "none", iat |-> 0, full |-> FALSE, home |-> "none", root |-> "none",
            proof |-> "none", parent |-> 0, delivered |-> FALSE]

Token == [role : Seats \cup {"none"}, iat : Nat, full : BOOLEAN, home : AdminRoles \cup {"none"},
          root : Seats \cup {"none"}, proof : {"none", "temp", "own"}, parent : {0} \cup TokenIds,
          delivered : BOOLEAN]

NoSession == [pc |-> "idle", token |-> 0, new |-> NoToken]

Session == [pc : {"idle", "mint", "account", "hat", "password", "revoke", "reply", "store"},
            token : {0} \cup TokenIds, new : Token]

\* The admin accounts exist; a panelist's account may or may not, and has been used if it does.
SessionsInit ==
    /\ second = 1
    /\ \E p \in {"temp", "own"}, q \in {"absent", "own"} :
        account = [voter |-> [held |-> AdminRoles, cutoff |-> 0, password |-> [r \in AdminRoles |-> p]],
                   panel |-> [held |-> IF q = "own" THEN {"vetting"} ELSE {}, cutoff |-> 0,
                              password |-> [r \in {"vetting"} |-> q]]]
    /\ tokens = [t \in TokenIds |-> NoToken]
    /\ given = {}
    /\ sessions = [c \in Signers |-> NoSession]
    /\ stamps = 0

Minted == {t \in TokenIds : tokens[t].delivered}

NextSecond ==
    /\ second < SessionSeconds
    /\ second' = second + 1
    /\ UNCHANGED <<account, tokens, given, sessions, stamps>>

-----------------------------------------------------------------------------
(* Logging in (_verify_admin_credentials) *)

\* The account is read, and its password compared off the event loop.  A temporary password opens
\* a session that can do nothing but change it.
\* Faulty: every session is a full one.
LoginScopeAny(password) == TRUE

LoginScope(password) == password = "own"

BeginLogin(c, role) ==
    LET doc == account[DocOf(role)]
    IN  /\ sessions[c].pc = "idle"
        /\ role \in doc.held
        /\ doc.password[role] \in {"temp", "own"}
        /\ sessions' = [sessions EXCEPT ![c] =
             [NoSession EXCEPT
                !.pc = "mint",
                !.new = [NoToken EXCEPT !.role = role, !.root = role,
                                        !.full = LoginScope(doc.password[role]),
                                        !.proof = doc.password[role]]]]
        /\ UNCHANGED <<second, account, tokens, given, stamps>>

\* The next number; the token is in the user's hands.
Deliver(token) ==
    \E t \in TokenIds :
        /\ t = 1 + Cardinality(Minted)
        /\ tokens' = [tokens EXCEPT ![t] = [token EXCEPT !.delivered = TRUE]]

FinishLogin(c) ==
    /\ sessions[c].pc = "mint"
    /\ Deliver([sessions[c].new EXCEPT !.iat = second])
    /\ sessions' = [sessions EXCEPT ![c] = NoSession]
    /\ UNCHANGED <<second, account, given, stamps>>

-----------------------------------------------------------------------------
(* The guard *)

\* decode_access_token.
RequestArrives(c, t) ==
    /\ sessions[c].pc = "idle"
    /\ t \in Minted \ given
    /\ sessions' = [sessions EXCEPT ![c] = [NoSession EXCEPT !.pc = "account", !.token = t]]
    /\ UNCHANGED <<second, account, tokens, given, stamps>>

\* sessions_valid_after, at the precision of a token's time of issue.
\* Faulty: a token of the stamp's own second is too old.
OutlivedStrictly(token) == token.iat \leq account[DocOf(token.role)].cutoff

Outlived(token) == token.iat < account[DocOf(token.role)].cutoff

OnPanel == account["panel"].held # {}

\* What each path asks of the session: a temporary one may log out or set the password, a paused
\* one may log out or switch.
Through(token, path) ==
    /\ ~Outlived(token)
    /\ token.role = "vetting" => OnPanel
    /\ token.full \/ path \in {"revoke", "password"}
    /\ token.role \in Paused /\ OnPanel => path \in {"revoke", "hat"}

\* A handler: logging out revokes, switching and setting a password read more; other work changes
\* no session ("idle"), like a refusal.
CheckAccount(c) ==
    /\ sessions[c].pc = "account"
    /\ \E path \in {"idle", "revoke", "hat", "password"} :
        /\ path = "idle" \/ Through(tokens[sessions[c].token], path)
        /\ sessions' = [sessions EXCEPT ![c] = IF path = "idle" THEN NoSession
                                               ELSE [NoSession EXCEPT !.pc = path,
                                                            !.token = sessions[c].token]]
    /\ UNCHANGED <<second, account, tokens, given, stamps>>

-----------------------------------------------------------------------------
(* The handlers *)

\* switch_hat: to the panel's view if the person holds the role and sits on the panel; back to the
\* role the session came from, never for a session that began with the panel's own password.
\* Faulty: back to any role the person holds.
HomesHeld(token) == AdminRoles \cap account["voter"].held

Homes(token) == ({token.home} \ Paused) \cap account["voter"].held

HatFor(token) ==
    IF token.role \in AdminRoles
    THEN {h \in {"vetting"} : OnPanel /\ token.role \in account["voter"].held}
    ELSE {h \in Homes(token) : OnPanel}

SwitchHat(c) ==
    LET token == tokens[sessions[c].token]
    IN  /\ sessions[c].pc = "hat"
        /\ \/ \E role \in HatFor(token) :
                sessions' = [sessions EXCEPT
                    ![c].pc = "revoke",
                    ![c].new = [token EXCEPT !.role = role, !.iat = second, !.full = TRUE,
                                             !.home = IF role = "vetting" THEN token.role ELSE "none",
                                             !.parent = sessions[c].token]]
           \/ /\ HatFor(token) = {}
              /\ sessions' = [sessions EXCEPT ![c] = NoSession]
        /\ UNCHANGED <<second, account, tokens, given, stamps>>

\* Then the old token is revoked, and then the reply carries the new one.
\* Faulty: the new token's number is what is revoked.
GivenUpNew(c) == given \cup {1 + Cardinality(Minted)}

GivenUp(c) == given \cup {sessions[c].token}

Revoke(c) ==
    /\ sessions[c].pc = "revoke"
    /\ given' = GivenUp(c)
    /\ sessions' = [sessions EXCEPT ![c].pc = "reply"]
    /\ UNCHANGED <<second, account, tokens, stamps>>

ReplyRevoked(c) ==
    /\ sessions[c].pc = "reply"
    /\ IF sessions[c].new = NoToken THEN UNCHANGED tokens ELSE Deliver(sessions[c].new)
    /\ sessions' = [sessions EXCEPT ![c] = NoSession]
    /\ UNCHANGED <<second, account, given, stamps>>

\* set_new_password: the account is read and the old password compared; written whatever the
\* account says by then.
BeginSetPassword(c) ==
    /\ sessions[c].pc = "password"
    /\ LET role == tokens[sessions[c].token].role
           mine == role \in account[DocOf(role)].held /\ account[DocOf(role)].password[role] \in {"temp", "own"}
       IN  sessions' = [sessions EXCEPT ![c] = IF mine THEN [@ EXCEPT !.pc = "store"] ELSE NoSession]
    /\ UNCHANGED <<second, account, tokens, given, stamps>>

\* _invalidate_sessions.
\* Faulty: the next second on.
StampAfter == second + 1

Stamp == second

SetPassword(c) ==
    LET role == tokens[sessions[c].token].role
    IN  /\ sessions[c].pc = "store"
        /\ account' = [account EXCEPT ![DocOf(role)].password[role] = "own",
                                      ![DocOf(role)].cutoff = Stamp]
        /\ sessions' = [sessions EXCEPT ![c] = NoSession]
        /\ UNCHANGED <<second, tokens, given, stamps>>

-----------------------------------------------------------------------------
(* The superadmin *)

\* There is a voter for every role, held or not, but a panel record only once it is made.
OnRecord(role) == role \in AdminRoles \/ account["panel"].password["vetting"] # "absent"

\* reset-password and set-credentials of every role.
ResetPassword(role) ==
    /\ stamps < StampsMade
    /\ OnRecord(role)
    /\ role \in AdminRoles => role \in account["voter"].held
    /\ account' = [account EXCEPT ![DocOf(role)].password[role] = "temp",
                                  ![DocOf(role)].cutoff = Stamp]
    /\ stamps' = stamps + 1
    /\ UNCHANGED <<second, tokens, given, sessions>>

\* The toggles, and a panelist's active flag: a role is taken or given, and the sessions end.
ToggleRole(role) ==
    LET held == account[DocOf(role)].held
    IN  /\ stamps < StampsMade
        /\ OnRecord(role)
        /\ account' = [account EXCEPT
             ![DocOf(role)].held = IF role \in held THEN held \ {role} ELSE held \cup {role},
             ![DocOf(role)].cutoff = Stamp]
        /\ stamps' = stamps + 1
        /\ UNCHANGED <<second, tokens, given, sessions>>

\* superadmin_add_panelist texts a temporary password; superadmin_link_commissioner makes a record
\* with nothing to log in with.
JoinPanel(password) ==
    /\ ~OnRecord("vetting")
    /\ account' = [account EXCEPT !["panel"].held = {"vetting"},
                                  !["panel"].password["vetting"] = password]
    /\ UNCHANGED <<second, tokens, given, sessions, stamps>>

SessionsNext ==
    \/ NextSecond \/ JoinPanel("temp") \/ JoinPanel("none")
    \/ \E role \in Seats : ResetPassword(role) \/ ToggleRole(role)
    \/ \E c \in Signers :
        \/ \E role \in Seats : BeginLogin(c, role)
        \/ \E t \in TokenIds : RequestArrives(c, t)
        \/ FinishLogin(c) \/ CheckAccount(c) \/ SwitchHat(c) \/ Revoke(c) \/ ReplyRevoked(c)
        \/ BeginSetPassword(c) \/ SetPassword(c)

SessionsSpec == SessionsInit /\ [][SessionsNext]_sessionVars

-----------------------------------------------------------------------------
(* Properties *)

SessionsTypeOK ==
    /\ second \in 1 .. SessionSeconds
    /\ \A d \in DOMAIN account : account[d].cutoff \in 0 .. SessionSeconds
    /\ tokens \in [TokenIds -> Token]
    /\ given \subseteq TokenIds
    /\ sessions \in [Signers -> Session]
    /\ stamps \in 0 .. StampsMade

\* "switching issues a new token and revokes the old one": whoever holds the new token cannot be
\* still using the old one.
OneHatAtATime == \A t \in Minted : tokens[t].parent # 0 => tokens[t].parent \in given

\* "each person returns to their own screen": a session's role is the one its login proved a
\* password for, or the panel's; an overseer's never returns.
HatsReturnHome ==
    \A t \in Minted : tokens[t].role \in {tokens[t].root, "vetting"}

\* Only a password the person chose opens a full session, however many hats were changed since.
FullMeansOwnPassword == \A t \in Minted : tokens[t].full => tokens[t].proof = "own"

\* Whoever logs in after a stamp is not thrown out by it ("same second").
NewLoginsLast ==
    \A t \in Minted : Outlived(tokens[t]) => tokens[t].iat < second

SessionsSound ==
    OneHatAtATime /\ HatsReturnHome /\ FullMeansOwnPassword /\ NewLoginsLast
=============================================================================
